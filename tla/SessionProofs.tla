--------------------------- MODULE SessionProofs ----------------------------
(* Sessions never mix, for any number of users, workspaces, tokens and       *)
(* requests, as long as none of the races that Session lists occurs.  The    *)
(* inductive invariant says of each asynchronous function what it may rely   *)
(* on when it goes on, and of each stored draft whose session will clear it. *)
EXTENDS Session, TLAPS

NoRaces == Races = {}

Types ==
    /\ owner \in [Tokens -> Owner] /\ revoked \subseteq Tokens
    /\ stored \in Token /\ token \in Token /\ refresh \in Token
    /\ user \in Owner /\ list \in Owner /\ draft \in Owner
    /\ isLoading \in BOOLEAN /\ bootstrapping \in BOOLEAN
    /\ cache \subseteq Users /\ requests \subseteq Request
    /\ call \in Call \cup {None}
    /\ slug \in Spaces /\ kept \in [Workspaces -> Owner]
    /\ ws \in Connection \cup {None}

\* Every token in use was issued.
AllIssued ==
    /\ stored # None => owner[stored] # None
    /\ refresh # None => owner[refresh] # None
    /\ \A r \in requests : r.token # None /\ owner[r.token] # None
    /\ call # None /\ call.pc # "verify" => call.token # None /\ owner[call.token] # None

\* What an asynchronous function finds when it goes on.
Restores == call # None /\ call.kind = "restore"
Calls ==
    /\ token = stored
    /\ isLoading => Restores
    /\ bootstrapping <=> call # None /\ call.kind = "link"
    /\ Restores => /\ isLoading /\ stored = call.token /\ call.pc # "verify"
                   /\ user = None /\ requests = {} /\ refresh = None
    /\ call # None /\ call.pc = "verify" =>
          call.kind = "code" /\ call.token = None /\ call.user \in Users /\ user = None
    /\ call # None /\ call.kind = "link" /\ call.pc = "me" =>
          user = None /\ (stored = call.token \/ call.token \in revoked)

\* A page is the user's, in a workspace of the cached list.
Place ==
    /\ slug # None => user # None /\ list = user /\ user \in Members[slug]
    /\ draft # None => user # None /\ draft = user

\* A stored draft belongs to the session, or to the one being restored, and
\* is in a workspace that its sign-out will find in the list.
Kept ==
    \A w \in Workspaces : kept[w] # None =>
        /\ kept[w] \in Members[w]
        /\ user # None => kept[w] = user /\ list = user
        /\ user = None => Restores /\ owner[call.token] = kept[w]

\* The connection is the one the effect would make now.
Hears == ws = Connected(user, slug, stored)

IInv == Types /\ AllIssued /\ Calls /\ SessionIsWhole /\ CacheIsPrivate /\ Place /\ Kept /\ Hears

LEMMA InvImplies ==
    ASSUME IInv
    PROVE  TypeOK /\ NoEndlessSplash /\ SessionIsWhole /\ CacheIsPrivate
           /\ DraftsArePrivate /\ HearsTheWorkspace
PROOF
<1> USE NoneIsNobody DEF IInv, Owner, Token, Spaces
<1>1. TypeOK
  BY DEF TypeOK, Types, AllIssued
<1>2. NoEndlessSplash
  BY DEF NoEndlessSplash, Calls, Restores
<1>3. SessionIsWhole /\ CacheIsPrivate
  OBVIOUS
<1>4. DraftsArePrivate
  BY DEF DraftsArePrivate, Place, Kept, Types
<1>5. HearsTheWorkspace
  <2>1. CASE user # None /\ slug # None
    <3>1. ws = [token |-> stored, slug |-> slug] /\ stored \in Tokens /\ slug \in Workspaces
      BY <2>1 DEF Hears, Connected, SessionIsWhole, Types
    <3>2. ws \in Connection
      BY <3>1 DEF Connection
    <3> QED
      BY <2>1, <3>1, <3>2, NoneIsNoRecord DEF HearsTheWorkspace, SessionIsWhole
  <2>2. CASE ~(user # None /\ slug # None)
    BY <2>2 DEF HearsTheWorkspace, Hears, Connected
  <2> QED
    BY <2>1, <2>2
<1> QED
  BY <1>1, <1>2, <1>3, <1>4, <1>5

LEMMA InitInv == Init => IInv
PROOF
<1> SUFFICES ASSUME Init PROVE IInv
  OBVIOUS
<1> USE NoneIsNobody DEF Owner, Token, Spaces
<1>1. PICK t \in Token, u \in Users :
        /\ owner = [x \in Tokens |-> IF x = t THEN u ELSE None]
        /\ stored = t /\ token = t /\ isLoading = (t # None)
        /\ call = IF t = None THEN None ELSE Restoring(t)
  BY DEF Init
<1>2. call \in Call \cup {None} /\ (t # None => call \in Call)
  BY <1>1 DEF Restoring, Call
<1>3. Types
  BY <1>1, <1>2 DEF Init, Types
<1>4. AllIssued /\ Calls
  <2>1. CASE t = None
    BY <1>1, <2>1 DEF Init, AllIssued, Calls, Restores
  <2>2. CASE t # None
    <3>1. call # None /\ call = Restoring(t) /\ t \in Tokens
      BY <1>1, <1>2, <2>2, NoneIsNoRecord
    <3>2. call.kind = "restore" /\ call.pc = "me" /\ call.token = t
      BY <3>1 DEF Restoring
    <3> QED
      BY <1>1, <2>2, <3>1, <3>2 DEF Init, AllIssued, Calls, Restores
  <2> QED
    BY <2>1, <2>2
<1>5. SessionIsWhole /\ CacheIsPrivate /\ Place /\ Kept /\ Hears
  BY <1>1 DEF Init, SessionIsWhole, CacheIsPrivate, Place, Kept, Hears, Connected
<1> QED
  BY <1>3, <1>4, <1>5 DEF IInv

-----------------------------------------------------------------------------
(* What the steps do to requests and calls, field by field.                  *)

LEMMA AskListAdds ==
    ASSUME NEW t \in Token, requests \subseteq Request, AskList(t)
    PROVE  /\ requests' \subseteq Request
           /\ \A r \in requests' : r \in requests \/ (r.token = t /\ list = None)
PROOF
<1> DEFINE asked == [token |-> t, of |-> "list", live |-> TRUE]
<1>1. asked \in Request /\ asked.token = t
  BY DEF Request
<1>2. requests' = requests \/ (requests' = requests \cup {asked} /\ list = None)
  BY DEF AskList
<1> HIDE DEF asked
<1> QED
  BY <1>1, <1>2

LEMMA RequestDies ==
    ASSUME NEW q \in Request
    PROVE  LET r == [q EXCEPT !.live = FALSE]
           IN  r \in Request /\ r.live = FALSE /\ r.token = q.token
PROOF
BY DEF Request

LEMMA CallWaits ==
    ASSUME NEW c \in Call
    PROVE  LET waits == [c EXCEPT !.pc = "list"]
           IN  /\ waits \in Call /\ waits.kind = c.kind /\ waits.pc = "list"
               /\ waits.token = c.token
PROOF
BY DEF Call

LEMMA CallGoesOn ==
    ASSUME NEW c \in Call, NEW t \in Token
    PROVE  LET goes == [c EXCEPT !.pc = "list", !.token = t]
           IN  goes \in Call /\ goes.kind = c.kind /\ goes.pc = "list" /\ goes.token = t
PROOF
BY DEF Call

LEMMA NewRestore ==
    ASSUME NEW t \in Token
    PROVE  LET c == Restoring(t)
           IN  c \in Call /\ c.kind = "restore" /\ c.pc = "me" /\ c.token = t
PROOF
BY DEF Call, Restoring, Owner

LEMMA NewLink ==
    ASSUME NEW t \in Token
    PROVE  LET c == [kind |-> "link", pc |-> "me", token |-> t, user |-> None]
           IN  c \in Call /\ c.kind = "link" /\ c.pc = "me" /\ c.token = t
PROOF
BY DEF Call, Owner

LEMMA NewCode ==
    ASSUME NEW u \in Users
    PROVE  LET c == [kind |-> "code", pc |-> "verify", token |-> None, user |-> u]
           IN  /\ c \in Call /\ c.kind = "code" /\ c.pc = "verify"
               /\ c.token = None /\ c.user = u
PROOF
BY DEF Call, Token, Owner

-----------------------------------------------------------------------------
(* One lemma per action.                                                     *)

USE NoneIsNobody, NoneIsNoRecord, MembersAreUsers
    DEF NoRaces, Owner, Token, Spaces, auth, data, place, Accepts, Settled, Connected

LEMMA RelaunchStep ==
    ASSUME NoRaces, IInv, Relaunch
    PROVE  IInv'
PROOF
<1> USE DEF IInv, Relaunch, Boot
<1>a. /\ stored = None => call' = None
      /\ stored # None => /\ call' \in Call /\ call' # None /\ call'.kind = "restore"
                         /\ call'.pc = "me" /\ call'.token = stored
  <2>1. stored \in Token
    BY DEF Types
  <2>2. CASE stored = None
    BY <2>2
  <2>3. CASE stored # None
    BY <2>1, <2>3, NewRestore, NoneIsNoRecord
  <2> QED
    BY <2>2, <2>3
<1>1. Types'
  BY <1>a DEF Types, Request, Call, Connection, Calls, SessionIsWhole
<1>2. AllIssued'
  BY <1>a DEF AllIssued, Types, Calls
<1>3. Calls'
  BY <1>a DEF Calls, Restores, Types, AllIssued
<1>4. SessionIsWhole' /\ CacheIsPrivate'
  BY <1>a DEF SessionIsWhole, CacheIsPrivate, Types, AllIssued, Calls, Restores
<1>5. Place' /\ Kept'
  BY <1>a DEF Place, Kept, Types, Calls, Restores, AllIssued, CacheIsPrivate,
     SessionIsWhole
<1>6. Hears'
  BY <1>a DEF Hears, Calls, SessionIsWhole, Restores, Types, Place
<1> QED
  BY <1>1, <1>2, <1>3, <1>4, <1>5, <1>6

LEMMA RestoreMeStep ==
    ASSUME NoRaces, IInv, RestoreMe
    PROVE  IInv'
PROOF
<1> USE DEF IInv, RestoreMe
<1>a. /\ call' \in Call /\ call' # None /\ call'.kind = call.kind /\ call'.pc = "list"
      /\ call'.token = call.token
  <2>1. call \in Call /\ None \in Token
    BY DEF Types
  <2> QED
    BY <2>1, CallWaits, NoneIsNoRecord
<1>1. Types'
  BY <1>a DEF Types, Request, Call, Connection, Calls, SessionIsWhole
<1>2. AllIssued'
  BY <1>a DEF AllIssued, Types, Calls
<1>3. Calls'
  BY <1>a DEF Calls, Restores, Types, AllIssued
<1>4. SessionIsWhole' /\ CacheIsPrivate'
  BY <1>a DEF SessionIsWhole, CacheIsPrivate, Types, AllIssued, Calls, Restores
<1>5. Place' /\ Kept'
  BY <1>a DEF Place, Kept, Types, Calls, Restores, AllIssued, CacheIsPrivate,
     SessionIsWhole
<1>6. Hears'
  BY <1>a DEF Hears, Calls, SessionIsWhole, Restores, Types, Place
<1> QED
  BY <1>1, <1>2, <1>3, <1>4, <1>5, <1>6

LEMMA RestoredStep ==
    ASSUME NoRaces, IInv, Restored
    PROVE  IInv'
PROOF
<1> USE DEF IInv, Restored, SetUser
<1>1. Types'
  BY DEF Types, Request, Call, Connection, Calls, SessionIsWhole
<1>2. AllIssued'
  BY DEF AllIssued, Types, Calls
<1>3. Calls'
  BY DEF Calls, Restores, Types, AllIssued
<1>4. SessionIsWhole' /\ CacheIsPrivate'
  BY DEF SessionIsWhole, CacheIsPrivate, Types, AllIssued, Calls, Restores
<1>5. Place' /\ Kept'
  BY DEF Place, Kept, Types, Calls, Restores, AllIssued, CacheIsPrivate,
     SessionIsWhole
<1>6. Hears'
  BY DEF Hears, Calls, SessionIsWhole, Restores, Types, Place
<1> QED
  BY <1>1, <1>2, <1>3, <1>4, <1>5, <1>6

LEMMA RestoreFailsStep ==
    ASSUME NoRaces, IInv, NEW rejected \in BOOLEAN, RestoreFails(rejected)
    PROVE  IInv'
PROOF
<1> USE DEF IInv, RestoreFails, Rehydrated
<1>1. Types'
  BY DEF Types, Request, Call, Connection, Calls, SessionIsWhole
<1>2. AllIssued'
  BY DEF AllIssued, Types, Calls
<1>3. Calls'
  BY DEF Calls, Restores, Types, AllIssued
<1>4. SessionIsWhole' /\ CacheIsPrivate'
  BY DEF SessionIsWhole, CacheIsPrivate, Types, AllIssued, Calls, Restores
<1>5. Place' /\ Kept'
  BY DEF Place, Kept, Types, Calls, Restores, AllIssued, CacheIsPrivate,
     SessionIsWhole
<1>6. Hears'
  BY DEF Hears, Calls, SessionIsWhole, Restores, Types, Place
<1> QED
  BY <1>1, <1>2, <1>3, <1>4, <1>5, <1>6

LEMMA SignInFailsStep ==
    ASSUME NoRaces, IInv, NEW rejected \in BOOLEAN, SignInFails(rejected)
    PROVE  IInv'
PROOF
<1> USE DEF IInv, SignInFails, Forgets, Harmless
<1>1. Types'
  BY DEF Types, Request, Call, Connection, Calls, SessionIsWhole
<1>2. AllIssued'
  BY DEF AllIssued, Types, Calls
<1>3. Calls'
  BY DEF Calls, Restores, Types, AllIssued
<1>4. SessionIsWhole' /\ CacheIsPrivate'
  BY DEF SessionIsWhole, CacheIsPrivate, Types, AllIssued, Calls, Restores
<1>5. Place' /\ Kept'
  BY DEF Place, Kept, Types, Calls, Restores, AllIssued, CacheIsPrivate,
     SessionIsWhole
<1>6. Hears'
  BY DEF Hears, Calls, SessionIsWhole, Restores, Types, Place
<1> QED
  BY <1>1, <1>2, <1>3, <1>4, <1>5, <1>6

LEMMA RefreshFailsStep ==
    ASSUME NoRaces, IInv, NEW rejected \in BOOLEAN, RefreshFails(rejected)
    PROVE  IInv'
PROOF
<1> USE DEF IInv, RefreshFails, Forgets, Harmless
<1>1. Types'
  BY DEF Types, Request, Call, Connection, Calls, SessionIsWhole
<1>2. AllIssued'
  BY DEF AllIssued, Types, Calls
<1>3. Calls'
  BY DEF Calls, Restores, Types, AllIssued
<1>4. SessionIsWhole' /\ CacheIsPrivate'
  BY DEF SessionIsWhole, CacheIsPrivate, Types, AllIssued, Calls, Restores
<1>5. Place' /\ Kept'
  BY DEF Place, Kept, Types, Calls, Restores, AllIssued, CacheIsPrivate,
     SessionIsWhole
<1>6. Hears'
  BY DEF Hears, Calls, SessionIsWhole, Restores, Types, Place
<1> QED
  BY <1>1, <1>2, <1>3, <1>4, <1>5, <1>6

LEMMA SubmitFormStep ==
    ASSUME NoRaces, IInv, NEW u \in Users, SubmitForm(u)
    PROVE  IInv'
PROOF
<1> USE DEF IInv, SubmitForm
<1>a. /\ call' \in Call /\ call' # None /\ call'.kind = "code" /\ call'.pc = "verify"
      /\ call'.token = None /\ call'.user = u
  BY NewCode, NoneIsNoRecord
<1>1. Types'
  BY <1>a DEF Types, Request, Call, Connection, Calls, SessionIsWhole
<1>2. AllIssued'
  BY <1>a DEF AllIssued, Types, Calls
<1>3. Calls'
  BY <1>a DEF Calls, Restores, Types, AllIssued
<1>4. SessionIsWhole' /\ CacheIsPrivate'
  BY <1>a DEF SessionIsWhole, CacheIsPrivate, Types, AllIssued, Calls, Restores
<1>5. Place' /\ Kept'
  BY <1>a DEF Place, Kept, Types, Calls, Restores, AllIssued, CacheIsPrivate,
     SessionIsWhole
<1>6. Hears'
  BY <1>a DEF Hears, Calls, SessionIsWhole, Restores, Types, Place
<1> QED
  BY <1>1, <1>2, <1>3, <1>4, <1>5, <1>6

LEMMA VerifiedStep ==
    ASSUME NoRaces, IInv, NEW t \in Tokens, Verified(t)
    PROVE  IInv'
PROOF
<1> USE DEF IInv, Verified, SetUser, Issue, Issued
<1>a. /\ call' \in Call /\ call' # None /\ call'.kind = call.kind /\ call'.pc = "list"
      /\ call'.token = t
  <2>1. call \in Call /\ t \in Token
    BY DEF Types
  <2> DEFINE goes == [call EXCEPT !.pc = "list", !.token = t]
  <2>2. goes \in Call /\ goes.kind = call.kind /\ goes.pc = "list" /\ goes.token = t
    BY <2>1, CallGoesOn
  <2>3. call' = goes
    OBVIOUS
  <2> HIDE DEF goes
  <2> QED
    BY <2>2, <2>3, NoneIsNoRecord
<1>b. /\ requests' \subseteq Request
      /\ \A r \in requests' : r \in requests \/ (r.token = t /\ list = None)
  <2>1. AskList(t) /\ requests \subseteq Request /\ t \in Token
    BY DEF Types
  <2> QED
    BY <2>1, AskListAdds
<1>1. Types'
  BY <1>a, <1>b DEF Types, Request, Call, Connection, Calls, SessionIsWhole
<1>2. AllIssued'
  BY <1>a, <1>b DEF AllIssued, Types, Calls
<1>3. Calls'
  BY <1>a, <1>b DEF Calls, Restores, Types, AllIssued
<1>4. SessionIsWhole' /\ CacheIsPrivate'
  BY <1>a, <1>b DEF SessionIsWhole, CacheIsPrivate, Types, AllIssued, Calls, Restores
<1>5. Place' /\ Kept'
  BY <1>a, <1>b DEF Place, Kept, Types, Calls, Restores, AllIssued, CacheIsPrivate,
     SessionIsWhole
<1>6. Hears'
  BY <1>a, <1>b DEF Hears, Calls, SessionIsWhole, Restores, Types, Place
<1> QED
  BY <1>1, <1>2, <1>3, <1>4, <1>5, <1>6

LEMMA RevokeStep ==
    ASSUME NoRaces, IInv, NEW t \in Tokens, Revoke(t)
    PROVE  IInv'
PROOF
<1> USE DEF IInv, Revoke
<1>1. Types'
  BY DEF Types, Request, Call, Connection, Calls, SessionIsWhole
<1>2. AllIssued'
  BY DEF AllIssued, Types, Calls
<1>3. Calls'
  BY DEF Calls, Restores, Types, AllIssued
<1>4. SessionIsWhole' /\ CacheIsPrivate'
  BY DEF SessionIsWhole, CacheIsPrivate, Types, AllIssued, Calls, Restores
<1>5. Place' /\ Kept'
  BY DEF Place, Kept, Types, Calls, Restores, AllIssued, CacheIsPrivate,
     SessionIsWhole
<1>6. Hears'
  BY DEF Hears, Calls, SessionIsWhole, Restores, Types, Place
<1> QED
  BY <1>1, <1>2, <1>3, <1>4, <1>5, <1>6

LEMMA FollowLinkStep ==
    ASSUME NoRaces, IInv, NEW t \in Tokens, NEW u \in Users, FollowLink(t, u)
    PROVE  IInv'
PROOF
<1> USE DEF IInv, FollowLink, Issue, Issued
<1>a. /\ call' \in Call /\ call' # None /\ call'.kind = "link" /\ call'.pc = "me"
      /\ call'.token = t
  <2>1. t \in Token
    BY DEF Token
  <2> QED
    BY <2>1, NewLink, NoneIsNoRecord
<1>1. Types'
  BY <1>a DEF Types, Request, Call, Connection, Calls, SessionIsWhole
<1>2. AllIssued'
  BY <1>a DEF AllIssued, Types, Calls
<1>3. Calls'
  BY <1>a DEF Calls, Restores, Types, AllIssued
<1>4. SessionIsWhole' /\ CacheIsPrivate'
  BY <1>a DEF SessionIsWhole, CacheIsPrivate, Types, AllIssued, Calls, Restores
<1>5. Place' /\ Kept'
  BY <1>a DEF Place, Kept, Types, Calls, Restores, AllIssued, CacheIsPrivate,
     SessionIsWhole
<1>6. Hears'
  BY <1>a DEF Hears, Calls, SessionIsWhole, Restores, Types, Place
<1> QED
  BY <1>1, <1>2, <1>3, <1>4, <1>5, <1>6

LEMMA CodeRefusedStep ==
    ASSUME NoRaces, IInv, CodeRefused
    PROVE  IInv'
PROOF
<1> USE DEF IInv, CodeRefused
<1>1. Types'
  BY DEF Types, Request, Call, Connection, Calls, SessionIsWhole
<1>2. AllIssued'
  BY DEF AllIssued, Types, Calls
<1>3. Calls'
  BY DEF Calls, Restores, Types, AllIssued
<1>4. SessionIsWhole' /\ CacheIsPrivate'
  BY DEF SessionIsWhole, CacheIsPrivate, Types, AllIssued, Calls, Restores
<1>5. Place' /\ Kept'
  BY DEF Place, Kept, Types, Calls, Restores, AllIssued, CacheIsPrivate,
     SessionIsWhole
<1>6. Hears'
  BY DEF Hears, Calls, SessionIsWhole, Restores, Types, Place
<1> QED
  BY <1>1, <1>2, <1>3, <1>4, <1>5, <1>6

LEMMA LinkMeStep ==
    ASSUME NoRaces, IInv, LinkMe
    PROVE  IInv'
PROOF
<1> USE DEF IInv, LinkMe, SetUser
<1>a. /\ call' \in Call /\ call' # None /\ call'.kind = call.kind /\ call'.pc = "list"
      /\ call'.token = call.token
  <2>1. call \in Call /\ None \in Token
    BY DEF Types
  <2> QED
    BY <2>1, CallWaits, NoneIsNoRecord
<1>b. /\ requests' \subseteq Request
      /\ \A r \in requests' : r \in requests \/ (r.token = token /\ list = None)
  BY AskListAdds DEF Types
<1>1. Types'
  BY <1>a, <1>b DEF Types, Request, Call, Connection, Calls, SessionIsWhole
<1>2. AllIssued'
  BY <1>a, <1>b DEF AllIssued, Types, Calls
<1>3. Calls'
  BY <1>a, <1>b DEF Calls, Restores, Types, AllIssued
<1>4. SessionIsWhole' /\ CacheIsPrivate'
  BY <1>a, <1>b DEF SessionIsWhole, CacheIsPrivate, Types, AllIssued, Calls, Restores
<1>5. Place' /\ Kept'
  BY <1>a, <1>b DEF Place, Kept, Types, Calls, Restores, AllIssued, CacheIsPrivate,
     SessionIsWhole
<1>6. Hears'
  BY <1>a, <1>b DEF Hears, Calls, SessionIsWhole, Restores, Types, Place
<1> QED
  BY <1>1, <1>2, <1>3, <1>4, <1>5, <1>6

LEMMA ListedStep ==
    ASSUME NoRaces, IInv, Listed
    PROVE  IInv'
PROOF
<1> USE DEF IInv, Listed
<1>1. Types'
  BY DEF Types, Request, Call, Connection, Calls, SessionIsWhole
<1>2. AllIssued'
  BY DEF AllIssued, Types, Calls
<1>3. Calls'
  BY DEF Calls, Restores, Types, AllIssued
<1>4. SessionIsWhole' /\ CacheIsPrivate'
  BY DEF SessionIsWhole, CacheIsPrivate, Types, AllIssued, Calls, Restores
<1>5. Place' /\ Kept'
  BY DEF Place, Kept, Types, Calls, Restores, AllIssued, CacheIsPrivate,
     SessionIsWhole
<1>6. Hears'
  BY DEF Hears, Calls, SessionIsWhole, Restores, Types, Place
<1> QED
  BY <1>1, <1>2, <1>3, <1>4, <1>5, <1>6

LEMMA EnterStep ==
    ASSUME NoRaces, IInv, NEW w \in Workspaces, Enter(w)
    PROVE  IInv'
PROOF
<1> USE DEF IInv, Enter, Rehydrated, WorkspacesOf
<1>1. Types'
  BY DEF Types, Request, Call, Connection, Calls, SessionIsWhole
<1>2. AllIssued'
  BY DEF AllIssued, Types, Calls
<1>3. Calls'
  BY DEF Calls, Restores, Types, AllIssued
<1>4. SessionIsWhole' /\ CacheIsPrivate'
  BY DEF SessionIsWhole, CacheIsPrivate, Types, AllIssued, Calls, Restores
<1>5. Place' /\ Kept'
  BY DEF Place, Kept, Types, Calls, Restores, AllIssued, CacheIsPrivate,
     SessionIsWhole
<1>6. Hears'
  BY DEF Hears, Calls, SessionIsWhole, Restores, Types, Place
<1> QED
  BY <1>1, <1>2, <1>3, <1>4, <1>5, <1>6

LEMMA WriteStep ==
    ASSUME NoRaces, IInv, Write
    PROVE  IInv'
PROOF
<1> USE DEF IInv, Write
<1>1. Types'
  BY DEF Types, Request, Call, Connection, Calls, SessionIsWhole
<1>2. AllIssued'
  BY DEF AllIssued, Types, Calls
<1>3. Calls'
  BY DEF Calls, Restores, Types, AllIssued
<1>4. SessionIsWhole' /\ CacheIsPrivate'
  BY DEF SessionIsWhole, CacheIsPrivate, Types, AllIssued, Calls, Restores
<1>5. Place' /\ Kept'
  BY DEF Place, Kept, Types, Calls, Restores, AllIssued, CacheIsPrivate,
     SessionIsWhole
<1>6. Hears'
  BY DEF Hears, Calls, SessionIsWhole, Restores, Types, Place
<1> QED
  BY <1>1, <1>2, <1>3, <1>4, <1>5, <1>6

LEMMA AskStep ==
    ASSUME NoRaces, IInv, Ask
    PROVE  IInv'
PROOF
<1> USE DEF IInv, Ask
<1>a. /\ requests' \subseteq Request
      /\ \A r \in requests' : r \in requests \/ r.token = token
  <2> DEFINE asked == [token |-> token, of |-> "page", live |-> TRUE]
  <2>1. asked \in Request /\ asked.token = token
    BY DEF Types, Request
  <2>2. requests' = requests \cup {asked} /\ requests \subseteq Request
    BY DEF Types
  <2> HIDE DEF asked
  <2> QED
    BY <2>1, <2>2
<1>1. Types'
  BY <1>a DEF Types, Request, Call, Connection, Calls, SessionIsWhole
<1>2. AllIssued'
  BY <1>a DEF AllIssued, Types, Calls, SessionIsWhole
<1>3. Calls'
  BY <1>a DEF Calls, Restores, Types, AllIssued
<1>4. SessionIsWhole' /\ CacheIsPrivate'
  BY <1>a DEF SessionIsWhole, CacheIsPrivate, Types, AllIssued, Calls, Restores
<1>5. Place' /\ Kept'
  BY <1>a DEF Place, Kept, Types, Calls, Restores, AllIssued, CacheIsPrivate,
     SessionIsWhole
<1>6. Hears'
  BY <1>a DEF Hears, Calls, SessionIsWhole, Restores, Types, Place
<1> QED
  BY <1>1, <1>2, <1>3, <1>4, <1>5, <1>6

LEMMA AnswerStep ==
    ASSUME NoRaces, IInv, NEW r \in requests, Answer(r)
    PROVE  IInv'
PROOF
<1> USE DEF IInv, Answer
<1>a. r \in Request /\ r.token \in Tokens /\ owner[r.token] \in Users
  BY DEF Types, AllIssued, Request
<1>1. Types'
  BY <1>a DEF Types, Request, Call, Connection, Calls, SessionIsWhole
<1>2. AllIssued'
  BY <1>a DEF AllIssued, Types, Calls
<1>3. Calls'
  BY <1>a DEF Calls, Restores, Types, AllIssued
<1>4. SessionIsWhole' /\ CacheIsPrivate'
  BY <1>a DEF SessionIsWhole, CacheIsPrivate, Types, AllIssued, Calls, Restores
<1>5. Place' /\ Kept'
  BY <1>a DEF Place, Kept, Types, Calls, Restores, AllIssued, CacheIsPrivate,
     SessionIsWhole
<1>6. Hears'
  BY <1>a DEF Hears, Calls, SessionIsWhole, Restores, Types, Place
<1> QED
  BY <1>1, <1>2, <1>3, <1>4, <1>5, <1>6

LEMMA FailStep ==
    ASSUME NoRaces, IInv, NEW r \in requests, NEW rejected \in BOOLEAN, Fail(r, rejected)
    PROVE  IInv'
PROOF
<1> USE DEF IInv, Fail, Forgets, Harmless
<1>1. Types'
  BY DEF Types, Request, Call, Connection, Calls, SessionIsWhole
<1>2. AllIssued'
  BY DEF AllIssued, Types, Calls
<1>3. Calls'
  BY DEF Calls, Restores, Types, AllIssued
<1>4. SessionIsWhole' /\ CacheIsPrivate'
  BY DEF SessionIsWhole, CacheIsPrivate, Types, AllIssued, Calls, Restores
<1>5. Place' /\ Kept'
  BY DEF Place, Kept, Types, Calls, Restores, AllIssued, CacheIsPrivate,
     SessionIsWhole
<1>6. Hears'
  BY DEF Hears, Calls, SessionIsWhole, Restores, Types, Place
<1> QED
  BY <1>1, <1>2, <1>3, <1>4, <1>5, <1>6

LEMMA RefreshStep ==
    ASSUME NoRaces, IInv, Refresh
    PROVE  IInv'
PROOF
<1> USE DEF IInv, Refresh
<1>1. Types'
  BY DEF Types, Request, Call, Connection, Calls, SessionIsWhole
<1>2. AllIssued'
  BY DEF AllIssued, Types, Calls
<1>3. Calls'
  BY DEF Calls, Restores, Types, AllIssued
<1>4. SessionIsWhole' /\ CacheIsPrivate'
  BY DEF SessionIsWhole, CacheIsPrivate, Types, AllIssued, Calls, Restores
<1>5. Place' /\ Kept'
  BY DEF Place, Kept, Types, Calls, Restores, AllIssued, CacheIsPrivate,
     SessionIsWhole
<1>6. Hears'
  BY DEF Hears, Calls, SessionIsWhole, Restores, Types, Place
<1> QED
  BY <1>1, <1>2, <1>3, <1>4, <1>5, <1>6

LEMMA RefreshedStep ==
    ASSUME NoRaces, IInv, Refreshed
    PROVE  IInv'
PROOF
<1> USE DEF IInv, Refreshed, SetUser
<1>1. Types'
  BY DEF Types, Request, Call, Connection, Calls, SessionIsWhole
<1>2. AllIssued'
  BY DEF AllIssued, Types, Calls
<1>3. Calls'
  BY DEF Calls, Restores, Types, AllIssued
<1>4. SessionIsWhole' /\ CacheIsPrivate'
  BY DEF SessionIsWhole, CacheIsPrivate, Types, AllIssued, Calls, Restores
<1>5. Place' /\ Kept'
  BY DEF Place, Kept, Types, Calls, Restores, AllIssued, CacheIsPrivate,
     SessionIsWhole
<1>6. Hears'
  BY DEF Hears, Calls, SessionIsWhole, Restores, Types, Place
<1> QED
  BY <1>1, <1>2, <1>3, <1>4, <1>5, <1>6

LEMMA SignOutStep ==
    ASSUME NoRaces, IInv, SignOut
    PROVE  IInv'
PROOF
<1> USE DEF IInv, SignOut, Rehydrated, WorkspacesOf
<1>a. /\ requests' \subseteq Request
      /\ \A r \in requests' : r.live = FALSE /\ \E q \in requests : r.token = q.token
  <2>1. \A q \in requests : LET r == [q EXCEPT !.live = FALSE]
                           IN  r \in Request /\ r.live = FALSE /\ r.token = q.token
    BY RequestDies DEF Types
  <2> QED
    BY <2>1
<1>1. Types'
  BY <1>a DEF Types, Request, Call, Connection, Calls, SessionIsWhole
<1>2. AllIssued'
  BY <1>a DEF AllIssued, Types, Calls
<1>3. Calls'
  BY <1>a DEF Calls, Restores, Types, AllIssued
<1>4. SessionIsWhole' /\ CacheIsPrivate'
  BY <1>a DEF SessionIsWhole, CacheIsPrivate, Types, AllIssued, Calls, Restores
<1>5. Place' /\ Kept'
  BY <1>a DEF Place, Kept, Types, Calls, Restores, AllIssued, CacheIsPrivate,
     SessionIsWhole
<1>6. Hears'
  BY <1>a DEF Hears, Calls, SessionIsWhole, Restores, Types, Place
<1> QED
  BY <1>1, <1>2, <1>3, <1>4, <1>5, <1>6

-----------------------------------------------------------------------------

LEMMA NextInv ==
    ASSUME NoRaces, IInv, [Next]_vars
    PROVE  IInv'
PROOF
<1>1. CASE UNCHANGED vars
  BY <1>1 DEF vars, auth, data, place, IInv, Types, AllIssued, Calls, Restores, SessionIsWhole,
     CacheIsPrivate, Place, Kept, Hears, Connected
<1>2. CASE Relaunch \/ RestoreMe \/ Restored \/ CodeRefused \/ LinkMe \/ Listed
  BY <1>2, RelaunchStep, RestoreMeStep, RestoredStep, CodeRefusedStep, LinkMeStep, ListedStep
<1>3. CASE \E rejected \in BOOLEAN :
               RestoreFails(rejected) \/ SignInFails(rejected) \/ RefreshFails(rejected)
  BY <1>3, RestoreFailsStep, SignInFailsStep, RefreshFailsStep
<1>4. CASE \E u \in Users : SubmitForm(u)
  BY <1>4, SubmitFormStep
<1>5. CASE \E t \in Tokens : Verified(t) \/ Revoke(t) \/ \E u \in Users : FollowLink(t, u)
  BY <1>5, VerifiedStep, RevokeStep, FollowLinkStep
<1>6. CASE \E w \in Workspaces : Enter(w)
  BY <1>6, EnterStep
<1>7. CASE \E r \in requests : Answer(r) \/ \E rejected \in BOOLEAN : Fail(r, rejected)
  BY <1>7, AnswerStep, FailStep
<1>8. CASE Write \/ Ask \/ Refresh \/ Refreshed \/ SignOut
  BY <1>8, WriteStep, AskStep, RefreshStep, RefreshedStep, SignOutStep
<1> QED
  BY <1>1, <1>2, <1>3, <1>4, <1>5, <1>6, <1>7, <1>8 DEF Next

LEMMA SessionInv == ASSUME NoRaces PROVE Spec => []IInv
PROOF
<1>1. IInv /\ [Next]_vars => IInv'
  BY NextInv
<1> QED
  BY InitInv, <1>1, PTL DEF Spec

\* The stores, the storage and the connection only ever hold tokens, users and
\* workspaces, and every request carries a token.
THEOREM TypeCorrect == ASSUME NoRaces PROVE Spec => []TypeOK
PROOF
BY SessionInv, InvImplies, PTL

\* Neither the launch (isLoading of the auth store) nor a deep link
\* (bootstrapping of App.tsx) leaves the splash screen behind when the function
\* that set the flag is over, whichever of its requests failed.
THEOREM SplashGoesAway == ASSUME NoRaces PROVE Spec => []NoEndlessSplash
PROOF
BY SessionInv, InvImplies, PTL

\* The signed-in user is the one the server knows the stored token of, and the
\* API client sends that token: through sign-in, restore, failed requests and
\* sign-out, no function leaves a user with another one's token, or with none.
THEOREM SessionStaysWhole == ASSUME NoRaces PROVE Spec => []SessionIsWhole
PROOF
BY SessionInv, InvImplies, PTL

\* useLogout and the order in which it clears things suffice: what one session
\* fetched, or is still fetching when it ends, never is in the cache of the next.
THEOREM CacheStaysPrivate == ASSUME NoRaces PROVE Spec => []CacheIsPrivate
PROOF
BY SessionInv, InvImplies, PTL

\* The same of drafts, which outlive the application: useLogout clears those of
\* the workspaces in the cached list, and the list is there when it has to be.
THEOREM DraftsStayPrivate == ASSUME NoRaces PROVE Spec => []DraftsArePrivate
PROOF
BY SessionInv, InvImplies, PTL

\* The effect of WSProvider follows the session and the workspace: whoever is
\* signed in and in a workspace is connected to it with a token of that user.
THEOREM WorkspaceIsHeard == ASSUME NoRaces PROVE Spec => []HearsTheWorkspace
PROOF
BY SessionInv, InvImplies, PTL
=============================================================================
