------------------------------ MODULE Session -------------------------------
(* The session of the desktop client: who is signed in (core/auth/store.ts), *)
(* how a session is restored at launch (core/platform/auth-initializer.tsx), *)
(* begun by the form or a deep link (views/auth/login-page.tsx, App.tsx) and *)
(* ended (views/auth/use-logout.ts), and what has to follow it: the token of *)
(* the API client, the query cache, the current workspace with the drafts    *)
(* stored under it, and the WebSocket.                                       *)
(*                                                                           *)
(* Simplifications: a token is accepted until it is revoked; a workspace is  *)
(* never renamed or left; what pages have fetched is named by the user whose *)
(* token fetched it; a page issues one kind of request next to the list of   *)
(* workspaces; one store keeps drafts.                                       *)
EXTENDS Naturals, FiniteSets

CONSTANTS
    Users, Workspaces, Tokens, None,
    Members,        \* [Workspaces -> SUBSET Users]
    MaxRequests,    \* requests of pages in flight (a bound)
    Races           \* what the client is known not to withstand, see below

(* The client is known to mix sessions up when                               *)
(*   "switch"    a deep link signs a user in while a session is there or     *)
(*               being restored: nothing of the old one is cleared;          *)
(*   "late"      an answer comes after its session has ended;                *)
(*   "revoked"   the server rejects the token of a session that is in use:   *)
(*               the token is forgotten, the user stays;                     *)
(*   "forgotten" a session cannot be restored: its drafts stay;              *)
(*   "kept"      drafts are those of a store built on zustand's persist,     *)
(*               which goes on showing what it had when nothing is stored;   *)
(*   "password"  a password is used, which yields no token.                  *)
RaceKinds == {"switch", "late", "revoked", "forgotten", "kept", "password"}

ASSUME RacesAreKnown == Races \subseteq RaceKinds
ASSUME MembersAreUsers == Members \in [Workspaces -> SUBSET Users]
ASSUME NoneIsNobody == None \notin Users \cup Workspaces \cup Tokens

Owner == Users \cup {None}
Token == Tokens \cup {None}
Spaces == Workspaces \cup {None}

Request == [token : Token, of : {"list", "page"}, live : BOOLEAN]
Call == [kind : {"restore", "code", "link"}, pc : {"me", "verify", "list"},
         token : Token, user : Owner]
Connection == [token : Tokens, slug : Workspaces]

ASSUME NoneIsNoRecord == None \notin Call \cup Connection

VARIABLES
    owner,      \* whom the server issued a token to, or None
    revoked,    \* tokens the server rejects
    stored,     \* the token in the browser's storage
    token,      \* the token of the API client
    user, isLoading,    \* the auth store
    bootstrapping,      \* a deep link is being followed
    list,       \* whose workspaces are cached, or None
    cache,      \* whose data pages have cached
    requests,   \* of pages: [token, of, live], live until the cache is cleared
    call,       \* the asynchronous function that signs in or restores, or None
    refresh,    \* the token with which the profile is asked for, or None
    slug,       \* the current workspace
    draft,      \* who wrote the draft that is shown
    kept,       \* and those stored under each workspace
    ws          \* the connection: [token, slug], or None

auth == <<stored, token, user, isLoading, bootstrapping>>
data == <<list, cache, requests>>
place == <<slug, draft, kept>>
vars == <<owner, revoked, auth, data, call, refresh, place, ws>>

WorkspacesOf(u) == {w \in Workspaces : u \in Members[w]}

\* The server's answer to a request that carries t.
Accepts(t) == t # None /\ t \notin revoked
Issued == {t \in Tokens : owner[t] # None}
Issue(t, u) == t \in Tokens \ Issued /\ owner' = [owner EXCEPT ![t] = u]

-----------------------------------------------------------------------------
(* What follows the session.                                                 *)

\* Mutant: the effect does not depend on the user.
ConnectedOnce(u, s, t) == IF ws # None THEN ws
                          ELSE IF u # None /\ s # None /\ t # None
                          THEN [token |-> t, slug |-> s] ELSE None

\* The connection the effect of WSProvider makes when the user object or the
\* current workspace has changed.
Connected(u, s, t) ==
    IF u # None /\ s # None /\ t # None THEN [token |-> t, slug |-> s] ELSE None

\* What a store shows when the current workspace has changed to s.
Rehydrated(s) ==
    LET found == IF s = None THEN None ELSE kept[s]
    IN  IF "kept" \in Races /\ found = None THEN draft ELSE found

\* The auth store has a new user; the query for the list of workspaces is
\* enabled, and asks when there is no list.
SetUser(u, t) ==
    /\ user' = u
    /\ ws' = Connected(u, slug, t)

AskList(t) ==
    requests' = requests \cup
        (IF list = None /\ ~\E r \in requests : r.live /\ r.of = "list"
         THEN {[token |-> t, of |-> "list", live |-> TRUE]} ELSE {})

Settled == ~isLoading /\ ~bootstrapping

\* Nobody loses a session when the rejection of t makes the client forget.
Harmless(t) == "revoked" \in Races \/ stored = None \/ (user = None /\ stored = t)

\* A request that carried t failed.  When the server rejected t, the client
\* forgets the token it has now.
Forgets(t, rejected) ==
    /\ rejected => ~Accepts(t) /\ Harmless(t)
    /\ stored' = IF rejected THEN None ELSE stored
    /\ token' = IF rejected THEN None ELSE token

-----------------------------------------------------------------------------
(* Launch: AuthInitializer asks for the user and the list.                   *)

Restoring(t) == [kind |-> "restore", pc |-> "me", token |-> t, user |-> None]

\* The application starts with what its storage holds.
Boot(t) ==
    /\ token' = t /\ user' = None /\ bootstrapping' = FALSE
    /\ isLoading' = (t # None)
    /\ list' = None /\ cache' = {} /\ requests' = {}
    /\ call' = IF t = None THEN None ELSE Restoring(t)
    /\ refresh' = None /\ slug' = None /\ draft' = None /\ ws' = None

Relaunch ==
    /\ Boot(stored)
    /\ UNCHANGED <<owner, revoked, stored, kept>>

\* The user is known; the list is still awaited.
RestoreMe ==
    /\ call # None /\ call.kind = "restore" /\ call.pc = "me"
    /\ Accepts(call.token)
    /\ call' = [call EXCEPT !.pc = "list"]
    /\ UNCHANGED <<owner, revoked, auth, data, refresh, place, ws>>

\* Both are known, and the session is restored.
Restored ==
    /\ call # None /\ call.kind = "restore" /\ call.pc = "list"
    /\ Accepts(call.token)
    /\ "switch" \in Races \/ stored = call.token
    /\ SetUser(owner[call.token], stored)
    /\ isLoading' = FALSE
    /\ list' = owner[call.token]
    /\ call' = None
    /\ UNCHANGED <<owner, revoked, stored, token, bootstrapping, cache, requests, refresh, place>>

\* One of the two requests failed, for whatever reason: the session is over.
RestoreFails(rejected) ==
    /\ call # None /\ call.kind = "restore"
    /\ rejected => ~Accepts(call.token)
    /\ "forgotten" \in Races \/ \A w \in Workspaces : kept[w] = None
    /\ "switch" \in Races \/ stored = call.token
    /\ stored' = None /\ token' = None /\ user' = None /\ isLoading' = FALSE
    /\ slug' = None /\ draft' = Rehydrated(None) /\ ws' = None
    /\ call' = None
    /\ UNCHANGED <<owner, revoked, bootstrapping, data, refresh, kept>>

-----------------------------------------------------------------------------
(* Signing in.                                                               *)

\* The form is submitted: a code is verified; a password signs in by a cookie,
\* without a token.
SubmitForm(u) ==
    /\ Settled /\ user = None /\ call = None
    /\ \/ /\ call' = [kind |-> "code", pc |-> "verify", token |-> None, user |-> u]
          /\ UNCHANGED <<user, list, ws>>
       \/ /\ "password" \in Races
          /\ SetUser(u, stored) /\ list' = u
          /\ UNCHANGED call
    /\ UNCHANGED <<owner, revoked, stored, token, isLoading, bootstrapping, cache, requests,
                   refresh, place>>

\* The token is stored, then the user set; the form asks for the list.
Verified(t) ==
    /\ call # None /\ call.pc = "verify" /\ Issue(t, call.user)
    /\ stored' = t /\ token' = t
    /\ SetUser(call.user, t) /\ AskList(token')
    /\ call' = [call EXCEPT !.pc = "list", !.token = t]
    /\ UNCHANGED <<revoked, isLoading, bootstrapping, list, cache, refresh, place>>

\* A wrong code, or no answer.
CodeRefused ==
    /\ call # None /\ call.pc = "verify"
    /\ call' = None
    /\ UNCHANGED <<owner, revoked, auth, data, refresh, place, ws>>

\* Mutant: loginWithToken does not store the token.
FollowLinkUnstored(t, u) ==
    /\ ~bootstrapping /\ Issue(t, u)
    /\ "switch" \in Races \/ (user = None /\ call = None)
    /\ bootstrapping' = TRUE
    /\ token' = t
    /\ call' = [kind |-> "link", pc |-> "me", token |-> t, user |-> None]
    /\ UNCHANGED <<revoked, stored, user, isLoading, data, refresh, place, ws>>

\* The browser signed u in and opens the application: loginWithToken stores
\* the token before anything is known of it.
FollowLink(t, u) ==
    /\ ~bootstrapping /\ Issue(t, u)
    /\ "switch" \in Races \/ (user = None /\ call = None)
    /\ bootstrapping' = TRUE
    /\ stored' = t /\ token' = t
    /\ call' = [kind |-> "link", pc |-> "me", token |-> t, user |-> None]
    /\ UNCHANGED <<revoked, user, isLoading, data, refresh, place, ws>>

\* The user is known.
LinkMe ==
    /\ call # None /\ call.kind = "link" /\ call.pc = "me" /\ Accepts(call.token)
    /\ SetUser(owner[call.token], stored) /\ AskList(token)
    /\ isLoading' = FALSE
    /\ call' = [call EXCEPT !.pc = "list"]
    /\ UNCHANGED <<owner, revoked, stored, token, bootstrapping, list, cache, refresh, place>>

\* The list that a sign-in asked for; the application shows.
Listed ==
    /\ call # None /\ call.kind \in {"code", "link"} /\ call.pc = "list"
    /\ Accepts(call.token)
    /\ "late" \in Races \/ user = owner[call.token]
    /\ list' = owner[call.token]
    /\ bootstrapping' = (bootstrapping /\ call.kind # "link")
    /\ call' = None
    /\ UNCHANGED <<owner, revoked, stored, token, user, isLoading, cache, requests, refresh,
                   place, ws>>

\* Mutant: only the successful path takes the splash screen away.
SignInFailsBlank(rejected) ==
    /\ call # None /\ call.kind \in {"code", "link"} /\ call.pc \in {"me", "list"}
    /\ Forgets(call.token, rejected)
    /\ call' = None
    /\ UNCHANGED <<owner, revoked, user, isLoading, bootstrapping, data, refresh, place, ws>>

\* The request failed, or was rejected.
SignInFails(rejected) ==
    /\ call # None /\ call.kind \in {"code", "link"} /\ call.pc \in {"me", "list"}
    /\ Forgets(call.token, rejected)
    /\ bootstrapping' = (bootstrapping /\ call.kind # "link")
    /\ call' = None
    /\ UNCHANGED <<owner, revoked, user, isLoading, data, refresh, place, ws>>

-----------------------------------------------------------------------------
(* In a session.                                                             *)

\* A page of workspace w is rendered: the workspace is the current one.
Enter(w) ==
    /\ Settled /\ user # None
    /\ list # None /\ w \in WorkspacesOf(list) /\ w # slug
    /\ slug' = w /\ draft' = Rehydrated(w)
    /\ ws' = Connected(user, w, stored)
    /\ UNCHANGED <<owner, revoked, auth, data, call, refresh, kept>>

\* The user writes a message and leaves it for later.
Write ==
    /\ Settled /\ user # None /\ slug # None
    /\ draft' = user /\ kept' = [kept EXCEPT ![slug] = user]
    /\ UNCHANGED <<owner, revoked, auth, data, call, refresh, slug, ws>>

\* A page asks for something it does not have.
Ask ==
    /\ Settled /\ user # None /\ slug # None
    /\ Cardinality(requests) < MaxRequests
    /\ requests' = requests \cup {[token |-> token, of |-> "page", live |-> TRUE]}
    /\ UNCHANGED <<owner, revoked, auth, list, cache, call, refresh, place, ws>>

\* The answer becomes data unless the cache was cleared in the meantime.
Answer(r) ==
    /\ r \in requests /\ Accepts(r.token)
    /\ requests' = requests \ {r}
    /\ list' = IF r.live /\ r.of = "list" THEN owner[r.token] ELSE list
    /\ cache' = IF r.live /\ r.of = "page" THEN cache \cup {owner[r.token]} ELSE cache
    /\ UNCHANGED <<owner, revoked, auth, call, refresh, place, ws>>

Fail(r, rejected) ==
    /\ r \in requests
    /\ requests' = requests \ {r}
    /\ Forgets(r.token, rejected)
    /\ UNCHANGED <<owner, revoked, user, isLoading, bootstrapping, list, cache, call, refresh,
                   place, ws>>

\* updateMe or getMe, whose answer becomes the user.
Refresh ==
    /\ Settled /\ user # None /\ refresh = None
    /\ refresh' = token
    /\ UNCHANGED <<owner, revoked, auth, data, call, place, ws>>

Refreshed ==
    /\ refresh # None /\ Accepts(refresh)
    /\ "late" \in Races \/ user = owner[refresh]
    /\ SetUser(owner[refresh], stored)
    /\ refresh' = None
    /\ UNCHANGED <<owner, revoked, stored, token, isLoading, bootstrapping, data, call, place>>

RefreshFails(rejected) ==
    /\ refresh # None /\ refresh' = None
    /\ Forgets(refresh, rejected)
    /\ UNCHANGED <<owner, revoked, user, isLoading, bootstrapping, data, call, place, ws>>

\* Mutant: queries in flight survive.
SignOutKeepingQueries ==
    /\ Settled /\ user # None
    /\ kept' = [w \in Workspaces |->
                   IF list # None /\ w \in WorkspacesOf(list) THEN None ELSE kept[w]]
    /\ list' = None /\ cache' = {}
    /\ stored' = None /\ token' = None
    /\ slug' = None /\ draft' = Rehydrated(None)
    /\ user' = None /\ ws' = None
    /\ UNCHANGED <<owner, revoked, isLoading, bootstrapping, requests, call, refresh>>

\* Mutant: the cache is cleared before its list is used.
SignOutClearedFirst ==
    /\ Settled /\ user # None
    /\ kept' = kept
    /\ list' = None /\ cache' = {}
    /\ requests' = {[r EXCEPT !.live = FALSE] : r \in requests}
    /\ stored' = None /\ token' = None
    /\ slug' = None /\ draft' = Rehydrated(None)
    /\ user' = None /\ ws' = None
    /\ UNCHANGED <<owner, revoked, isLoading, bootstrapping, call, refresh>>

\* useLogout: drafts of the workspaces that are listed, cache, token,
\* workspace, user.
SignOut ==
    /\ Settled /\ user # None
    /\ kept' = [w \in Workspaces |->
                   IF list # None /\ w \in WorkspacesOf(list) THEN None ELSE kept[w]]
    /\ list' = None /\ cache' = {}
    /\ requests' = {[r EXCEPT !.live = FALSE] : r \in requests}
    /\ stored' = None /\ token' = None
    /\ slug' = None /\ draft' = Rehydrated(None)
    /\ user' = None /\ ws' = None
    /\ UNCHANGED <<owner, revoked, isLoading, bootstrapping, call, refresh>>

\* A token expires, or is revoked.
Revoke(t) ==
    /\ t \in Issued \ revoked
    /\ revoked' = revoked \cup {t}
    /\ UNCHANGED <<owner, auth, data, call, refresh, place, ws>>

-----------------------------------------------------------------------------

Init ==
    /\ \E t \in Token :
          /\ \E u \in Users : owner = [x \in Tokens |-> IF x = t THEN u ELSE None]
          /\ stored = t /\ token = t /\ isLoading = (t # None)
          /\ call = IF t = None THEN None ELSE Restoring(t)
    /\ revoked = {}
    /\ user = None /\ bootstrapping = FALSE
    /\ list = None /\ cache = {} /\ requests = {} /\ refresh = None
    /\ slug = None /\ draft = None /\ kept = [w \in Workspaces |-> None] /\ ws = None

Next ==
    \/ Relaunch
    \/ RestoreMe \/ Restored
    \/ \E rejected \in BOOLEAN : 
          RestoreFails(rejected) \/ SignInFails(rejected) \/ RefreshFails(rejected)
    \/ \E u \in Users : SubmitForm(u)
    \/ \E t \in Tokens : Verified(t) \/ Revoke(t) \/ \E u \in Users : FollowLink(t, u)
    \/ CodeRefused \/ LinkMe \/ Listed
    \/ \E w \in Workspaces : Enter(w)
    \/ Write \/ Ask
    \/ \E r \in requests : Answer(r) \/ \E rejected \in BOOLEAN : Fail(r, rejected)
    \/ Refresh \/ Refreshed \/ SignOut

Spec == Init /\ [][Next]_vars

-----------------------------------------------------------------------------
(* Properties.                                                               *)

TypeOK ==
    /\ owner \in [Tokens -> Owner] /\ revoked \subseteq Tokens
    /\ {stored, token, refresh} \subseteq Token
    /\ {user, list, draft} \subseteq Owner
    /\ isLoading \in BOOLEAN /\ bootstrapping \in BOOLEAN
    /\ cache \subseteq Users /\ requests \subseteq Request
    /\ \A r \in requests : r.token # None
    /\ call # None => call \in Call
    /\ slug \in Spaces /\ kept \in [Workspaces -> Owner]
    /\ ws # None => ws \in Connection

\* The splash screen is there only while something is under way that will
\* take it away.
NoEndlessSplash ==
    /\ isLoading => call # None
    /\ bootstrapping => call # None /\ call.kind = "link"

\* Who is signed in is who every request is made for, now and after the next
\* launch: the user's token is the one of the API client and the one stored.
SessionIsWhole ==
    user # None => stored # None /\ token = stored /\ owner[stored] = user

\* Nothing that a session has fetched is there in the next one.
CacheIsPrivate ==
    /\ cache \subseteq {user} /\ list \in {None, user}
    /\ \A r \in requests : r.live => owner[r.token] = user

\* use-logout.ts: drafts must not "leak to the next user on this device".
DraftsArePrivate ==
    user # None /\ slug # None => draft \in {None, user} /\ kept[slug] \in {None, user}

\* A client that is signed in and in a workspace hears of it, and of it only,
\* as the user who is signed in.
HearsTheWorkspace ==
    IF user # None /\ slug # None
    THEN ws # None /\ ws.slug = slug /\ owner[ws.token] = user
    ELSE ws = None
=============================================================================
