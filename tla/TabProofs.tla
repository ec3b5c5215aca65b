----------------------------- MODULE TabProofs -----------------------------
(***************************************************************************)
(* For any number of workspaces, tabs and pages: NobodyIsStranded,         *)
(* GroupsAreSound and TabsAreKept of DesktopTabs.                          *)
(*                                                                         *)
(* What is shown comes first, by way of ShownInv: only the domain of       *)
(* groups, the active workspace and the overlay matter, so the lemmas say  *)
(* of every operation of the store and of the navigation adapter which     *)
(* workspace it leaves active.                                             *)
(*                                                                         *)
(* The rest is about the tabs and their groups, by way of GroupsInv.  From *)
(* the bottom up: the sequences of tabs (a launch filters them, the tab    *)
(* bar removes and moves), one tab, one group, the groups, and then what   *)
(* each operation does to all of them (StoreKeeps).  The last part goes    *)
(* through the actions once, for both theorems.                            *)
(***************************************************************************)
EXTENDS DesktopTabs, FiniteSetTheorems, TLAPS

\* The active workspace remains, and no workspace gets a group.
Stays == active' = active /\ DOMAIN groups' \subseteq DOMAIN groups

\* Workspace s becomes active, or stays so, and no other one gets a group.
Opens(s) == active' = s /\ DOMAIN groups' \subseteq DOMAIN groups \cup {s}

-----------------------------------------------------------------------------
(* What the operations of the store show *)

LEMMA SetShows ==
    ASSUME NEW gs, NEW s, Set(gs, s)
    PROVE  /\ active' = s
           /\ DOMAIN groups' \subseteq DOMAIN gs \cup {s}
           /\ s = None => groups' = gs
BY DEF Set, With

LEMMA SetWithShows ==
    ASSUME NEW gs, NEW s, NEW x, Set(With(gs, s, x), s)
    PROVE  active' = s /\ DOMAIN groups' \subseteq DOMAIN gs \cup {s}
PROOF
<1>1. DOMAIN With(gs, s, x) = DOMAIN gs \cup {s}
  BY DEF With
<1> QED
  BY <1>1, SetShows

LEMMA SwitchShows ==
    ASSUME NEW gs, NEW p, switchWorkspace(gs, p)
    PROVE  active' = p.slug /\ DOMAIN groups' \subseteq DOMAIN gs \cup {p.slug}
PROOF
<1>1. \E x : Set(With(gs, p.slug, x), p.slug)
  BY DEF switchWorkspace, InFrontOf, Opened
<1> QED
  BY <1>1, SetWithShows

LEMMA TabsShow ==
    ASSUME \/ \E p : openTab(p) \/ addTab(p)
           \/ \E i : closeTab(i)
    PROVE  Opens(active)
PROOF
<1>1. CASE \E p : openTab(p) \/ addTab(p)
  BY <1>1, SetWithShows DEF openTab, addTab, InFrontOf, Opened, Opens
<1>2. ASSUME NEW i, closeTab(i)
      PROVE  \E x : Set(With(groups, active, x), active)
  BY <1>2 DEF closeTab, Alone
<1> QED
  BY <1>1, <1>2, SetWithShows DEF Opens

\* Validate leaves only listed workspaces, with one of them active.
LEMMA ValidateShows ==
    ASSUME NEW valid, Validate(valid)
    PROVE  DOMAIN groups' \subseteq valid /\ (valid = {} \/ active' \in valid)
PROOF
<1> DEFINE kept == Keep(groups, valid)
<1>1. DOMAIN kept \subseteq valid
  BY DEF Keep
<1>2. CASE valid = {}
  <2>1. Set(kept, None)
    BY <1>1, <1>2 DEF Validate
  <2> QED
    BY <1>1, <1>2, <2>1, SetShows
<1>3. CASE valid # {}
  <2>1. PICK s \in valid : \/ Set(kept, s)
                           \/ \E id : Set(Opened(kept, s, defaultPathFor(s), id), s)
    BY <1>1, <1>3 DEF Validate
  <2>2. \A id : DOMAIN Opened(kept, s, defaultPathFor(s), id) = DOMAIN kept \cup {s}
    BY DEF Opened, With
  <2> HIDE DEF kept
  <2> QED
    BY <1>1, <2>1, <2>2, SetShows
<1> QED
  BY <1>2, <1>3

LEMMA RouterShows ==
    ASSUME NEW s, NEW i, NEW p, RouterPush(s, i, p) \/ RouterReplace(s, i, p)
    PROVE  Stays
BY DEF RouterPush, RouterReplace, PutTab, Stays

-----------------------------------------------------------------------------
(* What the navigation adapter shows *)

LEMMA PushShows ==
    ASSUME NEW s, NEW i, NEW p, Push(s, i, p)
    PROVE  overlay' = "none" /\ Opens(p.slug)
BY RouterShows, SwitchShows DEF Push, Stays, Opens

LEMMA PushOverlayShows ==
    ASSUME NEW s, NEW i, NEW o, PushOverlay(s, i, o)
    PROVE  overlay' = o /\ Stays
BY RouterShows DEF PushOverlay, Stays, store

LEMMA ShellPushShows ==
    ASSUME NEW p, ShellPush(p)
    PROVE  overlay' = "none" /\ Opens(p.slug)
BY PushShows, SwitchShows DEF ShellPush, Opens

LEMMA DestinationShows ==
    ASSUME NEW S, ShellPushDestination(S)
    PROVE  \/ overlay' \in {"onboarding", "new-workspace"} /\ Stays
           \/ \E s \in S : overlay' = "none" /\ Opens(s)
PROOF
<1>1. CASE \E s \in S : ShellPush(defaultPathFor(s))
  BY <1>1, ShellPushShows DEF defaultPathFor, In
<1>2. CASE \/ \E o \in {"onboarding", "new-workspace"} : PushOverlay(active, FrontIndex, o)
           \/ overlay' \in {"onboarding", "new-workspace"} /\ UNCHANGED store
  BY <1>2, PushOverlayShows DEF Stays, store
<1> QED
  BY <1>1, <1>2 DEF ShellPushDestination

-----------------------------------------------------------------------------
(* Nobody is stranded *)

\* The user is taken to a listed workspace, stays in one, or gets an overlay.
LEMMA NavigationKeeps ==
    ASSUME ShownInv, UNCHANGED <<list, fetched, server, session>>, landing' \in {landing, None},
           landing' # None => leaving' = leaving,
           fetched => \/ Stays /\ (overlay' # "none" \/ overlay' = overlay)
                      \/ \E s \in list : Opens(s)
    PROVE  ShownInv'
PROOF
<1>1. fetched => DOMAIN groups' \subseteq list
  BY DEF ShownInv, Stays, Opens
<1>2. fetched => IF list = {} THEN overlay' # "none" ELSE active' \in list
  BY DEF ShownInv, Stays, Opens
<1> QED
  BY <1>1, <1>2 DEF ShownInv

\* Who uses the tabs is in a listed workspace.
LEMMA UsableIsListed ==
    ASSUME ShownInv, Usable
    PROVE  fetched /\ active \in list
BY DEF ShownInv, Usable

LEMMA PagesKeep ==
    ASSUME ShownInv,
           \/ \E s \in Slugs, i \in 1..Cardinality(Ids), p \in Paths : PagePush(s, i, p)
           \/ \E p \in Paths : Go(p) \/ FollowLink(p) \/ OpenInNewTab(p)
    PROVE  ShownInv'
PROOF
<1>1. ASSUME NEW s, NEW i, NEW p, PagePush(s, i, p)
      PROVE  ShownInv'
  <2>1. Opens(s) /\ s \in DOMAIN groups
    BY <1>1, PushShows DEF PagePush
  <2>2. fetched => s \in list
    BY <2>1 DEF ShownInv
  <2> QED
    BY <1>1, <2>1, <2>2, NavigationKeeps DEF PagePush, net
<1>2. ASSUME NEW p, Go(p)
      PROVE  ShownInv'
  <2>1. Opens(p.slug) /\ p.slug \in list
    BY <1>2, ShellPushShows DEF Go
  <2> QED
    BY <1>2, <2>1, NavigationKeeps DEF Go, net
<1>3. ASSUME NEW p, FollowLink(p)
      PROVE  ShownInv'
  <2>1. Opens(active) /\ active \in list
    BY <1>3, TabsShow, UsableIsListed DEF FollowLink
  <2> QED
    BY <1>3, <2>1, NavigationKeeps DEF FollowLink, net
<1>4. ASSUME NEW p, OpenInNewTab(p)
      PROVE  ShownInv'
  <2>1. Opens(p.slug) /\ p.slug \in list
    BY <1>4, TabsShow, SwitchShows DEF OpenInNewTab, Opens
  <2> QED
    BY <1>4, <2>1, NavigationKeeps DEF OpenInNewTab, net
<1> QED
  BY <1>1, <1>2, <1>3, <1>4

LEMMA TabBarKeeps ==
    ASSUME ShownInv,
           \/ \E i, j \in 1..Cardinality(Ids) : CloseTab(i) \/ ActivateTab(i) \/ MoveTab(i, j)
           \/ AddTab \/ GoBack \/ GoForward
    PROVE  ShownInv'
PROOF
<1>1. Usable /\ UNCHANGED <<overlay, net>>
  BY DEF CloseTab, ActivateTab, MoveTab, AddTab, GoBack, GoForward
<1>2. fetched /\ active \in list
  BY <1>1, UsableIsListed
<1>3. Opens(active)
  <2>1. CASE AddTab \/ \E i : CloseTab(i)
    BY <2>1, TabsShow DEF AddTab, CloseTab
  <2>2. CASE \E i, j : ActivateTab(i) \/ MoveTab(i, j)
    BY <2>2, SetWithShows DEF ActivateTab, MoveTab, Opens
  <2>3. CASE GoBack \/ GoForward
    BY <2>3 DEF GoBack, GoForward, PutTab, Opens
  <2> QED
    BY <2>1, <2>2, <2>3
<1> QED
  BY <1>1, <1>2, <1>3, NavigationKeeps DEF net

\* A new list has arrived: the effects of App.tsx follow it at once.
LEMMA ListKeeps ==
    ASSUME ShownInv, ListEffects(list'), fetched', session # "out", session' = session,
           landing' # None => landing' \in server' /\ landing' \in list' /\ leaving' = {}
    PROVE  ShownInv'
PROOF
<1>1. DOMAIN groups' \subseteq list' /\ (list' = {} \/ active' \in list')
  BY ValidateShows DEF ListEffects
<1>2. list' = {} => overlay' # "none"
  BY DEF ListEffects
<1> QED
  BY <1>1, <1>2 DEF ShownInv

LEMMA WorkspacesKeep ==
    ASSUME ShownInv,
           \/ ListArrives \/ Leave \/ Land \/ DeclineInvite
           \/ \E s \in Slugs : CreateWorkspace(s) \/ AcceptInvite(s)
           \/ \E S \in SUBSET Slugs : ServerChanges(S)
           \/ \E ok \in BOOLEAN : LeaveEnds(ok)
    PROVE  ShownInv'
PROOF
<1>1. CASE ListArrives
  BY <1>1, ListKeeps DEF ListArrives, ShownInv, Signed
<1>2. CASE Leave
  <2>1. landing = None /\ fetched /\ active \in list
    BY <1>2, UsableIsListed DEF Leave
  <2>2. \/ overlay' # "none" /\ Stays
        \/ \E s \in list : Opens(s)
    BY <1>2, DestinationShows DEF Leave
  <2> QED
    BY <1>2, <2>1, <2>2, NavigationKeeps DEF Leave
<1>3. CASE Land
  <2>1. Opens(landing)
    BY <1>3, ShellPushShows DEF Land, defaultPathFor, In
  <2>2. fetched => landing \in list
    BY <1>3 DEF Land, ShownInv
  <2> QED
    BY <1>3, <2>1, <2>2, NavigationKeeps DEF Land
<1>4. CASE DeclineInvite
  <2>1. \/ overlay' # "none" /\ Stays
        \/ \E s \in list : Opens(s)
    BY <1>4, DestinationShows DEF DeclineInvite
  <2> QED
    BY <1>4, <2>1, NavigationKeeps DEF DeclineInvite, net
<1>5. ASSUME NEW s \in Slugs, CreateWorkspace(s)
      PROVE  ShownInv'
  <2>1. active' = s /\ DOMAIN groups' \subseteq DOMAIN Keep(groups, list') \cup {s}
    BY <1>5, SwitchShows DEF CreateWorkspace, defaultPathFor, In
  <2>2. DOMAIN Keep(groups, list') \subseteq list'
    BY DEF Keep
  <2> QED
    BY <1>5, <2>1, <2>2 DEF CreateWorkspace, ShownInv
<1>6. ASSUME NEW s \in Slugs, AcceptInvite(s)
      PROVE  ShownInv'
  BY <1>6, ListKeeps DEF AcceptInvite, Signed
<1>7. ASSUME NEW S, ServerChanges(S)
      PROVE  ShownInv'
  BY <1>7 DEF ServerChanges, ShownInv, store
<1>8. ASSUME NEW ok, LeaveEnds(ok)
      PROVE  ShownInv'
  BY <1>8 DEF LeaveEnds, ShownInv, store
<1> QED
  BY <1>1, <1>2, <1>3, <1>4, <1>5, <1>6, <1>7, <1>8

LEMMA SessionsKeep ==
    ASSUME ShownInv,
           \/ CloseOverlay \/ OpenNewWorkspace \/ OpenInvite \/ OnboardingSkips
           \/ \E new \in BOOLEAN, S \in SUBSET Slugs : SignIn(new, S)
           \/ SignOut \/ Relaunch
    PROVE  ShownInv'
PROOF
<1>1. CASE CloseOverlay
  BY <1>1 DEF CloseOverlay, ShownInv, store, net
<1>2. CASE OpenNewWorkspace
  <2>1. overlay' # "none" /\ Stays
    BY <1>2, PushOverlayShows DEF OpenNewWorkspace
  <2> QED
    BY <1>2, <2>1, NavigationKeeps DEF OpenNewWorkspace, net
<1>3. CASE OpenInvite
  BY <1>3 DEF OpenInvite, ShownInv, store, net
<1>4. CASE OnboardingSkips
  <2>1. Stays
    BY <1>4, RouterShows DEF OnboardingSkips, Stays, store
  <2> QED
    BY <1>4, <2>1 DEF OnboardingSkips, ShownInv, Stays
<1>5. ASSUME NEW new, NEW S, SignIn(new, S)
      PROVE  ShownInv'
  BY <1>5 DEF SignIn, ShownInv, store
<1>6. CASE SignOut
  BY <1>6 DEF SignOut, ShownInv
<1>7. CASE Relaunch
  BY <1>7 DEF Relaunch, ShownInv, Signed
<1> QED
  BY <1>1, <1>2, <1>3, <1>4, <1>5, <1>6, <1>7

\* NobodyIsStranded, for any number of workspaces and tabs: whatever the user
\* opens, leaves, creates or accepts, and whatever list arrives (App.tsx), the
\* user sees a listed workspace or an overlay.
THEOREM NobodyIsEverStranded == Spec => []NobodyIsStranded
PROOF
<1>1. Init => ShownInv
  BY DEF Init, ShownInv
<1>2. ShownInv /\ [Next]_vars => ShownInv'
  <2> SUFFICES ASSUME ShownInv, [Next]_vars PROVE ShownInv'
    OBVIOUS
  <2>1. CASE UNCHANGED vars
    BY <2>1 DEF vars, ShownInv
  <2> QED
    BY <2>1, PagesKeep, TabBarKeeps, WorkspacesKeep, SessionsKeep DEF Next
<1>3. ShownInv => NobodyIsStranded
  BY DEF ShownInv, NobodyIsStranded
<1> QED
  BY <1>1, <1>2, <1>3, PTL DEF Spec

-----------------------------------------------------------------------------
(* Sequences of tabs *)

\* The elements of a finite set S of numbers are the first, the second, ...
LEMMA RanksAreABijection ==
    ASSUME NEW S, IsFiniteSet(S), S \subseteq Nat
    PROVE  LET rank == [i \in S |-> Cardinality({j \in S : j <= i})] IN
           /\ Cardinality(S) \in Nat
           /\ \A i \in S : rank[i] \in 1..Cardinality(S)
           /\ \A i, j \in S : rank[i] = rank[j] => i = j
           /\ \A k \in 1..Cardinality(S) : \E i \in S : rank[i] = k
PROOF
<1> DEFINE Below(i) == {j \in S : j <= i}
           N == Cardinality(S)
           rank == [i \in S |-> Cardinality(Below(i))]
<1>1. N \in Nat
  BY FS_CardinalityType
<1>2. \A i \in S : rank[i] \in 1..N
  <2> SUFFICES ASSUME NEW i \in S PROVE Cardinality(Below(i)) \in 1..N
    OBVIOUS
  <2>1. Below(i) \in SUBSET S /\ i \in Below(i)
    OBVIOUS
  <2>2. IsFiniteSet(Below(i)) /\ Cardinality(Below(i)) <= N
    BY <2>1, FS_Subset
  <2>3. Cardinality(Below(i)) \in Nat /\ Cardinality(Below(i)) # 0
    BY <2>1, <2>2, FS_EmptySet, FS_CardinalityType
  <2> QED
    BY <1>1, <2>2, <2>3
<1>3. \A i, j \in S : rank[i] = rank[j] => i = j
  <2>1. ASSUME NEW i \in S, NEW j \in S, i < j, rank[i] = rank[j]
        PROVE  FALSE
    <3>1. Below(i) \in SUBSET Below(j) /\ j \in Below(j) /\ j \notin Below(i)
      <4> HIDE DEF rank
      <4>1. i < j /\ i \in Nat /\ j \in Nat /\ j <= j /\ ~(j <= i)
        BY <2>1
      <4>2. ASSUME NEW x \in S, x <= i PROVE x <= j
        <5>1. x \in Nat
          OBVIOUS
        <5> QED
          BY <4>1, <4>2, <5>1
      <4> QED
        BY <4>1, <4>2
    <3>2. Below(j) \in SUBSET S
      OBVIOUS
    <3>3. IsFiniteSet(Below(j))
      BY <3>2, FS_Subset
    <3>4. Cardinality(Below(j)) = Cardinality(Below(i))
      BY <2>1
    <3>5. Below(i) = Below(j)
      BY <3>1, <3>3, <3>4, FS_Subset
    <3> QED
      BY <3>1, <3>5
  <2> HIDE DEF rank
  <2> QED
    BY <2>1
<1>4. \A k \in 1..N : \E i \in S : rank[i] = k
  <2>1. rank \in Injection(S, 1..N)
    BY <1>2, <1>3 DEF Injection, IsInjective
  <2>2. IsFiniteSet(1..N) /\ Cardinality(1..N) = N
    BY <1>1, FS_Interval
  <2>3. rank \in Surjection(S, 1..N)
    BY <2>1, <2>2, FS_Injection
  <2> QED
    BY <2>3 DEF Surjection
<1> QED
  BY <1>1, <1>2, <1>3, <1>4

LEMMA IndicesAreFinite ==
    ASSUME NEW T, NEW ts \in Seq(T), NEW S \in SUBSET DOMAIN ts
    PROVE  IsFiniteSet(S) /\ S \subseteq Nat
PROOF
<1>1. S \in SUBSET (1..Len(ts)) /\ Len(ts) \in Nat
  OBVIOUS
<1>2. IsFiniteSet(1..Len(ts))
  BY <1>1, FS_Interval
<1> QED
  BY <1>1, <1>2, FS_Subset

LEMMA FirstIsIn ==
    ASSUME NEW S, IsFiniteSet(S), S \subseteq Nat, S # {}
    PROVE  First(S) \in S
PROOF
<1> DEFINE Below(i) == {j \in S : j <= i}
           rank == [i \in S |-> Cardinality(Below(i))]
<1>1. 1 \in 1..Cardinality(S)
  BY FS_CardinalityType, FS_EmptySet
<1>2. PICK i \in S : Cardinality(Below(i)) = 1
  <2>1. \A k \in 1..Cardinality(S) : \E i \in S : rank[i] = k
    BY RanksAreABijection
  <2> QED
    BY <1>1, <2>1
<1>3. IsFiniteSet(Below(i))
  <2>1. Below(i) \in SUBSET S
    OBVIOUS
  <2> QED
    BY <2>1, FS_Subset
<1>4. PICK x : Below(i) = {x}
  BY <1>2, <1>3, FS_Singleton
<1>5. \A j \in S : i <= j
  BY <1>4
<1> QED
  BY <1>5 DEF First

\* OfWorkspace is a bijection between the tabs of s and their new places.
LEMMA OfWorkspaceIsFilter ==
    ASSUME NEW T, NEW ts \in Seq(T), NEW s
    PROVE  LET r == OfWorkspace(ts, s) IN
           /\ r \in Seq(T)
           /\ \A k \in DOMAIN r : r[k].path.slug = s
           /\ \A k \in DOMAIN r : \E i \in DOMAIN ts : r[k] = ts[i]
           /\ \A k, l \in DOMAIN r : (\A i, j \in DOMAIN ts : ts[i].id = ts[j].id => i = j)
                                     /\ r[k].id = r[l].id => k = l
           /\ \A i \in DOMAIN ts : ts[i].path.slug = s => \E k \in DOMAIN r : r[k] = ts[i]
PROOF
<1> DEFINE own == {i \in DOMAIN ts : ts[i].path.slug = s}
           Nth(k) == CHOOSE i \in own : Cardinality({j \in own : j <= i}) = k
           N == Cardinality(own)
           rank == [i \in own |-> Cardinality({j \in own : j <= i})]
           r == OfWorkspace(ts, s)
<1>1. IsFiniteSet(own) /\ own \subseteq Nat
  BY IndicesAreFinite
<1>2. N \in Nat /\ \A i \in own : rank[i] \in 1..N
  BY <1>1, RanksAreABijection
<1>3. \A i, j \in own : rank[i] = rank[j] => i = j
  BY <1>1, RanksAreABijection
<1>4. \A k \in 1..N : \E i \in own : rank[i] = k
  BY <1>1, RanksAreABijection
<1>5. \A k \in 1..N : Nth(k) \in own /\ rank[Nth(k)] = k
  BY <1>4
<1>6. \A i \in own : Nth(rank[i]) = i
  BY <1>2, <1>3, <1>5
<1>7. r = [k \in 1..N |-> ts[Nth(k)]]
  BY DEF OfWorkspace
<1>8. r \in Seq(T) /\ DOMAIN r = 1..N /\ \A k \in 1..N : r[k] = ts[Nth(k)]
  <2> HIDE DEF Nth, rank
  <2>1. \A k \in 1..N : ts[Nth(k)] \in T
    BY <1>5
  <2> QED
    BY <1>2, <1>7, <2>1
<1> HIDE DEF Nth, r, N, rank
<1>9. \A k, l \in DOMAIN r : (\A i, j \in DOMAIN ts : ts[i].id = ts[j].id => i = j)
                             /\ r[k].id = r[l].id => k = l
  BY <1>5, <1>8
<1>10. \A i \in DOMAIN ts : ts[i].path.slug = s => \E k \in DOMAIN r : r[k] = ts[i]
  BY <1>2, <1>6, <1>8
<1>11. /\ \A k \in DOMAIN r : r[k].path.slug = s
       /\ \A k \in DOMAIN r : \E i \in DOMAIN ts : r[k] = ts[i]
  BY <1>5, <1>8
<1> QED
  BY <1>8, <1>9, <1>10, <1>11 DEF r

\* RemoveAt and InsertAt of SequencesExt, index by index.
LEMMA RemoveAtGives ==
    ASSUME NEW T, NEW ts \in Seq(T), NEW i \in DOMAIN ts
    PROVE  LET r == RemoveAt(ts, i) IN
           /\ r \in Seq(T) /\ Len(r) = Len(ts) - 1
           /\ \A k \in 1..(Len(ts) - 1) : r[k] = ts[IF k < i THEN k ELSE k + 1]
PROOF
<1> DEFINE a == SubSeq(ts, 1, i - 1)
           c == SubSeq(ts, i + 1, Len(ts))
<1>1. a \in Seq(T) /\ Len(a) = i - 1 /\ \A k \in 1..(i - 1) : a[k] = ts[k]
  OBVIOUS
<1>2. c \in Seq(T) /\ Len(c) = Len(ts) - i /\ \A k \in 1..(Len(ts) - i) : c[k] = ts[k + i]
  OBVIOUS
<1>3. RemoveAt(ts, i) = a \o c
  BY DEF RemoveAt
<1> HIDE DEF a, c
<1>4. RemoveAt(ts, i) \in Seq(T) /\ Len(RemoveAt(ts, i)) = Len(ts) - 1
  BY <1>1, <1>2, <1>3
<1>5. ASSUME NEW k \in 1..(Len(ts) - 1)
      PROVE  RemoveAt(ts, i)[k] = ts[IF k < i THEN k ELSE k + 1]
  <2>1. CASE k < i
    BY <1>1, <1>2, <1>3, <2>1
  <2>2. CASE k >= i
    <3>1. k - (i - 1) \in 1..(Len(ts) - i) /\ c[k - (i - 1)] = ts[k + 1]
      BY <1>2, <2>2
    <3>2. (a \o c)[k] = c[k - (i - 1)]
      BY <1>1, <1>2, <2>2
    <3> QED
      BY <1>3, <2>2, <3>1, <3>2
  <2> QED
    BY <2>1, <2>2
<1> QED
  BY <1>4, <1>5

\* Sequence r has the elements of ts, and t as its i-th.
HasInserted(r, ts, i, t) ==
    \A k \in 1..(Len(ts) + 1) :
       r[k] = IF k < i THEN ts[k] ELSE IF k = i THEN t ELSE ts[k - 1]

LEMMA InsertAtGives ==
    ASSUME NEW T, NEW ts \in Seq(T), NEW i \in 1..(Len(ts) + 1), NEW t \in T
    PROVE  LET r == InsertAt(ts, i, t) IN
           r \in Seq(T) /\ Len(r) = Len(ts) + 1 /\ HasInserted(r, ts, i, t)
PROOF
<1> DEFINE a == SubSeq(ts, 1, i - 1)
           b == a \o <<t>>
           c == SubSeq(ts, i, Len(ts))
<1>1. a \in Seq(T) /\ Len(a) = i - 1 /\ \A k \in 1..(i - 1) : a[k] = ts[k]
  OBVIOUS
<1>2. /\ c \in Seq(T) /\ Len(c) = Len(ts) - i + 1
      /\ \A k \in 1..(Len(ts) - i + 1) : c[k] = ts[k + i - 1]
  OBVIOUS
<1> HIDE DEF a, c
<1>3. b \in Seq(T) /\ Len(b) = i /\ \A k \in 1..i : b[k] = IF k < i THEN ts[k] ELSE t
  BY <1>1
<1>4. InsertAt(ts, i, t) = b \o c
  BY DEF InsertAt, a, c
<1> HIDE DEF b
<1>5. InsertAt(ts, i, t) \in Seq(T) /\ Len(InsertAt(ts, i, t)) = Len(ts) + 1
  <2>1. b \o c \in Seq(T) /\ Len(b \o c) = Len(b) + Len(c)
    BY <1>2, <1>3
  <2>2. Len(b) + Len(c) = Len(ts) + 1
    BY <1>2, <1>3
  <2> QED
    BY <1>4, <2>1, <2>2
<1>6. ASSUME NEW k \in 1..(Len(ts) + 1)
      PROVE  InsertAt(ts, i, t)[k] = IF k < i THEN ts[k] ELSE IF k = i THEN t ELSE ts[k - 1]
  <2>1. CASE k <= i
    <3>1. (b \o c)[k] = b[k]
      BY <1>2, <1>3, <2>1
    <3> QED
      BY <1>3, <1>4, <2>1, <3>1
  <2>2. CASE k > i
    <3> DEFINE m == k - i
    <3>3. m \in 1..(Len(ts) - i + 1) /\ m + i - 1 = k - 1
      BY <2>2
    <3> HIDE DEF m
    <3>4. c[m] = ts[k - 1]
      BY <1>2, <3>3
    <3>1. k - i \in 1..(Len(ts) - i + 1) /\ c[k - i] = ts[k - 1]
      BY <3>3, <3>4 DEF m
    <3>2. (b \o c)[k] = c[k - i]
      BY <1>2, <1>3, <2>2
    <3> QED
      BY <1>4, <2>2, <3>1, <3>2
  <2> QED
    BY <2>1, <2>2
<1> QED
  BY <1>5, <1>6 DEF HasInserted

\* Sequence r has the elements of ts at the places that f maps its own to.
Picks(r, ts, f) ==
    /\ f \in [DOMAIN r -> DOMAIN ts]
    /\ \A k, l \in DOMAIN r : f[k] = f[l] => k = l
    /\ \A k \in DOMAIN r : r[k] = ts[f[k]]

\* ... and of all but the places in S.
PicksAllBut(r, ts, f, S) ==
    Picks(r, ts, f) /\ \A m \in DOMAIN ts : m \in S \/ \E k \in DOMAIN r : f[k] = m

\* closeTab removes a tab, moveTab takes one elsewhere.
LEMMA RemovedPicks ==
    ASSUME NEW T, NEW ts \in Seq(T), NEW i \in DOMAIN ts
    PROVE  LET r == RemoveAt(ts, i) IN
           /\ r \in Seq(T) /\ Len(r) = Len(ts) - 1
           /\ \E f : PicksAllBut(r, ts, f, {i})
PROOF
<1> DEFINE r == RemoveAt(ts, i)
           n == Len(ts)
           f == [k \in 1..(n - 1) |-> IF k < i THEN k ELSE k + 1]
<1>1. n \in Nat /\ DOMAIN ts = 1..n /\ i \in 1..n
  OBVIOUS
<1>2. r \in Seq(T) /\ Len(r) = n - 1 /\ \A k \in 1..(n - 1) : r[k] = ts[f[k]]
  BY RemoveAtGives
<1> HIDE DEF r, n
<1>3. DOMAIN r = 1..(n - 1)
  BY <1>2
<1>4. f \in [1..(n - 1) -> 1..n] /\ \A k, l \in 1..(n - 1) : f[k] = f[l] => k = l
  BY <1>1
<1>5. \A m \in 1..n \ {i} : \E k \in 1..(n - 1) : f[k] = m
  <2> SUFFICES ASSUME NEW m \in 1..n \ {i} PROVE \E k \in 1..(n - 1) : f[k] = m
    OBVIOUS
  <2> DEFINE k == IF m < i THEN m ELSE m - 1
  <2>1. k \in 1..(n - 1) /\ f[k] = m
    BY <1>1
  <2> QED
    BY <2>1
<1> HIDE DEF f
<1>6. Picks(r, ts, f)
  BY <1>1, <1>2, <1>3, <1>4 DEF Picks
<1>7. PicksAllBut(r, ts, f, {i})
  BY <1>1, <1>3, <1>5, <1>6 DEF PicksAllBut
<1> QED
  BY <1>2, <1>7 DEF r, n

LEMMA MovedPicks ==
    ASSUME NEW T, NEW ts \in Seq(T), NEW i \in DOMAIN ts, NEW j \in DOMAIN ts
    PROVE  LET r == InsertAt(RemoveAt(ts, i), j, ts[i]) IN
           /\ r \in Seq(T)
           /\ \E f : PicksAllBut(r, ts, f, {})
PROOF
<1> DEFINE n == Len(ts)
           rest == RemoveAt(ts, i)
           r == InsertAt(rest, j, ts[i])
           Old(k) == IF k < i THEN k ELSE k + 1
           f == [k \in 1..n |-> IF k < j THEN Old(k) ELSE IF k = j THEN i ELSE Old(k - 1)]
<1>1. n \in Nat /\ DOMAIN ts = 1..n /\ i \in 1..n /\ j \in 1..n /\ ts[i] \in T
  OBVIOUS
<1>2. rest \in Seq(T) /\ Len(rest) = n - 1 /\ \A k \in 1..(n - 1) : rest[k] = ts[Old(k)]
  BY RemoveAtGives
<1> HIDE DEF rest, n
<1>3. Len(rest) + 1 = n /\ j \in 1..(Len(rest) + 1)
  BY <1>1, <1>2
<1>4. /\ r \in Seq(T) /\ Len(r) = n
      /\ \A k \in 1..n : r[k] = IF k < j THEN rest[k] ELSE IF k = j THEN ts[i] ELSE rest[k - 1]
  <2>1. /\ r \in Seq(T) /\ Len(r) = Len(rest) + 1
        /\ \A k \in 1..(Len(rest) + 1) :
              r[k] = IF k < j THEN rest[k] ELSE IF k = j THEN ts[i] ELSE rest[k - 1]
    <3>1. rest \in Seq(T) /\ j \in 1..(Len(rest) + 1) /\ ts[i] \in T
      BY <1>1, <1>2, <1>3
    <3> HIDE DEF f, Old
    <3>2. r \in Seq(T) /\ Len(r) = Len(rest) + 1
      BY <3>1, InsertAtGives
    <3>3. HasInserted(r, rest, j, ts[i])
      BY <3>1, InsertAtGives
    <3> HIDE DEF r
    <3> QED
      BY <3>2, <3>3 DEF HasInserted
  <2> HIDE DEF r
  <2> QED
    BY <1>3, <2>1
<1> HIDE DEF r
<1>5. DOMAIN r = 1..n
  BY <1>4
<1>6. ASSUME NEW k \in 1..n
      PROVE  r[k] = ts[f[k]]
  <2>1. CASE k < j
    <3>1. k \in 1..(n - 1) /\ f[k] = Old(k)
      BY <1>1, <2>1
    <3> HIDE DEF f, Old
    <3> QED
      BY <1>2, <1>4, <2>1, <3>1
  <2>2. CASE k = j
    BY <1>1, <1>4, <2>2
  <2>3. CASE k > j
    <3>1. ~(k < j) /\ k # j
      BY <1>1, <2>3
    <3>2. k - 1 \in 1..(n - 1)
      BY <1>1, <2>3
    <3>3. f[k] = Old(k - 1)
      <4> HIDE DEF Old
      <4> QED
        BY <3>1
    <3> HIDE DEF f, Old
    <3>4. rest[k - 1] = ts[Old(k - 1)]
      BY <1>2, <3>2
    <3>5. r[k] = rest[k - 1]
      BY <1>4, <3>1
    <3> QED
      BY <3>3, <3>4, <3>5
  <2> QED
    BY <1>1, <2>1, <2>2, <2>3
<1>7. f \in [1..n -> 1..n] /\ \A k, l \in 1..n : f[k] = f[l] => k = l
  BY <1>1
<1>8. \A m \in 1..n : \E k \in 1..n : f[k] = m
  <2> SUFFICES ASSUME NEW m \in 1..n PROVE \E k \in 1..n : f[k] = m
    OBVIOUS
  <2> DEFINE q == IF m < i THEN m ELSE m - 1
             k == IF m = i THEN j ELSE IF q < j THEN q ELSE q + 1
  <2>1. k \in 1..n /\ f[k] = m
    BY <1>1
  <2> QED
    BY <2>1
<1> HIDE DEF f
<1>9. Picks(r, ts, f)
  BY <1>1, <1>5, <1>6, <1>7 DEF Picks
<1>10. PicksAllBut(r, ts, f, {})
  <2>1. \A m \in DOMAIN ts : \E k \in DOMAIN r : f[k] = m
    BY <1>1, <1>5, <1>8
  <2> QED
    BY <1>9, <2>1 DEF PicksAllBut
<1> QED
  BY <1>4, <1>10 DEF r, rest

-----------------------------------------------------------------------------
(* One tab *)

LEMMA PathsOK ==
    /\ Root \in Path
    /\ \A s \in Slugs, p \in Pages : In(s, p) \in Path
    /\ \A s \in Slugs : defaultPathFor(s) \in Path /\ defaultPathFor(s).slug = s
BY HomeIsAPage DEF Path, Root, In, defaultPathFor

LEMMA MakeTabOK ==
    ASSUME NEW id \in Ids, NEW p \in Path
    PROVE  TabOK(makeTab(id, p)) /\ makeTab(id, p).id = id /\ makeTab(id, p).path = p
BY DEF TabOK, Tab, makeTab

\* The counters of a tab.
LEMMA CountersOK ==
    ASSUME NEW t, TabOK(t), NEW n \in Nat
    PROVE  /\ TabOK([t EXCEPT !.index = n]) /\ [t EXCEPT !.index = n].id = t.id
           /\ TabOK([t EXCEPT !.historyIndex = n]) /\ [t EXCEPT !.historyIndex = n].id = t.id
           /\ TabOK([t EXCEPT !.historyLength = n]) /\ [t EXCEPT !.historyLength = n].id = t.id
PROOF
<1>1. TabOK([t EXCEPT !.index = n]) /\ [t EXCEPT !.index = n].id = t.id
  BY DEF TabOK, Tab
<1>2. TabOK([t EXCEPT !.historyIndex = n]) /\ [t EXCEPT !.historyIndex = n].id = t.id
  BY DEF TabOK, Tab
<1>3. TabOK([t EXCEPT !.historyLength = n]) /\ [t EXCEPT !.historyLength = n].id = t.id
  BY DEF TabOK, Tab
<1> QED
  BY <1>1, <1>2, <1>3

LEMMA LengthOK ==
    ASSUME NEW t, TabOK(t), NEW n \in Nat, n > 0
    PROVE  TabOK([t EXCEPT !.length = n]) /\ [t EXCEPT !.length = n].id = t.id
PROOF
<1> DEFINE u == [t EXCEPT !.length = n]
<1>1. u \in Tab /\ u.id = t.id /\ u.entries = t.entries /\ u.at = t.at /\ u.length = n
  BY DEF TabOK, Tab
<1> QED
  BY <1>1 DEF TabOK

LEMMA MountedOK ==
    ASSUME NEW t, TabOK(t)
    PROVE  TabOK(Mounted(t)) /\ Mounted(t).id = t.id
PROOF
<1> DEFINE u == [t EXCEPT !.index = 0]
<1>1. TabOK(u) /\ u.id = t.id
  BY CountersOK
<1>2. Mounted(t) = [u EXCEPT !.length = 1]
  BY DEF Mounted
<1> HIDE DEF u
<1>3. TabOK([u EXCEPT !.length = 1]) /\ [u EXCEPT !.length = 1].id = u.id
  BY <1>1, LengthOK
<1> QED
  BY <1>1, <1>2, <1>3

LEMMA SyncedOK ==
    ASSUME NEW t, TabOK(t)
    PROVE  TabOK(Synced(t)) /\ Synced(t).id = t.id
BY DEF TabOK, Tab, Synced

LEMMA RecordedOK ==
    ASSUME NEW t, TabOK(t), NEW m \in Nat, NEW n \in Nat, n > 0
    PROVE  TabOK(Recorded(t, m, n)) /\ Recorded(t, m, n).id = t.id
PROOF
<1> DEFINE u == [Synced(t) EXCEPT !.index = m]
           v == [u EXCEPT !.length = n]
           w == [v EXCEPT !.historyIndex = m]
<1>1. TabOK(u) /\ u.id = t.id
  BY SyncedOK, CountersOK
<1>2. Recorded(t, m, n) = [w EXCEPT !.historyLength = n]
  BY DEF Recorded
<1> HIDE DEF u
<1>3. TabOK(v) /\ v.id = t.id
  BY <1>1, LengthOK
<1> HIDE DEF v
<1>4. TabOK(w) /\ w.id = t.id
  BY <1>3, CountersOK
<1> HIDE DEF w
<1>5. TabOK([w EXCEPT !.historyLength = n]) /\ [w EXCEPT !.historyLength = n].id = w.id
  BY <1>4, CountersOK
<1> QED
  BY <1>2, <1>4, <1>5

LEMMA PushedOK ==
    ASSUME NEW t, TabOK(t), NEW p \in Path
    PROVE  TabOK(Pushed(t, p)) /\ Pushed(t, p).id = t.id
PROOF
<1> DEFINE es == Append(SubSeq(t.entries, 1, t.at), p)
           n == t.at + 1
           u == [t EXCEPT !.entries = es]
           v == [u EXCEPT !.at = n]
<1>1. es \in Seq(Path) /\ Len(es) = n /\ n \in Nat /\ n > 0
  BY DEF TabOK, Tab
<1>2. Pushed(t, p) = v
  BY DEF Pushed
<1> HIDE DEF es, n
<1>3. u \in Tab /\ u.entries = es /\ u.id = t.id /\ u.length > 0
  BY <1>1 DEF TabOK, Tab
<1> HIDE DEF u
<1>4. v \in Tab /\ v.entries = es /\ v.at = n /\ v.id = t.id /\ v.length > 0
  BY <1>1, <1>3 DEF Tab
<1> HIDE DEF v
<1> QED
  BY <1>1, <1>2, <1>4 DEF TabOK

LEMMA ReplacedOK ==
    ASSUME NEW t, TabOK(t), NEW p \in Path
    PROVE  TabOK(Replaced(t, p)) /\ Replaced(t, p).id = t.id
PROOF
<1> DEFINE es == [t.entries EXCEPT ![t.at] = p]
<1>1. es \in Seq(Path) /\ Len(es) = Len(t.entries)
  BY DEF TabOK, Tab
<1>2. Replaced(t, p) = [t EXCEPT !.entries = es]
  BY DEF Replaced
<1> HIDE DEF es
<1> QED
  BY <1>1, <1>2 DEF TabOK, Tab

LEMMA WentOK ==
    ASSUME NEW t, TabOK(t), NEW by \in {-1, 1}, by = 1 => t.at < Len(t.entries)
    PROVE  TabOK(Went(t, by)) /\ Went(t, by).id = t.id
BY DEF Went, TabOK, Tab

LEMMA FollowedOK ==
    ASSUME NEW t, TabOK(t)
    PROVE  /\ TabOK(OnPush(t)) /\ OnPush(t).id = t.id
           /\ TabOK(OnReplace(t)) /\ OnReplace(t).id = t.id
           /\ TabOK(OnForward(t)) /\ OnForward(t).id = t.id
           /\ TabOK(OnBack(t)) /\ OnBack(t).id = t.id
PROOF
<1>1. t.index \in Nat /\ t.length \in Nat /\ t.length > 0
  BY DEF TabOK, Tab
<1>2. /\ t.index + 1 \in Nat /\ t.index + 2 \in Nat /\ t.index + 2 > 0
      /\ (IF t.index + 1 < t.length THEN t.index + 1 ELSE t.length - 1) \in Nat
      /\ (IF t.index > 0 THEN t.index - 1 ELSE 0) \in Nat
  BY <1>1
<1>3. TabOK(OnPush(t)) /\ OnPush(t).id = t.id
  BY <1>2, RecordedOK DEF OnPush
<1>4. TabOK(OnReplace(t)) /\ OnReplace(t).id = t.id
  BY <1>1, RecordedOK DEF OnReplace
<1>5. TabOK(OnForward(t)) /\ OnForward(t).id = t.id
  BY <1>1, <1>2, RecordedOK DEF OnForward
<1>6. TabOK(OnBack(t)) /\ OnBack(t).id = t.id
  BY <1>1, <1>2, RecordedOK DEF OnBack
<1> QED
  BY <1>3, <1>4, <1>5, <1>6
-----------------------------------------------------------------------------
(* A group *)

\* The tabs may change, as long as they keep their places and their ids.
LEMMA SameIdsOK ==
    ASSUME NEW g, GroupOK(g), NEW f, f \in [tabs : Seq(Tab), active : Ids],
           f.active = g.active, Len(f.tabs) = Len(g.tabs),
           \A i \in DOMAIN g.tabs : TabOK(f.tabs[i]) /\ f.tabs[i].id = g.tabs[i].id
    PROVE  GroupOK(f) /\ GroupIds(f) = GroupIds(g)
PROOF
<1>1. DOMAIN f.tabs = DOMAIN g.tabs
  BY DEF GroupOK
<1> QED
  BY <1>1 DEF GroupOK, GroupIds, ToSet

LEMMA GroupIsRecord ==
    ASSUME NEW ts, NEW id
    PROVE  Group(ts, id).tabs = ts /\ Group(ts, id).active = id
BY DEF Group

LEMMA RemountOK ==
    ASSUME NEW g, GroupOK(g)
    PROVE  GroupOK(Remount(g)) /\ GroupIds(Remount(g)) = GroupIds(g)
PROOF
<1> DEFINE ts == [i \in DOMAIN g.tabs |-> Mounted(g.tabs[i])]
<1>1. g \in [tabs : Seq(Tab), active : Ids] /\ \A i \in DOMAIN g.tabs : TabOK(g.tabs[i])
  BY DEF GroupOK
<1>2. \A i \in DOMAIN g.tabs : TabOK(ts[i]) /\ ts[i].id = g.tabs[i].id
  BY <1>1, MountedOK
<1>3. ts \in Seq(Tab) /\ Len(ts) = Len(g.tabs)
  BY <1>1, <1>2 DEF TabOK
<1>4. Remount(g) = [g EXCEPT !.tabs = ts]
  BY DEF Remount
<1> HIDE DEF ts
<1>5. /\ Remount(g) \in [tabs : Seq(Tab), active : Ids]
      /\ Remount(g).tabs = ts /\ Remount(g).active = g.active
  BY <1>1, <1>3, <1>4
<1> QED
  BY <1>2, <1>3, <1>5, SameIdsOK

\* The active tab of a group.
LEMMA TabAtOK ==
    ASSUME NEW g, GroupOK(g)
    PROVE  TabAt(g, g.active) \in DOMAIN g.tabs
BY DEF GroupOK, TabAt

LEMMA PutTabOK ==
    ASSUME NEW g, GroupOK(g), NEW i \in DOMAIN g.tabs, NEW t, TabOK(t), t.id = g.tabs[i].id
    PROVE  /\ GroupOK([g EXCEPT !.tabs[i] = t])
           /\ GroupIds([g EXCEPT !.tabs[i] = t]) = GroupIds(g)
PROOF
<1> DEFINE ts == [g.tabs EXCEPT ![i] = t]
           f == [g EXCEPT !.tabs = ts]
<1>1. g \in [tabs : Seq(Tab), active : Ids] /\ \A j \in DOMAIN g.tabs : TabOK(g.tabs[j])
  BY DEF GroupOK
<1>2. ts \in Seq(Tab) /\ Len(ts) = Len(g.tabs)
  BY <1>1 DEF TabOK
<1>3. \A j \in DOMAIN g.tabs : TabOK(ts[j]) /\ ts[j].id = g.tabs[j].id
  BY <1>1
<1>4. [g EXCEPT !.tabs[i] = t] = f
  OBVIOUS
<1> HIDE DEF ts
<1>5. f \in [tabs : Seq(Tab), active : Ids] /\ f.tabs = ts /\ f.active = g.active
  BY <1>1, <1>2
<1> QED
  BY <1>2, <1>3, <1>4, <1>5, SameIdsOK

LEMMA ShowOK ==
    ASSUME NEW g, GroupOK(g)
    PROVE  GroupOK(Show(g)) /\ GroupIds(Show(g)) = GroupIds(g)
PROOF
<1> DEFINE i == TabAt(g, g.active)
<1>1. i \in DOMAIN g.tabs /\ TabOK(g.tabs[i])
  BY TabAtOK DEF GroupOK
<1>2. Show(g) = [g EXCEPT !.tabs[i] = Synced(g.tabs[i])]
  BY DEF Show
<1> HIDE DEF i
<1> QED
  BY <1>1, <1>2, SyncedOK, PutTabOK

\* A group of tabs that are picked from another one.
LEMMA PickedOK ==
    ASSUME NEW g, GroupOK(g), NEW ts \in Seq(Tab), NEW f, Picks(ts, g.tabs, f), NEW id,
           \E k \in DOMAIN ts : ts[k].id = id
    PROVE  GroupOK(Group(ts, id)) /\ GroupIds(Group(ts, id)) \subseteq GroupIds(g)
PROOF
<1>1. \A k \in DOMAIN ts : f[k] \in DOMAIN g.tabs /\ ts[k] = g.tabs[f[k]]
  BY DEF Picks
<1>2. \A k \in DOMAIN ts : TabOK(ts[k])
  BY <1>1 DEF GroupOK
<1>3. id \in Ids
  BY <1>2 DEF TabOK, Tab
<1>4. Group(ts, id) \in [tabs : Seq(Tab), active : Ids]
  BY <1>3 DEF Group
<1>5. ASSUME NEW k \in DOMAIN ts, NEW l \in DOMAIN ts, ts[k].id = ts[l].id
      PROVE  k = l
  <2>1. g.tabs[f[k]].id = g.tabs[f[l]].id
    BY <1>1, <1>5
  <2>2. f[k] = f[l]
    BY <1>1, <2>1 DEF GroupOK
  <2> QED
    BY <2>2 DEF Picks
<1>6. GroupOK(Group(ts, id))
  BY <1>2, <1>4, <1>5, GroupIsRecord DEF GroupOK
<1>7. GroupIds(Group(ts, id)) \subseteq GroupIds(g)
  BY <1>1, GroupIsRecord DEF GroupIds, ToSet
<1> QED
  BY <1>6, <1>7

\* A group of new tabs, one for each tab of a sequence.
Made(ts, id) == Group([k \in DOMAIN ts |-> makeTab(ts[k].id, ts[k].path)], id)

LEMMA MadeOK ==
    ASSUME NEW T, NEW ts \in Seq(T), NEW id,
           \A k \in DOMAIN ts : ts[k].id \in Ids /\ ts[k].path \in Path,
           \A k, l \in DOMAIN ts : ts[k].id = ts[l].id => k = l,
           \E k \in DOMAIN ts : ts[k].id = id
    PROVE  /\ GroupOK(Made(ts, id))
           /\ GroupIds(Made(ts, id)) = {ts[k].id : k \in DOMAIN ts}
PROOF
<1> DEFINE us == [k \in DOMAIN ts |-> makeTab(ts[k].id, ts[k].path)]
<1>1. \A k \in DOMAIN ts : TabOK(us[k]) /\ us[k].id = ts[k].id
  BY MakeTabOK
<1>2. us \in Seq(Tab) /\ DOMAIN us = DOMAIN ts
  BY <1>1 DEF TabOK
<1> HIDE DEF us
<1>3. Group(us, id) \in [tabs : Seq(Tab), active : Ids]
  BY <1>2 DEF Group
<1>4. GroupOK(Group(us, id))
  BY <1>1, <1>2, <1>3, GroupIsRecord DEF GroupOK
<1>5. GroupIds(Group(us, id)) = {us[k].id : k \in DOMAIN us}
  BY GroupIsRecord DEF GroupIds, ToSet
<1>6. GroupIds(Group(us, id)) = {ts[k].id : k \in DOMAIN ts}
  BY <1>1, <1>2, <1>5
<1> QED
  BY <1>4, <1>6 DEF us, Made

\* A tab is opened beside those of a group.
LEMMA AppendOK ==
    ASSUME NEW g, GroupOK(g), NEW id \in Ids, id \notin GroupIds(g), NEW p \in Path
    PROVE  /\ GroupOK(Group(Append(g.tabs, makeTab(id, p)), id))
           /\ GroupIds(Group(Append(g.tabs, makeTab(id, p)), id)) = GroupIds(g) \cup {id}
PROOF
<1> DEFINE t == makeTab(id, p)
           ts == Append(g.tabs, t)
<1>1. g.tabs \in Seq(Tab) /\ TabOK(t) /\ t.id = id
  BY MakeTabOK DEF GroupOK
<1> HIDE DEF t
<1>2. /\ ts \in Seq(Tab) /\ DOMAIN ts = 1..(Len(g.tabs) + 1) /\ Len(g.tabs) \in Nat
      /\ DOMAIN g.tabs = 1..Len(g.tabs)
      /\ \A k \in DOMAIN g.tabs : ts[k] = g.tabs[k]
      /\ ts[Len(g.tabs) + 1] = t
  BY <1>1 DEF TabOK
<1> HIDE DEF ts
<1>3. \A k \in DOMAIN ts : TabOK(ts[k])
  BY <1>1, <1>2 DEF GroupOK
<1>4. \A k \in DOMAIN g.tabs : g.tabs[k].id # id
  BY DEF GroupIds, ToSet
<1>5. \A k, l \in DOMAIN ts : ts[k].id = ts[l].id => k = l
  BY <1>1, <1>2, <1>4 DEF GroupOK
<1>6. Group(ts, id) \in [tabs : Seq(Tab), active : Ids]
  BY <1>2 DEF Group
<1>7. GroupOK(Group(ts, id))
  <2>1. \E k \in DOMAIN ts : ts[k].id = id
    BY <1>1, <1>2
  <2> QED
    BY <1>3, <1>5, <1>6, <2>1, GroupIsRecord DEF GroupOK
<1>8. {ts[k].id : k \in DOMAIN ts} = {g.tabs[k].id : k \in DOMAIN g.tabs} \cup {id}
  BY <1>1, <1>2
<1>9. GroupIds(Group(ts, id)) = GroupIds(g) \cup {id}
  BY <1>8, GroupIsRecord DEF GroupIds, ToSet
<1> QED
  BY <1>7, <1>9 DEF t, ts

LEMMA SingleOK ==
    ASSUME NEW id \in Ids, NEW p \in Path
    PROVE  GroupOK(Group(<<makeTab(id, p)>>, id)) /\ GroupIds(Group(<<makeTab(id, p)>>, id)) = {id}
PROOF
<1> DEFINE t == makeTab(id, p)
<1>1. TabOK(t) /\ t.id = id /\ t \in Tab
  BY MakeTabOK DEF TabOK
<1> HIDE DEF t
<1>2. <<t>> \in Seq(Tab) /\ DOMAIN <<t>> = {1} /\ <<t>>[1] = t
  BY <1>1
<1>3. Group(<<t>>, id) \in [tabs : Seq(Tab), active : Ids]
  BY <1>2 DEF Group
<1>4. GroupOK(Group(<<t>>, id))
  BY <1>1, <1>2, <1>3, GroupIsRecord DEF GroupOK
<1>5. GroupIds(Group(<<t>>, id)) = {id}
  BY <1>1, <1>2, GroupIsRecord DEF GroupIds, ToSet
<1> QED
  BY <1>4, <1>5 DEF t
-----------------------------------------------------------------------------
(* The groups *)

\* The groups are sound after a step, with a tab for every id of S.
StoreKeeps(S) == StoreOK' /\ S \subseteq IdsOf(groups')

LEMMA IdsOfGroups ==
    ASSUME NEW gs
    PROVE  /\ \A s \in DOMAIN gs : GroupIds(gs[s]) \subseteq IdsOf(gs)
           /\ \A x \in IdsOf(gs) : \E s \in DOMAIN gs : x \in GroupIds(gs[s])
BY DEF IdsOf, TabsOf, GroupIds

LEMMA WithHas ==
    ASSUME NEW gs, NEW s, NEW f
    PROVE  /\ GroupIds(f) \subseteq IdsOf(With(gs, s, f))
           /\ \A r \in DOMAIN gs : r # s => GroupIds(gs[r]) \subseteq IdsOf(With(gs, s, f))
PROOF
<1>1. /\ DOMAIN With(gs, s, f) = DOMAIN gs \cup {s}
      /\ \A r \in DOMAIN gs \cup {s} : With(gs, s, f)[r] = IF r = s THEN f ELSE gs[r]
  BY DEF With
<1> QED
  BY <1>1, IdsOfGroups

LEMMA WithKeeps ==
    ASSUME NEW gs, NEW s, NEW f, s \in DOMAIN gs => GroupIds(gs[s]) \subseteq GroupIds(f)
    PROVE  IdsOf(gs) \subseteq IdsOf(With(gs, s, f))
BY WithHas, IdsOfGroups

\* Group f takes the place of that of s in gs, or comes to the groups.
LEMMA WithOK ==
    ASSUME NEW gs, GroupsOK(gs), NEW s \in Slugs, NEW f, GroupOK(f),
           \A r \in DOMAIN gs \ {s} : GroupIds(gs[r]) \cap GroupIds(f) = {}
    PROVE  GroupsOK(With(gs, s, f)) /\ DOMAIN With(gs, s, f) = DOMAIN gs \cup {s}
PROOF
<1>1. /\ DOMAIN With(gs, s, f) = DOMAIN gs \cup {s}
      /\ \A r \in DOMAIN gs \cup {s} : With(gs, s, f)[r] = IF r = s THEN f ELSE gs[r]
  BY DEF With
<1> QED
  BY <1>1 DEF GroupsOK

\* Its tabs are those that s had.
LEMMA WithinOK ==
    ASSUME NEW gs, GroupsOK(gs), NEW s \in DOMAIN gs, NEW f, GroupOK(f),
           GroupIds(f) \subseteq GroupIds(gs[s])
    PROVE  GroupsOK(With(gs, s, f)) /\ DOMAIN With(gs, s, f) = DOMAIN gs /\ s \in Slugs
PROOF
<1>1. s \in Slugs /\ \A r \in DOMAIN gs \ {s} : GroupIds(gs[r]) \cap GroupIds(f) = {}
  BY DEF GroupsOK
<1> QED
  BY <1>1, WithOK

LEMMA KeepOK ==
    ASSUME NEW gs, GroupsOK(gs), NEW S
    PROVE  GroupsOK(Keep(gs, S)) /\ DOMAIN Keep(gs, S) = DOMAIN gs \cap S
BY DEF GroupsOK, Keep

LEMMA FreshIsNew ==
    ASSUME NEW gs, NEW id \in Fresh(gs)
    PROVE  id \in Ids /\ \A r \in DOMAIN gs : id \notin GroupIds(gs[r])
BY DEF Fresh, IdsOf, TabsOf, GroupIds

\* Set synchronises the tab in front and mounts the others: no tab is lost.
LEMMA SetOK ==
    ASSUME NEW gs, GroupsOK(gs), NEW s \in DOMAIN gs \cup {None}, Set(gs, s)
    PROVE  StoreKeeps(IdsOf(gs)) /\ DOMAIN groups' = DOMAIN gs
PROOF
<1>1. CASE s = None
  BY <1>1 DEF Set, StoreOK, StoreKeeps
<1>2. CASE s # None
  <2> DEFINE g == IF s = active THEN gs[s] ELSE Remount(gs[s])
  <2>1. GroupOK(gs[s]) /\ s \in DOMAIN gs
    BY <1>2 DEF GroupsOK
  <2>2. GroupOK(g) /\ GroupIds(g) = GroupIds(gs[s])
    BY <2>1, RemountOK
  <2>3. groups' = With(gs, s, Show(g)) /\ active' = s
    BY <1>2 DEF Set
  <2> HIDE DEF g
  <2>4. GroupOK(Show(g)) /\ GroupIds(Show(g)) = GroupIds(gs[s])
    BY <2>2, ShowOK
  <2>5. IdsOf(gs) \subseteq IdsOf(With(gs, s, Show(g)))
    BY <2>4, WithKeeps
  <2> QED
    BY <2>1, <2>3, <2>4, <2>5, WithinOK DEF StoreOK, StoreKeeps
<1> QED
  BY <1>1, <1>2

LEMMA SetNothingOK ==
    ASSUME Set(<<>>, None)
    PROVE  StoreOK'
PROOF
<1>1. GroupsOK(<<>>)
  BY DEF GroupsOK
<1> QED
  BY <1>1, SetOK DEF StoreKeeps

\* A tab with a fresh id is added, in a group that may be new.
LEMMA OpenedOK ==
    ASSUME NEW gs, GroupsOK(gs), NEW s \in Slugs, NEW p \in Path, NEW id \in Fresh(gs)
    PROVE  /\ GroupsOK(Opened(gs, s, p, id)) /\ s \in DOMAIN Opened(gs, s, p, id)
           /\ IdsOf(gs) \subseteq IdsOf(Opened(gs, s, p, id))
PROOF
<1>1. id \in Ids /\ \A r \in DOMAIN gs : id \notin GroupIds(gs[r])
  BY FreshIsNew
<1>2. CASE s \in DOMAIN gs
  <2> DEFINE f == Group(Append(gs[s].tabs, makeTab(id, p)), id)
  <2>1. GroupOK(gs[s])
    BY <1>2 DEF GroupsOK
  <2>2. GroupOK(f) /\ GroupIds(f) = GroupIds(gs[s]) \cup {id}
    BY <1>1, <1>2, <2>1, AppendOK
  <2>3. Opened(gs, s, p, id) = With(gs, s, f)
    BY <1>2 DEF Opened
  <2> HIDE DEF f
  <2>4. \A r \in DOMAIN gs \ {s} : GroupIds(gs[r]) \cap GroupIds(f) = {}
    BY <1>1, <1>2, <2>2 DEF GroupsOK
  <2>5. GroupsOK(With(gs, s, f)) /\ DOMAIN With(gs, s, f) = DOMAIN gs \cup {s}
    BY <2>2, <2>4, WithOK
  <2>6. IdsOf(gs) \subseteq IdsOf(With(gs, s, f))
    BY <2>2, WithKeeps
  <2> QED
    BY <2>3, <2>5, <2>6
<1>3. CASE s \notin DOMAIN gs
  <2> DEFINE f == Group(<<makeTab(id, p)>>, id)
  <2>1. GroupOK(f) /\ GroupIds(f) = {id}
    BY <1>1, SingleOK
  <2>2. Opened(gs, s, p, id) = With(gs, s, f)
    BY <1>3 DEF Opened
  <2> HIDE DEF f
  <2>3. \A r \in DOMAIN gs \ {s} : GroupIds(gs[r]) \cap GroupIds(f) = {}
    BY <1>1, <2>1
  <2>4. GroupsOK(With(gs, s, f)) /\ DOMAIN With(gs, s, f) = DOMAIN gs \cup {s}
    BY <2>1, <2>3, WithOK
  <2>5. IdsOf(gs) \subseteq IdsOf(With(gs, s, f))
    BY <1>3, WithKeeps
  <2> QED
    BY <2>2, <2>4, <2>5
<1> QED
  BY <1>2, <1>3

LEMMA InFrontOfOK ==
    ASSUME NEW gs, GroupsOK(gs), NEW s \in DOMAIN gs, NEW i \in DOMAIN gs[s].tabs
    PROVE  /\ GroupsOK(InFrontOf(gs, s, i)) /\ s \in DOMAIN InFrontOf(gs, s, i)
           /\ IdsOf(gs) \subseteq IdsOf(InFrontOf(gs, s, i))
PROOF
<1> DEFINE g == gs[s]
           f == Group(g.tabs, g.tabs[i].id)
<1>1. GroupOK(g) /\ g.tabs \in Seq(Tab)
  BY DEF GroupsOK, GroupOK
<1>2. Picks(g.tabs, g.tabs, [k \in DOMAIN g.tabs |-> k])
  BY DEF Picks
<1>3. GroupOK(f) /\ GroupIds(f) \subseteq GroupIds(g)
  BY <1>1, <1>2, PickedOK
<1>5. GroupIds(g) \subseteq GroupIds(f)
  BY GroupIsRecord DEF GroupIds
<1>4. InFrontOf(gs, s, i) = With(gs, s, f)
  BY DEF InFrontOf
<1> HIDE DEF f
<1>6. IdsOf(gs) \subseteq IdsOf(With(gs, s, f))
  BY <1>5, WithKeeps
<1> QED
  BY <1>3, <1>4, <1>6, WithinOK

\* A group gets one new tab in the place of its tabs: with a fresh id, or with
\* one that it had.
LEMMA AloneOK ==
    ASSUME NEW gs, GroupsOK(gs), NEW s \in DOMAIN gs, NEW p \in Path,
           NEW id \in Fresh(gs) \cup {gs[s].active}
    PROVE  GroupsOK(Alone(gs, s, p, id)) /\ s \in DOMAIN Alone(gs, s, p, id)
PROOF
<1>1. GroupOK(gs[s]) /\ s \in Slugs
  BY DEF GroupsOK
<1>2. gs[s].active \in GroupIds(gs[s]) /\ gs[s].active \in Ids
  BY <1>1 DEF GroupOK, GroupIds, ToSet
<1>3. id \in Ids /\ \A r \in DOMAIN gs \ {s} : id \notin GroupIds(gs[r])
  BY <1>2, FreshIsNew DEF GroupsOK
<1> DEFINE f == Group(<<makeTab(id, p)>>, id)
<1>4. GroupOK(f) /\ GroupIds(f) = {id}
  BY <1>3, SingleOK
<1>5. Alone(gs, s, p, id) = With(gs, s, f)
  BY DEF Alone
<1> HIDE DEF f
<1>6. \A r \in DOMAIN gs \ {s} : GroupIds(gs[r]) \cap GroupIds(f) = {}
  BY <1>3, <1>4
<1>7. GroupsOK(With(gs, s, f)) /\ DOMAIN With(gs, s, f) = DOMAIN gs \cup {s}
  BY <1>1, <1>4, <1>6, WithOK
<1> QED
  BY <1>5, <1>7

-----------------------------------------------------------------------------
(* The store's operations *)

LEMMA MatchesOK ==
    ASSUME NEW g, GroupOK(g), NEW p, Matches(g, p) # {}
    PROVE  First(Matches(g, p)) \in DOMAIN g.tabs
PROOF
<1>1. Matches(g, p) \in SUBSET DOMAIN g.tabs /\ g.tabs \in Seq(Tab)
  BY DEF Matches, GroupOK
<1> QED
  BY <1>1, IndicesAreFinite, FirstIsIn

\* What each operation of tab-store.ts leaves: sound groups, with all tabs but
\* the closed one and those of the workspaces that are not valid.
LEMMA SwitchOK ==
    ASSUME NEW gs, GroupsOK(gs), NEW p \in Path, p.slug \in Slugs, switchWorkspace(gs, p)
    PROVE  StoreKeeps(IdsOf(gs))
PROOF
<1> DEFINE s == p.slug
<1>1. CASE s \in DOMAIN gs /\ Matches(gs[s], p) # {}
  <2>1. First(Matches(gs[s], p)) \in DOMAIN gs[s].tabs
    BY <1>1, MatchesOK DEF GroupsOK
  <2>2. Set(InFrontOf(gs, s, First(Matches(gs[s], p))), s)
    BY <1>1 DEF switchWorkspace
  <2> QED
    BY <1>1, <2>1, <2>2, InFrontOfOK, SetOK DEF StoreKeeps
<1>2. CASE ~(s \in DOMAIN gs /\ Matches(gs[s], p) # {})
  <2>1. PICK id \in Fresh(gs) : Set(Opened(gs, s, p, id), s)
    BY <1>2 DEF switchWorkspace
  <2>2. /\ GroupsOK(Opened(gs, s, p, id)) /\ s \in DOMAIN Opened(gs, s, p, id)
        /\ IdsOf(gs) \subseteq IdsOf(Opened(gs, s, p, id))
    BY OpenedOK
  <2> QED
    BY <2>1, <2>2, SetOK DEF StoreKeeps
<1> QED
  BY <1>1, <1>2

\* The active group.
LEMMA ActiveOK ==
    ASSUME StoreOK, active # None
    PROVE  /\ GroupsOK(groups) /\ active \in DOMAIN groups /\ active \in Slugs
           /\ GroupOK(groups[active])
           /\ FrontIndex \in DOMAIN groups[active].tabs
           /\ TabOK(FrontTab)
PROOF
<1>1. GroupsOK(groups) /\ active \in DOMAIN groups
  BY DEF StoreOK
<1>2. active \in Slugs /\ GroupOK(groups[active])
  BY <1>1 DEF GroupsOK
<1>3. FrontIndex \in DOMAIN groups[active].tabs
  BY <1>2, TabAtOK DEF FrontIndex
<1>4. TabOK(groups[active].tabs[FrontIndex])
  BY <1>2, <1>3 DEF GroupOK
<1> QED
  BY <1>1, <1>2, <1>3, <1>4 DEF FrontTab, FrontIndex

LEMMA AddTabOK ==
    ASSUME StoreOK, active # None, NEW p \in Path, addTab(p)
    PROVE  StoreKeeps(IdsOf(groups))
PROOF
<1>1. PICK id \in Fresh(groups) : Set(Opened(groups, active, p, id), active)
  BY DEF addTab
<1>2. /\ GroupsOK(Opened(groups, active, p, id))
      /\ active \in DOMAIN Opened(groups, active, p, id)
      /\ IdsOf(groups) \subseteq IdsOf(Opened(groups, active, p, id))
  BY ActiveOK, OpenedOK
<1> QED
  BY <1>1, <1>2, SetOK DEF StoreKeeps

LEMMA OpenTabOK ==
    ASSUME StoreOK, active # None, NEW p \in Path, openTab(p)
    PROVE  StoreKeeps(IdsOf(groups))
PROOF
<1> DEFINE hits == Matches(groups[active], p)
<1>1. CASE hits # {}
  <2>1. First(hits) \in DOMAIN groups[active].tabs
    BY <1>1, ActiveOK, MatchesOK
  <2>2. Set(InFrontOf(groups, active, First(hits)), active)
    BY <1>1 DEF openTab
  <2> QED
    BY <2>1, <2>2, ActiveOK, InFrontOfOK, SetOK DEF StoreKeeps
<1>2. CASE hits = {}
  BY <1>2, AddTabOK DEF openTab, addTab
<1> QED
  BY <1>1, <1>2

LEMMA ActivateOK ==
    ASSUME StoreOK, active # None, NEW i \in DOMAIN groups[active].tabs,
           Set(With(groups, active, Group(groups[active].tabs, groups[active].tabs[i].id)), active)
    PROVE  StoreKeeps(IdsOf(groups))
PROOF
<1>1. Set(InFrontOf(groups, active, i), active)
  BY DEF InFrontOf
<1> QED
  BY <1>1, ActiveOK, InFrontOfOK, SetOK DEF StoreKeeps

\* The tabs of the active group become ts: those it had, but for the ones in S.
LEMMA RearrangeOK ==
    ASSUME StoreOK, active # None, NEW ts \in Seq(Tab), NEW id,
           NEW f, NEW S, PicksAllBut(ts, groups[active].tabs, f, S),
           \E k \in DOMAIN ts : ts[k].id = id,
           Set(With(groups, active, Group(ts, id)), active)
    PROVE  StoreKeeps({x \in IdsOf(groups) : \A k \in S : x # groups[active].tabs[k].id})
PROOF
<1>1. GroupOK(Group(ts, id)) /\ GroupIds(Group(ts, id)) \subseteq GroupIds(groups[active])
  BY ActiveOK, PickedOK DEF PicksAllBut
<1>2. /\ GroupsOK(With(groups, active, Group(ts, id)))
      /\ active \in DOMAIN With(groups, active, Group(ts, id))
  BY <1>1, ActiveOK, WithinOK
<1>3. ASSUME NEW x \in IdsOf(groups), \A k \in S : x # groups[active].tabs[k].id
      PROVE  x \in IdsOf(With(groups, active, Group(ts, id)))
  <2>1. PICK s \in DOMAIN groups : x \in GroupIds(groups[s])
    BY IdsOfGroups
  <2>2. CASE s = active
    <3>1. PICK m \in DOMAIN groups[active].tabs : groups[active].tabs[m].id = x
      BY <2>1, <2>2 DEF GroupIds, ToSet
    <3>2. PICK k \in DOMAIN ts : f[k] = m
      BY <1>3, <3>1 DEF PicksAllBut
    <3>3. ts[k].id = x
      BY <3>1, <3>2 DEF PicksAllBut, Picks
    <3>4. x \in GroupIds(Group(ts, id))
      BY <3>2, <3>3, GroupIsRecord DEF GroupIds, ToSet
    <3> QED
      BY <3>4, WithHas
  <2>3. CASE s # active
    BY <2>1, <2>3, WithHas
  <2> QED
    BY <2>2, <2>3
<1> QED
  BY <1>2, <1>3, SetOK DEF StoreKeeps

LEMMA CloseOK ==
    ASSUME StoreOK, active # None, NEW i \in DOMAIN groups[active].tabs, closeTab(i)
    PROVE  StoreKeeps({x \in IdsOf(groups) : x # groups[active].tabs[i].id})
PROOF
<1> DEFINE g == groups[active]
           rest == RemoveAt(g.tabs, i)
           k == IF i <= Len(rest) THEN i ELSE Len(rest)
           id == IF g.active = g.tabs[i].id THEN rest[k].id ELSE g.active
<1>1. GroupOK(g) /\ g.tabs \in Seq(Tab)
  BY ActiveOK DEF GroupOK
<1>2. CASE Len(g.tabs) = 1
  <2>1. PICK x \in Fresh(groups) \cup {g.active} :
           Set(Alone(groups, active, defaultPathFor(active), x), active)
    BY <1>2 DEF closeTab
  <2>2. defaultPathFor(active) \in Path
    BY ActiveOK, PathsOK
  <2>3. ASSUME NEW y \in IdsOf(groups), y # g.tabs[i].id
        PROVE  y \in IdsOf(Alone(groups, active, defaultPathFor(active), x))
    <3>1. PICK s \in DOMAIN groups : y \in GroupIds(groups[s])
      BY IdsOfGroups
    <3>2. DOMAIN g.tabs = {i}
      BY <1>1, <1>2
    <3>3. s # active
      BY <2>3, <3>1, <3>2 DEF GroupIds, ToSet
    <3> QED
      BY <3>1, <3>3, WithHas DEF Alone
  <2>4. /\ GroupsOK(Alone(groups, active, defaultPathFor(active), x))
        /\ active \in DOMAIN Alone(groups, active, defaultPathFor(active), x)
    BY <2>2, ActiveOK, AloneOK
  <2> QED
    BY <2>1, <2>3, <2>4, SetOK DEF StoreKeeps
<1>3. CASE Len(g.tabs) # 1
  <2>1. Set(With(groups, active, Group(rest, id)), active)
    BY <1>3 DEF closeTab
  <2>2. rest \in Seq(Tab) /\ Len(rest) = Len(g.tabs) - 1
    BY <1>1, RemovedPicks
  <2>3. PICK f : PicksAllBut(rest, g.tabs, f, {i})
    <3>1. g.tabs \in Seq(Tab) /\ i \in DOMAIN g.tabs
      BY <1>1
    <3> HIDE DEF id, k, g
    <3> QED
      BY <3>1, RemovedPicks
  <2>4. k \in DOMAIN rest
    <3>1. Len(g.tabs) \in Nat /\ i \in 1..Len(g.tabs)
      BY <1>1
    <3>2. DOMAIN rest = 1..Len(rest)
      BY <2>2
    <3> DEFINE n == Len(g.tabs)
               m == Len(rest)
    <3>3. n \in Nat /\ i \in 1..n /\ n # 1 /\ m = n - 1
      BY <1>3, <2>2, <3>1
    <3> HIDE DEF n, m
    <3>4. m \in Nat /\ m > 0 /\ (IF i <= m THEN i ELSE m) \in 1..m
      BY <3>3
    <3> QED
      BY <3>2, <3>4 DEF m
  <2>5. \E l \in DOMAIN rest : rest[l].id = id
    <3>1. CASE g.active = g.tabs[i].id
      BY <2>4, <3>1
    <3>2. CASE g.active # g.tabs[i].id
      <4>1. PICK m \in DOMAIN g.tabs : g.tabs[m].id = g.active
        BY <1>1 DEF GroupOK
      <4>2. PICK l \in DOMAIN rest : f[l] = m
        <5>1. m \notin {i}
          BY <3>2, <4>1
        <5> QED
          BY <2>3, <5>1 DEF PicksAllBut
      <4>3. rest[l] = g.tabs[m]
        BY <2>3, <4>2 DEF PicksAllBut, Picks
      <4> QED
        BY <3>2, <4>1, <4>3
    <3> QED
      BY <3>1, <3>2
  <2> HIDE DEF id, rest
  <2> QED
    BY <2>1, <2>2, <2>3, <2>5, RearrangeOK DEF StoreKeeps
<1> QED
  BY <1>2, <1>3

LEMMA MoveOK ==
    ASSUME StoreOK, active # None,
           NEW i \in DOMAIN groups[active].tabs, NEW j \in DOMAIN groups[active].tabs,
           Set(With(groups, active,
                    Group(InsertAt(RemoveAt(groups[active].tabs, i), j, groups[active].tabs[i]),
                          groups[active].active)), active)
    PROVE  StoreKeeps(IdsOf(groups))
PROOF
<1> DEFINE g == groups[active]
           ts == InsertAt(RemoveAt(g.tabs, i), j, g.tabs[i])
<1>1. GroupOK(g) /\ g.tabs \in Seq(Tab)
  BY ActiveOK DEF GroupOK
<1>2. ts \in Seq(Tab)
  BY <1>1, MovedPicks
<1>3. PICK f : PicksAllBut(ts, g.tabs, f, {})
  BY <1>1, MovedPicks
<1>4. \E k \in DOMAIN ts : ts[k].id = g.active
  <2>1. PICK m \in DOMAIN g.tabs : g.tabs[m].id = g.active
    BY <1>1 DEF GroupOK
  <2>2. PICK k \in DOMAIN ts : f[k] = m
    BY <1>3, <2>1 DEF PicksAllBut
  <2> QED
    BY <1>3, <2>1, <2>2 DEF PicksAllBut, Picks
<1>5. Set(With(groups, active, Group(ts, g.active)), active)
  OBVIOUS
<1> HIDE DEF ts
<1> QED
  BY <1>2, <1>3, <1>4, <1>5, RearrangeOK DEF StoreKeeps

LEMMA ValidateOK ==
    ASSUME StoreOK, NEW valid \in SUBSET Slugs, Validate(valid)
    PROVE  StoreKeeps(IdsOf(Keep(groups, valid)))
PROOF
<1> DEFINE kept == Keep(groups, valid)
<1>1. GroupsOK(kept) /\ DOMAIN kept = DOMAIN groups \cap valid
  BY KeepOK DEF StoreOK
<1>2. active # None => active \in DOMAIN groups
  BY DEF StoreOK
<1>3. \/ \E s \in DOMAIN kept \cup {None} : Set(kept, s)
      \/ \E s \in valid : \E id \in Fresh(kept) : Set(Opened(kept, s, defaultPathFor(s), id), s)
  BY <1>1, <1>2 DEF Validate
<1> HIDE DEF kept
<1>4. ASSUME NEW s \in valid, NEW id \in Fresh(kept), Set(Opened(kept, s, defaultPathFor(s), id), s)
      PROVE  StoreKeeps(IdsOf(kept))
  <2>1. s \in Slugs /\ defaultPathFor(s) \in Path
    BY PathsOK
  <2>2. /\ GroupsOK(Opened(kept, s, defaultPathFor(s), id))
        /\ s \in DOMAIN Opened(kept, s, defaultPathFor(s), id)
        /\ IdsOf(kept) \subseteq IdsOf(Opened(kept, s, defaultPathFor(s), id))
    BY <1>1, <2>1, OpenedOK
  <2> QED
    BY <1>4, <2>2, SetOK DEF StoreKeeps
<1>5. StoreKeeps(IdsOf(kept))
  BY <1>1, <1>3, <1>4, SetOK
<1> QED
  BY <1>5 DEF kept

-----------------------------------------------------------------------------
(* The routers and the navigation adapter *)

\* A tab is replaced by one with its id.
LEMMA PutOK ==
    ASSUME StoreOK, NEW s \in DOMAIN groups, NEW i \in DOMAIN groups[s].tabs,
           NEW t, TabOK(t), t.id = groups[s].tabs[i].id,
           groups' = PutTab(groups, s, i, t), active' = active
    PROVE  StoreKeeps(IdsOf(groups))
PROOF
<1> DEFINE f == [groups[s] EXCEPT !.tabs[i] = t]
<1>1. GroupsOK(groups) /\ GroupOK(groups[s])
  BY DEF StoreOK, GroupsOK
<1>2. GroupOK(f) /\ GroupIds(f) = GroupIds(groups[s])
  BY <1>1, PutTabOK
<1>3. groups' = [groups EXCEPT ![s] = f]
  BY DEF PutTab
<1> HIDE DEF f
<1>4. /\ DOMAIN groups' = DOMAIN groups
      /\ \A r \in DOMAIN groups : groups'[r] = IF r = s THEN f ELSE groups[r]
  BY <1>3
<1>5. GroupsOK(groups')
  BY <1>1, <1>2, <1>4 DEF GroupsOK
<1>6. IdsOf(groups) \subseteq IdsOf(groups')
  BY <1>2, <1>4, IdsOfGroups
<1> QED
  BY <1>4, <1>5, <1>6 DEF StoreOK, StoreKeeps

LEMMA RouterOK ==
    ASSUME StoreOK, NEW s \in DOMAIN groups, NEW i \in DOMAIN groups[s].tabs, NEW p \in Path,
           RouterPush(s, i, p) \/ RouterReplace(s, i, p)
    PROVE  StoreKeeps(IdsOf(groups))
PROOF
<1>1. TabOK(groups[s].tabs[i])
  BY DEF StoreOK, GroupsOK, GroupOK
<1>2. CASE RouterPush(s, i, p)
  <2> DEFINE t == Pushed(groups[s].tabs[i], p)
             u == IF InFront(s, i) THEN OnPush(t) ELSE t
  <2>1. TabOK(t) /\ t.id = groups[s].tabs[i].id
    BY <1>1, PushedOK
  <2>2. groups' = PutTab(groups, s, i, u) /\ active' = active
    BY <1>2 DEF RouterPush
  <2> HIDE DEF t
  <2>3. TabOK(u) /\ u.id = groups[s].tabs[i].id
    BY <2>1, FollowedOK
  <2> HIDE DEF u
  <2> QED
    BY <2>2, <2>3, PutOK
<1>3. CASE RouterReplace(s, i, p)
  <2> DEFINE t == Replaced(groups[s].tabs[i], p)
             u == IF InFront(s, i) THEN OnReplace(t) ELSE t
  <2>1. TabOK(t) /\ t.id = groups[s].tabs[i].id
    BY <1>1, ReplacedOK
  <2>2. groups' = PutTab(groups, s, i, u) /\ active' = active
    BY <1>3 DEF RouterReplace
  <2> HIDE DEF t
  <2>3. TabOK(u) /\ u.id = groups[s].tabs[i].id
    BY <2>1, FollowedOK
  <2> HIDE DEF u
  <2> QED
    BY <2>2, <2>3, PutOK
<1> QED
  BY <1>2, <1>3

LEMMA PushOK ==
    ASSUME StoreOK, NEW s \in DOMAIN groups, NEW i \in DOMAIN groups[s].tabs,
           NEW p \in Path, p.slug \in Slugs, Push(s, i, p)
    PROVE  StoreKeeps(IdsOf(groups)) /\ overlay' = "none"
BY SwitchOK, RouterOK DEF Push, StoreOK

LEMMA StoreStays ==
    ASSUME StoreOK, UNCHANGED store
    PROVE  StoreKeeps(IdsOf(groups))
BY DEF store, StoreOK, StoreKeeps

LEMMA PushOverlayOK ==
    ASSUME StoreOK, NEW s \in DOMAIN groups, NEW i \in DOMAIN groups[s].tabs, NEW o,
           PushOverlay(s, i, o)
    PROVE  StoreKeeps(IdsOf(groups)) /\ overlay' = o
PROOF
<1>1. CASE UNCHANGED store
  BY <1>1, StoreStays DEF PushOverlay
<1>2. CASE RouterReplace(s, i, Root)
  BY <1>2, RouterOK, PathsOK DEF PushOverlay
<1> QED
  BY <1>1, <1>2 DEF PushOverlay

LEMMA ShellPushOK ==
    ASSUME StoreOK, NEW p \in Path, p.slug \in Slugs, ShellPush(p)
    PROVE  StoreKeeps(IdsOf(groups)) /\ overlay' = "none"
PROOF
<1>1. CASE SomeFront
  <2>1. active \in DOMAIN groups /\ FrontIndex \in DOMAIN groups[active].tabs
    BY <1>1, ActiveOK DEF SomeFront
  <2> QED
    BY <1>1, <2>1, PushOK DEF ShellPush
<1>2. CASE ~SomeFront
  BY <1>2, SwitchOK DEF ShellPush, StoreOK
<1> QED
  BY <1>1, <1>2

LEMMA DestinationOK ==
    ASSUME StoreOK, NEW S \in SUBSET Slugs, ShellPushDestination(S)
    PROVE  StoreKeeps(IdsOf(groups)) /\ overlay' \in Overlays
PROOF
<1>1. CASE \E s \in S : ShellPush(defaultPathFor(s))
  BY <1>1, ShellPushOK, PathsOK DEF Overlays
<1>2. ASSUME NEW o \in {"onboarding", "new-workspace"}, SomeFront,
             PushOverlay(active, FrontIndex, o)
      PROVE  StoreKeeps(IdsOf(groups)) /\ overlay' \in Overlays
  <2>1. active \in DOMAIN groups /\ FrontIndex \in DOMAIN groups[active].tabs
    BY <1>2, ActiveOK DEF SomeFront
  <2> QED
    BY <1>2, <2>1, PushOverlayOK DEF Overlays
<1>3. CASE overlay' \in {"onboarding", "new-workspace"} /\ UNCHANGED store
  BY <1>3, StoreStays DEF Overlays
<1> QED
  BY <1>1, <1>2, <1>3 DEF ShellPushDestination

-----------------------------------------------------------------------------
(* The groups that are stored, on a launch *)

\* The group of workspace s that is made of the tabs of ts, with the tab of id a
\* in front if it is there.
Rebuilt(ts, s, a) ==
    LET r == OfWorkspace(ts, s)
    IN  Made(r, IF \E k \in DOMAIN r : r[k].id = a THEN a ELSE r[1].id)

LEMMA RebuiltOK ==
    ASSUME NEW T, NEW ts \in Seq(T), NEW s, NEW a,
           \A i \in DOMAIN ts : ts[i].id \in Ids /\ ts[i].path \in Path,
           \A i, j \in DOMAIN ts : ts[i].id = ts[j].id => i = j,
           \E i \in DOMAIN ts : ts[i].path.slug = s
    PROVE  /\ GroupOK(Rebuilt(ts, s, a))
           /\ \A x \in GroupIds(Rebuilt(ts, s, a)) :
                 \E i \in DOMAIN ts : ts[i].id = x /\ ts[i].path.slug = s
           /\ \A i \in DOMAIN ts : ts[i].path.slug = s => ts[i].id \in GroupIds(Rebuilt(ts, s, a))
PROOF
<1> DEFINE r == OfWorkspace(ts, s)
           id == IF \E k \in DOMAIN r : r[k].id = a THEN a ELSE r[1].id
           g == Made(r, id)
<1>1. /\ r \in Seq(T)
      /\ \A k \in DOMAIN r : r[k].path.slug = s
      /\ \A k \in DOMAIN r : \E i \in DOMAIN ts : r[k] = ts[i]
      /\ \A k, l \in DOMAIN r : r[k].id = r[l].id => k = l
      /\ \A i \in DOMAIN ts : ts[i].path.slug = s => \E k \in DOMAIN r : r[k] = ts[i]
  BY OfWorkspaceIsFilter
<1> HIDE DEF r
<1>2. \E k \in DOMAIN r : r[k].id = id
  <2>1. PICK k \in DOMAIN r : TRUE
    BY <1>1
  <2>2. 1 \in DOMAIN r
    BY <1>1, <2>1
  <2> QED
    BY <2>2
<1>3. \A k \in DOMAIN r : r[k].id \in Ids /\ r[k].path \in Path
  BY <1>1
<1> HIDE DEF id
<1>4. GroupOK(g) /\ GroupIds(g) = {r[k].id : k \in DOMAIN r}
  <2>1. r \in Seq(T)
    BY <1>1
  <2>2. \A k, l \in DOMAIN r : r[k].id = r[l].id => k = l
    BY <1>1
  <2> QED
    BY <1>2, <1>3, <2>1, <2>2, MadeOK
<1>5. g = Rebuilt(ts, s, a)
  BY DEF Rebuilt, r, id
<1> HIDE DEF g
<1>6. ASSUME NEW x \in GroupIds(g)
      PROVE  \E i \in DOMAIN ts : ts[i].id = x /\ ts[i].path.slug = s
  BY <1>1, <1>4, <1>6
<1>7. ASSUME NEW i \in DOMAIN ts, ts[i].path.slug = s
      PROVE  ts[i].id \in GroupIds(g)
  BY <1>1, <1>4, <1>7
<1> QED
  BY <1>4, <1>5, <1>6, <1>7

\* A launch keeps the tabs whose path is of their workspace.
LEMMA MergedOK ==
    ASSUME StoreOK, NEW s \in Survive
    PROVE  /\ GroupOK(Merged(s)) /\ GroupIds(Merged(s)) \subseteq GroupIds(groups[s])
           /\ \A t \in ToSet(groups[s].tabs) : t.path.slug = s => t.id \in GroupIds(Merged(s))
PROOF
<1> DEFINE g == groups[s]
<1>1. s \in DOMAIN groups /\ GroupOK(g)
  BY DEF StoreOK, GroupsOK, Survive
<1>2. /\ g.tabs \in Seq(Tab)
      /\ \A i \in DOMAIN g.tabs : g.tabs[i].id \in Ids /\ g.tabs[i].path \in Path
      /\ \A i, j \in DOMAIN g.tabs : g.tabs[i].id = g.tabs[j].id => i = j
  BY <1>1 DEF GroupOK, TabOK, Tab
<1>3. \E i \in DOMAIN g.tabs : g.tabs[i].path.slug = s
  BY DEF Survive, ToSet
<1>4. Merged(s) = Rebuilt(g.tabs, s, g.active)
  BY DEF Merged, Rebuilt, Made, ToSet
<1> HIDE DEF g
<1>5. /\ GroupOK(Rebuilt(g.tabs, s, g.active))
      /\ \A x \in GroupIds(Rebuilt(g.tabs, s, g.active)) :
            \E i \in DOMAIN g.tabs : g.tabs[i].id = x
      /\ \A i \in DOMAIN g.tabs : g.tabs[i].path.slug = s =>
            g.tabs[i].id \in GroupIds(Rebuilt(g.tabs, s, g.active))
  BY <1>2, <1>3, RebuiltOK
<1>6. \A i \in DOMAIN g.tabs : g.tabs[i].id \in GroupIds(g)
  BY DEF GroupIds, ToSet
<1>7. \A t \in ToSet(g.tabs) : t.path.slug = s => t.id \in GroupIds(Merged(s))
  BY <1>4, <1>5 DEF ToSet
<1> QED
  BY <1>4, <1>5, <1>6, <1>7 DEF g

LEMMA RelaunchOK ==
    ASSUME StoreOK, Relaunch
    PROVE  /\ StoreOK'
           /\ \A s \in DOMAIN groups : \A t \in ToSet(groups[s].tabs) :
                 t.path.slug = s => t.id \in IdsOf(groups')
PROOF
<1>1. CASE Survive = {}
  <2>1. StoreOK'
    BY <1>1, SetNothingOK DEF Relaunch, Set
  <2> QED
    BY <1>1, <2>1 DEF Survive
<1>2. CASE Survive # {}
  <2> DEFINE gs == [s \in Survive |-> Merged(s)]
  <2>1. groups' = gs /\ active' \in Survive
    BY <1>2 DEF Relaunch
  <2>2. Survive \subseteq DOMAIN groups /\ DOMAIN groups \subseteq Slugs
    BY DEF Survive, StoreOK, GroupsOK
  <2>3. \A s, r \in Survive : s # r => GroupIds(groups[s]) \cap GroupIds(groups[r]) = {}
    BY <2>2 DEF StoreOK, GroupsOK
  <2>4. GroupsOK(gs)
    BY <2>2, <2>3, MergedOK DEF GroupsOK
  <2>5. ASSUME NEW s \in DOMAIN groups, NEW t \in ToSet(groups[s].tabs), t.path.slug = s
        PROVE  t.id \in IdsOf(gs)
    <3>1. s \in Survive
      BY <2>5 DEF Survive
    <3>2. t.id \in GroupIds(gs[s])
      BY <2>5, <3>1, MergedOK
    <3> HIDE DEF gs
    <3>3. s \in DOMAIN gs
      BY <3>1 DEF gs
    <3> QED
      BY <3>2, <3>3, IdsOfGroups
  <2> QED
    BY <2>1, <2>4, <2>5 DEF StoreOK
<1> QED
  BY <1>1, <1>2

\* An upgrade finds the ids of the flat list, which are unique there.
LEMMA MigratedOK ==
    ASSUME NEW v1 \in V1States
    PROVE  GroupsOK(migrateV1ToV2(v1))
PROOF
<1> DEFINE ts == v1.tabs
           gs == migrateV1ToV2(v1)
           T == [id : Ids, path : Path]
<1>1. /\ ts \in Seq(T)
      /\ \A i, j \in DOMAIN ts : ts[i].id = ts[j].id => i = j
  <2>1. PICK n \in 0..2 : ts \in [1..n -> T]
    BY DEF V1States
  <2>2. ts \in Seq(T)
    <3> HIDE DEF ts, T
    <3> QED
      BY <2>1
  <2> QED
    BY <2>2 DEF V1States
<1>2. \A i \in DOMAIN ts : ts[i].id \in Ids /\ ts[i].path \in Path
  <2> HIDE DEF ts, T
  <2>1. \A i \in DOMAIN ts : ts[i] \in T
    BY <1>1
  <2> QED
    BY <2>1 DEF T
<1>3. DOMAIN gs = {ts[i].path.slug : i \in DOMAIN ts} \ {None}
  BY DEF migrateV1ToV2, ToSet
<1>4. ASSUME NEW s \in DOMAIN gs
      PROVE  gs[s] = Rebuilt(ts, s, v1.active)
  BY DEF migrateV1ToV2, Rebuilt, Made, ToSet
<1> HIDE DEF gs, ts
<1>5. \A p \in Path : p.slug = None \/ p.slug \in Slugs
  BY DEF Path
<1>6. DOMAIN gs \subseteq Slugs
  BY <1>2, <1>3, <1>5
<1>7. ASSUME NEW s \in DOMAIN gs
      PROVE  /\ GroupOK(gs[s])
             /\ \A x \in GroupIds(gs[s]) : \E i \in DOMAIN ts : ts[i].id = x /\ ts[i].path.slug = s
  <2>1. \E i \in DOMAIN ts : ts[i].path.slug = s
    BY <1>3
  <2> HIDE DEF T
  <2> QED
    BY <1>1, <1>2, <1>4, <2>1, RebuiltOK
<1>8. ASSUME NEW s \in DOMAIN gs, NEW r \in DOMAIN gs,
             NEW x \in GroupIds(gs[s]) \cap GroupIds(gs[r])
      PROVE  s = r
  <2>1. PICK i \in DOMAIN ts : ts[i].id = x /\ ts[i].path.slug = s
    BY <1>7
  <2>2. PICK j \in DOMAIN ts : ts[j].id = x /\ ts[j].path.slug = r
    BY <1>7
  <2> QED
    BY <1>1, <2>1, <2>2
<1> QED
  BY <1>6, <1>7, <1>8 DEF GroupsOK, gs

-----------------------------------------------------------------------------
(* The actions *)

LEMMA WorkspacePathsOK ==
    /\ \A p \in Paths : p \in Path /\ p.slug \in Slugs
    /\ \A s \in Slugs : defaultPathFor(s) \in Path /\ defaultPathFor(s).slug \in Slugs
BY PathsOK DEF Paths, Path

LEMMA UsableHasTabs ==
    ASSUME GroupsInv, Usable
    PROVE  active # None /\ active \in Slugs /\ active \in DOMAIN groups
           /\ FrontIndex \in DOMAIN groups[active].tabs
BY ActiveOK DEF GroupsInv, Usable, SomeFront

\* The groups that Validate keeps, and those of a new list, keep their tabs.
LEMMA KeptIds ==
    ASSUME NEW gs, NEW S
    PROVE  \A s \in DOMAIN gs \cap S : GroupIds(gs[s]) \subseteq IdsOf(Keep(gs, S))
PROOF
<1>1. DOMAIN Keep(gs, S) = DOMAIN gs \cap S /\ \A s \in DOMAIN gs \cap S : Keep(gs, S)[s] = gs[s]
  BY DEF Keep
<1> QED
  BY <1>1, IdsOfGroups

LEMMA KeptById ==
    ASSUME IdsOf(groups) \subseteq IdsOf(groups')
    PROVE  KeepsTabs
BY IdsOfGroups DEF KeepsTabs, GroupIds

LEMMA PagesAreSound ==
    ASSUME GroupsInv,
           \/ \E s \in Slugs, i \in 1..Cardinality(Ids), p \in Paths : PagePush(s, i, p)
           \/ \E p \in Paths : Go(p) \/ FollowLink(p) \/ OpenInNewTab(p)
    PROVE  GroupsInv' /\ KeepsTabs
PROOF
<1>1. ASSUME NEW s, NEW i, NEW p \in Paths, PagePush(s, i, p)
      PROVE  StoreKeeps(IdsOf(groups)) /\ overlay' \in Overlays
  BY <1>1, PushOK, WorkspacePathsOK DEF PagePush, GroupsInv, Overlays
<1>2. ASSUME NEW p \in Paths, Go(p)
      PROVE  StoreKeeps(IdsOf(groups)) /\ overlay' \in Overlays
  BY <1>2, ShellPushOK, WorkspacePathsOK DEF Go, GroupsInv, Overlays
<1>3. ASSUME NEW p \in Paths, FollowLink(p)
      PROVE  StoreKeeps(IdsOf(groups)) /\ overlay' \in Overlays
  BY <1>3, UsableHasTabs, OpenTabOK, WorkspacePathsOK DEF FollowLink, GroupsInv, RestOK
<1>4. ASSUME NEW p \in Paths, OpenInNewTab(p)
      PROVE  StoreKeeps(IdsOf(groups)) /\ overlay' \in Overlays
  <2>1. CASE switchWorkspace(groups, p)
    BY <1>4, <2>1, SwitchOK, WorkspacePathsOK DEF OpenInNewTab, GroupsInv, RestOK, StoreOK
  <2>2. CASE openTab(p)
    BY <1>4, <2>2, UsableHasTabs, OpenTabOK, WorkspacePathsOK DEF OpenInNewTab, GroupsInv, RestOK
  <2> QED
    BY <1>4, <2>1, <2>2 DEF OpenInNewTab
<1>5. StoreKeeps(IdsOf(groups)) /\ overlay' \in Overlays
  BY <1>1, <1>2, <1>3, <1>4
<1>6. UNCHANGED net
  BY DEF PagePush, Go, FollowLink, OpenInNewTab
<1> QED
  BY <1>5, <1>6, KeptById DEF GroupsInv, RestOK, net, StoreKeeps

LEMMA TabBarIsSound ==
    ASSUME GroupsInv,
           \/ \E i, j \in 1..Cardinality(Ids) : CloseTab(i) \/ ActivateTab(i) \/ MoveTab(i, j)
           \/ AddTab \/ GoBack \/ GoForward
    PROVE  GroupsInv' /\ KeepsTabs
PROOF
<1>1. Usable /\ UNCHANGED <<overlay, net>>
  BY DEF CloseTab, ActivateTab, MoveTab, AddTab, GoBack, GoForward
<1>2. /\ StoreOK /\ active # None /\ active \in Slugs /\ active \in DOMAIN groups
      /\ FrontIndex \in DOMAIN groups[active].tabs
  BY <1>1, UsableHasTabs DEF GroupsInv
<1>3. TabOK(FrontTab) /\ FrontTab.id = groups[active].tabs[FrontIndex].id
  BY <1>2, ActiveOK DEF FrontTab, FrontIndex
<1>4. ASSUME NEW i, CloseTab(i)
      PROVE  StoreOK' /\ KeepsTabs
  <2>1. i \in DOMAIN groups[active].tabs
    BY <1>4 DEF CloseTab
  <2>2. StoreKeeps({x \in IdsOf(groups) : x # groups[active].tabs[i].id})
    BY <1>2, <1>4, <2>1, CloseOK DEF CloseTab
  <2>3. ASSUME NEW s \in DOMAIN groups, NEW t \in ToSet(groups[s].tabs), t.id \notin IdsOf(groups')
        PROVE  s = active /\ t = groups[active].tabs[i]
    <3>1. t.id \in GroupIds(groups[s]) /\ groups[active].tabs[i].id \in GroupIds(groups[active])
      BY <2>1 DEF GroupIds, ToSet
    <3>2. t.id = groups[active].tabs[i].id
      BY <2>2, <2>3, <3>1, IdsOfGroups DEF StoreKeeps
    <3>3. s = active
      BY <1>2, <3>1, <3>2 DEF StoreOK, GroupsOK
    <3>4. GroupOK(groups[active])
      BY <1>2 DEF StoreOK, GroupsOK
    <3> QED
      BY <2>1, <3>2, <3>3, <3>4 DEF GroupOK, ToSet
  <2> QED
    BY <1>4, <2>1, <2>2, <2>3 DEF KeepsTabs, StoreKeeps
<1>5. ASSUME NEW i, ActivateTab(i)
      PROVE  StoreKeeps(IdsOf(groups))
  BY <1>2, <1>5, ActivateOK DEF ActivateTab
<1>6. ASSUME NEW i, NEW j, MoveTab(i, j)
      PROVE  StoreKeeps(IdsOf(groups))
  <2>1. i \in DOMAIN groups[active].tabs /\ j \in DOMAIN groups[active].tabs
    BY <1>6 DEF MoveTab
  <2> QED
    BY <1>2, <1>6, <2>1, MoveOK DEF MoveTab
<1>7. ASSUME AddTab
      PROVE  StoreKeeps(IdsOf(groups))
  BY <1>2, <1>7, AddTabOK, WorkspacePathsOK DEF AddTab
<1>8. ASSUME GoBack
      PROVE  StoreKeeps(IdsOf(groups))
  <2> DEFINE t == Went(FrontTab, -1)
  <2>1. TabOK(t) /\ t.id = FrontTab.id
    BY <1>3, WentOK
  <2>2. groups' = PutTab(groups, active, FrontIndex, OnBack(t)) /\ active' = active
    BY <1>8 DEF GoBack
  <2> HIDE DEF t
  <2>3. TabOK(OnBack(t)) /\ OnBack(t).id = groups[active].tabs[FrontIndex].id
    BY <1>3, <2>1, FollowedOK
  <2> QED
    BY <1>2, <2>2, <2>3, PutOK
<1>9. ASSUME GoForward
      PROVE  StoreKeeps(IdsOf(groups))
  <2> DEFINE t == IF FrontTab.at < Len(FrontTab.entries) THEN Went(FrontTab, 1) ELSE FrontTab
  <2>1. TabOK(t) /\ t.id = FrontTab.id
    BY <1>3, WentOK
  <2>2. groups' = PutTab(groups, active, FrontIndex, OnForward(t)) /\ active' = active
    BY <1>9 DEF GoForward
  <2> HIDE DEF t
  <2>3. TabOK(OnForward(t)) /\ OnForward(t).id = groups[active].tabs[FrontIndex].id
    BY <1>3, <2>1, FollowedOK
  <2> QED
    BY <1>2, <2>2, <2>3, PutOK
<1>10. StoreOK' /\ KeepsTabs
  BY <1>4, <1>5, <1>6, <1>7, <1>8, <1>9, KeptById DEF StoreKeeps
<1> QED
  BY <1>1, <1>10 DEF GroupsInv, RestOK, net

LEMMA ListEffectsOK ==
    ASSUME GroupsInv, NEW l \in SUBSET Slugs, ListEffects(l), list' = l, fetched'
    PROVE  StoreOK' /\ overlay' \in Overlays /\ KeepsTabs
PROOF
<1>1. StoreKeeps(IdsOf(Keep(groups, l))) /\ overlay' \in Overlays
  BY ValidateOK DEF ListEffects, GroupsInv, RestOK, Overlays
<1>2. \A s \in DOMAIN groups \cap l : GroupIds(groups[s]) \subseteq IdsOf(Keep(groups, l))
  BY KeptIds
<1>3. KeepsTabs
  BY <1>1, <1>2 DEF KeepsTabs, StoreKeeps, GroupIds
<1> QED
  BY <1>1, <1>3 DEF StoreKeeps

LEMMA WorkspacesAreSound ==
    ASSUME GroupsInv,
           \/ ListArrives \/ Leave \/ Land \/ DeclineInvite
           \/ \E s \in Slugs : CreateWorkspace(s) \/ AcceptInvite(s)
           \/ \E S \in SUBSET Slugs : ServerChanges(S)
           \/ \E ok \in BOOLEAN : LeaveEnds(ok)
    PROVE  GroupsInv' /\ KeepsTabs
PROOF
<1>1. CASE ListArrives
  BY <1>1, ListEffectsOK DEF ListArrives, GroupsInv, RestOK
<1>2. CASE Leave
  <2>1. StoreKeeps(IdsOf(groups)) /\ overlay' \in Overlays /\ active \in Slugs
    BY <1>2, DestinationOK, UsableHasTabs DEF Leave, GroupsInv, RestOK
  <2> QED
    BY <1>2, <2>1, KeptById DEF Leave, GroupsInv, RestOK, StoreKeeps
<1>3. CASE Land
  <2>1. StoreKeeps(IdsOf(groups)) /\ overlay' = "none"
    BY <1>3, ShellPushOK, WorkspacePathsOK DEF Land, GroupsInv, RestOK
  <2> QED
    BY <1>3, <2>1, KeptById DEF Land, GroupsInv, RestOK, Overlays, StoreKeeps
<1>4. CASE DeclineInvite
  <2>1. StoreKeeps(IdsOf(groups)) /\ overlay' \in Overlays
    BY <1>4, DestinationOK DEF DeclineInvite, GroupsInv, RestOK
  <2> QED
    BY <1>4, <2>1, KeptById DEF DeclineInvite, GroupsInv, RestOK, net, StoreKeeps
<1>5. ASSUME NEW s \in Slugs, CreateWorkspace(s)
      PROVE  GroupsInv' /\ KeepsTabs
  <2>1. GroupsOK(Keep(groups, list'))
    BY KeepOK DEF GroupsInv, StoreOK
  <2>2. StoreKeeps(IdsOf(Keep(groups, list')))
    BY <1>5, <2>1, SwitchOK, WorkspacePathsOK DEF CreateWorkspace
  <2>3. \A r \in DOMAIN groups \cap list' : GroupIds(groups[r]) \subseteq IdsOf(Keep(groups, list'))
    BY KeptIds
  <2>4. fetched'
    BY <1>5 DEF CreateWorkspace
  <2>5. KeepsTabs
    BY <2>2, <2>3, <2>4 DEF KeepsTabs, StoreKeeps, GroupIds
  <2> QED
    BY <1>5, <2>2, <2>5 DEF CreateWorkspace, GroupsInv, RestOK, Overlays, StoreKeeps
<1>6. ASSUME NEW s \in Slugs, AcceptInvite(s)
      PROVE  GroupsInv' /\ KeepsTabs
  <2>1. list' \in SUBSET Slugs /\ server' = list'
    BY <1>6 DEF AcceptInvite, GroupsInv, RestOK
  <2>2. StoreOK' /\ overlay' \in Overlays /\ KeepsTabs
    BY <1>6, <2>1, ListEffectsOK DEF AcceptInvite
  <2> QED
    BY <1>6, <2>1, <2>2 DEF AcceptInvite, GroupsInv, RestOK
<1>7. ASSUME NEW S \in SUBSET Slugs, ServerChanges(S)
      PROVE  GroupsInv' /\ KeepsTabs
  BY <1>7, StoreStays, KeptById DEF ServerChanges, GroupsInv, RestOK, StoreKeeps
<1>8. ASSUME NEW ok, LeaveEnds(ok)
      PROVE  GroupsInv' /\ KeepsTabs
  BY <1>8, StoreStays, KeptById DEF LeaveEnds, GroupsInv, RestOK, StoreKeeps
<1> QED
  BY <1>1, <1>2, <1>3, <1>4, <1>5, <1>6, <1>7, <1>8

LEMMA SessionsAreSound ==
    ASSUME GroupsInv,
           \/ CloseOverlay \/ OpenNewWorkspace \/ OpenInvite \/ OnboardingSkips
           \/ \E new \in BOOLEAN, S \in SUBSET Slugs : SignIn(new, S)
           \/ SignOut \/ Relaunch
    PROVE  GroupsInv' /\ KeepsTabs
PROOF
<1>1. CASE CloseOverlay \/ OpenInvite
  BY <1>1, StoreStays, KeptById
     DEF CloseOverlay, OpenInvite, GroupsInv, RestOK, Overlays, net, StoreKeeps
<1>2. CASE OpenNewWorkspace
  <2>1. StoreKeeps(IdsOf(groups)) /\ overlay' = "new-workspace"
    BY <1>2, PushOverlayOK, UsableHasTabs DEF OpenNewWorkspace, GroupsInv
  <2> QED
    BY <1>2, <2>1, KeptById DEF OpenNewWorkspace, GroupsInv, RestOK, Overlays, net, StoreKeeps
<1>3. CASE OnboardingSkips
  <2>1. CASE UNCHANGED store
    BY <1>3, <2>1, StoreStays, KeptById DEF OnboardingSkips, GroupsInv, RestOK, Overlays, StoreKeeps
  <2>2. CASE SomeFront /\ RouterPush(active, FrontIndex, Root)
    <3>1. active \in DOMAIN groups /\ FrontIndex \in DOMAIN groups[active].tabs
      BY <2>2, ActiveOK DEF GroupsInv, SomeFront
    <3>2. StoreKeeps(IdsOf(groups))
      BY <2>2, <3>1, RouterOK, PathsOK DEF GroupsInv
    <3> QED
      BY <1>3, <3>2, KeptById DEF OnboardingSkips, GroupsInv, RestOK, Overlays, StoreKeeps
  <2> QED
    BY <1>3, <2>1, <2>2 DEF OnboardingSkips
<1>4. ASSUME NEW new, NEW S \in SUBSET Slugs, SignIn(new, S)
      PROVE  GroupsInv' /\ KeepsTabs
  BY <1>4, StoreStays, KeptById DEF SignIn, GroupsInv, RestOK, StoreKeeps
<1>5. CASE SignOut
  <2>1. StoreOK'
    BY <1>5, SetNothingOK DEF SignOut
  <2> QED
    BY <1>5, <2>1 DEF SignOut, GroupsInv, RestOK, Overlays, KeepsTabs
<1>6. CASE Relaunch
  <2>1. StoreOK' /\ KeepsTabs
    BY <1>6, RelaunchOK DEF GroupsInv, KeepsTabs, Relaunch
  <2> QED
    BY <1>6, <2>1 DEF Relaunch, GroupsInv, RestOK, Overlays
<1> QED
  BY <1>1, <1>2, <1>3, <1>4, <1>5, <1>6

\* A first installation, or an upgrade.
LEMMA InitIsSound ==
    ASSUME Init
    PROVE  GroupsInv
PROOF
<1>1. RestOK
  BY DEF Init, RestOK, Overlays
<1>2. CASE groups = <<>> /\ active = None
  BY <1>1, <1>2 DEF GroupsInv, StoreOK, GroupsOK
<1>3. ASSUME NEW v1 \in V1States, groups = migrateV1ToV2(v1),
             active \in IF groups = <<>> THEN {None} ELSE
                        LET was == {s \in DOMAIN groups : groups[s].active = v1.active}
                        IN  IF was # {} THEN was ELSE DOMAIN groups
      PROVE  GroupsInv
  <2>1. active \in DOMAIN groups \cup {None}
    BY <1>3
  <2> QED
    BY <1>1, <1>3, <2>1, MigratedOK DEF GroupsInv, StoreOK
<1> QED
  BY <1>2, <1>3 DEF Init

\* GroupsAreSound asks of all pairs of groups what GroupsOK asks of each group,
\* and of each two.
LEMMA GroupsInvIsEnough ==
    ASSUME GroupsInv
    PROVE  GroupsAreSound
PROOF
<1>1. \A s \in DOMAIN groups : GroupOK(groups[s])
  BY DEF GroupsInv, StoreOK, GroupsOK
<1>2. \A t \in TabsOf(groups) : t \in Tab
  BY <1>1 DEF TabsOf, ToSet, GroupOK, TabOK
<1>3. \A s \in DOMAIN groups : groups[s].active \in Ids
  BY <1>1 DEF GroupOK
<1>4. TypeOK
  BY <1>2, <1>3, NoneIsNoSlug DEF TypeOK, GroupsInv, StoreOK, RestOK, GroupsOK, Overlays
<1>5. active # None => active \in DOMAIN groups
  BY DEF GroupsInv, StoreOK
<1>6. ASSUME NEW s \in DOMAIN groups, NEW r \in DOMAIN groups,
             NEW i \in DOMAIN groups[s].tabs, NEW j \in DOMAIN groups[r].tabs,
             groups[s].tabs[i].id = groups[r].tabs[j].id
      PROVE  s = r /\ i = j
  <2>1. groups[s].tabs[i].id \in GroupIds(groups[s]) /\ groups[r].tabs[j].id \in GroupIds(groups[r])
    BY DEF GroupIds, ToSet
  <2>2. s = r
    BY <1>6, <2>1 DEF GroupsInv, StoreOK, GroupsOK
  <2> QED
    BY <1>1, <1>6, <2>2 DEF GroupOK
<1>7. \A s \in DOMAIN groups :
         \E i \in DOMAIN groups[s].tabs : groups[s].tabs[i].id = groups[s].active
  BY <1>1 DEF GroupOK
<1> QED
  BY <1>4, <1>5, <1>6, <1>7 DEF GroupsAreSound

\* Every step, for both theorems.
LEMMA StepsAreSound ==
    ASSUME GroupsInv, [Next]_vars
    PROVE  GroupsInv' /\ [KeepsTabs]_vars
PROOF
<1>1. CASE UNCHANGED vars
  BY <1>1 DEF vars, store, GroupsInv, StoreOK, RestOK
<1>2. CASE Next
  BY <1>2, PagesAreSound, TabBarIsSound, WorkspacesAreSound, SessionsAreSound DEF Next
<1> QED
  BY <1>1, <1>2

\* GroupsAreSound, for any number of workspaces and tabs: whatever is opened,
\* closed, moved, dropped or restored (tab-store.ts), each group shows one of its
\* tabs, no tab is in two places and the active workspace has a group.
THEOREM GroupsAreAlwaysSound == Spec => []GroupsAreSound
PROOF
<1>1. Init => GroupsInv
  BY InitIsSound
<1>2. GroupsInv /\ [Next]_vars => GroupsInv'
  BY StepsAreSound
<1>3. GroupsInv => GroupsAreSound
  BY GroupsInvIsEnough
<1> QED
  BY <1>1, <1>2, <1>3, PTL DEF Spec

\* TabsAreKept, for any number of workspaces and tabs: no navigation, no arriving
\* list and no launch (merge) loses a tab that the user did not close.
THEOREM TabsAreAlwaysKept == Spec => TabsAreKept
PROOF
<1>1. Init => GroupsInv
  BY InitIsSound
<1>2. GroupsInv /\ [Next]_vars => GroupsInv' /\ [KeepsTabs]_vars
  BY StepsAreSound
<1> QED
  BY <1>1, <1>2, PTL DEF Spec, TabsAreKept
=============================================================================
