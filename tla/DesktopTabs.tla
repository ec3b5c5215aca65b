---------------------------- MODULE DesktopTabs ----------------------------
(* The tabs of the desktop application: one group of tabs per workspace,     *)
(* each tab with a memory router of its own, the overlay that covers them,   *)
(* and the workspace list that decides which groups may live.                *)
(*                                                                           *)
(* Sources: apps/desktop/src/renderer/src (stores/tab-store.ts,              *)
(* platform/navigation.tsx, hooks, components, App.tsx), and the shared      *)
(* views that navigate.  React effects that follow a change of the list run  *)
(* before the next event and belong to the action that changes it.           *)
(*                                                                           *)
(* Simplifications: a path is a workspace and a page, or "/"; titles and     *)
(* icons are left out; the sign-up and password overlays behave like the     *)
(* invitation overlay and are not told apart from it.                        *)
EXTENDS Naturals, Sequences, FiniteSets, SequencesExt

CONSTANTS
    Slugs,      \* workspaces
    Pages,      \* pages of a workspace
    Home,       \* the issues page, where a workspace opens
    Ids,        \* tab ids, a bound on the tabs that are open at one time
    MaxBehind,  \* router entries of all tabs beyond the first of each (a bound)
    ForeignLinks,   \* texts contain links to other workspaces
    None

ASSUME HomeIsAPage == Home \in Pages
ASSUME ForeignLinksIsAFlag == ForeignLinks \in BOOLEAN
ASSUME NoneIsNoSlug == None \notin Slugs /\ None \notin Ids

VARIABLES
    groups,     \* byWorkspace: slug -> [tabs, active]
    active,     \* activeWorkspaceSlug
    overlay,    \* the window overlay
    list,       \* the cached workspace list
    fetched,    \* the list has been fetched
    server,     \* the workspaces the server lists for the user
    session,    \* "out" | "new" (not onboarded) | "in"
    leaving,    \* workspaces whose leave or delete request is in flight
    landing     \* where the timer of an accepted invitation will navigate

store == <<groups, active>>
vars  == <<groups, active, overlay, list, fetched, server, session, leaving, landing>>

Path == [slug : Slugs, page : Pages] \cup {[slug |-> None, page |-> None]}
Root == [slug |-> None, page |-> None]
In(s, p) == [slug |-> s, page |-> p]
defaultPathFor(s) == In(s, Home)

\* path, historyIndex and historyLength are what the store knows; entries and
\* at are the router; index and length are the refs of useTabRouterSync.
Tab == [id : Ids, path : Path, entries : Seq(Path), at : Nat,
        historyIndex : Nat, historyLength : Nat, index : Nat, length : Nat]

makeTab(id, path) ==
    [id |-> id, path |-> path, entries |-> <<path>>, at |-> 1,
     historyIndex |-> 0, historyLength |-> 1, index |-> 0, length |-> 1]

Group(tabs, id) == [tabs |-> tabs, active |-> id]

TabsOf(gs) == UNION {ToSet(gs[s].tabs) : s \in DOMAIN gs}
IdsOf(gs) == {t.id : t \in TabsOf(gs)}
\* An id for a new tab beside those of gs; no tab is opened without one.
Fresh(gs) == Ids \ IdsOf(gs)

TabAt(g, id) == CHOOSE i \in DOMAIN g.tabs : g.tabs[i].id = id
With(gs, s, g) == [x \in DOMAIN gs \cup {s} |-> IF x = s THEN g ELSE gs[x]]
Keep(gs, S) == [x \in DOMAIN gs \cap S |-> gs[x]]

\* The tabs of ts whose path is of workspace s, in their order.
OfWorkspace(ts, s) ==
    LET own == {i \in DOMAIN ts : ts[i].path.slug = s}
        Nth(k) == CHOOSE i \in own : Cardinality({j \in own : j <= i}) = k
    IN  [k \in 1..Cardinality(own) |-> ts[Nth(k)]]

\* The tab in front, if any: its effects are mounted.  The other tabs of the
\* active group are hidden: they keep their state, without effects.
FrontTab == groups[active].tabs[TabAt(groups[active], groups[active].active)]
SomeFront == active # None

-----------------------------------------------------------------------------
(* What follows a change of the store: a tab that comes to the front is      *)
(* synchronised with its router, and the tabs of a group that was not        *)
(* mounted before get new refs.                                              *)

Mounted(t) == [t EXCEPT !.index = 0, !.length = 1]
Synced(t) == [t EXCEPT !.path = t.entries[t.at]]

Remount(g) == [g EXCEPT !.tabs = [i \in DOMAIN g.tabs |-> Mounted(g.tabs[i])]]
Show(g) == [g EXCEPT !.tabs[TabAt(g, g.active)] = Synced(@)]

\* The store becomes gs with s active.
Set(gs, s) ==
    /\ active' = s
    /\ groups' = IF s = None THEN gs
                 ELSE With(gs, s, Show(IF s = active THEN gs[s] ELSE Remount(gs[s])))

-----------------------------------------------------------------------------
(* The store's operations.                                                   *)

Matches(g, p) == {i \in DOMAIN g.tabs : g.tabs[i].path = p}
First(S) == CHOOSE i \in S : \A j \in S : i <= j

\* gs with a new tab at p in group s, in front.
Opened(gs, s, p, id) ==
    With(gs, s, Group(IF s \in DOMAIN gs THEN Append(gs[s].tabs, makeTab(id, p))
                      ELSE <<makeTab(id, p)>>, id))
InFrontOf(gs, s, i) == With(gs, s, Group(gs[s].tabs, gs[s].tabs[i].id))
Alone(gs, s, p, id) == With(gs, s, Group(<<makeTab(id, p)>>, id))

\* Mutant: a workspace that has tabs gets a new group.
switchWorkspaceAnew(gs, p) ==
    \E id \in Fresh(gs) : Set(Alone(gs, p.slug, p, id), p.slug)

\* switchWorkspace(slug, path): the tab that has the path, or a new one, in a
\* new group if there is none.
switchWorkspace(gs, p) ==
    LET s == p.slug IN
    IF s \in DOMAIN gs /\ Matches(gs[s], p) # {}
    THEN Set(InFrontOf(gs, s, First(Matches(gs[s], p))), s)
    ELSE \E id \in Fresh(gs) : Set(Opened(gs, s, p, id), s)

\* openTab(path) in the active group, then setActiveTab.
openTab(p) ==
    LET hits == Matches(groups[active], p) IN
    IF hits # {} THEN Set(InFrontOf(groups, active, First(hits)), active)
    ELSE \E id \in Fresh(groups) : Set(Opened(groups, active, p, id), active)

\* addTab(path), then setActiveTab.
addTab(p) == \E id \in Fresh(groups) : Set(Opened(groups, active, p, id), active)

\* Mutant: the group keeps the closed tab as its active one.
closeTabKeepActive(i) ==
    LET g == groups[active] IN
    IF Len(g.tabs) = 1
    THEN \E id \in Ids : Set(Alone(groups, active, defaultPathFor(active), id), active)
    ELSE active' = active /\ groups' = With(groups, active, Group(RemoveAt(g.tabs, i), g.active))

\* The neighbour of a closed tab comes to the front; a group that would be
\* empty gets a default tab.
closeTab(i) ==
    LET g == groups[active]
        rest == RemoveAt(g.tabs, i)
        next == rest[IF i <= Len(rest) THEN i ELSE Len(rest)].id
    IN  IF Len(g.tabs) = 1
        THEN \E id \in Fresh(groups) \cup {g.active} :
                Set(Alone(groups, active, defaultPathFor(active), id), active)
        ELSE Set(With(groups, active,
                      Group(rest, IF g.active = g.tabs[i].id THEN next ELSE g.active)), active)

\* Mutant: a lost active workspace is not replaced by one without tabs.
ValidateOnly(valid) ==
    LET kept == Keep(groups, valid) IN
    IF active # None /\ active \in valid THEN Set(kept, active)
    ELSE IF DOMAIN kept # {} THEN \E s \in DOMAIN kept : Set(kept, s)
    ELSE Set(kept, None)

\* validateWorkspaceSlugs, then the effect that picks a workspace when none is
\* active.  Any remaining group may be the first key of the object.
Validate(valid) ==
    LET kept == Keep(groups, valid) IN
    IF active # None /\ active \in valid THEN Set(kept, active)
    ELSE IF active # None /\ DOMAIN kept # {} THEN \E s \in DOMAIN kept : Set(kept, s)
    ELSE IF valid = {} THEN Set(kept, None)
    ELSE \E s \in valid :
            IF s \in DOMAIN kept THEN Set(kept, s)
            ELSE \E id \in Fresh(kept) : Set(Opened(kept, s, defaultPathFor(s), id), s)

-----------------------------------------------------------------------------
(* A tab's router.  The tab in front follows its router at once, with the    *)
(* refs; a tab that is not mounted, or hidden, does not notice.              *)

Pushed(t, p) == [t EXCEPT !.entries = Append(SubSeq(t.entries, 1, t.at), p), !.at = t.at + 1]
Replaced(t, p) == [t EXCEPT !.entries[t.at] = p]
Went(t, by) == [t EXCEPT !.at = IF by = 1 THEN t.at + 1 ELSE IF t.at = 1 THEN 1 ELSE t.at - 1]

\* The subscription of useTabRouterSync.
Recorded(t, index, length) ==
    [Synced(t) EXCEPT !.index = index, !.length = length,
                      !.historyIndex = index, !.historyLength = length]
OnPush(t) == Recorded(t, t.index + 1, t.index + 2)
OnReplace(t) == Recorded(t, t.index, t.length)
OnForward(t) == Recorded(t, IF t.index + 1 < t.length THEN t.index + 1 ELSE t.length - 1, t.length)
OnBack(t) == Recorded(t, IF t.index > 0 THEN t.index - 1 ELSE 0, t.length)

PutTab(gs, s, i, t) == [gs EXCEPT ![s].tabs[i] = t]
Behind(gs) == Cardinality(UNION {{t.id} \X (2..Len(t.entries)) : t \in TabsOf(gs)})
InFront(s, i) == s = active /\ groups[s].tabs[i].id = groups[s].active

\* The router of tab i of group s pushes p, or replaces its entry by p.
RouterPush(s, i, p) ==
    LET t == Pushed(groups[s].tabs[i], p) IN
    /\ Behind(PutTab(groups, s, i, t)) <= MaxBehind
    /\ groups' = PutTab(groups, s, i, IF InFront(s, i) THEN OnPush(t) ELSE t)
    /\ UNCHANGED active
RouterReplace(s, i, p) ==
    LET t == Replaced(groups[s].tabs[i], p) IN
    /\ groups' = PutTab(groups, s, i, IF InFront(s, i) THEN OnReplace(t) ELSE t)
    /\ UNCHANGED active

-----------------------------------------------------------------------------
(* The navigation adapter, called with the router of tab i of group s.       *)

\* push of a page of a workspace: it closes a live overlay, and a path of
\* another workspace is left to the store.
Push(s, i, p) ==
    /\ overlay' = "none"
    /\ IF p.slug # active THEN switchWorkspace(groups, p) ELSE RouterPush(s, i, p)

\* push of "/workspaces/new" or "/onboarding": the overlay opens and the
\* router is reset to "/".
PushOverlay(s, i, o) ==
    /\ overlay' = o
    /\ IF groups[s].tabs[i].entries[groups[s].tabs[i].at] # Root
       THEN RouterReplace(s, i, Root) ELSE UNCHANGED store

FrontIndex == TabAt(groups[active], groups[active].active)

\* The same from outside the tabs, where no tab may be active.
ShellPush(p) ==
    IF SomeFront THEN Push(active, FrontIndex, p)
    ELSE overlay' = "none" /\ switchWorkspace(groups, p)

\* resolvePostAuthDestination, pushed from outside the tabs.
ShellPushDestination(remaining) ==
    IF session # "in" THEN
        IF SomeFront THEN PushOverlay(active, FrontIndex, "onboarding")
        ELSE overlay' = "onboarding" /\ UNCHANGED store
    ELSE IF remaining = {} THEN
        IF SomeFront THEN PushOverlay(active, FrontIndex, "new-workspace")
        ELSE overlay' = "new-workspace" /\ UNCHANGED store
    ELSE \E s \in remaining : ShellPush(defaultPathFor(s))

-----------------------------------------------------------------------------
(* The user navigates.                                                       *)

net == <<list, fetched, server, session, leaving, landing>>
Signed == session # "out"
Usable == Signed /\ fetched /\ overlay = "none" /\ SomeFront

\* A page pushes a path of its workspace: the page in front, or one whose
\* request was answered after its tab was hidden.
PagePush(s, i, p) ==
    /\ Signed /\ s \in DOMAIN groups /\ i \in DOMAIN groups[s].tabs
    /\ groups[s].tabs[i].path.slug = s /\ p.slug = s
    /\ Push(s, i, p)
    /\ UNCHANGED net

\* The sidebar, the search dialog and the workspace switcher.
Go(p) ==
    /\ Usable /\ p.slug \in list
    /\ ShellPush(p)
    /\ UNCHANGED net

\* A link in a text, to any path.  The shell opens it in the active group.
FollowLink(p) ==
    /\ Usable
    /\ p.slug = active \/ ForeignLinks
    /\ openTab(p)
    /\ UNCHANGED <<overlay, net>>

\* "Open in new tab" of the own or of another workspace.
OpenInNewTab(p) ==
    /\ Usable /\ p.slug \in list
    /\ IF p.slug # active THEN switchWorkspace(groups, p) ELSE openTab(p)
    /\ UNCHANGED <<overlay, net>>

\* The tab bar.
AddTab ==
    /\ Usable
    /\ addTab(defaultPathFor(active))
    /\ UNCHANGED <<overlay, net>>
CloseTab(i) ==
    /\ Usable /\ i \in DOMAIN groups[active].tabs
    /\ closeTab(i)
    /\ UNCHANGED <<overlay, net>>
ActivateTab(i) ==
    /\ Usable /\ i \in DOMAIN groups[active].tabs
    /\ Set(With(groups, active, Group(groups[active].tabs, groups[active].tabs[i].id)), active)
    /\ UNCHANGED <<overlay, net>>
MoveTab(i, j) ==
    /\ Usable /\ {i, j} \subseteq DOMAIN groups[active].tabs /\ i # j
    /\ Set(With(groups, active,
                Group(InsertAt(RemoveAt(groups[active].tabs, i), j, groups[active].tabs[i]),
                      groups[active].active)), active)
    /\ UNCHANGED <<overlay, net>>

\* The Back and Forward buttons.
CanGoBack == FrontTab.historyIndex > 0
CanGoForward == FrontTab.historyIndex < FrontTab.historyLength - 1
GoBack ==
    /\ Usable /\ CanGoBack
    /\ groups' = PutTab(groups, active, FrontIndex, OnBack(Went(FrontTab, -1)))
    /\ UNCHANGED <<active, overlay, net>>
GoForward ==
    /\ Usable /\ CanGoForward
    /\ groups' = PutTab(groups, active, FrontIndex,
                        OnForward(IF FrontTab.at < Len(FrontTab.entries) THEN Went(FrontTab, 1) ELSE FrontTab))
    /\ UNCHANGED <<active, overlay, net>>

-----------------------------------------------------------------------------
(* The workspace list.                                                       *)

\* What App.tsx's effects do with a list: tabs of lost workspaces are dropped,
\* a workspace is chosen when none is active, and a user without one, or who
\* has not been onboarded, gets an overlay unless another is open.  The effect
\* of WorkspaceRouteLayout validates with the same list and finds no more to drop.
ListEffects(l) ==
    /\ Validate(l)
    /\ overlay' = IF overlay # "none" THEN overlay
                  ELSE IF session = "new" THEN "onboarding"
                  ELSE IF l = {} THEN "new-workspace" ELSE "none"

\* A refetch is answered: after a mutation, an event or a focus.
ListArrives ==
    /\ Signed /\ (~fetched \/ list # server)
    /\ list' = server /\ fetched' = TRUE
    /\ ListEffects(server)
    /\ UNCHANGED <<server, session, leaving, landing>>

\* Others add or remove the user, or delete the workspace, though not within
\* the second between accepting an invitation and landing (see the README).
ServerChanges(S) ==
    /\ Signed /\ S # server /\ server' = S
    /\ landing = None \/ landing \in S
    /\ UNCHANGED <<store, overlay, list, fetched, session, leaving, landing>>

\* The form of the overlay: the list is seeded, the effects run, the user is
\* taken to the new workspace.
CreateWorkspace(s) ==
    /\ Signed /\ fetched /\ overlay \in {"new-workspace", "onboarding"}
    /\ s \notin list /\ s \notin server
    /\ server' = server \cup {s} /\ list' = list \cup {s}
    /\ session' = "in"
    /\ overlay' = "none" /\ switchWorkspace(Keep(groups, list'), defaultPathFor(s))
    /\ UNCHANGED <<fetched, leaving, landing>>

\* Leave or delete, in the settings: the user is taken elsewhere before the
\* request is sent.
Leave ==
    /\ Usable /\ active \in list /\ leaving = {} /\ landing = None
    /\ leaving' = {active}
    /\ ShellPushDestination(list \ {active})
    /\ UNCHANGED <<list, fetched, server, session, landing>>

LeaveEnds(ok) ==
    /\ leaving # {} /\ leaving' = {}
    /\ server' = IF ok THEN server \ leaving ELSE server
    /\ UNCHANGED <<store, overlay, list, fetched, session, landing>>

\* The overlay's Back button.
CloseOverlay ==
    /\ Signed /\ overlay \in {"new-workspace", "invite"} /\ list # {}
    /\ overlay' = "none"
    /\ UNCHANGED <<store, net>>

\* "New workspace" of the sidebar, and the deep link of an invitation.
OpenNewWorkspace ==
    /\ Usable
    /\ PushOverlay(active, FrontIndex, "new-workspace")
    /\ UNCHANGED net
OpenInvite ==
    /\ Signed /\ fetched /\ overlay' = "invite"
    /\ UNCHANGED <<store, net>>

\* The invitation is accepted and the list fetched; a timer takes the user to
\* the workspace a second later.
AcceptInvite(s) ==
    /\ Signed /\ overlay = "invite" /\ landing = None /\ leaving = {} /\ s \notin server
    /\ server' = server \cup {s} /\ list' = server' /\ fetched' = TRUE
    /\ ListEffects(list')
    /\ landing' = s
    /\ UNCHANGED <<session, leaving>>
Land ==
    /\ landing # None /\ landing' = None
    /\ ShellPush(defaultPathFor(landing))
    /\ UNCHANGED <<list, fetched, server, session, leaving>>
DeclineInvite ==
    /\ Signed /\ overlay = "invite"
    /\ ShellPushDestination(list)
    /\ UNCHANGED net

\* Onboarding ends with a workspace, or without one at "/".
OnboardingSkips ==
    /\ overlay = "onboarding" /\ session = "new" /\ session' = "in"
    /\ overlay' = IF list = {} THEN "new-workspace" ELSE "none"
    /\ IF SomeFront THEN RouterPush(active, FrontIndex, Root) ELSE UNCHANGED store
    /\ UNCHANGED <<list, fetched, server, leaving, landing>>

-----------------------------------------------------------------------------
(* Sessions, and the life of the application.                                *)

SignIn(new, S) ==
    /\ landing = None
    /\ session = "out" /\ session' = IF new THEN "new" ELSE "in"
    /\ server' = S
    /\ UNCHANGED <<store, overlay, list, fetched, leaving, landing>>

\* useLogout and handleDaemonLogout.
SignOut ==
    /\ Signed /\ session' = "out"
    /\ list' = {} /\ fetched' = FALSE
    /\ Set(<<>>, None) /\ overlay' = "none"
    /\ UNCHANGED <<server, leaving, landing>>

\* merge on the next launch: tabs whose path is not of their workspace are
\* dropped, empty groups too; histories start anew.
Merged(s) ==
    LET tabs == OfWorkspace(groups[s].tabs, s)
        ids == {t.id : t \in ToSet(tabs)}
    IN  Group([i \in DOMAIN tabs |-> makeTab(tabs[i].id, tabs[i].path)],
              IF groups[s].active \in ids THEN groups[s].active ELSE tabs[1].id)
Survive == {s \in DOMAIN groups : \E t \in ToSet(groups[s].tabs) : t.path.slug = s}

Relaunch ==
    /\ Signed /\ leaving = {}
    /\ LET gs == [s \in Survive |-> Merged(s)] IN
       IF Survive = {} THEN groups' = <<>> /\ active' = None
       ELSE /\ groups' = gs
            /\ IF active \in Survive THEN active' = active ELSE active' \in Survive
    /\ overlay' = "none" /\ list' = {} /\ fetched' = FALSE /\ landing' = None
    /\ UNCHANGED <<server, session, leaving>>

\* The flat list of tabs that versions before the grouping stored, split by the
\* workspace of each path; a tab without a workspace is dropped.
migrateV1ToV2(v1) ==
    [s \in {t.path.slug : t \in ToSet(v1.tabs)} \ {None} |->
        LET ts == OfWorkspace(v1.tabs, s) IN
        Group([i \in DOMAIN ts |-> makeTab(ts[i].id, ts[i].path)],
              IF \E t \in ToSet(ts) : t.id = v1.active THEN v1.active ELSE ts[1].id)]

V1States ==
    {v1 \in [tabs : UNION {[1..n -> [id : Ids, path : Path]] : n \in 0..2}, active : Ids] :
        \A i, j \in DOMAIN v1.tabs : v1.tabs[i].id = v1.tabs[j].id => i = j}

\* A first installation, or the first launch after an upgrade.
Init ==
    /\ overlay = "none" /\ list = {} /\ fetched = FALSE
    /\ leaving = {} /\ landing = None
    /\ \/ groups = <<>> /\ active = None /\ session = "out" /\ server = {}
       \/ \E v1 \in V1States :
            /\ groups = migrateV1ToV2(v1)
            /\ active \in IF groups = <<>> THEN {None} ELSE
                           LET was == {s \in DOMAIN groups : groups[s].active = v1.active}
                           IN  IF was # {} THEN was ELSE DOMAIN groups
            /\ session = "in" /\ server \in SUBSET Slugs

Paths == [slug : Slugs, page : Pages]

Next ==
    \/ \E s \in Slugs, i \in 1..Cardinality(Ids), p \in Paths : PagePush(s, i, p)
    \/ \E p \in Paths : Go(p) \/ FollowLink(p) \/ OpenInNewTab(p)
    \/ \E i, j \in 1..Cardinality(Ids) : CloseTab(i) \/ ActivateTab(i) \/ MoveTab(i, j)
    \/ AddTab \/ GoBack \/ GoForward
    \/ ListArrives \/ Leave \/ Land \/ DeclineInvite
    \/ \E s \in Slugs : CreateWorkspace(s) \/ AcceptInvite(s)
    \/ \E S \in SUBSET Slugs : ServerChanges(S)
    \/ \E ok \in BOOLEAN : LeaveEnds(ok)
    \/ CloseOverlay \/ OpenNewWorkspace \/ OpenInvite \/ OnboardingSkips
    \/ \E new \in BOOLEAN, S \in SUBSET Slugs : SignIn(new, S)
    \/ SignOut \/ Relaunch

Spec == Init /\ [][Next]_vars

-----------------------------------------------------------------------------
(* Properties.                                                               *)

Overlays == {"none", "new-workspace", "invite", "onboarding"}

\* The types of all but the store.
RestOK ==
    /\ landing \in Slugs \cup {None} /\ overlay \in Overlays
    /\ list \subseteq Slugs /\ server \subseteq Slugs /\ leaving \subseteq Slugs
    /\ fetched \in BOOLEAN /\ session \in {"out", "new", "in"}

TypeOK ==
    /\ DOMAIN groups \subseteq Slugs
    /\ \A s \in DOMAIN groups : groups[s].active \in Ids
    /\ \A t \in TabsOf(groups) : t \in Tab
    /\ active \in Slugs \cup {None}
    /\ RestOK

\* Whatever is closed, moved, restored or dropped, and in whatever order: every
\* group has a tab and shows one of its own, no tab is in two places, and the
\* active workspace has a group. Types included.
GroupsAreSound ==
    /\ TypeOK
    /\ active # None => active \in DOMAIN groups
    /\ \A s \in DOMAIN groups :
          /\ \E i \in DOMAIN groups[s].tabs : groups[s].tabs[i].id = groups[s].active
          /\ \A r \in DOMAIN groups :
               \A i \in DOMAIN groups[s].tabs, j \in DOMAIN groups[r].tabs :
                  groups[s].tabs[i].id = groups[r].tabs[j].id => s = r /\ i = j

\* Why it holds: every operation leaves a router at one of its entries, so that
\* the path it is synchronised with is one, and gives a new tab a fresh id.
TabOK(t) == t \in Tab /\ t.at \in 1..Len(t.entries) /\ t.length > 0

GroupIds(g) == {t.id : t \in ToSet(g.tabs)}

GroupOK(g) ==
    /\ g \in [tabs : Seq(Tab), active : Ids]
    /\ \A i \in DOMAIN g.tabs : TabOK(g.tabs[i])
    /\ \E i \in DOMAIN g.tabs : g.tabs[i].id = g.active
    /\ \A i, j \in DOMAIN g.tabs : g.tabs[i].id = g.tabs[j].id => i = j

GroupsOK(gs) ==
    /\ DOMAIN gs \subseteq Slugs
    /\ \A s \in DOMAIN gs : GroupOK(gs[s])
    /\ \A s, r \in DOMAIN gs : s # r => GroupIds(gs[s]) \cap GroupIds(gs[r]) = {}

StoreOK == GroupsOK(groups) /\ active \in DOMAIN groups \cup {None}

GroupsInv == StoreOK /\ RestOK

\* A signed-in user whose list has arrived sees a workspace of that list or an
\* overlay: an eviction, a lost workspace or a closed overlay strands nobody.
NobodyIsStranded ==
    Signed /\ fetched /\ overlay = "none" /\ landing = None => active \in list

\* Why it holds.  Once the list has arrived only listed workspaces have tabs, and
\* one of them is active as long as there is one; an accepted workspace stays
\* listed until the timer has navigated.
ShownInv ==
    /\ session = "out" => ~fetched
    /\ fetched => DOMAIN groups \subseteq list
    /\ landing # None => /\ leaving = {} /\ landing \in server
                         /\ fetched => landing \in list
    /\ fetched => IF list = {} THEN overlay # "none" ELSE active \in list

\* A tab disappears only when the user closes it or signs out, when a list has
\* arrived without its workspace, or, on the next launch, when its path is not
\* one of its workspace.
KeepsTabs ==
    \A s \in DOMAIN groups : \A t \in ToSet(groups[s].tabs) :
       \/ t.id \in IdsOf(groups')
       \/ session' = "out"
       \/ fetched' /\ s \notin list'
       \/ ~fetched' /\ t.path.slug # s
       \/ \E i \in DOMAIN groups[s].tabs : groups[s].tabs[i] = t /\ CloseTab(i)

TabsAreKept == [][KeepsTabs]_vars
=============================================================================
