---------------------------- MODULE DaemonProofs ----------------------------
(* Theorems about DaemonManager.                                             *)
(*                                                                           *)
(* GuardIsHeld: the guard of the user's operations has exactly one holder    *)
(* while it is taken, for any number of calls in flight and whatever fails.  *)
(* SetupIsShown: the window shows a failed set-up exactly while there is no  *)
(* CLI, as long as installations do not overlap.                             *)
(* SidecarIsTrue, DaemonIsOwned: the cached token is that of the user it is  *)
(* filed under, and the daemon that runs works for the user who is signed    *)
(* in, when sessions change while nothing is in flight.                      *)
EXTENDS DaemonManager, TLAPS

-----------------------------------------------------------------------------
(* The guard.  What carries it is an operation: no call takes it elsewhere,  *)
(* and one that ends, ends with Return.                                      *)

Operating == {"resolve", "kill", "killed", "probe", "spawn", "spawned", "refused"}

Holders ==
    /\ calls \in [Slots -> Call]
    /\ operationInProgress \in BOOLEAN
    /\ \A c, d \in Slots : calls[c].guard /\ calls[d].guard => c = d
    /\ operationInProgress <=> \E c \in Slots : calls[c].guard
    /\ \A c \in Slots : calls[c].guard => calls[c].pc \in Operating

Types ==
    /\ state \in States
    /\ pendingVersionRestart \in BOOLEAN
    /\ cli \in {"unresolved", "ok", "none"}
    /\ installs \in Nat /\ polling \in BOOLEAN
    /\ polls \in [PollSlots -> {"idle", "asked", "up", "down"}]
    /\ {user, token, sidecar} \subseteq Owner
    /\ daemon \in [up : BOOLEAN, creds : Owner, old : BOOLEAN, tasks : 0..1]
    /\ begun \in 0..MaxBegun

GuardInv == Holders /\ Types

LEMMA GuardInvImplies == GuardInv => GuardHasItsHolder
BY DEF GuardInv, Holders, Types, GuardHasItsHolder, TypeOK

\* A call is rewritten and keeps the guard if it has it.
LEMMA RewriteKeeps ==
    ASSUME Holders, NEW c \in Slots, NEW r \in Call,
           calls' = [calls EXCEPT ![c] = r],
           r.guard = calls[c].guard, r.guard => r.pc \in Operating,
           UNCHANGED operationInProgress
    PROVE  Holders'
BY DEF Holders

LEMMA GotoKeeps ==
    ASSUME Holders, NEW c \in Slots, NEW pc \in Pcs,
           Goto(c, pc), calls[c].guard => pc \in Operating,
           UNCHANGED operationInProgress
    PROVE  Holders'
<1> DEFINE r == [calls[c] EXCEPT !.pc = pc]
<1>1. /\ r \in Call /\ r.guard = calls[c].guard /\ r.pc = pc
      /\ calls' = [calls EXCEPT ![c] = r]
  BY DEF Goto, Holders, Call
<1>2. QED  BY <1>1, RewriteKeeps

\* A call that is not an operation has no guard.
LEMMA GotoFree ==
    ASSUME Holders, NEW c \in Slots, NEW pc \in Pcs,
           Goto(c, pc), calls[c].pc \notin Operating,
           UNCHANGED operationInProgress
    PROVE  Holders'
<1>1. ~calls[c].guard  BY DEF Holders
<1>2. QED  BY <1>1, GotoKeeps

LEMMA ReturnKeeps ==
    ASSUME Holders, NEW c \in Slots, Return(c)
    PROVE  Holders'
<1>1. Idle \in Call /\ ~Idle.guard  BY DEF Idle, Call, Pcs, Owner
<1>2. QED  BY <1>1 DEF Return, Holders

\* A call that begins has no guard, or takes it when nobody has it.
LEMMA BeginKeeps ==
    ASSUME Holders, NEW c \in Slots, NEW r \in Call,
           Begin(c, r), ~r.guard, UNCHANGED operationInProgress
    PROVE  Holders'
<1>1. ~calls[c].guard  BY DEF Begin, Holders, Operating
<1>2. QED  BY <1>1, RewriteKeeps DEF Begin, Holders, Call

LEMMA TakesGuard ==
    ASSUME Holders, NEW c \in Slots, NEW r \in Call,
           calls' = [calls EXCEPT ![c] = r],
           r.guard, r.pc \in Operating,
           ~operationInProgress, operationInProgress' = TRUE
    PROVE  Holders'
BY DEF Holders

LEMMA AtIsCall ==
    ASSUME NEW pc \in Pcs
    PROVE  At(pc) \in Call /\ ~At(pc).guard /\ At(pc).pc = pc /\ At(pc).op = "start"
BY DEF At, Idle, Call, Owner, Pcs

LEMMA PollTyped ==
    ASSUME Types, Poll
    PROVE  polls' \in [PollSlots -> {"idle", "asked", "up", "down"}]
BY DEF Types, Poll

LEMMA InitGuard == Init => GuardInv
<1> SUFFICES ASSUME Init PROVE GuardInv
  OBVIOUS
<1>1. Idle \in Call /\ ~Idle.guard
  BY DEF Idle, Call, Pcs, Owner
<1>2. Holders
  BY <1>1 DEF Init, Holders
<1>3. Down \in [up : BOOLEAN, creds : Owner, old : BOOLEAN, tasks : 0..1]
  BY DEF Down, Owner
<1>4. /\ 0 \in 0..MaxBegun /\ {None} \subseteq Owner
      /\ polls \in [PollSlots -> {"idle", "asked", "up", "down"}]
  BY Bounds DEF Bounds, Init, Owner
<1>5. Types
  BY <1>3, <1>4 DEF Init, Types, States
<1>6. QED  BY <1>2, <1>5 DEF GuardInv

\* The calls that are rewritten otherwise than by Goto.
LEMMA VersionedKeeps ==
    ASSUME Holders, NEW c \in Slots, Versioned(c), decideVersionAction = "restart"
    PROVE  Holders'
<1> DEFINE r == [calls[c] EXCEPT !.pc = "kill", !.op = "restart"]
<1>1. /\ r \in Call /\ r.guard = calls[c].guard /\ r.pc = "kill"
      /\ calls' = [calls EXCEPT ![c] = r] /\ UNCHANGED operationInProgress
  BY DEF Versioned, Holders, Call, Pcs
<1>2. QED  BY <1>1, RewriteKeeps DEF Operating

LEMMA ReadKeeps ==
    ASSUME Holders, Types, NEW c \in Slots, Read(c)
    PROVE  Holders'
<1> DEFINE u == calls[c].user
           r == [calls[c] EXCEPT !.pc = IF Reuse(u) THEN "write" ELSE "mint",
                                 !.final = IF Reuse(u) THEN token ELSE u,
                                 !.changed = sidecar \notin {None, u}]
<1>1. /\ r \in Call /\ r.guard = calls[c].guard /\ ~r.guard
      /\ calls' = [calls EXCEPT ![c] = r] /\ UNCHANGED operationInProgress
  BY DEF Read, Holders, Types, Call, Pcs, Operating, mem
<1>2. QED  BY <1>1, RewriteKeeps

\* The restart that syncToken leaves to itself begins in another slot.
LEMMA RestartKeeps ==
    ASSUME Holders, NEW c \in Slots, RestartOnSwitch(c)
    PROVE  Holders'
<1>1. CASE ~daemon.up
  BY <1>1, GotoFree DEF RestartOnSwitch, Operating, Pcs, mem
<1>2. CASE daemon.up
  <2> DEFINE r == [At("resolve") EXCEPT !.op = "restart"]
  <2>1. PICK d \in Slots \ {c} :
           /\ calls[d].pc = "idle"
           /\ calls' = [calls EXCEPT ![c].pc = "aresolve", ![d] = r]
    BY <1>2 DEF RestartOnSwitch
  <2>2. r \in Call /\ ~r.guard
    BY AtIsCall DEF Call, Pcs
  <2>3. ~calls[c].guard /\ ~calls[d].guard /\ UNCHANGED operationInProgress
    BY <2>1 DEF Holders, Operating, RestartOnSwitch, mem
  <2>4. \A e \in Slots : /\ calls'[e].guard = calls[e].guard
                         /\ calls[e].guard => calls'[e].pc = calls[e].pc
    BY <2>1, <2>2, <2>3 DEF Holders, Call
  <2>5. calls' \in [Slots -> Call]
    BY <2>1, <2>2 DEF Holders, Call, Pcs
  <2>6. QED  BY <2>3, <2>4, <2>5 DEF Holders
<1>3. QED  BY <1>1, <1>2

LEMMA RemoveKeeps ==
    ASSUME Holders, NEW c \in Slots, RemoveUserId(c)
    PROVE  Holders'
<1>1. ~calls[c].guard  BY DEF RemoveUserId, Holders, Operating
<1>2. CASE operationInProgress
  <2>1. Idle \in Call /\ ~Idle.guard  BY DEF Idle, Call, Pcs, Owner
  <2>2. QED  BY <1>1, <1>2, <2>1, RewriteKeeps DEF RemoveUserId, Holders
<1>3. CASE ~operationInProgress
  <2> DEFINE r == [At("resolve") EXCEPT !.op = "stop", !.guard = TRUE]
  <2>1. r \in Call /\ r.guard /\ r.pc = "resolve"
    BY AtIsCall DEF Call, Pcs
  <2>2. QED  BY <1>3, <2>1, TakesGuard DEF RemoveUserId, Operating
<1>4. QED  BY <1>2, <1>3

LEMMA GuardedKeeps ==
    ASSUME Holders, NEW c \in Slots, NEW op \in {"start", "stop", "restart"}, Guarded(c, op)
    PROVE  Holders'
<1> DEFINE r == [At("resolve") EXCEPT !.op = op, !.guard = TRUE]
<1>1. r \in Call /\ r.guard /\ r.pc = "resolve"
  BY AtIsCall DEF Call, Pcs
<1>2. QED  BY <1>1, TakesGuard DEF Guarded, Begin, Operating

LEMMA SignInKeeps ==
    ASSUME Holders, NEW c \in Slots, NEW u \in Users, SignIn(c, u)
    PROVE  Holders'
<1> DEFINE r == [At("read") EXCEPT !.user = u]
<1>1. r \in Call /\ ~r.guard
  BY AtIsCall DEF Call, Pcs, Owner
<1>2. QED  BY <1>1, BeginKeeps DEF SignIn, mem

LEMMA RelaunchKeeps ==
    ASSUME Holders, Types, NEW c \in Slots, Relaunch(c)
    PROVE  Holders'
<1> DEFINE r == IF user # None THEN [At("read") EXCEPT !.user = user] ELSE Idle
<1>1. r \in Call /\ ~r.guard /\ Idle \in Call /\ ~Idle.guard
  BY AtIsCall DEF Types, Call, Pcs, Owner, Idle
<1>2. /\ calls' = [d \in Slots |-> IF d = c THEN r ELSE Idle]
      /\ operationInProgress' = FALSE
  BY DEF Relaunch
<1>3. QED  BY <1>1, <1>2 DEF Holders

-----------------------------------------------------------------------------
(* Each step keeps the guard and the types.                                  *)

LEMMA GuardStep ==
    ASSUME GuardInv, [Next]_vars
    PROVE  GuardInv'
<1>1. ASSUME NEW c \in Slots, Step(c)
      PROVE  GuardInv'
  <2>1. CASE Resolved(c)
    <3>1. Holders'
      BY <2>1, ReturnKeeps, GotoKeeps DEF GuardInv, Resolved, Operating, Pcs
    <3>2. Types'
      BY <2>1 DEF GuardInv, Types, Resolved, States, Owner, mem, files
    <3>3. QED  BY <3>1, <3>2 DEF GuardInv
  <2>2. CASE Kill(c)
    <3>1. Holders'
      BY <2>2, GotoKeeps DEF GuardInv, Kill, Operating, Pcs, mem
    <3>2. Types'
      BY <2>2 DEF GuardInv, Types, Kill, States, Owner, mem, files, Down
    <3>3. QED  BY <3>1, <3>2 DEF GuardInv
  <2>3. CASE Killed(c)
    <3>1. Holders'
      BY <2>3, ReturnKeeps, GotoKeeps DEF GuardInv, Killed, Operating, Pcs
    <3>2. Types'
      BY <2>3 DEF GuardInv, Types, Killed, States, Owner, mem, files
    <3>3. QED  BY <3>1, <3>2 DEF GuardInv
  <2>4. CASE KillFails(c)
    <3>1. Holders'
      BY <2>4, ReturnKeeps DEF GuardInv, KillFails
    <3>2. Types'
      BY <2>4 DEF GuardInv, Types, KillFails, States, Owner, mem, files
    <3>3. QED  BY <3>1, <3>2 DEF GuardInv
  <2>5. CASE Probed(c)
    <3>1. Holders'
      BY <2>5, ReturnKeeps, GotoKeeps DEF GuardInv, Probed, Operating, Pcs
    <3>2. Types'
      BY <2>5, PollTyped DEF GuardInv, Types, Probed, States, mem, files
    <3>3. QED  BY <3>1, <3>2 DEF GuardInv
  <2>6. CASE Spawn(c)
    <3>1. Holders'
      BY <2>6, GotoKeeps DEF GuardInv, Spawn, Operating, Pcs, mem
    <3>2. Types'
      BY <2>6 DEF GuardInv, Types, Spawn, States, Owner, mem, files, Up
    <3>3. QED  BY <3>1, <3>2 DEF GuardInv
  <2>7. CASE SpawnFails(c)
    <3>1. Holders'
      BY <2>7, GotoKeeps DEF GuardInv, SpawnFails, Operating, Pcs, mem
    <3>2. Types'
      BY <2>7 DEF GuardInv, Types, SpawnFails, States, Owner, mem, files
    <3>3. QED  BY <3>1, <3>2 DEF GuardInv
  <2>8. CASE Spawned(c)
    <3>1. Holders'
      BY <2>8, ReturnKeeps DEF GuardInv, Spawned
    <3>2. Types'
      BY <2>8, PollTyped DEF GuardInv, Types, Spawned, States, mem, files
    <3>3. QED  BY <3>1, <3>2 DEF GuardInv
  <2>9. CASE Refused(c)
    <3>1. Holders'
      BY <2>9, ReturnKeeps DEF GuardInv, Refused
    <3>2. Types'
      BY <2>9 DEF GuardInv, Types, Refused, States, Owner, mem, files
    <3>3. QED  BY <3>1, <3>2 DEF GuardInv
  <2>10. CASE Versioned(c)
    <3>1. Holders'
      BY <2>10, VersionedKeeps, ReturnKeeps DEF GuardInv, Versioned
    <3>2. Types'
      BY <2>10 DEF GuardInv, Types, Versioned, States, Owner, mem, files
    <3>3. QED  BY <3>1, <3>2 DEF GuardInv
  <2>11. CASE Read(c)
    <3>1. Holders'
      BY <2>11, ReadKeeps DEF GuardInv
    <3>2. Types'
      BY <2>11 DEF GuardInv, Types, Read, States, Owner, mem, files
    <3>3. QED  BY <3>1, <3>2 DEF GuardInv
  <2>12. CASE Mint(c)
    <3>1. Holders'
      BY <2>12, GotoFree DEF GuardInv, Mint, Operating, Pcs, mem
    <3>2. Types'
      BY <2>12 DEF GuardInv, Types, Mint, States, Owner, mem, files
    <3>3. QED  BY <3>1, <3>2 DEF GuardInv
  <2>13. CASE MintFails(c)
    <3>1. Holders'
      BY <2>13, ReturnKeeps DEF GuardInv, MintFails
    <3>2. Types'
      BY <2>13 DEF GuardInv, Types, MintFails, States, Owner, mem, files
    <3>3. QED  BY <3>1, <3>2 DEF GuardInv
  <2>14. CASE WriteConfig(c)
    <3>1. Holders'
      BY <2>14, GotoFree DEF GuardInv, WriteConfig, Operating, Pcs, mem
    <3>2. Types'
      BY <2>14
         DEF GuardInv, Types, WriteConfig, States, Owner, mem, files, Holders, Call
    <3>3. QED  BY <3>1, <3>2 DEF GuardInv
  <2>15. CASE WriteUserId(c)
    <3>1. Holders'
      BY <2>15, GotoFree DEF GuardInv, WriteUserId, Operating, Pcs, mem
    <3>2. Types'
      BY <2>15
         DEF GuardInv, Types, WriteUserId, States, Owner, mem, files, Holders, Call
    <3>3. QED  BY <3>1, <3>2 DEF GuardInv
  <2>16. CASE RestartOnSwitch(c)
    <3>1. Holders'
      BY <2>16, RestartKeeps DEF GuardInv
    <3>2. Types'
      BY <2>16 DEF GuardInv, Types, RestartOnSwitch, States, Owner, mem, files
    <3>3. QED  BY <3>1, <3>2 DEF GuardInv
  <2>17. CASE AutoResolved(c)
    <3>1. Holders'
      BY <2>17, ReturnKeeps, GotoFree DEF GuardInv, AutoResolved, Operating, Pcs
    <3>2. Types'
      BY <2>17 DEF GuardInv, Types, AutoResolved, States, Owner, mem, files
    <3>3. QED  BY <3>1, <3>2 DEF GuardInv
  <2>18. CASE AutoProbed(c)
    <3>1. Holders'
      BY <2>18, GotoFree DEF GuardInv, AutoProbed, Operating, Pcs, mem
    <3>2. Types'
      BY <2>18 DEF GuardInv, Types, AutoProbed, States, Owner, mem, files
    <3>3. QED  BY <3>1, <3>2 DEF GuardInv
  <2>19. CASE ClearConfig(c)
    <3>1. Holders'
      BY <2>19, GotoFree DEF GuardInv, ClearConfig, Operating, Pcs, mem
    <3>2. Types'
      BY <2>19 DEF GuardInv, Types, ClearConfig, States, Owner, mem, files
    <3>3. QED  BY <3>1, <3>2 DEF GuardInv
  <2>20. CASE RemoveUserId(c)
    <3>1. Holders'
      BY <2>20, RemoveKeeps DEF GuardInv
    <3>2. Types'
      BY <2>20 DEF GuardInv, Types, RemoveUserId, States, Owner, mem, files
    <3>3. QED  BY <3>1, <3>2 DEF GuardInv
  <2>21. QED
    BY <1>1, <2>1, <2>2, <2>3, <2>4, <2>5, <2>6, <2>7, <2>8, <2>9, <2>10,
        <2>11, <2>12, <2>13, <2>14, <2>15, <2>16, <2>17, <2>18, <2>19, <2>20 DEF Step
<1>2. ASSUME NEW c \in Slots,
             ClickStart(c) \/ ClickStop(c) \/ ClickRestart(c) \/ FirstWorkspace(c)
      PROVE  GuardInv'
  <2>1. ASSUME NEW op \in {"start", "stop", "restart"}, Guarded(c, op), user # None
        PROVE  GuardInv'
    <3>1. Holders'
      BY <2>1, GuardedKeeps DEF GuardInv
    <3>2. Types'
      BY <2>1 DEF GuardInv, Types, Guarded, States, Owner, mem, files
    <3>3. QED  BY <3>1, <3>2 DEF GuardInv
  <2>2. QED  BY <1>2, <2>1 DEF ClickStart, ClickStop, ClickRestart, FirstWorkspace
<1>3. ASSUME NEW c \in Slots,
             (\E u \in Users : SignIn(c, u)) \/ SignOut(c) \/ Relaunch(c)
      PROVE  GuardInv'
  <2>1. ASSUME NEW u \in Users, SignIn(c, u)
        PROVE  GuardInv'
    <3>1. Holders'
      BY <2>1, SignInKeeps DEF GuardInv
    <3>2. Types'
      BY <2>1 DEF GuardInv, Types, SignIn, States, Owner, mem, files
    <3>3. QED  BY <3>1, <3>2 DEF GuardInv
  <2>2. CASE SignOut(c)
    <3>1. Holders'
      BY <2>2, BeginKeeps, AtIsCall DEF GuardInv, SignOut, Pcs, mem
    <3>2. Types'
      BY <2>2 DEF GuardInv, Types, SignOut, States, Owner, mem, files
    <3>3. QED  BY <3>1, <3>2 DEF GuardInv
  <2>3. CASE Relaunch(c)
    <3>1. Holders'
      BY <2>3, RelaunchKeeps DEF GuardInv
    <3>2. Types'
      BY <2>3 DEF GuardInv, Types, Relaunch, States, Owner, mem, files
    <3>3. QED  BY <3>1, <3>2 DEF GuardInv
  <2>4. QED  BY <1>3, <2>1, <2>2, <2>3
<1>4. ASSUME NEW k \in PollSlots, PollStep(k)
      PROVE  GuardInv'
  <2>1. CASE PollTick(k)
    <3>1. Holders'
      BY <2>1 DEF GuardInv, Holders, mem, PollTick
    <3>2. Types'
      BY <2>1 DEF GuardInv, Types, PollTick, States, Owner, mem, files
    <3>3. QED  BY <3>1, <3>2 DEF GuardInv
  <2>2. CASE PollAnswer(k)
    <3>1. Holders'
      BY <2>2 DEF GuardInv, Holders, mem, PollAnswer
    <3>2. Types'
      BY <2>2 DEF GuardInv, Types, PollAnswer, States, Owner, mem, files
    <3>3. QED  BY <3>1, <3>2 DEF GuardInv
  <2>3. CASE PollApply(k)
    <3>1. Holders'
      BY <2>3, BeginKeeps, AtIsCall DEF GuardInv, Holders, PollApply, mem, Pcs
    <3>2. Types'
      BY <2>3 DEF GuardInv, Types, PollApply, States, Owner, mem, files, Verdict
    <3>3. QED  BY <3>1, <3>2 DEF GuardInv
  <2>4. QED  BY <1>4, <2>1, <2>2, <2>3 DEF PollStep
<1>5. ASSUME NEW found \in Resolution, Bootstrapped(found)
      PROVE  GuardInv'
  <2>1. Holders'
    BY <1>5 DEF GuardInv, Holders, mem, Bootstrapped
  <2>2. Types'
    BY <1>5, PollTyped
       DEF GuardInv, Types, Bootstrapped, States, Resolution, mem, files
  <2>3. QED  BY <2>1, <2>2 DEF GuardInv
<1>6. CASE RetryInstall
  <2>1. Holders'
    BY <1>6 DEF GuardInv, Holders, mem, RetryInstall
  <2>2. Types'
    BY <1>6 DEF GuardInv, Types, RetryInstall, States, Owner, mem, files
  <2>3. QED  BY <2>1, <2>2 DEF GuardInv
<1>7. CASE TaskBegins
  <2>1. Holders'
    BY <1>7 DEF GuardInv, Holders, mem, TaskBegins
  <2>2. Types'
    BY <1>7, Bounds DEF GuardInv, Types, TaskBegins, mem, files, Bounds
  <2>3. QED  BY <2>1, <2>2 DEF GuardInv
<1>8. CASE TaskEnds
  <2>1. Holders'
    BY <1>8 DEF GuardInv, Holders, mem, TaskEnds
  <2>2. Types'
    BY <1>8 DEF GuardInv, Types, TaskEnds, States, Owner, mem, files
  <2>3. QED  BY <2>1, <2>2 DEF GuardInv
<1>9. CASE DaemonDies
  <2>1. Holders'
    BY <1>9 DEF GuardInv, Holders, mem, DaemonDies
  <2>2. Types'
    BY <1>9 DEF GuardInv, Types, DaemonDies, States, Owner, mem, files, Down
  <2>3. QED  BY <2>1, <2>2 DEF GuardInv
<1>10. CASE UNCHANGED vars
  BY <1>10 DEF GuardInv, Holders, Types, vars, mem, files
<1>11. QED
  BY <1>1, <1>2, <1>3, <1>4, <1>5, <1>6, <1>7, <1>8, <1>9, <1>10 DEF Next, Setups

LEMMA GuardAlways == Spec => []GuardInv
BY InitGuard, GuardStep, PTL DEF Spec

\* Two operations of the user never overlap, and no path through start, stop
\* and restart leaves the guard of withGuard taken behind: any number of
\* calls, whatever fails.
THEOREM GuardIsHeld == Spec => []GuardHasItsHolder
BY GuardAlways, GuardInvImplies, PTL

-----------------------------------------------------------------------------
(* The set-up.  While the CLI is being resolved, no call stands where a CLI  *)
(* is needed and no poll is in flight: nothing overwrites the state.         *)

NeedsCli == {"kill", "killed", "probe", "spawn", "spawned", "refused", "aprobe", "vprobe"}

SetupInv ==
    /\ installs \in {0, 1}
    /\ installs = 1 <=> cli = "unresolved"
    /\ polling <=> cli = "ok"
    /\ cli = "none" <=> state = "cli_not_found" /\ installs = 0
    /\ \A c \in Slots : calls[c].pc \in NeedsCli => cli = "ok"
    /\ \A k \in PollSlots : polls[k] # "idle" => cli = "ok"

LEMMA InitSetup == Init => SetupInv
BY DEF Init, SetupInv, Idle, NeedsCli

\* RestartOnSwitch, as what it does to the call and to the slot it takes.
LEMMA SwitchMoves ==
    ASSUME Holders, NEW c \in Slots, RestartOnSwitch(c)
    PROVE  \A e \in Slots :
              \/ calls'[e] = calls[e]
              \/ /\ e = c /\ calls[c].pc = "uprobe"
                 /\ calls'[c] = [calls[c] EXCEPT !.pc = "aresolve"]
              \/ /\ daemon.up /\ e # c /\ calls[e].pc = "idle"
                 /\ calls'[e] = [At("resolve") EXCEPT !.op = "restart"]
<1>1. CASE ~daemon.up
  BY <1>1 DEF RestartOnSwitch, Goto, Holders
<1>2. CASE daemon.up
  <2>1. PICK d \in Slots \ {c} :
           /\ calls[d].pc = "idle"
           /\ calls' = [calls EXCEPT ![c].pc = "aresolve",
                                     ![d] = [At("resolve") EXCEPT !.op = "restart"]]
    BY <1>2 DEF RestartOnSwitch
  <2>2. QED  BY <1>2, <2>1 DEF RestartOnSwitch, Holders
<1>3. QED  BY <1>1, <1>2

LEMMA SetupStep ==
    ASSUME GuardInv, SetupInv, MaxInstalls = 1, [Next]_vars
    PROVE  SetupInv'
<1>1. ASSUME NEW c \in Slots, Step(c)
      PROVE  SetupInv'
  <2>1. CASE Resolved(c)
    BY <2>1
       DEF Resolved, GuardInv, Holders, Types, SetupInv, NeedsCli, Idle, mem, files,
           Return, Goto
  <2>2. CASE Kill(c)
    BY <2>2 DEF Kill, GuardInv, Holders, Types, SetupInv, NeedsCli, mem, files, Goto
  <2>3. CASE Killed(c)
    BY <2>3
       DEF Killed, GuardInv, Holders, Types, SetupInv, NeedsCli, Idle, mem, files,
           Return, Goto
  <2>4. CASE KillFails(c)
    BY <2>4
       DEF KillFails, GuardInv, Holders, Types, SetupInv, NeedsCli, Idle, mem,
           files, Return
  <2>5. CASE Probed(c)
    BY <2>5
       DEF Probed, GuardInv, Holders, Types, SetupInv, NeedsCli, Idle, mem, files,
           Return, Goto, Poll
  <2>6. CASE Spawn(c)
    BY <2>6
       DEF Spawn, GuardInv, Holders, Types, SetupInv, NeedsCli, mem, files, Goto
  <2>7. CASE SpawnFails(c)
    BY <2>7
       DEF SpawnFails, GuardInv, Holders, Types, SetupInv, NeedsCli, mem, files,
           Goto
  <2>8. CASE Spawned(c)
    BY <2>8
       DEF Spawned, GuardInv, Holders, Types, SetupInv, NeedsCli, Idle, mem, files,
           Return, Poll
  <2>9. CASE Refused(c)
    BY <2>9
       DEF Refused, GuardInv, Holders, Types, SetupInv, NeedsCli, Idle, mem, files,
           Return
  <2>10. CASE Versioned(c)
    BY <2>10
       DEF Versioned, GuardInv, Holders, Types, SetupInv, NeedsCli, Idle, mem,
           files, Return
  <2>11. CASE Read(c)
    BY <2>11 DEF Read, GuardInv, Holders, Types, SetupInv, NeedsCli, mem, files
  <2>12. CASE Mint(c)
    BY <2>12
       DEF Mint, GuardInv, Holders, Types, SetupInv, NeedsCli, mem, files, Goto
  <2>13. CASE MintFails(c)
    BY <2>13
       DEF MintFails, GuardInv, Holders, Types, SetupInv, NeedsCli, Idle, mem,
           files, Return
  <2>14. CASE WriteConfig(c)
    BY <2>14
       DEF WriteConfig, GuardInv, Holders, Types, SetupInv, NeedsCli, mem, files,
           Goto
  <2>15. CASE WriteUserId(c)
    BY <2>15
       DEF WriteUserId, GuardInv, Holders, Types, SetupInv, NeedsCli, mem, files,
           Goto
  <2>16. CASE RestartOnSwitch(c)
    <3>1. ASSUME NEW e \in Slots, calls'[e].pc \in NeedsCli
          PROVE  calls[e].pc \in NeedsCli
      <4>1. calls'[e] = calls[e]
        <5>1. [calls[c] EXCEPT !.pc = "aresolve"].pc = "aresolve"
          BY DEF GuardInv, Holders, Call
        <5>2. [At("resolve") EXCEPT !.op = "restart"].pc = "resolve"
          BY DEF At, Idle
        <5>3. QED  BY <2>16, <3>1, <5>1, <5>2, SwitchMoves DEF GuardInv, NeedsCli
      <4>2. QED  BY <3>1, <4>1
    <3>2. QED  BY <2>16, <3>1 DEF RestartOnSwitch, SetupInv, mem
  <2>17. CASE AutoResolved(c)
    BY <2>17
       DEF AutoResolved, GuardInv, Holders, Types, SetupInv, NeedsCli, Idle, mem,
           files, Return, Goto
  <2>18. CASE AutoProbed(c)
    BY <2>18
       DEF AutoProbed, GuardInv, Holders, Types, SetupInv, NeedsCli, mem, files,
           Goto
  <2>19. CASE ClearConfig(c)
    BY <2>19
       DEF ClearConfig, GuardInv, Holders, Types, SetupInv, NeedsCli, mem, files,
           Goto
  <2>20. CASE RemoveUserId(c)
    BY <2>20
       DEF RemoveUserId, GuardInv, Holders, Types, SetupInv, NeedsCli, Idle, mem,
           files, At
  <2>21. QED
    BY <1>1, <2>1, <2>2, <2>3, <2>4, <2>5, <2>6, <2>7, <2>8, <2>9, <2>10,
        <2>11, <2>12, <2>13, <2>14, <2>15, <2>16, <2>17, <2>18, <2>19, <2>20 DEF Step
<1>2. ASSUME NEW c \in Slots,
             ClickStart(c) \/ ClickStop(c) \/ ClickRestart(c) \/ FirstWorkspace(c)
      PROVE  SetupInv'
  <2>1. ASSUME NEW op \in {"start", "stop", "restart"}, Guarded(c, op), user # None
        PROVE  SetupInv'
    BY <2>1
       DEF Guarded, GuardInv, Holders, Types, SetupInv, NeedsCli, Idle, mem, files,
           At, Begin
  <2>2. QED  BY <1>2, <2>1 DEF ClickStart, ClickStop, ClickRestart, FirstWorkspace
<1>3. ASSUME NEW c \in Slots,
             (\E u \in Users : SignIn(c, u)) \/ SignOut(c) \/ Relaunch(c)
      PROVE  SetupInv'
  <2>1. ASSUME NEW u \in Users, SignIn(c, u)
        PROVE  SetupInv'
    BY <2>1
       DEF SignIn, GuardInv, Holders, Types, SetupInv, NeedsCli, Idle, mem, files,
           At, Begin
  <2>2. CASE SignOut(c)
    BY <2>2
       DEF SignOut, GuardInv, Holders, Types, SetupInv, NeedsCli, Idle, mem, files,
           At, Begin
  <2>3. CASE Relaunch(c)
    BY <2>3
       DEF Relaunch, GuardInv, Holders, Types, SetupInv, NeedsCli, Idle, mem, files,
           At
  <2>4. QED  BY <1>3, <2>1, <2>2, <2>3
<1>4. ASSUME NEW k \in PollSlots, PollStep(k)
      PROVE  SetupInv'
  <2>1. CASE PollTick(k)
    BY <2>1 DEF PollTick, GuardInv, Holders, Types, SetupInv, NeedsCli, mem, files
  <2>2. CASE PollAnswer(k)
    BY <2>2 DEF PollAnswer, GuardInv, Holders, Types, SetupInv, NeedsCli, mem, files
  <2>3. CASE PollApply(k)
    BY <2>3
       DEF PollApply, GuardInv, Holders, Types, SetupInv, NeedsCli, Idle, mem,
           files, At, Begin, Verdict
  <2>4. QED  BY <1>4, <2>1, <2>2, <2>3 DEF PollStep
<1>5. ASSUME NEW found \in Resolution, Bootstrapped(found)
      PROVE  SetupInv'
  <2>1. installs' = 0 /\ cli = "unresolved" /\ ~polling
    BY <1>5 DEF Bootstrapped, SetupInv
  <2>2. /\ \A k \in PollSlots : polls[k] = "idle"
        /\ \A d \in Slots : calls'[d].pc \notin NeedsCli
    BY <1>5, <2>1 DEF Bootstrapped, SetupInv
  <2>3. CASE found = "ok"
    <3>1. cli' = "ok" /\ polling' /\ state' = "stopped"
      BY <1>5, <2>1, <2>3 DEF Bootstrapped
    <3>2. QED  BY <2>1, <3>1 DEF SetupInv
  <2>4. CASE found = "none"
    <3>1. cli' = "none" /\ ~polling' /\ state' = "cli_not_found" /\ polls' = polls
      BY <1>5, <2>1, <2>4 DEF Bootstrapped
    <3>2. QED  BY <2>1, <2>2, <3>1 DEF SetupInv
  <2>5. QED  BY <2>3, <2>4 DEF Resolution
<1>6. CASE RetryInstall
  BY <1>6 DEF RetryInstall, GuardInv, Holders, Types, SetupInv, NeedsCli, mem, files
<1>7. CASE TaskBegins
  BY <1>7 DEF TaskBegins, GuardInv, Holders, Types, SetupInv, NeedsCli, mem, files
<1>8. CASE TaskEnds
  BY <1>8 DEF TaskEnds, GuardInv, Holders, Types, SetupInv, NeedsCli, mem, files
<1>9. CASE DaemonDies
  BY <1>9 DEF DaemonDies, GuardInv, Holders, Types, SetupInv, NeedsCli, mem, files
<1>10. CASE UNCHANGED vars
  BY <1>10 DEF SetupInv, vars, mem, files
<1>11. QED
  BY <1>1, <1>2, <1>3, <1>4, <1>5, <1>6, <1>7, <1>8, <1>9, <1>10 DEF Next, Setups

\* The window says that the set-up failed exactly while there is no CLI: as
\* long as the retry button does not start a second installation over the first.
THEOREM SetupIsShown ==
    ASSUME MaxInstalls = 1
    PROVE  Spec => []SetupFailedMeansNoCli
<1>1. GuardInv /\ SetupInv /\ [Next]_vars => SetupInv'
  BY SetupStep
<1>2. SetupInv => SetupFailedMeansNoCli
  BY DEF SetupInv, SetupFailedMeansNoCli
<1>3. QED  BY <1>1, <1>2, InitSetup, GuardAlways, PTL DEF Spec

-----------------------------------------------------------------------------
(* The token and its sidecar.  When sessions change while nothing is in      *)
(* flight, at most one call is between reading and writing them.             *)

Filing == {"read", "mint", "write", "sidecar", "clear", "remove"}

SidecarInv ==
    /\ \A c, d \in Slots : calls[c].pc \in Filing /\ calls[d].pc \in Filing => c = d
    /\ \A c \in Slots :
          /\ calls[c].pc = "read" => calls[c].user # None
          /\ calls[c].pc \in {"mint", "write", "sidecar"} =>
                calls[c].final = calls[c].user /\ calls[c].user # None
          /\ calls[c].pc = "sidecar" => token = calls[c].user
    /\ SidecarVouches

LEMMA InitSidecar == Init => SidecarInv
BY DEF Init, SidecarInv, SidecarVouches, Idle, Filing

\* What SidecarInv says is kept by a step that neither writes the two files nor
\* moves a call into, out of or within Filing.
LEMMA ElsewhereFiles ==
    ASSUME SidecarInv, UNCHANGED files,
           \A e \in Slots : \/ calls'[e] = calls[e]
                            \/ calls'[e].pc \notin Filing /\ calls[e].pc \notin Filing
    PROVE  SidecarInv'
<1>1. \A e \in Slots : calls'[e].pc \in Filing \/ calls[e].pc \in Filing => calls'[e] = calls[e]
  OBVIOUS
<1>2. \A c, d \in Slots : calls'[c].pc \in Filing /\ calls'[d].pc \in Filing => c = d
  BY <1>1 DEF SidecarInv
<1>3. \A c \in Slots :
         /\ calls'[c].pc = "read" => calls'[c].user # None
         /\ calls'[c].pc \in {"mint", "write", "sidecar"} =>
               calls'[c].final = calls'[c].user /\ calls'[c].user # None
         /\ calls'[c].pc = "sidecar" => token = calls'[c].user
  BY <1>1 DEF SidecarInv, Filing
<1>4. (SidecarVouches)'
  BY <1>1 DEF SidecarInv, SidecarVouches, Filing, files
<1>5. QED  BY <1>2, <1>3, <1>4 DEF SidecarInv, files

\* A call that begins to file does so alone.
LEMMA BeginsFiling ==
    ASSUME SidecarInv, UNCHANGED files, NEW c \in Slots,
           \A e \in Slots : e # c => calls'[e].pc \notin Filing,
           \A e \in Slots : calls[e].pc \notin Filing,
           calls'[c].pc \in {"read", "clear", "idle"},
           calls'[c].pc = "read" => calls'[c].user # None
    PROVE  SidecarInv'
BY DEF SidecarInv, SidecarVouches, Filing, files

\* The one that files moves on.
LEMMA GoesOnFiling ==
    ASSUME SidecarInv, NEW c \in Slots, calls[c].pc \in Filing,
           \A e \in Slots : e # c => calls'[e] = calls[e],
           calls'[c].pc = "read" => calls'[c].user # None,
           calls'[c].pc \in {"mint", "write", "sidecar"} =>
              calls'[c].final = calls'[c].user /\ calls'[c].user # None,
           calls'[c].pc = "sidecar" => token' = calls'[c].user,
           sidecar' # None /\ calls'[c].pc \notin {"sidecar", "remove"} => token' = sidecar'
    PROVE  SidecarInv'
<1>1. \A e \in Slots : e # c => calls'[e].pc \notin Filing
  BY DEF SidecarInv
<1>2. (SidecarVouches)'
  BY <1>1 DEF SidecarVouches, Filing
<1>3. QED  BY <1>1, <1>2 DEF SidecarInv, Filing

LEMMA SidecarStep ==
    ASSUME GuardInv, SidecarInv, Hasty = FALSE, [Next]_vars
    PROVE  SidecarInv'
<1>1. ASSUME NEW c \in Slots, Step(c)
      PROVE  SidecarInv'
  <2>1. CASE Resolved(c)
    BY <2>1, ElsewhereFiles
       DEF Resolved, GuardInv, Holders, Call, Filing, mem, files, Idle, Return, Goto
  <2>2. CASE Kill(c)
    BY <2>2, ElsewhereFiles
       DEF Kill, GuardInv, Holders, Call, Filing, mem, files, Goto
  <2>3. CASE Killed(c)
    BY <2>3, ElsewhereFiles
       DEF Killed, GuardInv, Holders, Call, Filing, mem, files, Idle, Return, Goto
  <2>4. CASE KillFails(c)
    BY <2>4, ElsewhereFiles
       DEF KillFails, GuardInv, Holders, Call, Filing, mem, files, Idle, Return
  <2>5. CASE Probed(c)
    BY <2>5, ElsewhereFiles
       DEF Probed, GuardInv, Holders, Call, Filing, mem, files, Idle, Return, Goto,
           Poll
  <2>6. CASE Spawn(c)
    BY <2>6, ElsewhereFiles
       DEF Spawn, GuardInv, Holders, Call, Filing, mem, files, Goto
  <2>7. CASE SpawnFails(c)
    BY <2>7, ElsewhereFiles
       DEF SpawnFails, GuardInv, Holders, Call, Filing, mem, files, Goto
  <2>8. CASE Spawned(c)
    BY <2>8, ElsewhereFiles
       DEF Spawned, GuardInv, Holders, Call, Filing, mem, files, Idle, Return, Poll
  <2>9. CASE Refused(c)
    BY <2>9, ElsewhereFiles
       DEF Refused, GuardInv, Holders, Call, Filing, mem, files, Idle, Return
  <2>10. CASE Versioned(c)
    BY <2>10, ElsewhereFiles
       DEF Versioned, GuardInv, Holders, Call, Filing, mem, files, Idle, Return
  <2>11. CASE Read(c)
    <3>1. /\ calls[c].pc = "read" /\ calls[c].user # None /\ calls[c] \in Call
          /\ \A e \in Slots : calls[e].pc \in {"sidecar", "remove"} => e = c
      BY <2>11 DEF Read, GuardInv, Holders, SidecarInv, Filing
    <3>2. sidecar # None => token = sidecar
      BY <3>1 DEF SidecarInv, SidecarVouches
    <3>3. Reuse(calls[c].user) => token = calls[c].user
      BY <3>1, <3>2 DEF Reuse
    <3>4. /\ calls'[c].pc \in {"mint", "write"} /\ calls'[c].user = calls[c].user
          /\ calls'[c].final = calls[c].user
          /\ \A e \in Slots : e # c => calls'[e] = calls[e]
      BY <2>11, <3>1, <3>3 DEF Read, Call, GuardInv, Holders
    <3>5. UNCHANGED files
      BY <2>11 DEF Read
    <3>6. QED
      BY <3>1, <3>2, <3>4, <3>5, GoesOnFiling DEF Filing, files
  <2>12. CASE Mint(c)
    BY <2>12, GoesOnFiling
       DEF Mint, GuardInv, Holders, Types, Call, SidecarInv, SidecarVouches, Filing,
           mem, files, Goto
  <2>13. CASE MintFails(c)
    BY <2>13, GoesOnFiling
       DEF MintFails, GuardInv, Holders, Types, Call, SidecarInv, SidecarVouches,
           Filing, mem, files, Return, Idle
  <2>14. CASE WriteConfig(c)
    BY <2>14, GoesOnFiling
       DEF WriteConfig, GuardInv, Holders, Types, Call, SidecarInv, SidecarVouches,
           Filing, mem, files, Goto
  <2>15. CASE WriteUserId(c)
    BY <2>15, GoesOnFiling
       DEF WriteUserId, GuardInv, Holders, Types, Call, SidecarInv, SidecarVouches,
           Filing, mem, files, Goto
  <2>16. CASE RestartOnSwitch(c)
    <3>1. [calls[c] EXCEPT !.pc = "aresolve"].pc = "aresolve"
      BY DEF GuardInv, Holders, Call
    <3>2. [At("resolve") EXCEPT !.op = "restart"].pc = "resolve"
      BY DEF At, Idle
    <3>3. \A e \in Slots : \/ calls'[e] = calls[e]
                           \/ calls'[e].pc \notin Filing /\ calls[e].pc \notin Filing
      BY <2>16, <3>1, <3>2, SwitchMoves DEF GuardInv, Filing
    <3>4. QED  BY <2>16, <3>3, ElsewhereFiles DEF RestartOnSwitch
  <2>17. CASE AutoResolved(c)
    BY <2>17, ElsewhereFiles
       DEF AutoResolved, GuardInv, Holders, Call, Filing, mem, files, Idle, Return,
           Goto
  <2>18. CASE AutoProbed(c)
    BY <2>18, ElsewhereFiles
       DEF AutoProbed, GuardInv, Holders, Call, Filing, mem, files, Goto
  <2>19. CASE ClearConfig(c)
    BY <2>19, GoesOnFiling
       DEF ClearConfig, GuardInv, Holders, Types, Call, SidecarInv, SidecarVouches,
           Filing, mem, files, Goto
  <2>20. CASE RemoveUserId(c)
    BY <2>20, GoesOnFiling
       DEF RemoveUserId, GuardInv, Holders, Types, Call, SidecarInv, SidecarVouches,
           Filing, mem, files, At, Idle
  <2>21. QED
    BY <1>1, <2>1, <2>2, <2>3, <2>4, <2>5, <2>6, <2>7, <2>8, <2>9, <2>10,
        <2>11, <2>12, <2>13, <2>14, <2>15, <2>16, <2>17, <2>18, <2>19, <2>20 DEF Step
<1>2. ASSUME NEW c \in Slots,
             ClickStart(c) \/ ClickStop(c) \/ ClickRestart(c) \/ FirstWorkspace(c)
      PROVE  SidecarInv'
  <2>1. ASSUME NEW op \in {"start", "stop", "restart"}, Guarded(c, op), user # None
        PROVE  SidecarInv'
    BY <2>1, ElsewhereFiles
       DEF Guarded, GuardInv, Holders, Call, Filing, mem, files, Idle, At, Begin
  <2>2. QED  BY <1>2, <2>1 DEF ClickStart, ClickStop, ClickRestart, FirstWorkspace
<1>3. ASSUME NEW c \in Slots,
             (\E u \in Users : SignIn(c, u)) \/ SignOut(c) \/ Relaunch(c)
      PROVE  SidecarInv'
  <2>1. ASSUME NEW u \in Users, SignIn(c, u)
        PROVE  SidecarInv'
    <3>1. \A e \in Slots : calls[e].pc \notin Filing
      BY <2>1 DEF SignIn, MaySwitch, Quiet, InFlight, Filing
    <3>2. QED
      BY <2>1, <3>1, BeginsFiling, NoneIsNoUser
         DEF SignIn, Begin, At, Idle, GuardInv, Holders, Types, Call, Filing, files
  <2>2. CASE SignOut(c)
    <3>1. \A e \in Slots : calls[e].pc \notin Filing
      BY <2>2 DEF SignOut, MaySwitch, Quiet, InFlight, Filing
    <3>2. QED
      BY <2>2, <3>1, BeginsFiling, NoneIsNoUser
         DEF SignOut, Begin, At, Idle, GuardInv, Holders, Types, Call, Filing, files
  <2>3. CASE Relaunch(c)
    <3>1. \A e \in Slots : calls[e].pc \notin Filing
      BY <2>3 DEF Relaunch, MaySwitch, Quiet, InFlight, Filing
    <3>2. QED
      BY <2>3, <3>1, BeginsFiling, NoneIsNoUser
         DEF Relaunch, At, Idle, GuardInv, Holders, Types, Call, Filing, files
  <2>4. QED  BY <1>3, <2>1, <2>2, <2>3
<1>4. ASSUME NEW k \in PollSlots, PollStep(k)
      PROVE  SidecarInv'
  <2>1. CASE PollTick(k)
    BY <2>1, ElsewhereFiles DEF PollTick, mem, files
  <2>2. CASE PollAnswer(k)
    BY <2>2, ElsewhereFiles DEF PollAnswer, mem, files
  <2>3. CASE PollApply(k)
    <3>1. \A e \in Slots : \/ calls'[e] = calls[e]
                           \/ calls'[e].pc \notin Filing /\ calls[e].pc \notin Filing
      <4>1. CASE UNCHANGED calls
        BY <4>1
      <4>2. CASE \E c \in Slots : Begin(c, At("vprobe"))
        BY <4>2 DEF Begin, At, Idle, Filing, GuardInv, Holders
      <4>3. QED  BY <2>3, <4>1, <4>2 DEF PollApply
    <3>2. QED  BY <2>3, <3>1, ElsewhereFiles DEF PollApply
  <2>4. QED  BY <1>4, <2>1, <2>2, <2>3 DEF PollStep
<1>5. ASSUME NEW found \in Resolution, Bootstrapped(found)
      PROVE  SidecarInv'
  BY <1>5, ElsewhereFiles DEF Bootstrapped, mem, files
<1>6. CASE RetryInstall
  BY <1>6, ElsewhereFiles DEF RetryInstall, mem, files
<1>7. CASE TaskBegins
  BY <1>7, ElsewhereFiles DEF TaskBegins, mem, files
<1>8. CASE TaskEnds
  BY <1>8, ElsewhereFiles DEF TaskEnds, mem, files
<1>9. CASE DaemonDies
  BY <1>9, ElsewhereFiles DEF DaemonDies, mem, files
<1>10. CASE UNCHANGED vars
  BY <1>10 DEF SidecarInv, SidecarVouches, vars, mem, files
<1>11. QED
  BY <1>1, <1>2, <1>3, <1>4, <1>5, <1>6, <1>7, <1>8, <1>9, <1>10 DEF Next, Setups

\* The cached token is that of the user its sidecar names, whatever fails: as
\* long as sessions change only while no call is in flight.
THEOREM SidecarIsTrue ==
    ASSUME Hasty = FALSE
    PROVE  Spec => []SidecarVouches
<1>1. GuardInv /\ SidecarInv /\ [Next]_vars => SidecarInv'
  BY SidecarStep
<1>2. SidecarInv => SidecarVouches
  BY DEF SidecarInv
<1>3. QED  BY <1>1, <1>2, InitSidecar, GuardAlways, PTL DEF Spec

-----------------------------------------------------------------------------
(* The daemon and the session.  A daemon that works for somebody else than   *)
(* the user who is signed in is about to be stopped: a call in flight will   *)
(* notice that the user changed, or is on its way to the kill.               *)

Syncing == {"read", "mint", "write", "sidecar"}
SomeAt(P) == \E c \in Slots : calls[c].pc \in P

FilesOwned ==
    /\ cli # "none"
    /\ \A c \in Slots :
          /\ calls[c].pc \in Syncing => user # None /\ calls[c].user = user
          /\ calls[c].pc \in {"clear", "remove"} => user = None /\ ~operationInProgress
          /\ calls[c].pc = "read" /\ token # None => token = sidecar
          /\ calls[c].pc \in {"mint", "write"} /\ token \notin {None, user} => calls[c].changed
    /\ user # None => sidecar = user \/ SomeAt(Syncing)
    /\ user # None => token = user \/ SomeAt({"read", "mint", "write"})
    /\ user = None => token = None \/ SomeAt({"clear"})

\* The call leads to a restart or a stop of the daemon.
Fixing(c) ==
    \/ calls[c].pc = "read" /\ sidecar \notin {None, user}
    \/ calls[c].pc \in {"mint", "write", "sidecar", "uprobe"} /\ calls[c].changed
    \/ calls[c].pc \in {"resolve", "kill"} /\ calls[c].op \in {"restart", "stop"}
    \/ calls[c].pc \in {"clear", "remove"}

DaemonFixed ==
    daemon.up /\ (user = None \/ daemon.creds # user) => \E c \in Slots : Fixing(c)

Owned == FilesOwned /\ DaemonFixed

LEMMA InitOwned == Init => Owned
BY DEF Init, Owned, FilesOwned, DaemonFixed, SomeAt, Syncing, Idle, Down

\* What FilesOwned says is kept by a step that stays away from the files.
LEMMA ElsewhereOwned ==
    ASSUME FilesOwned, UNCHANGED <<files, user>>, cli' # "none",
           operationInProgress' => operationInProgress \/ user # None,
           \A e \in Slots : \/ calls'[e] = calls[e]
                            \/ calls'[e].pc \notin Filing /\ calls[e].pc \notin Filing
    PROVE  FilesOwned'
<1>1. \A e \in Slots : calls'[e].pc \in Filing \/ calls[e].pc \in Filing => calls'[e] = calls[e]
  OBVIOUS
<1>2. /\ SomeAt(Syncing)' <=> SomeAt(Syncing)
      /\ SomeAt({"read", "mint", "write"})' <=> SomeAt({"read", "mint", "write"})
      /\ SomeAt({"clear"})' <=> SomeAt({"clear"})
  BY <1>1 DEF SomeAt, Syncing, Filing
<1>3. \A c \in Slots :
         /\ calls'[c].pc \in Syncing => user # None /\ calls'[c].user = user
         /\ calls'[c].pc \in {"clear", "remove"} => user = None /\ ~operationInProgress'
         /\ calls'[c].pc = "read" /\ token # None => token = sidecar
         /\ calls'[c].pc \in {"mint", "write"} /\ token \notin {None, user} => calls'[c].changed
  BY <1>1 DEF FilesOwned, Syncing, Filing
<1>4. QED  BY <1>2, <1>3 DEF FilesOwned, files

\* A call that was to stop the daemon still is, or the daemon is down.
LEMMA KeepsFixing ==
    ASSUME DaemonFixed, UNCHANGED <<user, sidecar>>,
           daemon'.up => daemon.up /\ daemon'.creds = daemon.creds,
           daemon'.up => \A e \in Slots : Fixing(e) /\ calls'[e] # calls[e] =>
                            \E d \in Slots : (Fixing(d))'
    PROVE  DaemonFixed'
<1> SUFFICES ASSUME daemon'.up, user = None \/ daemon.creds # user
             PROVE  \E c \in Slots : (Fixing(c))'
  BY DEF DaemonFixed
<1>1. PICK e \in Slots : Fixing(e)
  BY DEF DaemonFixed
<1>2. CASE calls'[e] = calls[e]
  BY <1>1, <1>2 DEF Fixing
<1>3. CASE calls'[e] # calls[e]
  BY <1>1, <1>3
<1>4. QED  BY <1>2, <1>3

\* The call that files moves on; nobody else files.
LEMMA GoesOnOwned ==
    ASSUME SidecarInv, FilesOwned, NEW c \in Slots, calls[c].pc \in Filing,
           \A e \in Slots : e # c => calls'[e] = calls[e],
           cli' = cli, user' = user,
           calls'[c].pc # "read",
           calls'[c].pc \in Syncing => user # None /\ calls'[c].user = user,
           calls'[c].pc \in {"clear", "remove"} => user = None /\ ~operationInProgress',
           calls'[c].pc \in {"mint", "write"} /\ token' \notin {None, user} => calls'[c].changed,
           user # None => sidecar' = user \/ calls'[c].pc \in Syncing,
           user # None => token' = user \/ calls'[c].pc \in {"mint", "write"},
           user = None => token' = None
    PROVE  FilesOwned'
<1>1. \A e \in Slots : e # c => calls'[e].pc \notin Filing
  BY DEF SidecarInv
<1>2. \A e \in Slots :
         /\ calls'[e].pc \in Syncing => user # None /\ calls'[e].user = user
         /\ calls'[e].pc \in {"clear", "remove"} => user = None /\ ~operationInProgress'
         /\ calls'[e].pc # "read"
         /\ calls'[e].pc \in {"mint", "write"} /\ token' \notin {None, user} => calls'[e].changed
  BY <1>1 DEF Filing, Syncing
<1>3. QED  BY <1>2 DEF FilesOwned, SomeAt

\* When nothing is in flight the files and the daemon are the user's.
LEMMA QuietIsOwned ==
    ASSUME GuardInv, Owned, Quiet
    PROVE  /\ \A c \in Slots : calls[c].pc = "idle"
           /\ ~operationInProgress
           /\ user # None => token = user /\ sidecar = user
           /\ user = None => token = None
           /\ daemon.up => user # None /\ daemon.creds = user
<1>1. \A c \in Slots : calls[c].pc = "idle"
  BY DEF Quiet, InFlight
<1>2. ~operationInProgress
  BY <1>1 DEF GuardInv, Holders, Operating
<1>3. QED
  BY <1>1, <1>2 DEF Owned, FilesOwned, DaemonFixed, Fixing, SomeAt, Syncing

LEMMA OwnedStep ==
    ASSUME GuardInv, SidecarInv, Owned, Hasty = FALSE, CliMayFail = FALSE, [Next]_vars
    PROVE  Owned'
<1>1. ASSUME NEW c \in Slots, Step(c)
      PROVE  Owned'
  <2>1. CASE Resolved(c)
    <3>1. FilesOwned'
      BY <2>1, ElsewhereOwned
         DEF Resolved, Owned, mem, files, GuardInv, Holders, Call, Filing, Idle,
             Return, Goto, FilesOwned
    <3>2. DaemonFixed'
      BY <2>1, KeepsFixing
         DEF Resolved, Owned, mem, files, GuardInv, Holders, Call, Filing, Idle,
             Return, Goto, Fixing, FilesOwned
    <3>3. QED  BY <3>1, <3>2 DEF Owned
  <2>2. CASE Kill(c)
    <3>1. FilesOwned'
      BY <2>2, ElsewhereOwned
         DEF Kill, Owned, mem, files, GuardInv, Holders, Call, Filing, Goto,
             FilesOwned
    <3>2. DaemonFixed'
      BY <2>2, KeepsFixing
         DEF Kill, Owned, mem, files, GuardInv, Holders, Call, Filing, Goto, Fixing,
             FilesOwned, Down
    <3>3. QED  BY <3>1, <3>2 DEF Owned
  <2>3. CASE Killed(c)
    <3>1. FilesOwned'
      BY <2>3, ElsewhereOwned
         DEF Killed, Owned, mem, files, GuardInv, Holders, Call, Filing, Idle,
             Return, Goto, FilesOwned
    <3>2. DaemonFixed'
      BY <2>3, KeepsFixing
         DEF Killed, Owned, mem, files, GuardInv, Holders, Call, Filing, Idle,
             Return, Goto, Fixing, FilesOwned
    <3>3. QED  BY <3>1, <3>2 DEF Owned
  <2>4. CASE KillFails(c)
    BY <2>4 DEF KillFails
  <2>5. CASE Probed(c)
    <3>1. FilesOwned'
      BY <2>5, ElsewhereOwned
         DEF Probed, Owned, mem, files, GuardInv, Holders, Call, Filing, Idle,
             Return, Goto, Poll, FilesOwned
    <3>2. DaemonFixed'
      BY <2>5, KeepsFixing
         DEF Probed, Owned, mem, files, GuardInv, Holders, Call, Filing, Idle,
             Return, Goto, Poll, Fixing, FilesOwned
    <3>3. QED  BY <3>1, <3>2 DEF Owned
  <2>6. CASE Spawn(c)
    <3>1. FilesOwned'
      BY <2>6, ElsewhereOwned
         DEF Spawn, Owned, mem, files, GuardInv, Holders, Call, Filing, Goto,
             FilesOwned
    <3>2. DaemonFixed'
      <4>1. /\ UNCHANGED <<user, sidecar>> /\ calls[c].pc = "spawn"
            /\ \A e \in Slots : e # c => calls'[e] = calls[e]
        BY <2>6 DEF Spawn, Goto, GuardInv, Holders, files
      <4>2. ~Fixing(c)
        BY <4>1 DEF Fixing
      <4>3. CASE daemon.up \/ token = None
        BY <2>6, <4>1, <4>2, <4>3, KeepsFixing DEF Spawn, Owned
      <4>4. CASE ~daemon.up /\ token # None
        <5>1. daemon'.creds = token
          BY <2>6, <4>4 DEF Spawn, Up
        <5>2. ASSUME user = None \/ token # user
              PROVE  \E e \in Slots : Fixing(e)
          BY <4>4, <5>2 DEF Owned, FilesOwned, SomeAt, Fixing
        <5>3. \A e \in Slots : Fixing(e) => (Fixing(e))'
          BY <4>1, <4>2 DEF Fixing
        <5>4. QED  BY <4>1, <5>1, <5>2, <5>3 DEF DaemonFixed
      <4>5. QED  BY <4>3, <4>4
    <3>3. QED  BY <3>1, <3>2 DEF Owned
  <2>7. CASE SpawnFails(c)
    BY <2>7 DEF SpawnFails
  <2>8. CASE Spawned(c)
    <3>1. FilesOwned'
      BY <2>8, ElsewhereOwned
         DEF Spawned, Owned, mem, files, GuardInv, Holders, Call, Filing, Idle,
             Return, Poll, FilesOwned
    <3>2. DaemonFixed'
      BY <2>8, KeepsFixing
         DEF Spawned, Owned, mem, files, GuardInv, Holders, Call, Filing, Idle,
             Return, Poll, Fixing, FilesOwned
    <3>3. QED  BY <3>1, <3>2 DEF Owned
  <2>9. CASE Refused(c)
    <3>1. FilesOwned'
      BY <2>9, ElsewhereOwned
         DEF Refused, Owned, mem, files, GuardInv, Holders, Call, Filing, Idle,
             Return, FilesOwned
    <3>2. DaemonFixed'
      BY <2>9, KeepsFixing
         DEF Refused, Owned, mem, files, GuardInv, Holders, Call, Filing, Idle,
             Return, Fixing, FilesOwned
    <3>3. QED  BY <3>1, <3>2 DEF Owned
  <2>10. CASE Versioned(c)
    <3>1. FilesOwned'
      BY <2>10, ElsewhereOwned
         DEF Versioned, Owned, mem, files, GuardInv, Holders, Call, Filing, Idle,
             Return, FilesOwned
    <3>2. DaemonFixed'
      BY <2>10, KeepsFixing
         DEF Versioned, Owned, mem, files, GuardInv, Holders, Call, Filing, Idle,
             Return, Fixing, FilesOwned
    <3>3. QED  BY <3>1, <3>2 DEF Owned
  <2>11. CASE Read(c)
    <3>1. FilesOwned'
      <4>1. /\ calls[c].pc = "read" /\ user # None /\ calls[c].user = user /\ calls[c] \in Call
            /\ token # None => token = sidecar
        BY <2>11 DEF Read, Owned, FilesOwned, Syncing, GuardInv, Holders
      <4>2. /\ calls'[c].pc \in {"mint", "write"} /\ calls'[c].user = user
            /\ calls'[c].changed <=> sidecar \notin {None, user}
            /\ \A e \in Slots : e # c => calls'[e] = calls[e]
            /\ UNCHANGED <<cli, user, token, sidecar>>
        BY <2>11, <4>1 DEF Read, Call, GuardInv, Holders, mem, files
      <4>3. QED
        BY <4>1, <4>2, GoesOnOwned DEF Owned, Filing, Syncing
    <3>2. DaemonFixed'
      <4>1. calls[c].pc = "read" /\ calls[c].user = user /\ calls[c] \in Call
        BY <2>11 DEF Read, Owned, FilesOwned, Syncing, GuardInv, Holders
      <4>2. /\ calls'[c].pc \in {"mint", "write"}
            /\ calls'[c].changed <=> sidecar \notin {None, user}
            /\ \A e \in Slots : e # c => calls'[e] = calls[e]
            /\ UNCHANGED <<user, token, sidecar, daemon>>
        BY <2>11, <4>1 DEF Read, Call, GuardInv, Holders, files
      <4>3. Fixing(c) => (Fixing(c))'
        BY <4>1, <4>2 DEF Fixing
      <4>4. QED  BY <4>2, <4>3, KeepsFixing DEF Owned
    <3>3. QED  BY <3>1, <3>2 DEF Owned
  <2>12. CASE Mint(c)
    <3>1. FilesOwned'
      BY <2>12, GoesOnOwned
         DEF Mint, Owned, FilesOwned, SidecarInv, GuardInv, Holders, Call, Filing,
             Syncing, mem, files, Goto
    <3>2. DaemonFixed'
      BY <2>12, KeepsFixing
         DEF Mint, Owned, GuardInv, Holders, Call, Fixing, mem, files, Goto
    <3>3. QED  BY <3>1, <3>2 DEF Owned
  <2>13. CASE MintFails(c)
    BY <2>13 DEF MintFails
  <2>14. CASE WriteConfig(c)
    <3>1. FilesOwned'
      BY <2>14, GoesOnOwned
         DEF WriteConfig, Owned, FilesOwned, SidecarInv, GuardInv, Holders, Call,
             Filing, Syncing, mem, files, Goto
    <3>2. DaemonFixed'
      BY <2>14, KeepsFixing
         DEF WriteConfig, Owned, GuardInv, Holders, Call, Fixing, mem, files, Goto
    <3>3. QED  BY <3>1, <3>2 DEF Owned
  <2>15. CASE WriteUserId(c)
    <3>1. FilesOwned'
      BY <2>15, GoesOnOwned
         DEF WriteUserId, Owned, FilesOwned, SidecarInv, GuardInv, Holders, Call,
             Filing, Syncing, mem, files, Goto
    <3>2. DaemonFixed'
      <4>1. /\ calls[c].pc = "sidecar" /\ UNCHANGED <<user, daemon>>
            /\ \A e \in Slots : e # c => calls'[e] = calls[e] /\ calls[e].pc # "read"
            /\ calls[c].changed => calls'[c].pc = "uprobe" /\ calls'[c].changed
        BY <2>15 DEF WriteUserId, Goto, SidecarInv, Filing, GuardInv, Holders, Call
      <4>2. \A e \in Slots : Fixing(e) => (Fixing(e))'
        BY <4>1 DEF Fixing
      <4>3. QED  BY <4>1, <4>2 DEF Owned, DaemonFixed
    <3>3. QED  BY <3>1, <3>2 DEF Owned
  <2>16. CASE RestartOnSwitch(c)
    <3>1. FilesOwned'
      <4>1. [calls[c] EXCEPT !.pc = "aresolve"].pc = "aresolve"
        BY DEF GuardInv, Holders, Call
      <4>2. [At("resolve") EXCEPT !.op = "restart"].pc = "resolve"
        BY DEF At, Idle
      <4>3. \A e \in Slots : \/ calls'[e] = calls[e]
                             \/ calls'[e].pc \notin Filing /\ calls[e].pc \notin Filing
        BY <2>16, <4>1, <4>2, SwitchMoves DEF GuardInv, Filing
      <4>4. QED  BY <2>16, <4>3, ElsewhereOwned DEF RestartOnSwitch, Owned, FilesOwned, mem
    <3>2. DaemonFixed'
      <4>1. CASE ~daemon.up
        BY <2>16, <4>1 DEF RestartOnSwitch, DaemonFixed
      <4>2. CASE daemon.up
        <5>1. PICK d \in Slots \ {c} :
                 calls' = [calls EXCEPT ![c].pc = "aresolve",
                                        ![d] = [At("resolve") EXCEPT !.op = "restart"]]
          BY <2>16, <4>2 DEF RestartOnSwitch
        <5>2. calls'[d].pc = "resolve" /\ calls'[d].op = "restart"
          BY <5>1 DEF GuardInv, Holders, At, Idle
        <5>3. QED  BY <5>2 DEF DaemonFixed, Fixing
      <4>3. QED  BY <4>1, <4>2
    <3>3. QED  BY <3>1, <3>2 DEF Owned
  <2>17. CASE AutoResolved(c)
    <3>1. FilesOwned'
      BY <2>17, ElsewhereOwned
         DEF AutoResolved, Owned, mem, files, GuardInv, Holders, Call, Filing, Idle,
             Return, Goto, FilesOwned
    <3>2. DaemonFixed'
      BY <2>17, KeepsFixing
         DEF AutoResolved, Owned, mem, files, GuardInv, Holders, Call, Filing, Idle,
             Return, Goto, Fixing, FilesOwned
    <3>3. QED  BY <3>1, <3>2 DEF Owned
  <2>18. CASE AutoProbed(c)
    <3>1. FilesOwned'
      BY <2>18, ElsewhereOwned
         DEF AutoProbed, Owned, mem, files, GuardInv, Holders, Call, Filing, Goto,
             FilesOwned
    <3>2. DaemonFixed'
      BY <2>18, KeepsFixing
         DEF AutoProbed, Owned, mem, files, GuardInv, Holders, Call, Filing, Goto,
             Fixing, FilesOwned
    <3>3. QED  BY <3>1, <3>2 DEF Owned
  <2>19. CASE ClearConfig(c)
    <3>1. FilesOwned'
      BY <2>19, GoesOnOwned
         DEF ClearConfig, Owned, FilesOwned, SidecarInv, GuardInv, Holders, Call,
             Filing, Syncing, mem, files, Goto
    <3>2. DaemonFixed'
      BY <2>19, KeepsFixing
         DEF ClearConfig, Owned, GuardInv, Holders, Call, Fixing, mem, files, Goto
    <3>3. QED  BY <3>1, <3>2 DEF Owned
  <2>20. CASE RemoveUserId(c)
    <3>1. FilesOwned'
      <4>1. /\ calls[c].pc = "remove" /\ user = None
            /\ \A e \in Slots : calls[e].pc \in {"clear", "remove"} => e = c
        BY <2>20 DEF RemoveUserId, Owned, FilesOwned, SidecarInv, Filing
      <4>2. token = None
        BY <4>1 DEF Owned, FilesOwned, SomeAt
      <4>3. /\ calls'[c].pc \in {"idle", "resolve"}
            /\ \A e \in Slots : e # c => calls'[e] = calls[e]
            /\ UNCHANGED <<cli, user, token>>
        BY <2>20 DEF RemoveUserId, GuardInv, Holders, At, Idle
      <4>4. QED
        BY <4>1, <4>2, <4>3, GoesOnOwned DEF Owned, Filing, Syncing
    <3>2. DaemonFixed'
      <4>1. calls'[c].pc = "resolve" /\ calls'[c].op = "stop"
        BY <2>20 DEF RemoveUserId, Owned, FilesOwned, GuardInv, Holders, At, Idle
      <4>2. QED  BY <4>1 DEF DaemonFixed, Fixing
    <3>3. QED  BY <3>1, <3>2 DEF Owned
  <2>21. QED
    BY <1>1, <2>1, <2>2, <2>3, <2>4, <2>5, <2>6, <2>7, <2>8, <2>9, <2>10,
        <2>11, <2>12, <2>13, <2>14, <2>15, <2>16, <2>17, <2>18, <2>19, <2>20 DEF Step
<1>2. ASSUME NEW c \in Slots,
             ClickStart(c) \/ ClickStop(c) \/ ClickRestart(c) \/ FirstWorkspace(c)
      PROVE  Owned'
  <2>1. ASSUME NEW op \in {"start", "stop", "restart"}, Guarded(c, op), user # None
        PROVE  Owned'
    <3>1. FilesOwned'
      BY <2>1, ElsewhereOwned
         DEF Guarded, Owned, mem, files, GuardInv, Holders, Call, Filing, Idle, At,
             Begin, FilesOwned
    <3>2. DaemonFixed'
      BY <2>1, KeepsFixing
         DEF Guarded, Owned, mem, files, GuardInv, Holders, Call, Filing, Idle, At,
             Begin, Fixing, FilesOwned
    <3>3. QED  BY <3>1, <3>2 DEF Owned
  <2>2. QED  BY <1>2, <2>1 DEF ClickStart, ClickStop, ClickRestart, FirstWorkspace
<1>3. ASSUME NEW c \in Slots,
             (\E u \in Users : SignIn(c, u)) \/ SignOut(c) \/ Relaunch(c)
      PROVE  Owned'
  <2>1. ASSUME NEW u \in Users, SignIn(c, u)
        PROVE  Owned'
    <3>1. Quiet
      BY <2>1 DEF SignIn, MaySwitch
    <3>2. FilesOwned'
      BY <2>1, <3>1, QuietIsOwned, NoneIsNoUser
         DEF SignIn, Begin, At, Idle, Owned, FilesOwned, SomeAt, Syncing, GuardInv,
             Holders, mem, files
    <3>3. DaemonFixed'
      BY <2>1, <3>1, QuietIsOwned, NoneIsNoUser
         DEF SignIn, Begin, At, Idle, DaemonFixed, Fixing, GuardInv, Holders, files
    <3>4. QED  BY <3>2, <3>3 DEF Owned
  <2>2. CASE SignOut(c)
    <3>1. Quiet
      BY <2>2 DEF SignOut, MaySwitch
    <3>2. FilesOwned'
      BY <2>2, <3>1, QuietIsOwned
         DEF SignOut, Begin, At, Idle, Owned, FilesOwned, SomeAt, Syncing, GuardInv,
             Holders, mem, files
    <3>3. DaemonFixed'
      BY <2>2 DEF SignOut, Begin, At, Idle, DaemonFixed, Fixing, GuardInv, Holders
    <3>4. QED  BY <3>2, <3>3 DEF Owned
  <2>3. CASE Relaunch(c)
    <3>1. Quiet
      BY <2>3 DEF Relaunch, MaySwitch
    <3>2. FilesOwned'
      BY <2>3, <3>1, QuietIsOwned
         DEF Relaunch, At, Idle, FilesOwned, SomeAt, Syncing, files
    <3>3. DaemonFixed'
      <4>1. daemon'.up = daemon.up /\ daemon'.creds = daemon.creds
        BY <2>3 DEF Relaunch, GuardInv, Types
      <4>2. QED  BY <2>3, <3>1, <4>1, QuietIsOwned DEF Relaunch, DaemonFixed
    <3>4. QED  BY <3>2, <3>3 DEF Owned
  <2>4. QED  BY <1>3, <2>1, <2>2, <2>3
<1>4. ASSUME NEW k \in PollSlots, PollStep(k)
      PROVE  Owned'
  <2>1. CASE PollTick(k)
    <3>1. FilesOwned'
      BY <2>1, ElsewhereOwned DEF PollTick, Owned, mem, files, FilesOwned
    <3>2. DaemonFixed'
      BY <2>1, KeepsFixing DEF PollTick, Owned, mem, files
    <3>3. QED  BY <3>1, <3>2 DEF Owned
  <2>2. CASE PollAnswer(k)
    <3>1. FilesOwned'
      BY <2>2, ElsewhereOwned DEF PollAnswer, Owned, mem, files, FilesOwned
    <3>2. DaemonFixed'
      BY <2>2, KeepsFixing DEF PollAnswer, Owned, mem, files
    <3>3. QED  BY <3>1, <3>2 DEF Owned
  <2>3. CASE PollApply(k)
    <3>1. FilesOwned'
      <4>1. \A e \in Slots : \/ calls'[e] = calls[e]
                             \/ calls'[e].pc \notin Filing /\ calls[e].pc \notin Filing
        <5>1. CASE UNCHANGED calls
          BY <5>1
        <5>2. CASE \E c \in Slots : Begin(c, At("vprobe"))
          BY <5>2 DEF Begin, At, Idle, Filing, GuardInv, Holders
        <5>3. QED  BY <2>3, <5>1, <5>2 DEF PollApply
      <4>2. QED  BY <2>3, <4>1, ElsewhereOwned DEF PollApply, Owned, FilesOwned, mem, files
    <3>2. DaemonFixed'
      <4>1. \A e \in Slots : calls'[e] # calls[e] => calls[e].pc = "idle"
        BY <2>3 DEF PollApply, Begin, GuardInv, Holders
      <4>2. QED  BY <2>3, <4>1, KeepsFixing DEF PollApply, Owned, Fixing, files
    <3>3. QED  BY <3>1, <3>2 DEF Owned
  <2>4. QED  BY <1>4, <2>1, <2>2, <2>3 DEF PollStep
<1>5. ASSUME NEW found \in Resolution, Bootstrapped(found)
      PROVE  Owned'
  <2>1. FilesOwned'
    BY <1>5, ElsewhereOwned
       DEF Bootstrapped, Owned, mem, files, FilesOwned, Resolution
  <2>2. DaemonFixed'
    BY <1>5, KeepsFixing DEF Bootstrapped, Owned, mem, files
  <2>3. QED  BY <2>1, <2>2 DEF Owned
<1>6. CASE RetryInstall
  <2>1. FilesOwned'
    BY <1>6, ElsewhereOwned DEF RetryInstall, Owned, mem, files, FilesOwned
  <2>2. DaemonFixed'
    BY <1>6, KeepsFixing DEF RetryInstall, Owned, mem, files
  <2>3. QED  BY <2>1, <2>2 DEF Owned
<1>7. CASE TaskBegins
  <2>1. FilesOwned'
    BY <1>7, ElsewhereOwned DEF TaskBegins, Owned, mem, files, FilesOwned
  <2>2. DaemonFixed'
    BY <1>7, KeepsFixing DEF TaskBegins, Owned, mem, files, GuardInv, Types
  <2>3. QED  BY <2>1, <2>2 DEF Owned
<1>8. CASE TaskEnds
  <2>1. FilesOwned'
    BY <1>8, ElsewhereOwned DEF TaskEnds, Owned, mem, files, FilesOwned
  <2>2. DaemonFixed'
    BY <1>8, KeepsFixing DEF TaskEnds, Owned, mem, files, GuardInv, Types
  <2>3. QED  BY <2>1, <2>2 DEF Owned
<1>9. CASE DaemonDies
  BY <1>9 DEF DaemonDies
<1>10. CASE UNCHANGED vars
  BY <1>10 DEF Owned, FilesOwned, DaemonFixed, Fixing, SomeAt, vars, mem, files
<1>11. QED
  BY <1>1, <1>2, <1>3, <1>4, <1>5, <1>6, <1>7, <1>8, <1>9, <1>10 DEF Next, Setups

\* Once the calls of a sign-in have settled, the daemon that runs works for
\* the user who is signed in: as long as sessions change only while no call is
\* in flight and no command fails.  Both are needed: the source has neither a
\* queue for the calls of two sessions nor a retry of a restart that failed.
THEOREM DaemonIsOwned ==
    ASSUME Hasty = FALSE, CliMayFail = FALSE
    PROVE  Spec => []SessionOwnsDaemon
<1>1. GuardInv /\ SidecarInv /\ [Next]_vars => SidecarInv'
  BY SidecarStep
<1>2. GuardInv /\ SidecarInv /\ Owned /\ [Next]_vars => Owned'
  BY OwnedStep
<1>3. Owned => SessionOwnsDaemon
  BY DEF Owned, DaemonFixed, Fixing, SessionOwnsDaemon, Quiet, InFlight
<1>4. QED
  BY <1>1, <1>2, <1>3, InitSidecar, InitOwned, GuardAlways, PTL DEF Spec
=============================================================================
