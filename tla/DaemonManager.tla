--------------------------- MODULE DaemonManager ---------------------------
(* The local daemon as the desktop application manages it: the main process  *)
(* (apps/desktop/src/main/daemon-manager.ts), the effects of the renderer    *)
(* that call it over IPC (App.tsx) and the buttons of its card and panel.    *)
(*                                                                           *)
(* The main process is one JavaScript thread: what runs between two awaits   *)
(* is one action, and every asynchronous function in flight is a record of   *)
(* calls whose pc names the await it is suspended at.  An await on a value   *)
(* that is already cached does not let another event in and is no step.      *)
(*                                                                           *)
(* Simplifications: one API URL, hence one profile and one port, set before  *)
(* the first sign-in; no foreign daemon on that port; a token is named by    *)
(* the user it was minted for; the file operations do not fail.              *)
EXTENDS Naturals, FiniteSets

CONSTANTS
    Users,          \* who may sign in on this machine
    None,           \* no user, no token
    Slots,          \* how many calls may be in flight (a bound)
    PollSlots,      \* how many health polls may be in flight (a bound)
    MaxInstalls,    \* CLI installations in flight (a bound): 2 when the retry
                    \* button is pressed again before the first one ended
    MaxBegun,       \* tasks the daemon is given (a bound)
    CliMayFail,     \* installation, `daemon start`, `daemon stop`, minting may fail
    Hasty,          \* sessions may change while calls are in flight
    AutoStart       \* the preference

ASSUME NoneIsNoUser == None \notin Users
ASSUME Flags == {CliMayFail, Hasty, AutoStart} \subseteq BOOLEAN
ASSUME Bounds == MaxInstalls \in Nat \ {0} /\ MaxBegun \in Nat

VARIABLES
    state,          \* currentState, as last sent to the renderer
    operationInProgress,
    pendingVersionRestart,
    cli,            \* cachedCliBinary: "unresolved" | "ok" | "none"
    installs,       \* resolveCliBinary promises of bootstrapCli in flight
    polling,        \* statusPollTimer is set
    polls,          \* pollOnce in flight: "idle" | "asked" | "up" | "down"
    calls,          \* the other asynchronous functions in flight
    user,           \* the renderer's user
    token,          \* whose token the profile's config.json holds
    sidecar,        \* .desktop-user-id
    daemon,         \* the daemon on the profile's port
    begun           \* tasks given so far

files == <<token, sidecar>>
mem   == <<operationInProgress, pendingVersionRestart, cli, installs, polling>>
vars  == <<state, mem, polls, calls, user, files, daemon, begun>>

States == {"running", "stopped", "starting", "stopping", "installing_cli", "cli_not_found"}
Setup  == {"installing_cli", "cli_not_found"}
Owner  == Users \cup {None}

\* Where a call is suspended.
Pcs == {"idle",
        "resolve",              \* resolveCliBinary of start, stop and restart
        "kill", "killed",       \* `daemon stop` runs; it is about to return
        "probe", "spawn", "spawned", "refused",   \* startDaemon
        "aresolve", "aprobe",   \* the auto-start handler
        "vprobe",               \* ensureRunningDaemonVersionMatches
        "read", "mint", "write", "sidecar", "uprobe",   \* syncToken
        "clear", "remove"}      \* clearToken

Call == [pc : Pcs,
         op : {"start", "stop", "restart"},   \* what stopDaemon and startDaemon serve
         guard : BOOLEAN,                     \* it runs under withGuard
         user : Owner, final : Owner, changed : BOOLEAN]   \* of syncToken

Idle == [pc |-> "idle", op |-> "start", guard |-> FALSE,
         user |-> None, final |-> None, changed |-> FALSE]
At(pc) == [Idle EXCEPT !.pc = pc]

Down == [up |-> FALSE, creds |-> None, old |-> FALSE, tasks |-> 0]
Up(u) == [up |-> TRUE, creds |-> u, old |-> FALSE, tasks |-> 0]

InFlight == {c \in Slots : calls[c].pc # "idle"}
Quiet == InFlight = {}

\* The application starts: a daemon of an earlier launch may be running with
\* the credentials of its user, possibly of an older version.
Init ==
    /\ state = "installing_cli"
    /\ operationInProgress = FALSE /\ pendingVersionRestart = FALSE
    /\ cli = "unresolved" /\ installs = 1 /\ polling = FALSE
    /\ polls = [k \in PollSlots |-> "idle"]
    /\ calls = [c \in Slots |-> Idle]
    /\ user = None
    /\ sidecar = None /\ token = None
    /\ daemon = Down
    /\ begun = 0

-----------------------------------------------------------------------------
(* Calls: begin in a free slot, continue, or return.                         *)

Begin(c, call) == calls[c].pc = "idle" /\ calls' = [calls EXCEPT ![c] = call]
Goto(c, pc) == calls' = [calls EXCEPT ![c].pc = pc]

\* What the user begins leaves a slot for what the program begins (a bound).
Spare == Cardinality(Slots \ InFlight) > 1

\* The call returns; withGuard's finally releases the guard.
Return(c) ==
    /\ calls' = [calls EXCEPT ![c] = Idle]
    /\ operationInProgress' = (operationInProgress /\ ~calls[c].guard)

\* pollOnce() without await.  When every poll slot is taken, a poll that has
\* not been answered yet stands for this one.
Poll == polls' = IF \E k \in PollSlots : polls[k] = "idle"
                 THEN [polls EXCEPT ![CHOOSE k \in PollSlots : polls[k] = "idle"] = "asked"]
                 ELSE polls

\* Mutant: the handlers run without withGuard's check.
Unguarded(c, op) ==
    /\ Spare
    /\ operationInProgress' = TRUE
    /\ Begin(c, [At("resolve") EXCEPT !.op = op, !.guard = TRUE])
    /\ UNCHANGED <<state, pendingVersionRestart, cli, installs, polling, polls, user, files,
                   daemon, begun>>

\* The daemon:start, daemon:stop and daemon:restart handlers.  withGuard
\* rejects the operation at once while another one runs.
Guarded(c, op) ==
    /\ ~operationInProgress /\ Spare
    /\ operationInProgress' = TRUE
    /\ Begin(c, [At("resolve") EXCEPT !.op = op, !.guard = TRUE])
    /\ UNCHANGED <<state, pendingVersionRestart, cli, installs, polling, polls, user, files,
                   daemon, begun>>

\* The buttons of the card and of the panel.
ClickStart(c)   == user # None /\ state = "stopped" /\ Guarded(c, "start")
ClickStop(c)    == user # None /\ state = "running" /\ Guarded(c, "stop")
ClickRestart(c) == user # None /\ state = "running" /\ Guarded(c, "restart")

\* The user of a session that began without a workspace got the first one.
FirstWorkspace(c) == user # None /\ Guarded(c, "restart")

-----------------------------------------------------------------------------
(* startDaemon, stopDaemon and restartDaemon.                                *)

\* The CLI is resolved: stopDaemon shows "stopping" and runs `daemon stop`,
\* startDaemon asks /health first.  Without a CLI the operation fails.
Resolved(c) ==
    /\ calls[c].pc = "resolve" /\ cli # "unresolved"
    /\ IF cli = "none"
       THEN Return(c) /\ UNCHANGED state
       ELSE /\ UNCHANGED operationInProgress
            /\ IF calls[c].op = "start"
               THEN Goto(c, "probe") /\ UNCHANGED state
               ELSE Goto(c, "kill") /\ state' = "stopping"
    /\ UNCHANGED <<pendingVersionRestart, cli, installs, polling, polls, user, files, daemon,
                   begun>>

\* `daemon stop` shuts the daemon down, if one listens.
Kill(c) ==
    /\ calls[c].pc = "kill"
    /\ daemon' = Down
    /\ Goto(c, "killed")
    /\ UNCHANGED <<state, mem, polls, user, files, begun>>

\* It returned: restartDaemon goes on with startDaemon.
Killed(c) ==
    /\ calls[c].pc = "killed"
    /\ state' = "stopped"
    /\ IF calls[c].op = "restart"
       THEN Goto(c, "probe") /\ UNCHANGED operationInProgress
       ELSE Return(c)
    /\ UNCHANGED <<pendingVersionRestart, cli, installs, polling, polls, user, files, daemon,
                   begun>>

\* It failed or timed out: the daemon may still run, the state says stopped,
\* and restartDaemon gives up.
KillFails(c) ==
    /\ CliMayFail
    /\ calls[c].pc = "kill"
    /\ state' = "stopped"
    /\ Return(c)
    /\ UNCHANGED <<pendingVersionRestart, cli, installs, polling, polls, user, files, daemon,
                   begun>>

\* startDaemon's /health answer.
Probed(c) ==
    /\ calls[c].pc = "probe"
    /\ IF daemon.up
       THEN Return(c) /\ Poll /\ UNCHANGED state
       ELSE Goto(c, "spawn") /\ state' = "starting" /\ UNCHANGED <<polls, operationInProgress>>
    /\ UNCHANGED <<pendingVersionRestart, cli, installs, polling, user, files, daemon, begun>>

\* `daemon start` launches a daemon that reads config.json once.  It refuses
\* when one listens already; without a token the new process exits, and the
\* command reports success all the same.
Spawn(c) ==
    /\ calls[c].pc = "spawn"
    /\ Goto(c, IF daemon.up THEN "refused" ELSE "spawned")
    /\ daemon' = IF ~daemon.up /\ token # None THEN Up(token) ELSE daemon
    /\ UNCHANGED <<state, mem, polls, user, files, begun>>

SpawnFails(c) ==
    /\ CliMayFail
    /\ calls[c].pc = "spawn"
    /\ Goto(c, "refused")
    /\ UNCHANGED <<state, mem, polls, user, files, daemon, begun>>

\* It returned success: the state stays "starting" until a poll confirms it.
Spawned(c) ==
    /\ calls[c].pc = "spawned"
    /\ Return(c) /\ Poll
    /\ UNCHANGED <<state, pendingVersionRestart, cli, installs, polling, user, files, daemon,
                   begun>>

Refused(c) ==
    /\ calls[c].pc = "refused"
    /\ state' = "stopped"
    /\ Return(c)
    /\ UNCHANGED <<pendingVersionRestart, cli, installs, polling, polls, user, files, daemon,
                   begun>>

-----------------------------------------------------------------------------
(* Polling.                                                                  *)

\* The interval timer.  fetchHealth asks nothing while the CLI is set up.
PollTick(k) ==
    /\ polling /\ polls[k] = "idle" /\ state \notin Setup
    /\ polls' = [polls EXCEPT ![k] = "asked"]
    /\ UNCHANGED <<state, mem, calls, user, files, daemon, begun>>

PollAnswer(k) ==
    /\ polls[k] = "asked"
    /\ polls' = [polls EXCEPT ![k] = IF daemon.up THEN "up" ELSE "down"]
    /\ UNCHANGED <<state, mem, calls, user, files, daemon, begun>>

\* Mutant: "starting" is kept whatever /health says.
StickyVerdict(up) == IF state = "starting" THEN "starting"
                     ELSE IF up THEN "running" ELSE "stopped"

\* fetchHealth's verdict on the answer.
Verdict(up) == IF up THEN "running"
               ELSE IF state = "starting" THEN "starting" ELSE "stopped"

\* Mutant: the poll forgets the deferred restart.
PollApplyOnly(k) ==
    /\ polls[k] \in {"up", "down"}
    /\ polls' = [polls EXCEPT ![k] = "idle"]
    /\ state' = Verdict(polls[k] = "up")
    /\ UNCHANGED <<mem, calls, user, files, daemon, begun>>

\* The verdict becomes the state; the deferred version restart is tried again.
PollApply(k) ==
    /\ polls[k] \in {"up", "down"}
    /\ polls' = [polls EXCEPT ![k] = "idle"]
    /\ state' = Verdict(polls[k] = "up")
    /\ IF pendingVersionRestart /\ polls[k] = "up"
       THEN \E c \in Slots : Begin(c, At("vprobe"))
       ELSE UNCHANGED calls
    /\ UNCHANGED <<mem, user, files, daemon, begun>>

-----------------------------------------------------------------------------
(* The CLI, and the version of the running daemon.                           *)

\* What resolveCliBinary finds: the bundled, the managed, a downloaded or the
\* CLI on PATH, or none that runs.
Resolution == IF CliMayFail THEN {"ok", "none"} ELSE {"ok"}

\* Mutant: the first installation alone starts the polling, a retry does not.
BootstrappedOnce(found) ==
    /\ installs > 0 /\ installs' = installs - 1
    /\ cli' = found
    /\ state' = IF found = "ok" THEN "stopped" ELSE "cli_not_found"
    /\ polling' = (polling \/ (found = "ok" /\ state = "installing_cli"))
    /\ IF found = "ok" /\ ~polling THEN Poll ELSE UNCHANGED polls
    /\ UNCHANGED <<operationInProgress, pendingVersionRestart, calls, user, files, daemon, begun>>

\* bootstrapCli goes on when the CLI is resolved.
Bootstrapped(found) ==
    /\ installs > 0 /\ installs' = installs - 1
    /\ cli' = found
    /\ state' = IF found = "ok" THEN "stopped" ELSE "cli_not_found"
    /\ polling' = (polling \/ found = "ok")
    /\ IF found = "ok" /\ ~polling THEN Poll ELSE UNCHANGED polls
    /\ UNCHANGED <<operationInProgress, pendingVersionRestart, calls, user, files, daemon, begun>>

\* The Retry button of the panel.
RetryInstall ==
    /\ state = "cli_not_found" /\ user # None
    /\ installs < MaxInstalls
    /\ installs' = installs + 1
    /\ cli' = "unresolved"
    /\ UNCHANGED <<state, operationInProgress, pendingVersionRestart, polling, polls, calls, user,
                   files, daemon, begun>>

\* What a running daemon's version calls for.
decideVersionAction ==
    CASE ~daemon.up -> "not_running"
      [] daemon.up /\ ~daemon.old -> "ok"
      [] daemon.up /\ daemon.old /\ daemon.tasks > 0 -> "defer"
      [] daemon.up /\ daemon.old /\ daemon.tasks = 0 -> "restart"

\* A busy daemon is left to a later poll, an idle one is restarted, without
\* withGuard.
Versioned(c) ==
    /\ calls[c].pc = "vprobe"
    /\ pendingVersionRestart' = (decideVersionAction = "defer")
    /\ IF decideVersionAction = "restart"
       THEN /\ calls' = [calls EXCEPT ![c].pc = "kill", ![c].op = "restart"]
            /\ state' = "stopping"
            /\ UNCHANGED operationInProgress
       ELSE Return(c) /\ UNCHANGED state
    /\ UNCHANGED <<cli, installs, polling, polls, user, files, daemon, begun>>

-----------------------------------------------------------------------------
(* The token: syncToken, then the auto-start handler; clearToken.            *)

\* Mutant: a cached token is reused whoever it was minted for.
ReuseAny(u) == token # None

\* The cached token is reused when the sidecar names the same user.
Reuse(u) == sidecar = u /\ token # None

Read(c) ==
    /\ calls[c].pc = "read"
    /\ LET u == calls[c].user
       IN  calls' = [calls EXCEPT ![c].pc = IF Reuse(u) THEN "write" ELSE "mint",
                                  ![c].final = IF Reuse(u) THEN token ELSE u,
                                  ![c].changed = sidecar \notin {None, u}]
    /\ UNCHANGED <<state, mem, polls, user, files, daemon, begun>>

Mint(c) ==
    /\ calls[c].pc = "mint"
    /\ Goto(c, "write")
    /\ UNCHANGED <<state, mem, polls, user, files, daemon, begun>>

\* syncToken throws, and the renderer does not ask for the auto-start.
MintFails(c) ==
    /\ CliMayFail
    /\ calls[c].pc = "mint"
    /\ Return(c)
    /\ UNCHANGED <<state, pendingVersionRestart, cli, installs, polling, polls, user, files,
                   daemon, begun>>

WriteConfig(c) ==
    /\ calls[c].pc = "write"
    /\ token' = calls[c].final
    /\ Goto(c, "sidecar")
    /\ UNCHANGED <<state, mem, polls, user, sidecar, daemon, begun>>

WriteUserId(c) ==
    /\ calls[c].pc = "sidecar"
    /\ sidecar' = calls[c].user
    /\ Goto(c, IF calls[c].changed THEN "uprobe" ELSE "aresolve")
    /\ UNCHANGED <<state, mem, polls, user, token, daemon, begun>>

\* Mutant: the daemon of the previous user is left running.
KeepOnSwitch(c) ==
    /\ calls[c].pc = "uprobe"
    /\ Goto(c, "aresolve")
    /\ UNCHANGED <<state, mem, polls, user, files, daemon, begun>>

\* The user changed: a daemon that runs is restarted, without waiting for it.
RestartOnSwitch(c) ==
    /\ calls[c].pc = "uprobe"
    /\ IF daemon.up
       THEN \E d \in Slots \ {c} :
               /\ calls[d].pc = "idle"
               /\ calls' = [calls EXCEPT ![c].pc = "aresolve",
                                         ![d] = [At("resolve") EXCEPT !.op = "restart"]]
       ELSE Goto(c, "aresolve")
    /\ UNCHANGED <<state, mem, polls, user, files, daemon, begun>>

\* The auto-start handler: preferences, CLI, fetchHealth.
AutoResolved(c) ==
    /\ calls[c].pc = "aresolve" /\ (AutoStart => cli # "unresolved")
    /\ IF AutoStart /\ cli = "ok"
       THEN Goto(c, "aprobe") /\ UNCHANGED operationInProgress
       ELSE Return(c)
    /\ UNCHANGED <<state, pendingVersionRestart, cli, installs, polling, polls, user, files,
                   daemon, begun>>

AutoProbed(c) ==
    /\ calls[c].pc = "aprobe"
    /\ Goto(c, IF daemon.up /\ state \notin Setup THEN "vprobe" ELSE "probe")
    /\ UNCHANGED <<state, mem, polls, user, files, daemon, begun>>

\* clearToken, then the daemon:stop of handleDaemonLogout, which is lost when
\* another operation holds the guard.
ClearConfig(c) ==
    /\ calls[c].pc = "clear"
    /\ token' = None
    /\ Goto(c, "remove")
    /\ UNCHANGED <<state, mem, polls, user, sidecar, daemon, begun>>

RemoveUserId(c) ==
    /\ calls[c].pc = "remove"
    /\ sidecar' = None
    /\ operationInProgress' = TRUE
    /\ calls' = [calls EXCEPT ![c] = IF operationInProgress THEN Idle
                                     ELSE [At("resolve") EXCEPT !.op = "stop", !.guard = TRUE]]
    /\ UNCHANGED <<state, pendingVersionRestart, cli, installs, polling, polls, user, token,
                   daemon, begun>>

-----------------------------------------------------------------------------
(* The session, in the renderer.                                             *)

MaySwitch == Spare /\ (Hasty \/ Quiet)

\* A user signs in, by the form or by a deep link, which also replaces the
\* user of a session without signing out; a profile update replaces the user
\* object and runs the same effect again.
SignIn(c, u) ==
    /\ MaySwitch
    /\ user' = u
    /\ Begin(c, [At("read") EXCEPT !.user = u])
    /\ UNCHANGED <<state, mem, polls, files, daemon, begun>>

SignOut(c) ==
    /\ MaySwitch
    /\ user # None /\ user' = None
    /\ Begin(c, At("clear"))
    /\ UNCHANGED <<state, mem, polls, files, daemon, begun>>

\* The application quits and is launched again: what it kept in memory is
\* gone, its files and the daemon stay.  The session is restored from the
\* renderer's storage.  (No CLI command is cut off: a bound.)
Relaunch(c) ==
    /\ MaySwitch
    /\ \A d \in Slots : calls[d].pc \notin {"kill", "killed", "spawn", "spawned", "refused"}
    /\ state' = "installing_cli"
    /\ operationInProgress' = FALSE /\ pendingVersionRestart' = FALSE
    /\ cli' = "unresolved" /\ installs' = 1 /\ polling' = FALSE
    /\ polls' = [k \in PollSlots |-> "idle"]
    /\ calls' = [d \in Slots |-> IF d = c /\ user # None
                                 THEN [At("read") EXCEPT !.user = user] ELSE Idle]
    /\ UNCHANGED <<user, files, begun>>
    \* The launched application may bundle a newer CLI.
    /\ daemon' \in {daemon, [daemon EXCEPT !.old = daemon.up]}

-----------------------------------------------------------------------------
(* The daemon.                                                               *)

TaskBegins ==
    /\ daemon.up /\ daemon.tasks = 0 /\ begun < MaxBegun
    /\ daemon' = [daemon EXCEPT !.tasks = 1]
    /\ begun' = begun + 1
    /\ UNCHANGED <<state, mem, polls, calls, user, files>>

TaskEnds ==
    /\ daemon.tasks > 0
    /\ daemon' = [daemon EXCEPT !.tasks = 0]
    /\ UNCHANGED <<state, mem, polls, calls, user, files, begun>>

\* It exits on its own, or somebody kills it.
DaemonDies ==
    /\ CliMayFail
    /\ daemon.up
    /\ daemon' = Down
    /\ UNCHANGED <<state, mem, polls, calls, user, files, begun>>

Step(c) ==
    \/ Resolved(c) \/ Kill(c) \/ Killed(c) \/ KillFails(c)
    \/ Probed(c) \/ Spawn(c) \/ SpawnFails(c) \/ Spawned(c) \/ Refused(c)
    \/ Versioned(c)
    \/ Read(c) \/ Mint(c) \/ MintFails(c) \/ WriteConfig(c) \/ WriteUserId(c)
    \/ RestartOnSwitch(c) \/ AutoResolved(c) \/ AutoProbed(c)
    \/ ClearConfig(c) \/ RemoveUserId(c)

PollStep(k) == PollTick(k) \/ PollAnswer(k) \/ PollApply(k)
Setups == \E found \in Resolution : Bootstrapped(found)

Next ==
    \/ \E c \in Slots :
          \/ Step(c)
          \/ ClickStart(c) \/ ClickStop(c) \/ ClickRestart(c) \/ FirstWorkspace(c)
          \/ \E u \in Users : SignIn(c, u)
          \/ SignOut(c) \/ Relaunch(c)
    \/ \E k \in PollSlots : PollStep(k)
    \/ Setups \/ RetryInstall
    \/ TaskBegins \/ TaskEnds \/ DaemonDies

Spec == Init /\ [][Next]_vars

\* Timers fire, promises settle and tasks end; nothing is assumed of what the
\* user does.
FairSpec ==
    /\ Spec
    /\ \A c \in Slots : WF_vars(Step(c))
    /\ \A k \in PollSlots : WF_vars(PollStep(k))
    /\ WF_vars(Setups) /\ WF_vars(TaskEnds)

-----------------------------------------------------------------------------
(* Properties.                                                               *)

TypeOK ==
    /\ state \in States
    /\ operationInProgress \in BOOLEAN /\ pendingVersionRestart \in BOOLEAN
    /\ cli \in {"unresolved", "ok", "none"}
    /\ installs \in Nat /\ polling \in BOOLEAN
    /\ polls \in [PollSlots -> {"idle", "asked", "up", "down"}]
    /\ calls \in [Slots -> Call]
    /\ {user, token, sidecar} \subseteq Owner
    /\ daemon \in [up : BOOLEAN, creds : Owner, old : BOOLEAN, tasks : 0..1]
    /\ begun \in 0..MaxBegun

\* The guard is held by exactly the one operation in flight that took it: two
\* operations of the user never overlap, and no path through start, stop and
\* restart, failures included, leaves the guard taken behind. Types included.
GuardHasItsHolder ==
    /\ TypeOK
    /\ \A c, d \in Slots : calls[c].guard /\ calls[d].guard => c = d
    /\ operationInProgress <=> \E c \in Slots : calls[c].guard

\* Once the calls of a sign-in have settled, the daemon that runs works with
\* the credentials of the user who is signed in.
SessionOwnsDaemon ==
    Quiet /\ user # None /\ daemon.up => daemon.creds = user

\* A sidecar that names a user vouches for the cached token: outside
\* syncToken's two writes the token is that user's.
SidecarVouches ==
    sidecar # None /\ (\A c \in Slots : calls[c].pc # "sidecar") =>
        token = sidecar \/ \E c \in Slots : calls[c].pc = "remove"

\* The window says that the set-up failed exactly while there is no CLI, so
\* Retry is offered when it is needed and polling resumes when it is not.
SetupFailedMeansNoCli ==
    /\ cli = "none" <=> state = "cli_not_found" /\ installs = 0
    /\ cli = "ok" => polling

\* A daemon that listens is shown as running sooner or later.
ShowsRunning == (polling /\ daemon.up) ~> (state = "running" \/ ~daemon.up \/ ~polling)

\* A version restart deferred while the daemon was busy is tried once it has
\* drained: the flag does not stay set over a daemon that runs.
PendingRestartIsTried ==
    (pendingVersionRestart /\ daemon.up) ~> (~daemon.up \/ ~pendingVersionRestart)
=============================================================================
