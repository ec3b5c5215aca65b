-------------------------- MODULE AutopilotProofs --------------------------
(***************************************************************************)
(* For any number of servers, triggers, autopilots and requests: the types *)
(* of Autopilot, FiresOncePerPeriod, NoTriggerLost,                        *)
(* CompletedRunsDidComplete and EndIsFinal.                                *)
(*                                                                         *)
(* Seen from the schedule a step does one of three things: it claims the   *)
(* due triggers, it makes the run of a claim, or it does neither           *)
(* (MovesOn).  The lemmas of the first part prove ClaimsOK, RunsOK and     *)
(* FiresOncePerPeriod for each of them; the second part goes through the   *)
(* actions.                                                                *)
(*                                                                         *)
(* The parts on what schedulers hold and on what runs have come to do the  *)
(* same for HoldInv and ResultInv: one lemma says what a new record of a   *)
(* goroutine must be like (KeepsHold, KeepsResults), and the lemmas after  *)
(* it find that of each action.  The last part, on the ends of runs, asks  *)
(* what others rely on of the run that an action changes (KeepsEnds).      *)
(***************************************************************************)
EXTENDS Autopilot, TLAPS

Schedule == ClaimsOK /\ RunsOK /\ FiresOncePerPeriod

\* No run and no claim is added, and next_run_at moves forward only.
MovesOn ==
    /\ now' \in {now, now + 1}
    /\ \A t \in Triggers : trigger'[t].next \in {trigger[t].next, now + 1}
    /\ created' = created
    /\ \A k \in 1..created : /\ run'[k].trigger = run[k].trigger
                             /\ run'[k].due = run[k].due
    /\ \A p \in Procs : g'[p].todo \subseteq g[p].todo

-----------------------------------------------------------------------------
(* The schedule *)

LEMMA Claims ==
    ASSUME TypeOK, NEW p \in Procs, NEW c \in g[p].todo
    PROVE  c = <<c[1], c[2]>> /\ c[1] \in Triggers /\ c[2] \in Nat
BY AutopilotAssumption DEF TypeOK, Goroutine, Time

\* What has passed stays in the past.
LEMMA PastStays ==
    ASSUME TypeOK, NEW t \in Triggers, NEW d \in Nat, Past(t, d),
           now' \in {now, now + 1},
           trigger'[t].next \in {trigger[t].next, now + 1, None}
    PROVE  Past(t, d)'
BY AutopilotAssumption DEF TypeOK, Past, Time

LEMMA MovesOnKeeps ==
    ASSUME TypeOK, Schedule, MovesOn
    PROVE  Schedule'
PROOF
<1> USE AutopilotAssumption DEF MovesOn, Schedule
<1>1. ClaimsOK'
  <2> SUFFICES ASSUME NEW p \in Procs, NEW c \in g'[p].todo
               PROVE  /\ Past(c[1], c[2])' /\ ~HasRun(c[1], c[2])'
                      /\ \A q \in Procs : c \in g'[q].todo => q = p
    BY DEF ClaimsOK
  <2>1. c \in g[p].todo
    OBVIOUS
  <2>2. Past(c[1], c[2])'
    BY <2>1, Claims, PastStays DEF ClaimsOK
  <2>3. ~HasRun(c[1], c[2])'
    BY <2>1 DEF ClaimsOK, HasRun
  <2> QED
    BY <2>1, <2>2, <2>3 DEF ClaimsOK
<1>2. RunsOK'
  <2> SUFFICES ASSUME NEW k \in 1..created, run[k].trigger # None
               PROVE  run[k].due \in Time /\ Past(run[k].trigger, run[k].due)'
    BY DEF RunsOK, Past
  <2>1. run[k].due \in Time /\ Past(run[k].trigger, run[k].due)
    BY DEF RunsOK
  <2>2. run[k].trigger \in Triggers /\ run[k].due \in Nat
    BY <2>1 DEF TypeOK, RunRow, RunId, Time
  <2> QED
    BY <2>1, <2>2, PastStays
<1>3. FiresOncePerPeriod'
  BY DEF FiresOncePerPeriod
<1> QED
  BY <1>1, <1>2, <1>3

\* The claim of the due triggers: what they are claimed for is new.
LEMMA ClaimDueKeeps ==
    ASSUME TypeOK, Schedule, NEW p \in Procs, ClaimDue(p)
    PROVE  Schedule'
PROOF
<1> USE AutopilotAssumption DEF Schedule
<1>1. /\ now' = now /\ created' = created /\ run' = run
      /\ \A t \in Triggers : trigger'[t].next = IF t \in Due THEN None ELSE trigger[t].next
      /\ g'[p].todo = {<<t, trigger[t].next>> : t \in Due}
      /\ \A q \in Procs \ {p} : g'[q].todo = g[q].todo
  BY DEF ClaimDue, Goto, Idle, TypeOK, runVars
<1>2. \A t \in Triggers, d \in Nat : Past(t, d) => Past(t, d)'
  BY <1>1, PastStays
<1>3. ASSUME NEW t \in Due, NEW d, d = trigger[t].next
      PROVE  t \in Triggers /\ d \in Nat /\ ~Past(t, d) /\ Past(t, d)'
  <2>1. t \in Triggers /\ d \in Nat /\ d # None /\ d <= now
    BY <1>3 DEF Due, TypeOK, Time
  <2> QED
    BY <1>1, <1>3, <2>1 DEF Past
<1>4. ASSUME NEW t \in Due
      PROVE  /\ ~HasRun(t, trigger[t].next)
             /\ \A q \in Procs : <<t, trigger[t].next>> \notin g[q].todo
  BY <1>3 DEF ClaimsOK, RunsOK, HasRun
<1>5. ClaimsOK'
  <2> SUFFICES ASSUME NEW q \in Procs, NEW c \in g'[q].todo
               PROVE  /\ Past(c[1], c[2])' /\ ~HasRun(c[1], c[2])
                      /\ \A r \in Procs : c \in g'[r].todo => r = q
    BY <1>1 DEF ClaimsOK, HasRun
  <2>1. CASE q = p
    <3>1. PICK t \in Due : c = <<t, trigger[t].next>>
      BY <1>1, <2>1
    <3>2. c[1] = t /\ c[2] = trigger[t].next
      BY <3>1
    <3>3. \A r \in Procs : c \in g'[r].todo => r = p
      BY <1>1, <1>4, <3>1
    <3> QED
      BY <1>3, <1>4, <2>1, <3>2, <3>3
  <2>2. CASE q # p
    <3>1. c \in g[q].todo
      BY <1>1, <2>2
    <3>2. c \notin g'[p].todo
      BY <1>1, <1>4, <3>1
    <3> QED
      BY <1>1, <1>2, <2>2, <3>1, <3>2, Claims DEF ClaimsOK
  <2> QED
    BY <2>1, <2>2
<1>6. RunsOK'
  BY <1>1, <1>2 DEF RunsOK, TypeOK, RunRow, RunId, Time
<1>7. FiresOncePerPeriod'
  BY <1>1 DEF FiresOncePerPeriod
<1> QED
  BY <1>5, <1>6, <1>7

\* The run of a claim takes the place of the claim.
LEMMA CreateRunKeeps ==
    ASSUME TypeOK, LocalsOK, Schedule, NEW p \in Procs, CreateRun(p)
    PROVE  Schedule'
PROOF
<1> USE AutopilotAssumption DEF Schedule
<1> DEFINE k == created + 1
           c == g[p].fire
<1>1. /\ now' = now /\ trigger' = trigger
      /\ k \in RunId /\ created' = k
      /\ \A j \in 1..created : run'[j] = run[j]
      /\ run'[k].trigger = (IF c = None THEN None ELSE c[1])
      /\ run'[k].due = (IF c = None THEN None ELSE c[2])
      /\ g'[p].todo = g[p].todo \ {c}
      /\ \A q \in Procs \ {p} : g'[q].todo = g[q].todo
  BY DEF CreateRun, Goto, TypeOK, RunId
<1>2. c = None \/ c \in g[p].todo
  BY DEF CreateRun, At, LocalsOK
<1>3. 1..created' = 1..created \cup {k}
  <2>1. created \in Nat
    BY DEF TypeOK
  <2> QED
    BY <1>1, <2>1
<1>4. ASSUME c # None
      PROVE  /\ c = <<c[1], c[2]>> /\ c[1] \in Triggers /\ c[2] \in Time
             /\ Past(c[1], c[2]) /\ ~HasRun(c[1], c[2])
             /\ \A q \in Procs : c \in g[q].todo => q = p
  BY <1>2, <1>4 DEF ClaimsOK, TypeOK, Goroutine
<1>5. ClaimsOK'
  <2> SUFFICES ASSUME NEW q \in Procs, NEW d \in g'[q].todo
               PROVE  /\ Past(d[1], d[2]) /\ ~HasRun(d[1], d[2])'
                      /\ \A r \in Procs : d \in g'[r].todo => r = q
    BY <1>1 DEF ClaimsOK, Past
  <2>1. d \in g[q].todo /\ d # c
    <3>1. CASE q = p
      BY <1>1, <3>1
    <3>2. CASE q # p
      <4>1. d \in g[q].todo /\ d # None
        BY <1>1, <3>2, Claims
      <4> QED
        BY <1>4, <3>2, <4>1
    <3> QED
      BY <3>1, <3>2
  <2>2. ~(run'[k].trigger = d[1] /\ run'[k].due = d[2])
    BY <1>1, <1>4, <2>1, Claims
  <2>3. ~HasRun(d[1], d[2])'
    BY <1>1, <1>3, <2>1, <2>2 DEF ClaimsOK, HasRun
  <2> QED
    BY <1>1, <2>1, <2>3 DEF ClaimsOK
<1>6. RunsOK'
  BY <1>1, <1>3, <1>4 DEF RunsOK, Past
<1>7. FiresOncePerPeriod'
  <2>1. \A j \in 1..created :
          run'[k].trigger # None /\ run'[k].trigger = run[j].trigger
            => run'[k].due # run[j].due
    BY <1>1, <1>4 DEF HasRun
  <2> QED
    BY <1>1, <1>3, <2>1 DEF FiresOncePerPeriod
<1> QED
  BY <1>5, <1>6, <1>7

-----------------------------------------------------------------------------
(* The goroutines and the runs *)

LocalsStep ==
    /\ g' \in [Procs -> Goroutine] /\ LocalsOK'
    /\ \A q \in Procs : g'[q].todo \subseteq g[q].todo

RunStep ==
    /\ created' = created /\ run' \in [RunId -> RunRow]
    /\ \A k \in RunId : (run'[k].status = "none") <=> (k > created)
    /\ \A k \in 1..created : /\ run'[k].trigger = run[k].trigger
                             /\ run'[k].due = run[k].due

Kept == TypeOK' /\ KnownRuns' /\ LocalsOK'

\* A goroutine goes on with locals that are fit for where it goes.
LEMMA GotoOK ==
    ASSUME TypeOK, LocalsOK, NEW p \in Procs, NEW s \in Goroutine, Goto(p, s),
           created' \in {created, created + 1},
           s.pc \in UsesRun => s.k \in 1..created',
           s.pc = "create" /\ s.fire # None => s.fire \in s.todo
    PROVE  g' \in [Procs -> Goroutine] /\ LocalsOK'
PROOF
<1>1. /\ g \in [Procs -> Goroutine] /\ created \in Nat
      /\ g'[p] = s /\ \A q \in Procs \ {p} : g'[q] = g[q]
  BY DEF TypeOK, Goto
<1>2. g' \in [Procs -> Goroutine]
  BY <1>1 DEF Goto
<1>3. ASSUME NEW q \in Procs
      PROVE  /\ g'[q].pc \in UsesRun => g'[q].k \in 1..created'
             /\ g'[q].pc = "create" /\ g'[q].fire # None => g'[q].fire \in g'[q].todo
  BY <1>1 DEF LocalsOK
<1> QED
  BY <1>2, <1>3 DEF LocalsOK

LEMMA IdleIsGoroutine == Idle \in Goroutine
BY DEF Idle, Goroutine, PC

LEMMA ReturnOK ==
    ASSUME TypeOK, LocalsOK, NEW p \in Procs, Return(p), created' = created
    PROVE  LocalsStep
PROOF
<1>1. Idle.pc \notin UsesRun /\ Idle.pc # "create" /\ Idle.todo = {}
  BY DEF Idle, UsesRun
<1> QED
  BY <1>1, GotoOK, IdleIsGoroutine DEF Return, LocalsStep, Goto, TypeOK

LEMMA GoAtOK ==
    ASSUME TypeOK, LocalsOK, NEW p \in Procs, NEW pc \in PC \ {"create"}, GoAt(p, pc),
           created' = created, pc \in UsesRun => g[p].k \in 1..created
    PROVE  LocalsStep
PROOF
<1>1. /\ [g[p] EXCEPT !.pc = pc] \in Goroutine
      /\ [g[p] EXCEPT !.pc = pc].pc = pc
      /\ [g[p] EXCEPT !.pc = pc].k = g[p].k
      /\ [g[p] EXCEPT !.pc = pc].todo = g[p].todo
  <2>1. g[p] \in Goroutine
    BY DEF TypeOK
  <2> QED
    BY <2>1 DEF Goroutine
<1> QED
  BY <1>1, GotoOK DEF GoAt, LocalsStep, Goto, TypeOK

LEMMA SetRunOK ==
    ASSUME TypeOK, NEW k \in 1..created, NEW s \in Open \cup Ended, SetRun(k, s)
    PROVE  RunStep
PROOF
<1>1. k \in RunId /\ s # "none"
  BY AutopilotAssumption DEF TypeOK, RunId, Open, Ended
<1>2. run[k] \in RunRow /\ [run[k] EXCEPT !.status = s] \in RunRow
  BY <1>1 DEF TypeOK, RunRow
<1> QED
  BY <1>1, <1>2 DEF TypeOK, SetRun, RunStep, RunRow, RunId

LEMMA SameRuns ==
    ASSUME TypeOK, UNCHANGED runVars
    PROVE  RunStep
BY DEF TypeOK, runVars, RunStep

\* Time and schedule stand still, and only runs that exist have an issue or a task.
LEMMA KeptIf ==
    ASSUME TypeOK, LocalsStep, RunStep, UNCHANGED <<now, trigger>>,
           autopilot' \in [Autopilots -> [status : {"active", "paused"}, mode : Modes]],
           archived' \in SUBSET Agents, requests' \in 0..MaxRequests,
           issue' \in [RunId -> IssueStatus \cup {"none", "deleted"}],
           task' \in [RunId -> TaskEnd \cup {"none", "live"}],
           \A k \in RunId : task'[k] # "none" \/ issue'[k] # "none" => k <= created
    PROVE  Kept /\ MovesOn
PROOF
<1>1. TypeOK'
  BY DEF TypeOK, LocalsStep, RunStep
<1>2. KnownRuns' /\ LocalsOK'
  BY DEF KnownRuns, LocalsStep, RunStep
<1>3. MovesOn
  BY DEF MovesOn, LocalsStep, RunStep
<1> QED
  BY <1>1, <1>2, <1>3 DEF Kept

\* The same when only goroutines and runs change.
LEMMA KeptIfOnlyRuns ==
    ASSUME TypeOK, KnownRuns, LocalsStep, RunStep,
           UNCHANGED <<now, trigger, autopilot, issue, task, env>>
    PROVE  Kept /\ MovesOn
BY KeptIf DEF TypeOK, KnownRuns, env

\* The same when the schedule of triggers changes.
LEMMA KeptIfScheduled ==
    ASSUME TypeOK, KnownRuns, LocalsStep, UNCHANGED runVars,
           UNCHANGED <<now, autopilot, issue, task, archived>>,
           requests' \in 0..MaxRequests,
           trigger' \in [Triggers -> [enabled : BOOLEAN, next : Time \cup {None}]],
           \A t \in Triggers : trigger'[t].next \in {trigger[t].next, now + 1}
    PROVE  Kept /\ MovesOn
PROOF
<1>1. RunStep
  BY SameRuns
<1>2. TypeOK'
  BY <1>1 DEF TypeOK, LocalsStep, RunStep
<1>3. KnownRuns' /\ LocalsOK'
  BY <1>1 DEF KnownRuns, LocalsStep, RunStep
<1>4. MovesOn
  BY <1>1 DEF MovesOn, LocalsStep, RunStep
<1> QED
  BY <1>2, <1>3, <1>4 DEF Kept

LEMMA RescheduleOK ==
    ASSUME TypeOK, NEW t \in Triggers, Reschedule(t)
    PROVE  /\ trigger' \in [Triggers -> [enabled : BOOLEAN, next : Time \cup {None}]]
           /\ \A u \in Triggers : trigger'[u].next \in {trigger[u].next, now + 1}
PROOF
<1>1. now + 1 \in Time
  BY AutopilotAssumption DEF TypeOK, Time
<1> QED
  BY <1>1 DEF Reschedule, TypeOK

-----------------------------------------------------------------------------
(* The scheduler *)

LEMMA SchedulerStep ==
    ASSUME TypeOK, KnownRuns, LocalsOK, NEW p \in Procs,
           \/ StartScheduler(p) \/ RecoverTrigger(p) \/ NextTrigger(p)
           \/ Advance(p) \/ LoopDone(p)
    PROVE  Kept /\ MovesOn
PROOF
<1>1. g[p] \in Goroutine
  BY DEF TypeOK
<1>2. CASE StartScheduler(p)
  <2> DEFINE s == [Idle EXCEPT !.pc = "recover", !.lost = Lost]
  <2>1. s \in Goroutine /\ s.pc \notin UsesRun \cup {"create"} /\ s.todo = {}
    BY DEF Idle, Goroutine, PC, Lost, UsesRun
  <2>2. LocalsStep
    BY <1>2, <2>1, GotoOK DEF StartScheduler, LocalsStep, Goto, TypeOK, runVars
  <2> QED
    BY <1>2, <2>2, SameRuns, KeptIfOnlyRuns DEF StartScheduler
<1>3. CASE RecoverTrigger(p)
  <2>1. PICK t \in g[p].lost :
          Reschedule(t) /\ Goto(p, [g[p] EXCEPT !.lost = @ \ {t}])
    BY <1>3 DEF RecoverTrigger
  <2> DEFINE s == [g[p] EXCEPT !.lost = @ \ {t}]
  <2>2. s \in Goroutine /\ s.pc = "recover" /\ s.todo = g[p].todo
    BY <1>1, <1>3 DEF Goroutine, RecoverTrigger, At
  <2>3. LocalsStep
    BY <1>3, <2>1, <2>2, GotoOK
    DEF RecoverTrigger, LocalsStep, Goto, TypeOK, runVars, UsesRun
  <2>4. t \in Triggers
    BY <1>1 DEF Goroutine
  <2> QED
    BY <1>3, <2>1, <2>3, <2>4, RescheduleOK, KeptIfScheduled
    DEF RecoverTrigger, env, TypeOK
<1>4. CASE NextTrigger(p)
  <2>1. PICK c \in g[p].todo :
          Goto(p, [g[p] EXCEPT !.pc = "create", !.fire = c, !.owner = Owner[c[1]],
                               !.mode = autopilot[Owner[c[1]]].mode])
    BY <1>4 DEF NextTrigger
  <2> DEFINE s == [g[p] EXCEPT !.pc = "create", !.fire = c, !.owner = Owner[c[1]],
                               !.mode = autopilot[Owner[c[1]]].mode]
  <2>2. c \in Triggers \X Time /\ Owner[c[1]] \in Autopilots
    BY <1>1, AutopilotAssumption DEF Goroutine
  <2>3. autopilot[Owner[c[1]]].mode \in Modes
    BY <2>2 DEF TypeOK
  <2>4. s \in Goroutine /\ s.pc = "create" /\ s.fire = c /\ s.todo = g[p].todo
    BY <1>1, <2>2, <2>3 DEF Goroutine, PC
  <2>5. LocalsStep
    BY <1>4, <2>1, <2>4, GotoOK
    DEF NextTrigger, LocalsStep, Goto, TypeOK, runVars, UsesRun
  <2> QED
    BY <1>4, <2>5, SameRuns, KeptIfOnlyRuns DEF NextTrigger
<1>5. CASE Advance(p)
  <2>1. CASE g[p].fire = None
    <3>1. LocalsStep
      BY <1>5, <2>1, ReturnOK DEF Advance, runVars
    <3> QED
      BY <1>5, <2>1, <3>1, SameRuns, KeptIfOnlyRuns DEF Advance
  <2>2. CASE g[p].fire # None
    <3> DEFINE s == [Idle EXCEPT !.pc = "tick", !.todo = g[p].todo]
    <3>1. s \in Goroutine /\ s.pc \notin UsesRun \cup {"create"} /\ s.todo = g[p].todo
      BY <1>1 DEF Idle, Goroutine, PC, UsesRun
    <3>2. LocalsStep
      BY <1>5, <2>2, <3>1, GotoOK DEF Advance, LocalsStep, Goto, TypeOK, runVars
    <3>3. g[p].fire[1] \in Triggers /\ Reschedule(g[p].fire[1])
      BY <1>1, <1>5, <2>2 DEF Advance, Goroutine
    <3> QED
      BY <1>5, <3>2, <3>3, RescheduleOK, KeptIfScheduled DEF Advance, env, TypeOK
  <2> QED
    BY <2>1, <2>2
<1>6. CASE LoopDone(p)
  <2>1. LocalsStep
    BY <1>6, ReturnOK DEF LoopDone, runVars
  <2> QED
    BY <1>6, <2>1, SameRuns, KeptIfOnlyRuns DEF LoopDone
<1> QED
  BY <1>2, <1>3, <1>4, <1>5, <1>6

\* The types hold after the claim of the due triggers, too.
LEMMA ClaimDueTyped ==
    ASSUME TypeOK, KnownRuns, LocalsOK, NEW p \in Procs, ClaimDue(p)
    PROVE  Kept
PROOF
<1> DEFINE s == [Idle EXCEPT !.pc = "tick", !.todo = {<<t, trigger[t].next>> : t \in Due}]
<1>1. {<<t, trigger[t].next>> : t \in Due} \subseteq Triggers \X Time
  BY DEF Due, TypeOK
<1>2. s \in Goroutine /\ s.pc \notin UsesRun \cup {"create"}
  BY <1>1 DEF Idle, Goroutine, PC, UsesRun
<1>3. g' \in [Procs -> Goroutine] /\ LocalsOK'
  BY <1>2, GotoOK DEF ClaimDue, runVars
<1>4. trigger' \in [Triggers -> [enabled : BOOLEAN, next : Time \cup {None}]]
  BY DEF ClaimDue, TypeOK
<1>5. TypeOK'
  BY <1>3, <1>4 DEF ClaimDue, TypeOK, runVars, env
<1> QED
  BY <1>3, <1>5 DEF ClaimDue, Kept, KnownRuns, runVars

-----------------------------------------------------------------------------
(* The dispatch *)

LEMMA CreateRunTyped ==
    ASSUME TypeOK, KnownRuns, LocalsOK, NEW p \in Procs, CreateRun(p)
    PROVE  Kept
PROOF
<1> DEFINE k == created + 1
           c == g[p].fire
           m == g[p].mode
           r == [owner   |-> g[p].owner,
                 trigger |-> IF c = None THEN None ELSE c[1],
                 due     |-> IF c = None THEN None ELSE c[2],
                 status  |-> IF m = "run_only" THEN "running" ELSE "issue_created",
                 linked  |-> FALSE]
           s == [g[p] EXCEPT !.pc = IF m = "run_only" THEN "agent" ELSE "issue",
                             !.k = k, !.todo = @ \ {c}]
<1>1. g[p] \in Goroutine /\ created \in Nat /\ created' = k /\ k \in RunId
  BY AutopilotAssumption DEF CreateRun, TypeOK, RunId
<1>2. s \in Goroutine /\ s.pc # "create" /\ s.k = k
  <2>1. s.pc \in PC \ {"create"} /\ s.k = k /\ s.todo = g[p].todo \ {c}
    BY <1>1 DEF Goroutine, PC
  <2>2. s.todo \in SUBSET (Triggers \X Time)
    BY <1>1, <2>1 DEF Goroutine
  <2> QED
    BY <1>1, <2>1, <2>2 DEF Goroutine
<1>3. Goto(p, s)
  BY DEF CreateRun
<1>4. g' \in [Procs -> Goroutine] /\ LocalsOK'
  <2>1. k \in 1..created' /\ created' \in {created, created + 1}
    BY <1>1
  <2> HIDE DEF s, k
  <2> QED
    BY <1>2, <1>3, <2>1, GotoOK
<1>5. r \in RunRow /\ r.status # "none"
  BY <1>1 DEF RunRow, Goroutine, Open
<1>6. run' = [run EXCEPT ![k] = r]
  BY DEF CreateRun
<1>7. /\ run' \in [RunId -> RunRow]
      /\ \A j \in RunId : (run'[j].status = "none") <=> (j > created')
  BY <1>1, <1>5, <1>6 DEF TypeOK, RunId
<1>8. created' \in 0..MaxRuns
  BY <1>1, AutopilotAssumption DEF RunId
<1>9. TypeOK'
  BY <1>4, <1>7, <1>8 DEF CreateRun, TypeOK, env
<1>10. KnownRuns'
  BY <1>1 DEF CreateRun, KnownRuns, RunId
<1> QED
  BY <1>4, <1>9, <1>10 DEF Kept

LEMMA DispatchStep ==
    ASSUME TypeOK, KnownRuns, LocalsOK, NEW p \in Procs,
           \/ CreateIssue(p) \/ LinkIssue(p) \/ EnqueueTaskForIssue(p)
           \/ LoadAgent(p) \/ CreateAutopilotTask(p) \/ LinkTask(p) \/ FailRun(p)
    PROVE  Kept /\ MovesOn
PROOF
<1> DEFINE k == g[p].k
<1>1. /\ created' = created /\ created \in Nat
      /\ k \in 1..created /\ k \in RunId
  BY AutopilotAssumption
  DEF CreateIssue, LinkIssue, EnqueueTaskForIssue, LoadAgent, CreateAutopilotTask,
      LinkTask, FailRun, SetRun, runVars, At, LocalsOK, UsesRun, TypeOK, RunId
<1>2. \A pc \in PC \ {"create"} : GoAt(p, pc) => LocalsStep
  BY <1>1, GoAtOK
<1>3. \A x \in {"link", "enqueue", "fail", "task", "running", "advance"} :
         x \in PC \ {"create"}
  BY DEF PC
<1>4. CASE CreateIssue(p)
  <2>1. /\ issue' \in [RunId -> IssueStatus \cup {"none", "deleted"}]
        /\ \A j \in RunId : j # k => issue'[j] = issue[j]
    BY <1>4 DEF CreateIssue, TypeOK, IssueStatus
  <2>2. LocalsStep /\ RunStep
    BY <1>2, <1>3, <1>4, SameRuns DEF CreateIssue
  <2> QED
    BY <1>1, <1>4, <2>1, <2>2, KeptIf DEF CreateIssue, TypeOK, KnownRuns, env
<1>5. CASE LinkIssue(p)
  <2>1. LocalsStep
    BY <1>2, <1>3, <1>5 DEF LinkIssue
  <2>2. CASE issue[k] = "deleted"
    BY <1>5, <2>1, <2>2, SameRuns, KeptIfOnlyRuns DEF LinkIssue
  <2>3. CASE issue[k] # "deleted"
    <3> DEFINE r == [run[k] EXCEPT !.status = "issue_created", !.linked = TRUE]
    <3>1. run' = [run EXCEPT ![k] = r]
      BY <1>5, <2>3 DEF LinkIssue
    <3>2. /\ r \in RunRow /\ r.status # "none"
          /\ r.trigger = run[k].trigger /\ r.due = run[k].due
      <4>1. run[k] \in RunRow
        BY <1>1 DEF TypeOK
      <4> QED
        BY <4>1 DEF RunRow, Open
    <3>3. RunStep
      BY <1>1, <3>1, <3>2 DEF RunStep, TypeOK, RunId
    <3> QED
      BY <1>5, <2>1, <3>3, KeptIfOnlyRuns DEF LinkIssue
  <2> QED
    BY <2>2, <2>3
<1>6. CASE EnqueueTaskForIssue(p)
  <2>1. LocalsStep
    BY <1>2, <1>3, <1>6 DEF EnqueueTaskForIssue
  <2> QED
    BY <1>6, <2>1, SameRuns, KeptIfOnlyRuns DEF EnqueueTaskForIssue
<1>7. CASE LoadAgent(p)
  <2>1. LocalsStep
    BY <1>2, <1>3, <1>7 DEF LoadAgent
  <2> QED
    BY <1>7, <2>1, SameRuns, KeptIfOnlyRuns DEF LoadAgent
<1>8. CASE CreateAutopilotTask(p)
  <2>1. /\ task' \in [RunId -> TaskEnd \cup {"none", "live"}]
        /\ \A j \in RunId : j # k => task'[j] = task[j]
    BY <1>8 DEF CreateAutopilotTask, TypeOK
  <2>2. LocalsStep /\ RunStep
    BY <1>2, <1>3, <1>8, SameRuns DEF CreateAutopilotTask
  <2> QED
    BY <1>1, <1>8, <2>1, <2>2, KeptIf DEF CreateAutopilotTask, TypeOK, KnownRuns, env
<1>9. CASE LinkTask(p) \/ FailRun(p)
  <2>1. LocalsStep
    BY <1>2, <1>3, <1>9 DEF LinkTask, FailRun
  <2>2. RunStep
    BY <1>1, <1>9, SetRunOK DEF LinkTask, FailRun, Open, Ended
  <2> QED
    BY <1>9, <2>1, <2>2, KeptIfOnlyRuns DEF LinkTask, FailRun
<1> QED
  BY <1>4, <1>5, <1>6, <1>7, <1>8, <1>9

-----------------------------------------------------------------------------
(* The listeners and what else goes on in requests *)

\* A request that goes on as s, which works for no trigger.
LEMMA RequestGoesOn ==
    ASSUME TypeOK, LocalsOK, NEW p \in Procs, NEW s \in Goroutine, Goto(p, s),
           s.todo = {}, s.fire = None, created' = created,
           s.pc \in UsesRun => s.k \in 1..created
    PROVE  LocalsStep
BY GotoOK DEF LocalsStep, Goto, TypeOK

LEMMA ListenerStep ==
    ASSUME TypeOK, KnownRuns, LocalsOK, NEW p \in Procs,
           \/ SyncRunFromTask(p) \/ GetIssue(p) \/ GetRun(p) \/ EndRun(p)
           \/ DeleteIssueRow(p) \/ CancelTasksOfAgent(p)
    PROVE  Kept /\ MovesOn
PROOF
<1> DEFINE k == g[p].k
<1>1. g[p] \in Goroutine /\ created \in Nat
  BY DEF TypeOK
<1>2. ASSUME g[p].pc \in UsesRun
      PROVE  k \in 1..created /\ k \in RunId
  BY <1>1, <1>2, AutopilotAssumption DEF LocalsOK, TypeOK, RunId
<1>3. CASE SyncRunFromTask(p) \/ EndRun(p)
  <2>1. k \in 1..created
    BY <1>2, <1>3 DEF SyncRunFromTask, EndRun, At, UsesRun
  <2>2. RunStep
    BY <1>3, <2>1, SetRunOK DEF SyncRunFromTask, EndRun, Ended
  <2>3. LocalsStep
    BY <1>3, <2>2, ReturnOK DEF SyncRunFromTask, EndRun, RunStep
  <2> QED
    BY <1>3, <2>2, <2>3, KeptIfOnlyRuns DEF SyncRunFromTask, EndRun
<1>4. CASE GetIssue(p)
  <2>1. k \in 1..created /\ k \in RunId
    BY <1>2, <1>4 DEF GetIssue, At, UsesRun
  <2>2. CASE issue[k] \in {"done", "cancelled"}
    <3> DEFINE s == [g[p] EXCEPT !.pc = "getRun", !.seen = issue[g[p].k]]
    <3>1. /\ s \in Goroutine /\ s.pc = "getRun" /\ s.k = k
          /\ s.todo = g[p].todo
      BY <1>1, <2>2 DEF Goroutine, PC, IssueStatus
    <3>2. Goto(p, s) /\ created' = created
      BY <1>4, <2>2 DEF GetIssue, runVars
    <3>3. LocalsStep
      <4> HIDE DEF s
      <4> QED
        BY <2>1, <3>1, <3>2, GotoOK DEF LocalsStep, Goto, TypeOK
    <3> QED
      BY <1>4, <3>3, SameRuns, KeptIfOnlyRuns DEF GetIssue
  <2>3. CASE issue[k] \notin {"done", "cancelled"}
    <3>1. LocalsStep
      BY <1>4, <2>3, ReturnOK DEF GetIssue, runVars
    <3> QED
      BY <1>4, <3>1, SameRuns, KeptIfOnlyRuns DEF GetIssue
  <2> QED
    BY <2>2, <2>3
<1>5. CASE GetRun(p)
  <2>1. k \in 1..created
    BY <1>2, <1>5 DEF GetRun, At, UsesRun
  <2>2. LocalsStep
    <3>1. "endRun" \in PC \ {"create"}
      BY DEF PC
    <3> QED
      BY <1>5, <2>1, <3>1, ReturnOK, GoAtOK DEF GetRun, runVars
  <2> QED
    BY <1>5, <2>2, SameRuns, KeptIfOnlyRuns DEF GetRun
<1>6. CASE DeleteIssueRow(p)
  <2>1. k \in 1..created /\ k \in RunId
    BY <1>2, <1>6 DEF DeleteIssueRow, At, UsesRun
  <2>2. LocalsStep
    BY <1>6, ReturnOK DEF DeleteIssueRow
  <2> DEFINE r == [run[k] EXCEPT !.linked = FALSE]
  <2>3. run' = [run EXCEPT ![k] = r]
    BY <1>6 DEF DeleteIssueRow
  <2>4. /\ r \in RunRow /\ r.status = run[k].status
        /\ r.trigger = run[k].trigger /\ r.due = run[k].due
    <3>1. run[k] \in RunRow
      BY <2>1 DEF TypeOK
    <3> QED
      BY <3>1 DEF RunRow
  <2>5. RunStep
    BY <1>6, <2>1, <2>3, <2>4 DEF DeleteIssueRow, RunStep, TypeOK, RunId
  <2>6. /\ issue' \in [RunId -> IssueStatus \cup {"none", "deleted"}]
        /\ \A j \in RunId : j # k => issue'[j] = issue[j]
    BY <1>6 DEF DeleteIssueRow, TypeOK
  <2> QED
    BY <1>6, <2>1, <2>2, <2>5, <2>6, KeptIf DEF DeleteIssueRow, TypeOK, KnownRuns, env
<1>7. CASE CancelTasksOfAgent(p)
  <2>1. LocalsStep
    BY <1>7, ReturnOK DEF CancelTasksOfAgent, runVars
  <2>2. /\ task' \in [RunId -> TaskEnd \cup {"none", "live"}]
        /\ \A j \in RunId : task'[j] # "none" => task[j] # "none"
    BY <1>7 DEF CancelTasksOfAgent, TypeOK, TaskEnd
  <2> QED
    BY <1>7, <2>1, <2>2, SameRuns, KeptIf DEF CancelTasksOfAgent, TypeOK, KnownRuns, env
<1> QED
  BY <1>3, <1>4, <1>5, <1>6, <1>7

LEMMA ContinueStep ==
    ASSUME TypeOK, KnownRuns, LocalsOK, NEW p \in Procs, Continue(p)
    PROVE  Kept /\ (MovesOn \/ CreateRun(p))
BY SchedulerStep, DispatchStep, ListenerStep, CreateRunTyped DEF Continue

LEMMA IssueRequestStep ==
    ASSUME TypeOK, KnownRuns, LocalsOK, NEW p \in Procs, NEW k \in RunId,
           \/ \E s \in TaskEnds : EndTask(p, k, s)
           \/ \E s \in IssueStatus : SetIssueStatus(p, k, s)
           \/ DeleteIssue(p, k)
    PROVE  Kept /\ MovesOn
PROOF
<1>1. {"syncTask", "getIssue", "delete"} \subseteq PC
  BY DEF PC
<1>2. \A pc \in {"syncTask", "getIssue", "delete"} :
        LET s == [Idle EXCEPT !.pc = pc, !.k = k]
        IN  s \in Goroutine /\ s.k = k /\ s.todo = {} /\ s.fire = None
  BY <1>1 DEF Idle, Goroutine
<1>3. ASSUME NEW pc \in {"syncTask", "getIssue", "delete"},
             Goto(p, [Idle EXCEPT !.pc = pc, !.k = k]), k \in 1..created,
             created' = created
      PROVE  LocalsStep
  <2> DEFINE s == [Idle EXCEPT !.pc = pc, !.k = k]
  <2>1. s \in Goroutine /\ s.k = k /\ s.todo = {} /\ s.fire = None
    BY <1>2
  <2> HIDE DEF s
  <2>2. Goto(p, s)
    BY <1>3 DEF s
  <2> QED
    BY <1>3, <2>1, <2>2, RequestGoesOn
<1>4. requests' \in 0..MaxRequests
  BY AutopilotAssumption DEF EndTask, SetIssueStatus, DeleteIssue, Request, TypeOK, env
<1>5. k \in 1..created
  BY DEF KnownRuns, RunId, EndTask, SetIssueStatus, DeleteIssue, IssueStatus, TypeOK
<1>6. CASE \E s \in TaskEnds : EndTask(p, k, s)
  <2>1. LocalsStep
    BY <1>3, <1>5, <1>6 DEF EndTask, runVars
  <2>2. /\ task' \in [RunId -> TaskEnd \cup {"none", "live"}]
        /\ \A j \in RunId : j # k => task'[j] = task[j]
    BY <1>6, AutopilotAssumption DEF EndTask, TypeOK, TaskEnd
  <2> QED
    BY <1>5, <1>6, <2>1, <2>2, SameRuns, KeptIf DEF EndTask, TypeOK, KnownRuns, env
<1>7. CASE \E s \in IssueStatus : SetIssueStatus(p, k, s)
  <2>1. LocalsStep
    <3>1. CASE g' = g
      BY <1>7, <3>1 DEF SetIssueStatus, LocalsStep, LocalsOK, TypeOK, runVars
    <3>2. CASE Goto(p, [Idle EXCEPT !.pc = "getIssue", !.k = k])
      BY <1>3, <1>5, <1>7, <3>2 DEF SetIssueStatus, runVars
    <3> QED
      BY <1>7, <3>1, <3>2 DEF SetIssueStatus
  <2>2. /\ issue' \in [RunId -> IssueStatus \cup {"none", "deleted"}]
        /\ \A j \in RunId : j # k => issue'[j] = issue[j]
    BY <1>7 DEF SetIssueStatus, TypeOK
  <2> QED
    BY <1>4, <1>5, <1>7, <2>1, <2>2, SameRuns, KeptIf
    DEF SetIssueStatus, TypeOK, KnownRuns
<1>8. CASE DeleteIssue(p, k)
  <2>1. RunStep
    BY <1>5, <1>8, SetRunOK, SameRuns DEF DeleteIssue, Ended
  <2>2. LocalsStep
    BY <1>3, <1>5, <1>8, <2>1 DEF DeleteIssue, RunStep
  <2> QED
    BY <1>4, <1>8, <2>1, <2>2, KeptIf DEF DeleteIssue, TypeOK, KnownRuns
<1> QED
  BY <1>6, <1>7, <1>8

LEMMA OtherRequestStep ==
    ASSUME TypeOK, KnownRuns, LocalsOK, NEW p \in Procs,
           \/ \E a \in Autopilots : TriggerAutopilot(p, a)
           \/ \E a \in Autopilots, s \in Statuses, m \in Modes : UpdateAutopilot(p, a, s, m)
           \/ \E t \in Triggers, e \in BOOLEAN : UpdateAutopilotTrigger(p, t, e)
           \/ \E x \in Agents : ArchiveAgent(p, x)
    PROVE  Kept /\ MovesOn
PROOF
<1>1. UNCHANGED runVars /\ RunStep
  BY SameRuns DEF TriggerAutopilot, UpdateAutopilot, UpdateAutopilotTrigger, ArchiveAgent
<1>2. requests' \in 0..MaxRequests
  <2>1. \E kind \in Events : Request(p, kind)
    BY DEF TriggerAutopilot, UpdateAutopilot, UpdateAutopilotTrigger, ArchiveAgent, Request
  <2> QED
    BY <2>1, AutopilotAssumption DEF Request, TypeOK
<1>3. g' = g => LocalsStep
  BY <1>1 DEF LocalsStep, LocalsOK, TypeOK, runVars
<1>4. CASE \E a \in Autopilots : TriggerAutopilot(p, a)
  <2>1. PICK a \in Autopilots : TriggerAutopilot(p, a)
    BY <1>4
  <2> DEFINE s == [Idle EXCEPT !.pc = "create", !.owner = a, !.mode = autopilot[a].mode]
  <2>2. /\ s \in Goroutine /\ s.pc \notin UsesRun /\ s.todo = {} /\ s.fire = None
    BY DEF TypeOK, Idle, Goroutine, PC, UsesRun
  <2>3. Goto(p, s)
    BY <2>1 DEF TriggerAutopilot
  <2>4. LocalsStep
    <3> HIDE DEF s
    <3> QED
      BY <1>1, <2>2, <2>3, RequestGoesOn DEF runVars
  <2> QED
    BY <1>1, <1>2, <2>1, <2>4, KeptIf DEF TriggerAutopilot, TypeOK, KnownRuns
<1>5. CASE \E a \in Autopilots, s \in Statuses, m \in Modes : UpdateAutopilot(p, a, s, m)
  <2>1. PICK a \in Autopilots, s \in Statuses, m \in Modes : UpdateAutopilot(p, a, s, m)
    BY <1>5
  <2>2. autopilot' \in [Autopilots -> [status : {"active", "paused"}, mode : Modes]]
    BY <2>1, AutopilotAssumption DEF UpdateAutopilot, TypeOK
  <2> QED
    BY <1>1, <1>2, <1>3, <2>1, <2>2, KeptIf DEF UpdateAutopilot, TypeOK, KnownRuns
<1>6. CASE \E t \in Triggers, e \in BOOLEAN : UpdateAutopilotTrigger(p, t, e)
  <2>1. PICK t \in Triggers, e \in BOOLEAN : UpdateAutopilotTrigger(p, t, e)
    BY <1>6
  <2>2. now + 1 \in Time
    BY AutopilotAssumption DEF TypeOK, Time
  <2>3. /\ trigger' \in [Triggers -> [enabled : BOOLEAN, next : Time \cup {None}]]
        /\ \A u \in Triggers : trigger'[u].next \in {trigger[u].next, now + 1}
    BY <2>1, <2>2 DEF UpdateAutopilotTrigger, TypeOK
  <2> QED
    BY <1>1, <1>2, <1>3, <2>1, <2>3, KeptIfScheduled DEF UpdateAutopilotTrigger
<1>7. CASE \E x \in Agents : ArchiveAgent(p, x)
  <2>1. PICK x \in Agents : ArchiveAgent(p, x)
    BY <1>7
  <2> DEFINE s == [Idle EXCEPT !.pc = "cancelAgent", !.agent = x]
  <2>2. /\ s \in Goroutine /\ s.pc \notin UsesRun /\ s.todo = {} /\ s.fire = None
    BY DEF Idle, Goroutine, PC, UsesRun
  <2>3. Goto(p, s)
    BY <2>1 DEF ArchiveAgent
  <2>4. LocalsStep
    <3> HIDE DEF s
    <3> QED
      BY <1>1, <2>2, <2>3, RequestGoesOn DEF runVars
  <2>5. archived' \in SUBSET Agents
    BY <2>1 DEF ArchiveAgent, TypeOK
  <2> QED
    BY <1>1, <1>2, <2>1, <2>4, <2>5, KeptIf DEF ArchiveAgent, TypeOK, KnownRuns
<1> QED
  BY <1>4, <1>5, <1>6, <1>7

LEMMA TickStep ==
    ASSUME TypeOK, KnownRuns, LocalsOK, Tick
    PROVE  Kept /\ MovesOn
PROOF
<1>1. RunStep
  BY SameRuns DEF Tick
<1>2. TypeOK'
  BY AutopilotAssumption DEF Tick, TypeOK, runVars, env
<1>3. KnownRuns' /\ LocalsOK'
  BY DEF Tick, KnownRuns, LocalsOK, runVars
<1>4. MovesOn
  BY <1>1 DEF Tick, MovesOn, RunStep
<1> QED
  BY <1>2, <1>3, <1>4 DEF Kept

LEMMA CrashStep ==
    ASSUME TypeOK, KnownRuns, LocalsOK, NEW P \in SUBSET Procs, Crash(P)
    PROVE  Kept /\ MovesOn
PROOF
<1>1. \A s \in {Idle, Down} :
        /\ s \in Goroutine /\ s.todo = {} /\ s.pc \notin UsesRun \cup {"create"}
  BY DEF Idle, Down, Goroutine, PC, UsesRun
<1>2. \A p \in Procs : g'[p] \in {g[p], Idle, Down}
  BY DEF Crash
<1>3. LocalsStep
  <2>1. g' \in [Procs -> Goroutine]
    BY <1>1, <1>2 DEF Crash, TypeOK
  <2>2. LocalsOK'
    BY <1>1, <1>2 DEF Crash, LocalsOK, runVars
  <2>3. \A p \in Procs : g'[p].todo \subseteq g[p].todo
    BY <1>1, <1>2
  <2> QED
    BY <2>1, <2>2, <2>3 DEF LocalsStep
<1>4. requests' \in 0..MaxRequests
  BY AutopilotAssumption DEF Crash, TypeOK
<1> QED
  BY <1>3, <1>4, SameRuns, KeptIf DEF Crash, TypeOK, KnownRuns

-----------------------------------------------------------------------------
(* Every step *)

LEMMA NextStep ==
    ASSUME TypeOK, KnownRuns, LocalsOK, [Next]_vars
    PROVE  Kept /\ \/ MovesOn
                   \/ \E p \in Procs : ClaimDue(p) \/ CreateRun(p)
PROOF
<1>1. CASE UNCHANGED vars
  <2>1. Kept
    BY <1>1 DEF vars, runVars, env, Kept, TypeOK, KnownRuns, LocalsOK
  <2>2. MovesOn
    BY <1>1 DEF vars, runVars, MovesOn
  <2> QED
    BY <2>1, <2>2
<1>2. CASE Tick
  BY <1>2, TickStep
<1>3. ASSUME NEW p \in Schedulers, StartScheduler(p) \/ ClaimDue(p)
      PROVE  Kept /\ (MovesOn \/ ClaimDue(p))
  BY <1>3, SchedulerStep, ClaimDueTyped DEF Procs
<1>4. ASSUME NEW p \in Procs, Continue(p) \/ UserRequest(p)
      PROVE  Kept /\ (MovesOn \/ CreateRun(p))
  BY <1>4, ContinueStep, IssueRequestStep, OtherRequestStep DEF UserRequest
<1>5. ASSUME NEW p \in Procs, NEW k \in RunId, NEW s \in TaskEnds, EndTask(p, k, s)
      PROVE  Kept /\ MovesOn
  BY <1>5, IssueRequestStep
<1>6. ASSUME NEW P \in SUBSET Procs, Crash(P)
      PROVE  Kept /\ MovesOn
  BY <1>6, CrashStep
<1>7. CASE Quiet
  BY <1>1, <1>7 DEF Quiet
<1> QED
  BY <1>1, <1>2, <1>3, <1>4, <1>5, <1>6, <1>7 DEF Next, Procs

LEMMA InvariantStep ==
    ASSUME FireInv, [Next]_vars
    PROVE  FireInv'
PROOF
<1>1. TypeOK /\ KnownRuns /\ LocalsOK /\ Schedule
  BY DEF FireInv, Schedule
<1>2. Kept
  BY <1>1, NextStep
<1>3. Schedule'
  BY <1>1, NextStep, MovesOnKeeps, ClaimDueKeeps, CreateRunKeeps
<1> QED
  BY <1>2, <1>3 DEF Kept, FireInv, Schedule

LEMMA InvariantInit == Init => FireInv
PROOF
<1> SUFFICES ASSUME Init PROVE FireInv
  OBVIOUS
<1> USE AutopilotAssumption DEF Init
<1>1. Idle \in Goroutine /\ Down \in Goroutine
  BY DEF Idle, Down, Goroutine, PC
<1>2. \A p \in Procs : g[p] \in {Idle, Down}
  OBVIOUS
<1>3. NoRun \in RunRow
  BY DEF NoRun, RunRow
<1>4. TypeOK
  <2>1. trigger \in [Triggers -> [enabled : BOOLEAN, next : Time \cup {None}]]
    BY DEF Time
  <2>2. autopilot \in [Autopilots -> [status : {"active", "paused"}, mode : Modes]]
    OBVIOUS
  <2>3. \A k \in RunId : run[k].status = "none" /\ k > 0
    BY DEF RunId, NoRun
  <2>4. g \in [Procs -> Goroutine]
    BY <1>1
  <2>5. run \in [RunId -> RunRow]
    BY <1>3
  <2> QED
    BY <2>1, <2>2, <2>3, <2>4, <2>5 DEF TypeOK
<1>5. KnownRuns
  BY DEF KnownRuns
<1>6. /\ \A p \in Procs : g[p].todo = {} /\ g[p].pc \notin UsesRun \cup {"create"}
      /\ 1..created = {}
  BY <1>2 DEF Idle, Down, UsesRun
<1>7. LocalsOK /\ ClaimsOK /\ RunsOK /\ FiresOncePerPeriod
  BY <1>6 DEF LocalsOK, ClaimsOK, RunsOK, FiresOncePerPeriod
<1> QED
  BY <1>4, <1>5, <1>7 DEF FireInv

-----------------------------------------------------------------------------
(* The theorems *)

\* Claims and runs stay apart, and behind the next time of their trigger.
THEOREM InvariantAlways == Spec => []FireInv
PROOF
<1> QED
  BY InvariantInit, InvariantStep, PTL DEF Spec

\* Every variable of the autopilots keeps its type.
THEOREM TypesAlways == Spec => []TypeOK
PROOF
<1>1. FireInv => TypeOK
  BY DEF FireInv
<1> QED
  BY <1>1, InvariantAlways, PTL

\* However many servers tick, start, crash and recover triggers, and whatever
\* users change: a trigger has at most one run for each period of its schedule.
THEOREM FiresOnceAlways == Spec => []FiresOncePerPeriod
PROOF
<1>1. FireInv => FiresOncePerPeriod
  BY DEF FireInv
<1> QED
  BY <1>1, InvariantAlways, PTL

-----------------------------------------------------------------------------
(* What schedulers hold *)

\* Holds(p, t), of the record of a goroutine.
Has(s, t) ==
    \/ t \in s.lost
    \/ \E c \in s.todo : c[1] = t
    \/ s.fire # None /\ s.fire[1] = t

Hands == \A p \in Procs : HandsOK(g[p])

LEMMA HoldsIsHas ==
    NoTriggerLost <=> \A t \in Lost : \E p \in Schedulers : Has(g[p], t) \/ At(p, "down")
BY DEF NoTriggerLost, Holds, Has

LEMMA SameLost ==
    ASSUME UNCHANGED <<trigger, autopilot>>
    PROVE  Lost' = Lost
BY DEF Lost, Enabled

\* A trigger with a new time is not lost.
LEMMA RescheduledNotLost ==
    ASSUME TypeOK, NEW t \in Triggers, Reschedule(t), autopilot' = autopilot
    PROVE  Lost' \subseteq Lost \ {t}
BY AutopilotAssumption DEF Reschedule, Lost, Enabled, TypeOK

\* A goroutine that changes its record keeps hold of what is still lost, and
\* of what it has claimed.
LEMMA KeepsHold ==
    ASSUME TypeOK, Hands, NoTriggerLost, NEW p \in Procs, NEW s, Goto(p, s), HandsOK(s),
           \A t \in Lost' : t \in Lost \/ (p \in Schedulers /\ Has(s, t)),
           \A t \in Lost' : Has(g[p], t) \/ g[p].pc = "down" => Has(s, t) \/ s.pc = "down"
    PROVE  Hands' /\ NoTriggerLost'
PROOF
<1>1. g'[p] = s /\ \A q \in Procs \ {p} : g'[q] = g[q]
  BY DEF Goto, TypeOK
<1>2. Hands'
  BY <1>1 DEF Hands
<1>3. ASSUME NEW t \in Lost'
      PROVE  \E q \in Schedulers : Has(g'[q], t) \/ g'[q].pc = "down"
  <2>1. CASE p \in Schedulers /\ Has(s, t)
    BY <1>1, <2>1
  <2>2. CASE t \in Lost
    <3>1. PICK q \in Schedulers : Has(g[q], t) \/ g[q].pc = "down"
      BY <2>2, HoldsIsHas DEF At
    <3>2. q \in Procs
      BY DEF Procs
    <3> QED
      BY <1>1, <1>3, <3>1, <3>2
  <2> QED
    BY <2>1, <2>2
<1>4. NoTriggerLost'
  BY <1>3 DEF NoTriggerLost, Holds, Has, At
<1> QED
  BY <1>2, <1>4

LEMMA StillHolds ==
    ASSUME TypeOK, Hands, NoTriggerLost, NEW p \in Procs, NEW s, Goto(p, s), HandsOK(s),
           Lost' \subseteq Lost, g[p].pc # "down",
           \A t \in Lost' : Has(g[p], t) => Has(s, t)
    PROVE  Hands' /\ NoTriggerLost'
PROOF
<1>1. \A t \in Lost' : t \in Lost \/ (p \in Schedulers /\ Has(s, t))
  OBVIOUS
<1>2. \A t \in Lost' : Has(g[p], t) \/ g[p].pc = "down" => Has(s, t) \/ s.pc = "down"
  OBVIOUS
<1> QED
  BY <1>1, <1>2, KeepsHold

\* What holds nothing may go anywhere.
LEMMA EmptyHands ==
    ASSUME TypeOK, Hands, NoTriggerLost, NEW p \in Procs, NEW s, Goto(p, s), HandsOK(s),
           Lost' \subseteq Lost,
           g[p].pc \notin Dispatch \cup {"create", "advance", "tick", "recover", "down"}
    PROVE  Hands' /\ NoTriggerLost'
PROOF
<1>1. \A t : ~Has(g[p], t)
  BY DEF Has, Hands, HandsOK
<1> QED
  BY <1>1, KeepsHold

LEMMA IdleHands ==
    \A pc, k, a : /\ HandsOK(Idle) /\ HandsOK(Down)
                  /\ pc # "recover" => HandsOK([Idle EXCEPT !.pc = pc, !.k = k])
                  /\ pc # "recover" => HandsOK([Idle EXCEPT !.pc = pc, !.agent = a])
BY DEF HandsOK, Idle, Down

LEMMA SchedulerHolds ==
    ASSUME TypeOK, Hands, NoTriggerLost, NEW p \in Procs,
           \/ p \in Schedulers /\ (StartScheduler(p) \/ ClaimDue(p))
           \/ RecoverTrigger(p) \/ NextTrigger(p) \/ Advance(p) \/ LoopDone(p)
    PROVE  Hands' /\ NoTriggerLost'
PROOF
<1>1. g[p] \in Goroutine /\ HandsOK(g[p])
  BY DEF TypeOK, Hands
<1>2. CASE p \in Schedulers /\ StartScheduler(p)
  <2> DEFINE s == [Idle EXCEPT !.pc = "recover", !.lost = Lost]
  <2>1. HandsOK(s) /\ \A t \in Lost : Has(s, t)
    BY DEF HandsOK, Has, Idle
  <2>2. Lost' = Lost /\ Goto(p, s)
    BY <1>2, SameLost DEF StartScheduler
  <2> HIDE DEF s
  <2>3. \A t \in Lost' : Has(s, t)
    BY <2>1, <2>2
  <2> QED
    BY <2>1, <2>2, <2>3, KeepsHold
<1>3. CASE p \in Schedulers /\ ClaimDue(p)
  <2> DEFINE s == [Idle EXCEPT !.pc = "tick", !.todo = {<<t, trigger[t].next>> : t \in Due}]
  <2>1. HandsOK(s) /\ s.todo = {<<t, trigger[t].next>> : t \in Due}
    BY DEF HandsOK, Idle
  <2> HIDE DEF s
  <2>2. ASSUME NEW t \in Due
        PROVE  Has(s, t)
    <3>1. <<t, trigger[t].next>> \in s.todo /\ <<t, trigger[t].next>>[1] = t
      BY <2>1
    <3> QED
      BY <3>1 DEF Has
  <2>3. \A t \in Lost' : t \in Lost \/ t \in Due
    BY <1>3 DEF ClaimDue, Lost, Enabled, TypeOK
  <2>4. \A t : ~Has(g[p], t) /\ g[p].pc # "down"
    BY <1>1, <1>3 DEF ClaimDue, At, HandsOK, Has, Dispatch
  <2>5. Goto(p, s)
    BY <1>3 DEF ClaimDue, s
  <2> QED
    <3>1. \A t \in Lost' : t \in Lost \/ (p \in Schedulers /\ Has(s, t))
      BY <1>3, <2>2, <2>3
    <3>2. \A t \in Lost' : Has(g[p], t) \/ g[p].pc = "down" => Has(s, t) \/ s.pc = "down"
      BY <2>4
    <3> QED
      BY <2>1, <2>5, <3>1, <3>2, KeepsHold
<1>4. CASE RecoverTrigger(p)
  <2>1. PICK u \in g[p].lost : Reschedule(u) /\ Goto(p, [g[p] EXCEPT !.lost = @ \ {u}])
    BY <1>4 DEF RecoverTrigger
  <2> DEFINE s == [g[p] EXCEPT !.lost = @ \ {u}]
  <2>2. /\ s.lost = g[p].lost \ {u} /\ s.todo = g[p].todo
        /\ s.fire = g[p].fire /\ s.pc = "recover" /\ g[p].pc = "recover"
    BY <1>1, <1>4 DEF Goroutine, RecoverTrigger, At
  <2>3. HandsOK(s)
    BY <1>1, <2>2 DEF HandsOK
  <2>4. Lost' \subseteq Lost \ {u}
    BY <1>1, <1>4, <2>1, RescheduledNotLost DEF Goroutine, RecoverTrigger
  <2>5. \A t \in Lost' : Has(g[p], t) => Has(s, t)
    BY <2>2, <2>4 DEF Has
  <2> HIDE DEF s
  <2>6. Goto(p, s)
    BY <2>1 DEF s
  <2> QED
    BY <2>2, <2>3, <2>4, <2>5, <2>6, StillHolds
<1>5. CASE NextTrigger(p)
  <2>1. PICK c \in g[p].todo :
          Goto(p, [g[p] EXCEPT !.pc = "create", !.fire = c, !.owner = Owner[c[1]],
                               !.mode = autopilot[Owner[c[1]]].mode])
    BY <1>5 DEF NextTrigger
  <2> DEFINE s == [g[p] EXCEPT !.pc = "create", !.fire = c, !.owner = Owner[c[1]],
                               !.mode = autopilot[Owner[c[1]]].mode]
  <2>2. c # None
    BY <1>1, AutopilotAssumption DEF Goroutine, Time
  <2>3. /\ s.lost = g[p].lost /\ s.todo = g[p].todo /\ s.fire = c
        /\ s.pc = "create" /\ g[p].pc = "tick"
    BY <1>1, <1>5 DEF Goroutine, NextTrigger, At
  <2>4. HandsOK(s) /\ \A t : Has(g[p], t) => Has(s, t)
    BY <1>1, <2>2, <2>3 DEF HandsOK, Has, Dispatch
  <2>5. Lost' = Lost
    BY <1>5, SameLost DEF NextTrigger
  <2> HIDE DEF s
  <2>6. Goto(p, s)
    BY <2>1 DEF s
  <2> QED
    BY <2>3, <2>4, <2>5, <2>6, StillHolds
<1>6. CASE Advance(p) /\ g[p].fire = None
  <2>1. \A t : ~Has(g[p], t) /\ g[p].pc # "down"
    BY <1>1, <1>6 DEF Advance, At, HandsOK, Has
  <2> QED
    BY <1>6, <2>1, SameLost, IdleHands, StillHolds DEF Advance, Return
<1>7. CASE Advance(p) /\ g[p].fire # None
  <2> DEFINE s == [Idle EXCEPT !.pc = "tick", !.todo = g[p].todo]
             u == g[p].fire[1]
  <2>1. HandsOK(s) /\ s.todo = g[p].todo
    BY DEF HandsOK, Idle
  <2>2. Lost' \subseteq Lost \ {u}
    BY <1>1, <1>7, RescheduledNotLost DEF Advance, Goroutine
  <2>3. \A t \in Lost' : Has(g[p], t) => Has(s, t)
    BY <1>1, <1>7, <2>1, <2>2 DEF Has, HandsOK, Advance, At
  <2>4. Goto(p, s) /\ g[p].pc # "down"
    BY <1>7 DEF Advance, At
  <2> HIDE DEF s
  <2> QED
    BY <2>1, <2>2, <2>3, <2>4, StillHolds
<1>8. CASE LoopDone(p)
  <2>1. \A t : ~Has(g[p], t) /\ g[p].pc # "down"
    BY <1>1, <1>8 DEF LoopDone, At, HandsOK, Has, Dispatch
  <2> QED
    BY <1>8, <2>1, SameLost, IdleHands, StillHolds DEF LoopDone, Return
<1> QED
  BY <1>2, <1>3, <1>4, <1>5, <1>6, <1>7, <1>8

LEMMA DispatchHolds ==
    ASSUME TypeOK, Hands, NoTriggerLost, NEW p \in Procs,
           \/ CreateRun(p) \/ CreateIssue(p) \/ LinkIssue(p) \/ EnqueueTaskForIssue(p)
           \/ LoadAgent(p) \/ CreateAutopilotTask(p) \/ LinkTask(p) \/ FailRun(p)
    PROVE  Hands' /\ NoTriggerLost'
PROOF
<1>1. g[p] \in Goroutine /\ HandsOK(g[p])
  BY DEF TypeOK, Hands
<1>2. Lost' = Lost
  BY SameLost
  DEF CreateRun, CreateIssue, LinkIssue, EnqueueTaskForIssue, LoadAgent,
      CreateAutopilotTask, LinkTask, FailRun
<1>3. CASE CreateRun(p)
  <2> DEFINE c == g[p].fire
  <2>1. PICK pc \in {"agent", "issue"} :
          Goto(p, [g[p] EXCEPT !.pc = pc, !.k = created + 1, !.todo = @ \ {c}])
    BY <1>3 DEF CreateRun
  <2> DEFINE s == [g[p] EXCEPT !.pc = pc, !.k = created + 1, !.todo = @ \ {c}]
  <2>2. /\ s.lost = g[p].lost /\ s.todo = g[p].todo \ {c} /\ s.fire = c
        /\ s.pc = pc /\ g[p].pc = "create"
    BY <1>1, <1>3 DEF Goroutine, CreateRun, At
  <2>3. c = None => g[p].todo = {}
    BY <1>1, <2>2 DEF HandsOK
  <2>4. HandsOK(s) /\ \A t : Has(g[p], t) => Has(s, t)
    BY <1>1, <2>2, <2>3 DEF HandsOK, Has, Dispatch
  <2> HIDE DEF s
  <2>5. Goto(p, s)
    BY <2>1 DEF s
  <2> QED
    BY <1>2, <2>2, <2>4, <2>5, StillHolds
<1>4. CASE ~CreateRun(p)
  <2>1. PICK pc \in Dispatch \cup {"advance"} : GoAt(p, pc)
    BY <1>4
    DEF CreateIssue, LinkIssue, EnqueueTaskForIssue, LoadAgent, CreateAutopilotTask,
        LinkTask, FailRun, Dispatch
  <2> DEFINE s == [g[p] EXCEPT !.pc = pc]
  <2>2. /\ s.lost = g[p].lost /\ s.todo = g[p].todo /\ s.fire = g[p].fire
        /\ s.pc = pc
    BY <1>1 DEF Goroutine
  <2>3. g[p].pc \in Dispatch
    BY <1>4
    DEF CreateIssue, LinkIssue, EnqueueTaskForIssue, LoadAgent, CreateAutopilotTask,
        LinkTask, FailRun, Dispatch, At
  <2>4. HandsOK(s) /\ \A t : Has(g[p], t) => Has(s, t)
    BY <1>1, <2>2, <2>3 DEF HandsOK, Has, Dispatch
  <2>5. Goto(p, s) /\ g[p].pc # "down"
    BY <2>1, <2>3 DEF GoAt, Dispatch
  <2> HIDE DEF s
  <2> QED
    BY <1>2, <2>4, <2>5, StillHolds
<1> QED
  BY <1>3, <1>4

LEMMA RequestHolds ==
    ASSUME TypeOK, Hands, NoTriggerLost, NEW p \in Procs, Statuses \subseteq {"active"},
           \A a \in Autopilots : autopilot[a].status = "active",
           \/ SyncRunFromTask(p) \/ GetIssue(p) \/ GetRun(p) \/ EndRun(p)
           \/ DeleteIssueRow(p) \/ CancelTasksOfAgent(p)
           \/ \E k \in RunId, s \in TaskEnds : EndTask(p, k, s)
           \/ UserRequest(p)
    PROVE  Hands' /\ NoTriggerLost'
PROOF
<1>1. g[p] \in Goroutine /\ HandsOK(g[p])
  BY DEF TypeOK, Hands
<1>2. ASSUME NEW s, Goto(p, s), HandsOK(s), UNCHANGED <<trigger, autopilot>>,
             g[p].pc \in {"idle", "syncTask", "getIssue", "getRun", "endRun", "delete",
                          "cancelAgent"}
      PROVE  Hands' /\ NoTriggerLost'
  BY <1>2, SameLost, EmptyHands DEF Dispatch
<1>3. ASSUME Lost' \subseteq Lost, g' = g
      PROVE  Hands' /\ NoTriggerLost'
  BY <1>3 DEF Hands, NoTriggerLost, Holds, At
<1>4. CASE SyncRunFromTask(p) \/ EndRun(p) \/ DeleteIssueRow(p) \/ CancelTasksOfAgent(p)
  BY <1>2, <1>4, IdleHands
  DEF SyncRunFromTask, EndRun, DeleteIssueRow, CancelTasksOfAgent, Return, At
<1>5. CASE GetIssue(p) \/ GetRun(p)
  <2>1. g[p].pc \in {"getIssue", "getRun"}
    BY <1>5 DEF GetIssue, GetRun, At
  <2>2. \/ Return(p)
        \/ Goto(p, [g[p] EXCEPT !.pc = "getRun", !.seen = issue[g[p].k]])
        \/ Goto(p, [g[p] EXCEPT !.pc = "endRun"])
    BY <1>5 DEF GetIssue, GetRun, GoAt
  <2>3. /\ HandsOK([g[p] EXCEPT !.pc = "getRun", !.seen = issue[g[p].k]])
        /\ HandsOK([g[p] EXCEPT !.pc = "endRun"])
    BY <1>1, <2>1 DEF HandsOK, Goroutine, Dispatch
  <2>4. UNCHANGED <<trigger, autopilot>>
    BY <1>5 DEF GetIssue, GetRun
  <2> QED
    BY <1>2, <2>1, <2>2, <2>3, <2>4, IdleHands DEF Return
<1>6. CASE \E k \in RunId, s \in TaskEnds : EndTask(p, k, s)
  BY <1>2, <1>6, IdleHands DEF EndTask, At
<1>7. ASSUME NEW a \in Autopilots, TriggerAutopilot(p, a)
      PROVE  Hands' /\ NoTriggerLost'
  <2>1. HandsOK([Idle EXCEPT !.pc = "create", !.owner = a, !.mode = autopilot[a].mode])
    BY DEF HandsOK, Idle
  <2> QED
    BY <1>2, <1>7, <2>1 DEF TriggerAutopilot, Request, At
<1>8. ASSUME NEW k \in RunId, NEW s \in IssueStatus, SetIssueStatus(p, k, s)
      PROVE  Hands' /\ NoTriggerLost'
  BY <1>2, <1>3, <1>8, SameLost, IdleHands DEF SetIssueStatus, Request, At
<1>9. ASSUME NEW k \in RunId, DeleteIssue(p, k)
      PROVE  Hands' /\ NoTriggerLost'
  BY <1>2, <1>9, IdleHands DEF DeleteIssue, Request, At
<1>10. ASSUME NEW a \in Autopilots, NEW s \in Statuses, NEW m \in Modes,
              UpdateAutopilot(p, a, s, m)
       PROVE  Hands' /\ NoTriggerLost'
  <2>1. Lost' \subseteq Lost
    BY <1>10, AutopilotAssumption DEF UpdateAutopilot, Lost, Enabled
  <2> QED
    BY <1>3, <1>10, <2>1 DEF UpdateAutopilot
<1>11. ASSUME NEW t \in Triggers, NEW e \in BOOLEAN, UpdateAutopilotTrigger(p, t, e)
       PROVE  Hands' /\ NoTriggerLost'
  <2>1. Lost' \subseteq Lost
    BY <1>11, AutopilotAssumption DEF UpdateAutopilotTrigger, Lost, Enabled, TypeOK
  <2> QED
    BY <1>3, <1>11, <2>1 DEF UpdateAutopilotTrigger
<1>12. ASSUME NEW x \in Agents, ArchiveAgent(p, x)
       PROVE  Hands' /\ NoTriggerLost'
  BY <1>2, <1>12, IdleHands DEF ArchiveAgent, Request, At
<1> QED
  BY <1>4, <1>5, <1>6, <1>7, <1>8, <1>9, <1>10, <1>11, <1>12 DEF UserRequest

LEMMA CrashHolds ==
    ASSUME TypeOK, Hands, NoTriggerLost, NEW P \in SUBSET Procs, Crash(P)
    PROVE  Hands' /\ NoTriggerLost'
PROOF
<1>1. \A p \in Procs : g'[p] \in {g[p], Idle, Down}
  BY DEF Crash
<1>2. \A p \in Schedulers : g'[p] = g[p] \/ g'[p] = Down
  BY DEF Crash, Procs
<1>3. Hands'
  BY <1>1, IdleHands DEF Hands
<1>4. Lost' = Lost
  BY SameLost DEF Crash
<1>5. Down.pc = "down"
  BY DEF Down, Idle
<1>6. NoTriggerLost'
  BY <1>2, <1>4, <1>5 DEF NoTriggerLost, Holds, At
<1> QED
  BY <1>3, <1>6

LEMMA HoldInvStep ==
    ASSUME FireInv, HoldInv, Statuses \subseteq {"active"}, [Next]_vars
    PROVE  HoldInv'
PROOF
<1>1. TypeOK /\ Hands /\ NoTriggerLost /\ \A a \in Autopilots : autopilot[a].status = "active"
  BY DEF FireInv, HoldInv, Hands
<1>2. Hands' /\ NoTriggerLost'
  <2>1. ASSUME UNCHANGED <<trigger, autopilot, g>>
        PROVE  Hands' /\ NoTriggerLost'
    BY <1>1, <2>1, SameLost DEF Hands, NoTriggerLost, Holds, At
  <2>2. ASSUME NEW p \in Procs, Continue(p)
        PROVE  Hands' /\ NoTriggerLost'
    BY <1>1, <2>2, SchedulerHolds, DispatchHolds, RequestHolds DEF Continue
  <2>3. ASSUME NEW p \in Schedulers, StartScheduler(p) \/ ClaimDue(p)
        PROVE  Hands' /\ NoTriggerLost'
    BY <1>1, <2>3, SchedulerHolds DEF Procs
  <2>4. ASSUME NEW p \in Procs, NEW k \in RunId, NEW s \in TaskEnds, EndTask(p, k, s)
        PROVE  Hands' /\ NoTriggerLost'
    BY <1>1, <2>4, RequestHolds
  <2>5. ASSUME NEW p \in Procs, UserRequest(p)
        PROVE  Hands' /\ NoTriggerLost'
    BY <1>1, <2>5, RequestHolds
  <2> QED
    BY <1>1, <2>1, <2>2, <2>3, <2>4, <2>5, CrashHolds DEF Next, Tick, Quiet, vars
<1>3. CASE \E p \in Procs, a \in Autopilots, s \in Statuses, m \in Modes :
             UpdateAutopilot(p, a, s, m)
  <2>1. PICK p \in Procs, a \in Autopilots, s \in Statuses, m \in Modes :
          UpdateAutopilot(p, a, s, m)
    BY <1>3
  <2>2. \A b \in Autopilots : autopilot'[b].status = "active"
    BY <1>1, <2>1 DEF UpdateAutopilot, TypeOK
  <2> QED
    BY <1>2, <2>2 DEF HoldInv, Hands
<1>4. CASE autopilot' = autopilot
  BY <1>1, <1>2, <1>4 DEF HoldInv, Hands
<1>5. (\E p \in Procs, a \in Autopilots, s \in Statuses, m \in Modes :
          UpdateAutopilot(p, a, s, m)) \/ autopilot' = autopilot
  <2>1. ASSUME NEW p \in Procs, Continue(p)
        PROVE  autopilot' = autopilot
    BY <2>1
    DEF Continue, RecoverTrigger, NextTrigger, LoopDone, CreateRun, CreateIssue, LinkIssue,
        LoadAgent, CreateAutopilotTask, LinkTask, FailRun, EnqueueTaskForIssue, Advance,
        GetIssue, GetRun, EndRun, SyncRunFromTask, DeleteIssueRow, CancelTasksOfAgent
  <2>2. ASSUME NEW p \in Procs, UserRequest(p)
        PROVE  \/ autopilot' = autopilot
               \/ \E a \in Autopilots, s \in Statuses, m \in Modes : UpdateAutopilot(p, a, s, m)
    BY <2>2
    DEF UserRequest, TriggerAutopilot, SetIssueStatus, DeleteIssue, UpdateAutopilotTrigger,
        ArchiveAgent
  <2> QED
    BY <2>1, <2>2 DEF Next, Tick, StartScheduler, ClaimDue, EndTask, Crash, Quiet, vars
<1> QED
  BY <1>3, <1>4, <1>5

-----------------------------------------------------------------------------
(* What runs have come to *)

\* A goroutine with such a record neither dispatches nor listens.
Away(s) == s.pc \notin Dispatch \cup SeenIssue

LEMMA KeepsResults ==
    ASSUME TypeOK, LocalsOK, ResultInv, NEW p \in Procs, NEW s, Goto(p, s),
           \A k \in RunId : /\ task[k] = "completed" => task'[k] = "completed"
                            /\ issue[k] # "none" => issue'[k] # "none",
           \A k \in RunId : run'[k].status = "completed" =>
               run[k].status = "completed" \/ task'[k] = "completed" \/ issue'[k] # "none",
           \A q \in Procs \ {p} : g[q].pc \in {"agent", "task"} => task'[g[q].k] = "none",
           s.pc \in {"agent", "task"} => task'[s.k] = "none",
           s.pc \in SeenIssue => issue'[s.k] # "none",
           s.pc \in Dispatch =>
               \A q \in Procs \ {p} : g[q].pc \in Dispatch => g[q].k # s.k
    PROVE  ResultInv'
PROOF
<1>1. g'[p] = s /\ \A q \in Procs \ {p} : g'[q] = g[q]
  BY DEF Goto, TypeOK
<1>2. \A q, r \in Procs :
        g'[q].pc \in Dispatch /\ g'[r].pc \in Dispatch /\ g'[q].k = g'[r].k => q = r
  BY <1>1 DEF ResultInv
<1>3. ASSUME NEW q \in Procs \ {p}, g[q].pc \in SeenIssue
      PROVE  issue'[g[q].k] # "none"
  <2>1. g[q].k \in RunId
    BY <1>3, AutopilotAssumption DEF LocalsOK, UsesRun, SeenIssue, TypeOK, RunId
  <2> QED
    BY <1>3, <2>1 DEF ResultInv
<1>4. \A q \in Procs : /\ g'[q].pc \in {"agent", "task"} => task'[g'[q].k] = "none"
                       /\ g'[q].pc \in SeenIssue => issue'[g'[q].k] # "none"
  BY <1>1, <1>3
<1>5. CompletedRunsDidComplete'
  BY DEF ResultInv, CompletedRunsDidComplete
<1> QED
  BY <1>2, <1>4, <1>5 DEF ResultInv

\* A goroutine goes away, or goes on with the run and the issue that it has.
LEMMA GoesOnWithResults ==
    ASSUME TypeOK, LocalsOK, ResultInv, NEW p \in Procs, NEW s, Goto(p, s),
           UNCHANGED <<task, issue>>,
           \A k \in RunId : run'[k].status = "completed" =>
               run[k].status = "completed" \/ task[k] = "completed" \/ issue[k] # "none",
           \/ Away(s)
           \/ /\ g[p].pc \in Dispatch /\ s.k = g[p].k /\ s.pc \in Dispatch
              /\ s.pc \in {"agent", "task"} => g[p].pc \in {"agent", "task"}
           \/ issue[s.k] # "none" /\ s.pc \in SeenIssue
    PROVE  ResultInv'
PROOF
<1>1. {"agent", "task"} \subseteq Dispatch /\ Dispatch \cap SeenIssue = {}
  BY DEF Dispatch, SeenIssue
<1> QED
  BY <1>1, KeepsResults DEF Away, ResultInv

LEMMA AwayRecords ==
    /\ Away(Idle) /\ Away(Down)
    /\ Away([Idle EXCEPT !.pc = "recover", !.lost = Lost])
    /\ \A S : Away([Idle EXCEPT !.pc = "tick", !.todo = S])
    /\ \A k : Away([Idle EXCEPT !.pc = "syncTask", !.k = k])
    /\ \A x : Away([Idle EXCEPT !.pc = "cancelAgent", !.agent = x])
    /\ \A a, m : Away([Idle EXCEPT !.pc = "create", !.owner = a, !.mode = m])
    /\ \A k : /\ [Idle EXCEPT !.pc = "getIssue", !.k = k].pc \in SeenIssue
              /\ [Idle EXCEPT !.pc = "delete", !.k = k].pc \in SeenIssue
              /\ [Idle EXCEPT !.pc = "getIssue", !.k = k].k = k
              /\ [Idle EXCEPT !.pc = "delete", !.k = k].k = k
BY DEF Away, Idle, Down, Dispatch, SeenIssue

LEMMA SchedulerResults ==
    ASSUME TypeOK, LocalsOK, ResultInv, NEW p \in Procs,
           \/ StartScheduler(p) \/ ClaimDue(p)
           \/ RecoverTrigger(p) \/ NextTrigger(p) \/ Advance(p) \/ LoopDone(p)
    PROVE  ResultInv'
PROOF
<1> USE AwayRecords
<1>1. g[p] \in Goroutine
  BY DEF TypeOK
<1>2. UNCHANGED <<task, issue, run>>
  BY DEF StartScheduler, ClaimDue, RecoverTrigger, NextTrigger, Advance, LoopDone, runVars
<1>3. \E s : Goto(p, s) /\ Away(s)
  <2>1. CASE StartScheduler(p) \/ ClaimDue(p) \/ Advance(p) \/ LoopDone(p)
    BY <2>1 DEF StartScheduler, ClaimDue, Advance, LoopDone, Return
  <2>2. CASE RecoverTrigger(p)
    <3>1. PICK t : Goto(p, [g[p] EXCEPT !.lost = @ \ {t}])
      BY <2>2 DEF RecoverTrigger
    <3>2. Away([g[p] EXCEPT !.lost = @ \ {t}])
      BY <1>1, <2>2 DEF RecoverTrigger, At, Goroutine, Away, Dispatch, SeenIssue
    <3> QED
      BY <3>1, <3>2
  <2>3. CASE NextTrigger(p)
    <3>1. PICK c, a : Goto(p, [g[p] EXCEPT !.pc = "create", !.fire = c, !.owner = a,
                                           !.mode = autopilot[a].mode])
      BY <2>3 DEF NextTrigger
    <3>2. Away([g[p] EXCEPT !.pc = "create", !.fire = c, !.owner = a,
                            !.mode = autopilot[a].mode])
      BY <1>1 DEF Goroutine, Away, Dispatch, SeenIssue
    <3> QED
      BY <3>1, <3>2
  <2> QED
    BY <2>1, <2>2, <2>3
<1> QED
  BY <1>2, <1>3, GoesOnWithResults

LEMMA DispatchResults ==
    ASSUME TypeOK, LocalsOK, KnownRuns, ResultInv, NEW p \in Procs,
           \/ CreateRun(p) \/ CreateIssue(p) \/ LinkIssue(p) \/ EnqueueTaskForIssue(p)
           \/ LoadAgent(p) \/ CreateAutopilotTask(p) \/ LinkTask(p) \/ FailRun(p)
    PROVE  ResultInv'
PROOF
<1> DEFINE k == g[p].k
<1>1. g[p] \in Goroutine /\ created \in Nat
  BY DEF TypeOK
<1>2. ASSUME NEW q \in Procs, g[q].pc \in Dispatch
      PROVE  g[q].k \in 1..created /\ g[q].k \in RunId
  BY <1>2, AutopilotAssumption DEF LocalsOK, UsesRun, Dispatch, TypeOK, RunId
<1>3. \A pc : /\ [g[p] EXCEPT !.pc = pc].pc = pc
              /\ [g[p] EXCEPT !.pc = pc].k = k
  BY <1>1 DEF Goroutine
<1>4. CASE CreateRun(p)
  <2> DEFINE n == created + 1
  <2>1. PICK pc \in {"agent", "issue"} :
          Goto(p, [g[p] EXCEPT !.pc = pc, !.k = n, !.todo = @ \ {g[p].fire}])
    BY <1>4 DEF CreateRun
  <2> DEFINE s == [g[p] EXCEPT !.pc = pc, !.k = n, !.todo = @ \ {g[p].fire}]
  <2>2. s.pc = pc /\ s.k = n
    BY <1>1 DEF Goroutine
  <2>3. n \in RunId /\ task[n] = "none"
    <3>1. n \in RunId
      BY <1>1, <1>4, AutopilotAssumption DEF CreateRun, RunId
    <3>2. ~(n <= created)
      BY <1>1
    <3> QED
      BY <3>1, <3>2 DEF KnownRuns
  <2>4. \A j \in RunId : run'[j].status = "completed" => run[j].status = "completed"
    BY <1>4 DEF CreateRun, TypeOK
  <2>5. \A q \in Procs : g[q].pc \in Dispatch => g[q].k # n
    BY <1>1, <1>2
  <2>6. pc \notin SeenIssue /\ {"agent", "task"} \subseteq Dispatch
    BY DEF SeenIssue, Dispatch
  <2>7. UNCHANGED <<task, issue>>
    BY <1>4 DEF CreateRun
  <2> HIDE DEF s, n
  <2>8. Goto(p, s)
    BY <2>1 DEF s
  <2> QED
    BY <2>2, <2>3, <2>4, <2>5, <2>6, <2>7, <2>8, KeepsResults DEF ResultInv
<1>5. CASE CreateIssue(p)
  <2>1. g[p].pc \in Dispatch /\ k \in RunId
    BY <1>2, <1>5 DEF CreateIssue, At, Dispatch
  <2>2. /\ \A j \in RunId : issue[j] # "none" => issue'[j] # "none"
        /\ task' = task /\ run' = run
    BY <1>5 DEF CreateIssue, TypeOK, runVars
  <2>3. Goto(p, [g[p] EXCEPT !.pc = "link"])
    BY <1>5 DEF CreateIssue, GoAt
  <2>4. "link" \in Dispatch \ SeenIssue /\ {"agent", "task"} \subseteq Dispatch
    BY DEF Dispatch, SeenIssue
  <2> QED
    BY <1>3, <2>1, <2>2, <2>3, <2>4, KeepsResults DEF ResultInv
<1>6. CASE CreateAutopilotTask(p)
  <2>1. g[p].pc = "task" /\ g[p].pc \in Dispatch /\ k \in RunId /\ task[k] = "none"
    BY <1>2, <1>6 DEF CreateAutopilotTask, At, Dispatch, ResultInv
  <2>2. /\ \A j \in RunId \ {k} : task'[j] = task[j]
        /\ issue' = issue /\ run' = run
    BY <1>6 DEF CreateAutopilotTask, TypeOK, runVars
  <2>3. Goto(p, [g[p] EXCEPT !.pc = "running"])
    BY <1>6 DEF CreateAutopilotTask, GoAt
  <2>4. "running" \in Dispatch \ SeenIssue /\ {"agent", "task"} \subseteq Dispatch
    BY DEF Dispatch, SeenIssue
  <2>5. ASSUME NEW q \in Procs \ {p}, g[q].pc \in {"agent", "task"}
        PROVE  task'[g[q].k] = "none"
    <3>1. g[q].k # k /\ g[q].k \in RunId /\ task[g[q].k] = "none"
      BY <1>2, <2>1, <2>4, <2>5 DEF ResultInv
    <3> QED
      BY <2>2, <3>1
  <2>6. \A q \in Procs \ {p} : g[q].pc \in Dispatch => g[q].k # k
    BY <2>1 DEF ResultInv
  <2>7. \A j \in RunId : task[j] = "completed" => task'[j] = "completed"
    BY <2>1, <2>2
  <2> DEFINE s == [g[p] EXCEPT !.pc = "running"]
  <2>8. s.pc = "running" /\ s.k = k
    BY <1>3
  <2> HIDE DEF s
  <2>9. Goto(p, s)
    BY <2>3 DEF s
  <2>10. s.pc \notin {"agent", "task"} /\ s.pc \notin SeenIssue
    BY <2>4, <2>8
  <2>11. \A j \in RunId : run'[j].status = "completed" =>
            run[j].status = "completed" \/ task'[j] = "completed" \/ issue'[j] # "none"
    BY <2>2
  <2> QED
    BY <2>2, <2>5, <2>6, <2>7, <2>8, <2>9, <2>10, <2>11, KeepsResults
<1>7. CASE LinkIssue(p) \/ EnqueueTaskForIssue(p) \/ LoadAgent(p)
  <2>1. g[p].pc \in Dispatch
    BY <1>7 DEF LinkIssue, EnqueueTaskForIssue, LoadAgent, At, Dispatch
  <2>2. PICK pc : /\ Goto(p, [g[p] EXCEPT !.pc = pc])
                  /\ \/ pc \in {"fail", "enqueue", "advance"}
                     \/ pc = "task" /\ g[p].pc = "agent"
    BY <1>7 DEF LinkIssue, EnqueueTaskForIssue, LoadAgent, At, GoAt
  <2>3. UNCHANGED <<task, issue>>
    BY <1>7 DEF LinkIssue, EnqueueTaskForIssue, LoadAgent
  <2>4. \A j \in RunId : run'[j].status = "completed" => run[j].status = "completed"
    BY <1>7 DEF LinkIssue, EnqueueTaskForIssue, LoadAgent, runVars, TypeOK, RunRow
  <2> DEFINE s == [g[p] EXCEPT !.pc = pc]
  <2>5. \/ Away(s)
        \/ /\ g[p].pc \in Dispatch /\ s.k = g[p].k /\ s.pc \in Dispatch
           /\ s.pc \in {"agent", "task"} => g[p].pc \in {"agent", "task"}
    BY <1>3, <2>1, <2>2 DEF Away, Dispatch, SeenIssue
  <2> QED
    BY <2>2, <2>3, <2>4, <2>5, GoesOnWithResults
<1>8. CASE LinkTask(p) \/ FailRun(p)
  <2>1. Goto(p, [g[p] EXCEPT !.pc = "advance"]) /\ UNCHANGED <<task, issue>>
    BY <1>8 DEF LinkTask, FailRun, GoAt
  <2>2. \A j \in RunId : run'[j].status = "completed" => run[j].status = "completed"
    BY <1>8 DEF LinkTask, FailRun, SetRun, TypeOK, RunRow
  <2>3. Away([g[p] EXCEPT !.pc = "advance"])
    BY <1>3 DEF Away, Dispatch, SeenIssue
  <2> QED
    BY <2>1, <2>2, <2>3, GoesOnWithResults
<1> QED
  BY <1>4, <1>5, <1>6, <1>7, <1>8

LEMMA UsedRuns ==
    ASSUME TypeOK, LocalsOK
    PROVE  \A q \in Procs : g[q].pc \in UsesRun => g[q].k \in RunId
BY AutopilotAssumption DEF LocalsOK, TypeOK, RunId

LEMMA NewStatus ==
    ASSUME TypeOK, NEW k \in RunId, NEW s, SetRun(k, s)
    PROVE  \A j \in RunId : run'[j].status = IF j = k THEN s ELSE run[j].status
PROOF
<1>1. run[k] \in RunRow
  BY DEF TypeOK
<1>2. [run[k] EXCEPT !.status = s].status = s
  BY <1>1 DEF RunRow
<1> QED
  BY <1>2 DEF SetRun, TypeOK

LEMMA RunsInUse == SeenIssue \cup {"agent", "task", "syncTask"} \subseteq UsesRun
BY DEF SeenIssue, UsesRun

\* A goroutine returns: only issues and tasks matter.
LEMMA ReturnsWithResults ==
    ASSUME TypeOK, LocalsOK, ResultInv, NEW p \in Procs, Return(p),
           \A k \in RunId : /\ task[k] = "completed" => task'[k] = "completed"
                            /\ issue[k] # "none" => issue'[k] # "none"
                            /\ task[k] = "none" => task'[k] = "none",
           \A k \in RunId : run'[k].status = "completed" => run[k].status = "completed"
    PROVE  ResultInv'
PROOF
<1>1. /\ Idle.pc \notin {"agent", "task"} /\ Idle.pc \notin SeenIssue
      /\ Idle.pc \notin Dispatch
  BY DEF Idle, SeenIssue, Dispatch
<1>2. \A q \in Procs : g[q].pc \in {"agent", "task"} => task'[g[q].k] = "none"
  BY UsedRuns, RunsInUse DEF ResultInv
<1>3. Goto(p, Idle)
  BY DEF Return
<1> QED
  BY <1>1, <1>2, <1>3, KeepsResults

\* The listeners and the requests: a task that has ended stays as it is, and an
\* issue that there was is never no issue again.
LEMMA ListenerResults ==
    ASSUME TypeOK, LocalsOK, ResultInv, NEW p \in Procs,
           \/ SyncRunFromTask(p) \/ GetIssue(p) \/ GetRun(p) \/ EndRun(p)
           \/ DeleteIssueRow(p) \/ CancelTasksOfAgent(p)
           \/ \E k \in RunId, s \in TaskEnds : EndTask(p, k, s)
    PROVE  ResultInv'
PROOF
<1> DEFINE k == g[p].k
<1>1. g[p] \in Goroutine
  BY DEF TypeOK
<1>2. ASSUME g[p].pc \in UsesRun
      PROVE  k \in RunId
  BY <1>2, AutopilotAssumption DEF LocalsOK, TypeOK, RunId
<1>3. \A q \in Procs : g[q].pc \in {"agent", "task"} =>
                         task[g[q].k] = "none" /\ g[q].k \in RunId
  BY UsedRuns, RunsInUse DEF ResultInv
<1>5. CASE SyncRunFromTask(p)
  <2>1. Goto(p, Idle) /\ UNCHANGED <<task, issue>> /\ k \in RunId
    BY <1>2, <1>5 DEF SyncRunFromTask, Return, At, UsesRun
  <2>2. \A j \in RunId : run'[j].status = "completed" =>
           run[j].status = "completed" \/ task[j] = "completed"
    BY <1>5, <2>1, NewStatus DEF SyncRunFromTask
  <2> QED
    BY <2>1, <2>2, AwayRecords, GoesOnWithResults
<1>6. CASE EndRun(p)
  <2>1. Goto(p, Idle) /\ UNCHANGED <<task, issue>> /\ k \in RunId /\ issue[k] # "none"
    BY <1>2, <1>6 DEF EndRun, Return, At, UsesRun, ResultInv, SeenIssue
  <2>2. \A j \in RunId : run'[j].status = "completed" =>
           run[j].status = "completed" \/ issue[j] # "none"
    BY <1>6, <2>1, NewStatus DEF EndRun
  <2> QED
    BY <2>1, <2>2, AwayRecords, GoesOnWithResults
<1>7. CASE GetIssue(p) \/ GetRun(p)
  <2>1. UNCHANGED <<task, issue, run>> /\ k \in RunId /\ issue[k] # "none"
    BY <1>2, <1>7 DEF GetIssue, GetRun, At, UsesRun, ResultInv, SeenIssue, runVars
  <2>2. PICK s : /\ Goto(p, s)
                 /\ s \in {Idle, [g[p] EXCEPT !.pc = "getRun", !.seen = issue[k]],
                           [g[p] EXCEPT !.pc = "endRun"]}
    BY <1>7 DEF GetIssue, GetRun, Return, GoAt
  <2>3. Away(s) \/ (issue[s.k] # "none" /\ s.pc \in SeenIssue)
    <3>1. /\ [g[p] EXCEPT !.pc = "getRun", !.seen = issue[k]].pc = "getRun"
          /\ [g[p] EXCEPT !.pc = "getRun", !.seen = issue[k]].k = k
          /\ [g[p] EXCEPT !.pc = "endRun"].pc = "endRun"
          /\ [g[p] EXCEPT !.pc = "endRun"].k = k
      BY <1>1 DEF Goroutine
    <3>2. {"getRun", "endRun"} \subseteq SeenIssue /\ Away(Idle)
      BY AwayRecords DEF SeenIssue
    <3> QED
      BY <2>1, <2>2, <3>1, <3>2
  <2> QED
    BY <2>1, <2>2, <2>3, AwayRecords, GoesOnWithResults
<1>8. CASE DeleteIssueRow(p)
  <2>1. Return(p) /\ task' = task /\ k \in RunId
    BY <1>2, <1>8 DEF DeleteIssueRow, At, UsesRun
  <2>2. /\ \A j \in RunId : issue[j] # "none" => issue'[j] # "none"
        /\ \A j \in RunId : run'[j].status = run[j].status
    <3>1. run[k] \in RunRow
      BY <2>1 DEF TypeOK
    <3>2. [run[k] EXCEPT !.linked = FALSE].status = run[k].status
      BY <3>1 DEF RunRow
    <3>3. run' = [run EXCEPT ![k].linked = FALSE] /\ issue' = [issue EXCEPT ![k] = "deleted"]
      BY <1>8 DEF DeleteIssueRow
    <3> QED
      BY <2>1, <3>2, <3>3 DEF TypeOK
  <2> QED
    BY <2>1, <2>2, ReturnsWithResults
<1>9. CASE CancelTasksOfAgent(p)
  <2>1. Return(p) /\ issue' = issue /\ run' = run
    BY <1>9 DEF CancelTasksOfAgent, runVars
  <2>2. \A j \in RunId : /\ task[j] = "completed" => task'[j] = "completed"
                         /\ issue[j] # "none" => issue'[j] # "none"
                         /\ task[j] = "none" => task'[j] = "none"
    BY <1>9, <2>1 DEF CancelTasksOfAgent
  <2>3. \A j \in RunId : run'[j].status = "completed" => run[j].status = "completed"
    BY <2>1
  <2> QED
    BY <2>1, <2>2, <2>3, ReturnsWithResults
<1>10. ASSUME NEW n \in RunId, NEW x \in TaskEnds, EndTask(p, n, x)
       PROVE  ResultInv'
  <2>1. /\ Goto(p, [Idle EXCEPT !.pc = "syncTask", !.k = n])
        /\ issue' = issue /\ run' = run /\ task[n] = "live"
        /\ \A j \in RunId \ {n} : task'[j] = task[j]
    BY <1>10 DEF EndTask, runVars, TypeOK
  <2>2. \A j \in RunId : task[j] = "completed" => task'[j] = "completed"
    BY <2>1
  <2>3. \A q \in Procs : g[q].pc \in {"agent", "task"} => task'[g[q].k] = "none"
    BY <1>3, <2>1
  <2> DEFINE s == [Idle EXCEPT !.pc = "syncTask", !.k = n]
  <2>4. s.pc \notin {"agent", "task"} /\ s.pc \notin SeenIssue /\ s.pc \notin Dispatch
    BY DEF Away, Dispatch, SeenIssue, Idle
  <2>5. \A j \in RunId : run'[j].status = "completed" => run[j].status = "completed"
    BY <2>1
  <2> HIDE DEF s
  <2>6. Goto(p, s)
    BY <2>1 DEF s
  <2> QED
    BY <2>1, <2>2, <2>3, <2>4, <2>5, <2>6, KeepsResults
<1> QED
  BY <1>5, <1>6, <1>7, <1>8, <1>9, <1>10

LEMMA RequestResults ==
    ASSUME TypeOK, LocalsOK, ResultInv, NEW p \in Procs, UserRequest(p)
    PROVE  ResultInv'
PROOF
<1>1. ASSUME UNCHANGED <<run, task, issue, g>>
      PROVE  ResultInv'
  BY <1>1 DEF ResultInv, CompletedRunsDidComplete
<1>2. ASSUME NEW a \in Autopilots, TriggerAutopilot(p, a)
      PROVE  ResultInv'
  <2>1. /\ Goto(p, [Idle EXCEPT !.pc = "create", !.owner = a, !.mode = autopilot[a].mode])
        /\ UNCHANGED <<run, task, issue>>
    BY <1>2 DEF TriggerAutopilot, runVars
  <2> QED
    BY <2>1, AwayRecords, GoesOnWithResults
<1>3. ASSUME NEW k \in RunId, NEW s \in IssueStatus, SetIssueStatus(p, k, s)
      PROVE  ResultInv'
  <2>1. /\ issue'[k] # "none" /\ task' = task /\ run' = run
        /\ \A j \in RunId \ {k} : issue'[j] = issue[j]
    BY <1>3 DEF SetIssueStatus, IssueStatus, TypeOK, runVars
  <2>2. CASE g' = g
    <3>1. \A q \in Procs : g[q].pc \in SeenIssue => g[q].k \in RunId
      BY UsedRuns, RunsInUse
    <3> QED
      BY <2>1, <2>2, <3>1 DEF ResultInv, CompletedRunsDidComplete
  <2>3. CASE Goto(p, [Idle EXCEPT !.pc = "getIssue", !.k = k])
    <3> DEFINE r == [Idle EXCEPT !.pc = "getIssue", !.k = k]
    <3>1. /\ r.pc \notin {"agent", "task"} /\ r.pc \notin Dispatch
          /\ issue'[r.k] # "none"
      BY <2>1 DEF Dispatch, Idle
    <3>2. /\ \A j \in RunId : issue[j] # "none" => issue'[j] # "none"
          /\ \A q \in Procs : g[q].pc \in {"agent", "task"} => task'[g[q].k] = "none"
      BY <2>1 DEF ResultInv
    <3> HIDE DEF r
    <3>3. Goto(p, r)
      BY <2>3 DEF r
    <3> QED
      BY <2>1, <3>1, <3>2, <3>3, KeepsResults
  <2> QED
    BY <1>3, <2>2, <2>3 DEF SetIssueStatus
<1>4. ASSUME NEW k \in RunId, DeleteIssue(p, k)
      PROVE  ResultInv'
  <2>1. /\ Goto(p, [Idle EXCEPT !.pc = "delete", !.k = k])
        /\ UNCHANGED <<task, issue>> /\ issue[k] # "none"
    BY <1>4 DEF DeleteIssue, IssueStatus
  <2>2. \A j \in RunId : run'[j].status = "completed" => run[j].status = "completed"
    <3>1. CASE SetRun(k, "failed")
      BY <3>1, NewStatus
    <3>2. CASE UNCHANGED runVars
      BY <3>2 DEF runVars
    <3> QED
      BY <1>4, <3>1, <3>2 DEF DeleteIssue
  <2> QED
    BY <2>1, <2>2, AwayRecords, GoesOnWithResults
<1>5. ASSUME NEW x \in Agents, ArchiveAgent(p, x)
      PROVE  ResultInv'
  <2>1. /\ Goto(p, [Idle EXCEPT !.pc = "cancelAgent", !.agent = x])
        /\ UNCHANGED <<run, task, issue>>
    BY <1>5 DEF ArchiveAgent, runVars
  <2> QED
    BY <2>1, AwayRecords, GoesOnWithResults
<1> QED
  BY <1>1, <1>2, <1>3, <1>4, <1>5
  DEF UserRequest, UpdateAutopilot, UpdateAutopilotTrigger, runVars

LEMMA ResultInvStep ==
    ASSUME FireInv, ResultInv, [Next]_vars
    PROVE  ResultInv'
PROOF
<1>1. TypeOK /\ LocalsOK /\ KnownRuns
  BY DEF FireInv
<1>2. ASSUME UNCHANGED <<run, task, issue, g>>
      PROVE  ResultInv'
  BY <1>2 DEF ResultInv, CompletedRunsDidComplete
<1>3. ASSUME NEW p \in Procs, Continue(p)
      PROVE  ResultInv'
  BY <1>1, <1>3, SchedulerResults, DispatchResults, ListenerResults DEF Continue
<1>4. ASSUME NEW p \in Schedulers, StartScheduler(p) \/ ClaimDue(p)
      PROVE  ResultInv'
  BY <1>1, <1>4, SchedulerResults DEF Procs
<1>5. ASSUME NEW P \in SUBSET Procs, Crash(P)
      PROVE  ResultInv'
  <2>1. UNCHANGED <<run, task, issue>>
    BY <1>5 DEF Crash, runVars
  <2>2. \A p \in Procs : g'[p] = g[p] \/ Away(g'[p])
    BY <1>5, AwayRecords DEF Crash
  <2>3. {"agent", "task"} \subseteq Dispatch
    BY DEF Dispatch
  <2> QED
    BY <2>1, <2>2, <2>3 DEF ResultInv, CompletedRunsDidComplete, Away
<1> QED
  BY <1>1, <1>2, <1>3, <1>4, <1>5, ListenerResults, RequestResults
  DEF Next, Tick, Quiet, vars, runVars

-----------------------------------------------------------------------------

LEMMA InitHolds ==
    ASSUME Init
    PROVE  HoldInv /\ ResultInv
PROOF
<1>1. \A p \in Procs : g[p] \in {Idle, Down}
  BY DEF Init
<1>2. \A p \in Procs : HandsOK(g[p])
  BY <1>1 DEF HandsOK, Idle, Down, Dispatch
<1>3. Lost = {}
  BY AutopilotAssumption DEF Init, Lost
<1>4. \A a \in Autopilots : autopilot[a].status = "active"
  BY DEF Init
<1>5. \A p \in Procs : g[p].pc \notin Dispatch \cup SeenIssue
  BY <1>1 DEF Idle, Down, Dispatch, SeenIssue
<1>6. CompletedRunsDidComplete
  BY DEF Init, CompletedRunsDidComplete, NoRun
<1>7. {"agent", "task"} \subseteq Dispatch
  BY DEF Dispatch
<1> QED
  BY <1>2, <1>3, <1>4, <1>5, <1>6, <1>7 DEF HoldInv, NoTriggerLost, ResultInv

\* NoTriggerLost for any number of servers that tick, crash and start again
\* (autopilot_scheduler.go), as long as users do not pause autopilots: the
\* claim of a paused one is lost with the server that holds it.
THEOREM NoTriggerIsLost ==
    ASSUME Statuses \subseteq {"active"}
    PROVE  Spec => []NoTriggerLost
PROOF
<1>1. Init => FireInv /\ HoldInv
  BY InvariantInit, InitHolds
<1>2. FireInv /\ HoldInv /\ [Next]_vars => (FireInv /\ HoldInv)'
  BY InvariantStep, HoldInvStep
<1>3. FireInv /\ HoldInv => NoTriggerLost
  BY DEF HoldInv
<1> QED
  BY <1>1, <1>2, <1>3, PTL DEF Spec

\* CompletedRunsDidComplete, whatever crashes, and however the dispatch of runs,
\* the ends of tasks and the listeners (autopilot_listeners.go) interleave.
THEOREM CompletedRunsCompleted == Spec => []CompletedRunsDidComplete
PROOF
<1>1. Init => FireInv /\ ResultInv
  BY InvariantInit, InitHolds
<1>2. FireInv /\ ResultInv /\ [Next]_vars => (FireInv /\ ResultInv)'
  BY InvariantStep, ResultInvStep
<1>3. FireInv /\ ResultInv => CompletedRunsDidComplete
  BY DEF ResultInv
<1> QED
  BY <1>1, <1>2, <1>3, PTL DEF Spec

-----------------------------------------------------------------------------
(* The ends of runs *)

\* Where a goroutine relies on what its run is like.
Relies == SeenIssue \cup {"syncTask", "agent", "task", "issue", "fail"}

LEMMA ReliesOnRuns ==
    ASSUME TypeOK, LocalsOK
    PROVE  \A q \in Procs : g[q].pc \in Relies => g[q].k \in RunId
BY UsedRuns DEF Relies, SeenIssue, UsesRun

LEMMA CarelessIsOK ==
    ASSUME NEW p \in Procs, g'[p].pc \notin Relies
    PROVE  EndOK(p)'
BY DEF EndOK, Relies, SeenIssue

\* Goroutine p changes at most run n.
LEMMA KeepsEnds ==
    ASSUME TypeOK, LocalsOK, EndInv, NEW p \in Procs, NEW n \in RunId, archived' = archived,
           \A q \in Procs \ {p} : g'[q] = g[q],
           \A j \in RunId \ {n} : /\ issue'[j] = issue[j] /\ task'[j] = task[j]
                                  /\ run'[j].status = run[j].status,
           OneEnd(n)', EndOK(p)',
           \A q \in Procs \ {p} : g[q].pc \in Relies /\ g[q].k = n => EndOK(q)'
    PROVE  EndInv'
PROOF
<1>1. \A k \in RunId : OneEnd(k)'
  <2> SUFFICES ASSUME NEW k \in RunId \ {n}
               PROVE  OneEnd(k)'
    OBVIOUS
  <2> QED
    BY DEF EndInv, OneEnd
<1>2. ASSUME NEW q \in Procs \ {p}
      PROVE  EndOK(q)'
  <2>1. g'[q] = g[q]
    OBVIOUS
  <2>2. CASE g[q].pc \notin Relies
    BY <2>1, <2>2, CarelessIsOK
  <2>3. CASE g[q].pc \in Relies /\ g[q].k # n
    <3>1. g[q].k \in RunId \ {n}
      BY <2>3, ReliesOnRuns
    <3> QED
      BY <2>1, <3>1 DEF EndInv, EndOK
  <2> QED
    BY <2>2, <2>3
<1> QED
  BY <1>1, <1>2 DEF EndInv

\* Nothing changes but the record of p.
LEMMA MovesOnWithEnds ==
    ASSUME TypeOK, LocalsOK, EndInv, NEW p \in Procs, UNCHANGED <<archived, issue, task>>,
           \A q \in Procs \ {p} : g'[q] = g[q],
           \A j \in RunId : run'[j].status = run[j].status,
           EndOK(p)'
    PROVE  EndInv'
PROOF
<1>1. \A k \in RunId : OneEnd(k)'
  BY DEF EndInv, OneEnd
<1>2. ASSUME NEW q \in Procs \ {p}
      PROVE  EndOK(q)'
  <2>1. g'[q] = g[q]
    OBVIOUS
  <2>2. CASE g[q].pc \notin Relies
    BY <2>1, <2>2, CarelessIsOK
  <2>3. CASE g[q].pc \in Relies
    <3>1. g[q].k \in RunId
      BY <2>3, ReliesOnRuns
    <3> QED
      BY <2>1, <3>1 DEF EndInv, EndOK
  <2> QED
    BY <2>2, <2>3
<1> QED
  BY <1>1, <1>2 DEF EndInv

LEMMA GoesTo ==
    ASSUME TypeOK, NEW p \in Procs, NEW s, Goto(p, s)
    PROVE  g'[p] = s /\ \A q \in Procs \ {p} : g'[q] = g[q]
BY DEF TypeOK, Goto

LEMMA GoesAt ==
    ASSUME TypeOK, NEW p \in Procs, NEW pc, GoAt(p, pc)
    PROVE  /\ g'[p].pc = pc /\ g'[p].k = g[p].k
           /\ \A q \in Procs \ {p} : g'[q] = g[q]
PROOF
<1>1. g[p] \in Goroutine
  BY DEF TypeOK
<1> QED
  BY <1>1, GoesTo DEF GoAt, Goroutine

LEMMA Returns ==
    ASSUME TypeOK, NEW p \in Procs, Return(p)
    PROVE  g'[p].pc = "idle" /\ \A q \in Procs \ {p} : g'[q] = g[q]
BY GoesTo DEF Return, Idle

LEMMA CarelessPlaces ==
    {"idle", "down", "recover", "tick", "create", "link", "enqueue", "running", "advance",
     "cancelAgent"} \cap Relies = {}
BY DEF Relies, SeenIssue

LEMMA SchedulerEnds ==
    ASSUME TypeOK, LocalsOK, EndInv, NEW p \in Procs,
           \/ StartScheduler(p) \/ ClaimDue(p)
           \/ RecoverTrigger(p) \/ NextTrigger(p) \/ Advance(p) \/ LoopDone(p)
    PROVE  EndInv'
PROOF
<1>1. g[p] \in Goroutine
  BY DEF TypeOK
<1>2. UNCHANGED <<archived, task, issue, run>>
  BY DEF StartScheduler, ClaimDue, RecoverTrigger, NextTrigger, Advance, LoopDone, runVars, env
<1>3. /\ g'[p].pc \in {"idle", "recover", "tick", "create"}
      /\ \A q \in Procs \ {p} : g'[q] = g[q]
  <2>1. PICK s : Goto(p, s) /\ s.pc \in {"idle", "recover", "tick", "create"}
    <3>1. CASE StartScheduler(p) \/ ClaimDue(p) \/ Advance(p) \/ LoopDone(p)
      <4>1. /\ Idle.pc = "idle"
            /\ [Idle EXCEPT !.pc = "recover", !.lost = Lost].pc = "recover"
            /\ \A S : [Idle EXCEPT !.pc = "tick", !.todo = S].pc = "tick"
        BY DEF Idle
      <4> QED
        BY <3>1, <4>1 DEF StartScheduler, ClaimDue, Advance, LoopDone, Return
    <3>2. CASE RecoverTrigger(p)
      <4>1. PICK t : Goto(p, [g[p] EXCEPT !.lost = @ \ {t}])
        BY <3>2 DEF RecoverTrigger
      <4>2. [g[p] EXCEPT !.lost = @ \ {t}].pc = "recover"
        BY <1>1, <3>2 DEF RecoverTrigger, At, Goroutine
      <4> QED
        BY <4>1, <4>2
    <3>3. CASE NextTrigger(p)
      <4>1. PICK c, a : Goto(p, [g[p] EXCEPT !.pc = "create", !.fire = c, !.owner = a,
                                             !.mode = autopilot[a].mode])
        BY <3>3 DEF NextTrigger
      <4>2. [g[p] EXCEPT !.pc = "create", !.fire = c, !.owner = a,
                         !.mode = autopilot[a].mode].pc = "create"
        BY <1>1 DEF Goroutine
      <4> QED
        BY <4>1, <4>2
    <3> QED
      BY <3>1, <3>2, <3>3
  <2> QED
    BY <2>1, GoesTo
<1>4. EndOK(p)'
  BY <1>3, CarelessIsOK, CarelessPlaces
<1> QED
  BY <1>2, <1>3, <1>4, MovesOnWithEnds


\* A dispatch ends a run only when nobody else can: its issue is gone.
LEMMA DispatchEnds ==
    ASSUME TypeOK, LocalsOK, KnownRuns, ResultInv, EndInv, NEW p \in Procs,
           \/ CreateRun(p) \/ CreateIssue(p) \/ LinkIssue(p) \/ EnqueueTaskForIssue(p)
           \/ LoadAgent(p) \/ CreateAutopilotTask(p) \/ LinkTask(p) \/ FailRun(p)
    PROVE  EndInv'
PROOF
<1>0. PICK k : k = g[p].k
  OBVIOUS
<1>1. g[p] \in Goroutine /\ created \in Nat
  BY DEF TypeOK
<1>2. EndOK(p) /\ (g[p].pc \in Dispatch => k \in RunId)
  BY <1>0, UsedRuns DEF EndInv, Dispatch, UsesRun
<1>3. /\ Dispatch \cap (SeenIssue \cup {"syncTask"}) = {}
      /\ {"agent", "task", "issue", "fail"} \subseteq Dispatch
  BY DEF Dispatch, SeenIssue
\* Nobody else dispatches this run.
<1>4. ASSUME NEW q \in Procs \ {p}, g[p].pc \in Dispatch, g[q].pc \in Relies, g[q].k = k
      PROVE  g[q].pc \in SeenIssue \cup {"syncTask"} /\ EndOK(q)
  BY <1>0, <1>3, <1>4 DEF ResultInv, EndInv, Relies
<1>5. CASE CreateRun(p)
  <2>0. PICK n : n = created + 1
    OBVIOUS
  <2>1. PICK pc \in {"agent", "issue"} :
          Goto(p, [g[p] EXCEPT !.pc = pc, !.k = n, !.todo = @ \ {g[p].fire}])
    BY <1>5, <2>0 DEF CreateRun
  <2> DEFINE s == [g[p] EXCEPT !.pc = pc, !.k = n, !.todo = @ \ {g[p].fire}]
  <2>2. s.pc = pc /\ s.k = n
    BY <1>1 DEF Goroutine
  <2>3. n \in RunId /\ task[n] = "none" /\ issue[n] = "none"
    <3>1. n \in RunId
      BY <1>1, <1>5, <2>0, AutopilotAssumption DEF CreateRun, RunId
    <3>2. ~(n <= created)
      BY <1>1, <2>0
    <3> QED
      BY <3>1, <3>2 DEF KnownRuns
  <2>4. UNCHANGED <<archived, issue, task>>
    BY <1>5 DEF CreateRun, env
  <2>5. run'[n].status \in Open /\ \A j \in RunId \ {n} : run'[j] = run[j]
    BY <1>5, <2>0, <2>3 DEF CreateRun, Open, TypeOK
  <2>6. g'[p].pc = pc /\ g'[p].k = n /\ \A q \in Procs \ {p} : g'[q] = g[q]
    <3> HIDE DEF s
    <3>1. Goto(p, s)
      BY <2>1 DEF s
    <3> QED
      BY <2>2, <3>1, GoesTo
  <2>7. \A q \in Procs : g[q].pc \in Relies => g[q].k # n
    <3>1. \A q \in Procs : g[q].pc \in Relies => g[q].k \in 1 .. created
      BY DEF LocalsOK, Relies, UsesRun, SeenIssue
    <3> QED
      BY <1>1, <2>0, <3>1
  <2>8. EndOK(p)'
    BY <2>3, <2>4, <2>5, <2>6 DEF EndOK, SeenIssue
  <2>9. OneEnd(n)'
    BY <2>3, <2>4 DEF OneEnd
  <2> QED
    BY <2>3, <2>4, <2>5, <2>6, <2>7, <2>8, <2>9, KeepsEnds
<1>6. CASE CreateIssue(p)
  <2>1. g[p].pc = "issue" /\ g[p].pc \in Dispatch /\ k \in RunId /\ task[k] = "none"
    BY <1>0, <1>2, <1>6 DEF CreateIssue, At, Dispatch, EndOK
  <2>2. /\ UNCHANGED <<archived, task, run>> /\ issue'[k] = "open"
        /\ \A j \in RunId \ {k} : issue'[j] = issue[j]
    BY <1>0, <1>6, <2>1 DEF CreateIssue, env, runVars, TypeOK
  <2>3. g'[p].pc = "link" /\ g'[p].k = k /\ \A q \in Procs \ {p} : g'[q] = g[q]
    BY <1>0, <1>6, GoesAt DEF CreateIssue
  <2>4. EndOK(p)'
    BY <2>3, CarelessIsOK, CarelessPlaces
  <2>5. OneEnd(k)'
    BY <2>1, <2>2 DEF OneEnd
  <2>6. ASSUME NEW q \in Procs \ {p}, g[q].pc \in Relies, g[q].k = k
        PROVE  EndOK(q)'
    <3>1. g[q].pc \in SeenIssue \cup {"syncTask"} /\ EndOK(q) /\ g'[q] = g[q]
      BY <1>4, <2>1, <2>3, <2>6
    <3>2. "open" \in IssueStatus
      BY DEF IssueStatus
    <3> QED
      BY <2>1, <2>2, <2>6, <3>1, <3>2 DEF EndOK, SeenIssue
  <2> QED
    BY <2>1, <2>2, <2>3, <2>4, <2>5, <2>6, KeepsEnds
<1>7. CASE LinkIssue(p) \/ LinkTask(p)
  <2>1. g[p].pc \in Dispatch /\ k \in RunId
    BY <1>0, <1>2, <1>7 DEF LinkIssue, LinkTask, At, Dispatch
  <2>2. UNCHANGED <<archived, task, issue>>
    BY <1>0, <1>7 DEF LinkIssue, LinkTask, env
  <2>3. /\ run'[k].status \in Open \cup {run[k].status}
        /\ \A j \in RunId \ {k} : run'[j].status = run[j].status
    <3>1. run[k] \in RunRow
      BY <2>1 DEF TypeOK
    <3>2. [run[k] EXCEPT !.status = "issue_created", !.linked = TRUE].status = "issue_created"
      BY <3>1 DEF RunRow
    <3>3. LinkIssue(p) => UNCHANGED run \/ run' = [run EXCEPT ![k] =
                             [run[k] EXCEPT !.status = "issue_created", !.linked = TRUE]]
      BY <1>0, <2>1 DEF LinkIssue, runVars, TypeOK
    <3>4. CASE LinkIssue(p)
      BY <2>1, <3>2, <3>3, <3>4 DEF Open, TypeOK
    <3>5. CASE LinkTask(p)
      BY <1>0, <2>1, <3>5, NewStatus DEF LinkTask, Open
    <3> QED
      BY <1>7, <3>4, <3>5
  <2>4. /\ \A q \in Procs \ {p} : g'[q] = g[q]
        /\ g'[p].k = k /\ g'[p].pc \in {"fail", "enqueue", "advance"}
        /\ g'[p].pc = "fail" => issue[k] = "deleted"
    BY <1>0, <1>7, GoesAt DEF LinkIssue, LinkTask
  <2>5. EndOK(p)'
    BY <2>2, <2>4 DEF EndOK, SeenIssue
  <2>6. OneEnd(k)'
    BY <2>1, <2>2, <2>3 DEF OneEnd, EndInv
  <2>7. ASSUME NEW q \in Procs \ {p}, g[q].pc \in Relies, g[q].k = k
        PROVE  EndOK(q)'
    <3>1. EndOK(q) /\ g'[q] = g[q]
      BY <1>4, <2>1, <2>4, <2>7
    <3> QED
      BY <2>2, <2>3, <2>7, <3>1 DEF EndOK
  <2> QED
    BY <2>1, <2>2, <2>3, <2>4, <2>5, <2>6, <2>7, KeepsEnds
<1>8. CASE EnqueueTaskForIssue(p) \/ LoadAgent(p)
  <2>1. UNCHANGED <<archived, task, issue, run>>
    BY <1>8 DEF EnqueueTaskForIssue, LoadAgent, env, runVars
  <2>2. archived = {}
    BY DEF EndInv
  <2>3. /\ g'[p].k = k /\ \A q \in Procs \ {p} : g'[q] = g[q]
        /\ \/ g'[p].pc = "advance"
           \/ g'[p].pc = "fail" /\ issue[k] = "deleted"
           \/ g'[p].pc = "task" /\ g[p].pc = "agent"
    <3>1. CASE EnqueueTaskForIssue(p)
      BY <1>0, <2>2, <3>1, GoesAt DEF EnqueueTaskForIssue
    <3>2. CASE LoadAgent(p)
      BY <1>0, <2>2, <3>2, GoesAt DEF LoadAgent, At
    <3> QED
      BY <1>8, <3>1, <3>2
  <2>4. EndOK(p)'
    BY <1>0, <1>2, <2>1, <2>3 DEF EndOK, SeenIssue
  <2> QED
    BY <2>1, <2>3, <2>4, MovesOnWithEnds
<1>9. CASE CreateAutopilotTask(p)
  <2>1. /\ g[p].pc = "task" /\ g[p].pc \in Dispatch /\ k \in RunId
        /\ task[k] = "none" /\ issue[k] = "none" /\ run[k].status \in Open
    BY <1>0, <1>2, <1>9 DEF CreateAutopilotTask, At, Dispatch, EndOK, ResultInv
  <2>2. /\ UNCHANGED <<archived, issue, run>>
        /\ \A j \in RunId \ {k} : task'[j] = task[j]
    BY <1>0, <1>9, <2>1 DEF CreateAutopilotTask, env, runVars, TypeOK
  <2>3. g'[p].pc = "running" /\ g'[p].k = k /\ \A q \in Procs \ {p} : g'[q] = g[q]
    BY <1>0, <1>9, GoesAt DEF CreateAutopilotTask
  <2>4. EndOK(p)'
    BY <2>3, CarelessIsOK, CarelessPlaces
  <2>5. OneEnd(k)'
    BY <2>1, <2>2 DEF OneEnd
  <2>6. ASSUME NEW q \in Procs \ {p}, g[q].pc \in Relies, g[q].k = k
        PROVE  FALSE
    <3>1. g[q].pc \in SeenIssue \cup {"syncTask"} /\ EndOK(q)
      BY <1>4, <2>1, <2>6
    <3>2. "none" \notin IssueStatus \cup TaskEnd
      BY DEF IssueStatus, TaskEnd
    <3> QED
      BY <2>1, <2>6, <3>1, <3>2 DEF EndOK
  <2> QED
    BY <2>1, <2>2, <2>3, <2>4, <2>5, <2>6, KeepsEnds
<1>10. CASE FailRun(p)
  <2>1. /\ g[p].pc = "fail" /\ g[p].pc \in Dispatch /\ k \in RunId
        /\ issue[k] = "deleted" /\ task[k] = "none"
    BY <1>0, <1>2, <1>10 DEF FailRun, At, Dispatch, EndOK, EndInv, OneEnd
  <2>2. /\ UNCHANGED <<archived, issue, task>>
        /\ \A j \in RunId \ {k} : run'[j].status = run[j].status
    BY <1>0, <1>10, <2>1, NewStatus DEF FailRun, env
  <2>3. g'[p].pc = "advance" /\ g'[p].k = k /\ \A q \in Procs \ {p} : g'[q] = g[q]
    BY <1>0, <1>10, GoesAt DEF FailRun
  <2>4. EndOK(p)'
    BY <2>3, CarelessIsOK, CarelessPlaces
  <2>5. OneEnd(k)'
    BY <2>1, <2>2 DEF OneEnd
  <2>6. ASSUME NEW q \in Procs \ {p}, g[q].pc \in Relies, g[q].k = k
        PROVE  FALSE
    <3>1. g[q].pc \in SeenIssue \cup {"syncTask"} /\ EndOK(q)
      BY <1>4, <2>1, <2>6
    <3>2. "none" \notin TaskEnd /\ "deleted" \notin IssueStatus
      BY DEF IssueStatus, TaskEnd
    <3> QED
      BY <2>1, <2>6, <3>1, <3>2 DEF EndOK
  <2> QED
    BY <2>1, <2>2, <2>3, <2>4, <2>5, <2>6, KeepsEnds
<1> QED
  BY <1>5, <1>6, <1>7, <1>8, <1>9, <1>10


\* One request at a time, and no agent is archived.
OneByOne == (\A p, q \in Handlers : p = q) /\ "archive" \notin Events

\* What listens is the only handler, and what it ends is open.
LEMMA ListenerEnds ==
    ASSUME OneByOne, TypeOK, LocalsOK, ResultInv, EndInv, NEW p \in Procs,
           \/ SyncRunFromTask(p) \/ GetIssue(p) \/ GetRun(p) \/ EndRun(p)
           \/ DeleteIssueRow(p) \/ CancelTasksOfAgent(p)
    PROVE  EndInv'
PROOF
<1>0. PICK k : k = g[p].k
  OBVIOUS
<1>1. g[p] \in Goroutine /\ EndOK(p)
  BY DEF TypeOK, EndInv
<1>2. g[p].pc \in UsesRun => k \in RunId
  BY <1>0, UsedRuns
<1>3. \A pc : pc = "idle" => pc \notin Relies
  BY CarelessPlaces
\* Others that rely on this run are about to make its task, or have lost its issue.
<1>4. ASSUME NEW q \in Procs \ {p}, p \in Handlers, g[q].pc \in Relies
      PROVE  /\ g[q].pc \in {"agent", "task", "issue", "fail"} /\ EndOK(q)
             /\ g[q].pc \in {"agent", "task"} => task[g[q].k] = "none"
  BY <1>4 DEF EndInv, EndOK, OneByOne, Relies, ResultInv
<1>5. CASE SyncRunFromTask(p)
  <2>1. /\ k \in RunId /\ p \in Handlers /\ task[k] \in TaskEnd
        /\ \A j \in RunId \ {k} : run'[j].status = run[j].status
        /\ UNCHANGED <<archived, task, issue>>
    BY <1>0, <1>1, <1>2, <1>5, NewStatus DEF SyncRunFromTask, At, UsesRun, EndOK, env
  <2>2. g'[p].pc = "idle" /\ \A q \in Procs \ {p} : g'[q] = g[q]
    BY <1>5, Returns DEF SyncRunFromTask
  <2>3. EndOK(p)'
    BY <1>3, <2>2, CarelessIsOK
  <2>4. OneEnd(k)'
    BY <2>1 DEF OneEnd, EndInv, TaskEnd
  <2>5. ASSUME NEW q \in Procs \ {p}, g[q].pc \in Relies, g[q].k = k
        PROVE  EndOK(q)'
    <3>1. /\ g[q].pc \in {"issue", "fail"} /\ EndOK(q) /\ g'[q] = g[q]
          /\ task[k] # "none"
      BY <1>4, <2>1, <2>2, <2>5 DEF TaskEnd
    <3> QED
      BY <2>1, <2>5, <3>1 DEF EndOK, SeenIssue
  <2> QED
    BY <2>1, <2>2, <2>3, <2>4, <2>5, KeepsEnds
<1>6. CASE EndRun(p)
  <2>1. /\ k \in RunId /\ p \in Handlers /\ issue[k] \in IssueStatus
        /\ \A j \in RunId \ {k} : run'[j].status = run[j].status
        /\ UNCHANGED <<archived, task, issue>>
    BY <1>0, <1>1, <1>2, <1>6, NewStatus DEF EndRun, At, UsesRun, EndOK, SeenIssue, env
  <2>2. g'[p].pc = "idle" /\ \A q \in Procs \ {p} : g'[q] = g[q]
    BY <1>6, Returns DEF EndRun
  <2>3. EndOK(p)'
    BY <1>3, <2>2, CarelessIsOK
  <2>4. task[k] = "none" /\ "none" \notin IssueStatus /\ "deleted" \notin IssueStatus
    BY <2>1 DEF OneEnd, EndInv, IssueStatus
  <2>5. OneEnd(k)'
    BY <2>1, <2>4 DEF OneEnd
  <2>6. ASSUME NEW q \in Procs \ {p}, g[q].pc \in Relies, g[q].k = k
        PROVE  EndOK(q)'
    <3>1. g[q].pc = "issue" /\ EndOK(q) /\ g'[q] = g[q]
      BY <1>4, <2>1, <2>2, <2>4, <2>6 DEF EndOK
    <3> QED
      BY <2>1, <2>6, <3>1 DEF EndOK, SeenIssue
  <2> QED
    BY <2>1, <2>2, <2>3, <2>5, <2>6, KeepsEnds
<1>7. CASE GetIssue(p) \/ GetRun(p)
  <2>1. /\ UNCHANGED <<archived, task, issue, run>> /\ k \in RunId
        /\ p \in Handlers /\ issue[k] \in IssueStatus
    BY <1>0, <1>1, <1>2, <1>7 DEF GetIssue, GetRun, At, UsesRun, EndOK, SeenIssue, env, runVars
  <2>2. /\ \A q \in Procs \ {p} : g'[q] = g[q]
        /\ \/ g'[p].pc = "idle"
           \/ g'[p].pc = "getRun" /\ g'[p].k = k
           \/ g'[p].pc = "endRun" /\ g'[p].k = k /\ run[k].status \in Open
    <3>1. CASE Return(p)
      BY <3>1, Returns
    <3>2. CASE GetRun(p) /\ GoAt(p, "endRun") /\ run[k].status \in Open
      BY <1>0, <3>2, GoesAt
    <3>3. CASE Goto(p, [g[p] EXCEPT !.pc = "getRun", !.seen = issue[k]])
      <4> DEFINE s == [g[p] EXCEPT !.pc = "getRun", !.seen = issue[k]]
      <4>1. s.pc = "getRun" /\ s.k = k
        BY <1>0, <1>1 DEF Goroutine
      <4> HIDE DEF s
      <4>2. Goto(p, s)
        BY <3>3 DEF s
      <4> QED
        BY <4>1, <4>2, GoesTo
    <3> QED
      BY <1>0, <1>7, <3>1, <3>2, <3>3 DEF GetIssue, GetRun
  <2>3. EndOK(p)'
    BY <2>1, <2>2 DEF EndOK, SeenIssue
  <2> QED
    BY <2>1, <2>2, <2>3, MovesOnWithEnds
<1>8. CASE DeleteIssueRow(p)
  <2>1. /\ k \in RunId /\ p \in Handlers /\ issue[k] \in IssueStatus
        /\ UNCHANGED <<archived, task>> /\ issue'[k] = "deleted"
        /\ \A j \in RunId \ {k} : issue'[j] = issue[j] /\ run'[j] = run[j]
    BY <1>0, <1>1, <1>2, <1>8 DEF DeleteIssueRow, At, UsesRun, EndOK, SeenIssue, env, TypeOK
  <2>2. g'[p].pc = "idle" /\ \A q \in Procs \ {p} : g'[q] = g[q]
    BY <1>8, Returns DEF DeleteIssueRow
  <2>3. EndOK(p)'
    BY <1>3, <2>2, CarelessIsOK
  <2>4. task[k] = "none" /\ "none" \notin IssueStatus
    BY <2>1 DEF OneEnd, EndInv, IssueStatus
  <2>5. OneEnd(k)'
    BY <2>1, <2>4 DEF OneEnd
  <2>6. ASSUME NEW q \in Procs \ {p}, g[q].pc \in Relies, g[q].k = k
        PROVE  EndOK(q)'
    <3>1. g[q].pc \in {"issue", "fail"} /\ EndOK(q) /\ g'[q] = g[q]
      BY <1>4, <2>1, <2>2, <2>4, <2>6 DEF EndOK
    <3> QED
      BY <2>1, <2>6, <3>1 DEF EndOK, SeenIssue
  <2> QED
    BY <2>1, <2>2, <2>3, <2>5, <2>6, KeepsEnds
<1>9. CASE CancelTasksOfAgent(p)
  <2>1. UNCHANGED <<archived, issue, run>>
    BY <1>9 DEF CancelTasksOfAgent, env, runVars
  <2>2. \A j \in RunId : task'[j] \in {task[j], "cancelled"} /\ (task'[j] # task[j] => task[j] = "live")
    BY <1>9 DEF CancelTasksOfAgent
  <2>3. g'[p].pc = "idle" /\ \A q \in Procs \ {p} : g'[q] = g[q]
    BY <1>9, Returns DEF CancelTasksOfAgent
  <2>4. \A j \in RunId : OneEnd(j)'
    BY <2>1, <2>2 DEF EndInv, OneEnd
  <2>5. ASSUME NEW q \in Procs
        PROVE  EndOK(q)'
    <3>1. CASE g'[q].pc \notin Relies
      BY <3>1, CarelessIsOK
    <3>2. CASE g'[q].pc \in Relies
      <4>1. g'[q] = g[q] /\ g[q].k \in RunId /\ EndOK(q)
        BY <1>3, <2>3, <3>2, ReliesOnRuns DEF EndInv
      <4> QED
        BY <2>1, <2>2, <4>1 DEF EndOK, TaskEnd
    <3> QED
      BY <3>1, <3>2
  <2> QED
    BY <2>1, <2>4, <2>5 DEF EndInv
<1> QED
  BY <1>5, <1>6, <1>7, <1>8, <1>9

LEMMA EndTaskEnds ==
    ASSUME OneByOne, TypeOK, LocalsOK, ResultInv, EndInv,
           NEW p \in Procs, NEW k \in RunId, NEW s \in TaskEnds, EndTask(p, k, s)
    PROVE  EndInv'
PROOF
<1>1. /\ g[p].pc = "idle" /\ p \in Handlers /\ task[k] = "live" /\ s \in TaskEnd
      /\ UNCHANGED <<archived, issue, run>> /\ task'[k] = s
      /\ \A j \in RunId \ {k} : task'[j] = task[j]
  BY AutopilotAssumption DEF EndTask, At, env, runVars, TypeOK, TaskEnd
<1>2. issue[k] = "none" /\ run[k].status \in Open
  BY <1>1 DEF EndInv, OneEnd
<1>3. /\ g'[p].pc = "syncTask" /\ g'[p].k = k
      /\ \A q \in Procs \ {p} : g'[q] = g[q]
  <2> DEFINE r == [Idle EXCEPT !.pc = "syncTask", !.k = k]
  <2>1. r.pc = "syncTask" /\ r.k = k
    BY DEF Idle
  <2> HIDE DEF r
  <2>2. Goto(p, r)
    BY DEF r, EndTask
  <2> QED
    BY <2>1, <2>2, GoesTo
<1>4. EndOK(p)'
  BY <1>1, <1>2, <1>3 DEF EndOK, SeenIssue
<1>5. OneEnd(k)'
  BY <1>1, <1>2 DEF OneEnd, TaskEnd
<1>6. ASSUME NEW q \in Procs \ {p}, g[q].pc \in Relies, g[q].k = k
      PROVE  EndOK(q)'
  <2>1. EndOK(q) /\ g'[q] = g[q] /\ g[q].pc \notin SeenIssue \cup {"syncTask"}
    BY <1>1, <1>3 DEF EndInv, EndOK, OneByOne
  <2>2. g[q].pc = "fail" \/ (g[q].pc \in {"issue", "agent", "task"} /\ task[k] = "none")
    BY <1>6, <2>1 DEF Relies, EndOK, ResultInv
  <2> QED
    BY <1>1, <1>6, <2>1, <2>2 DEF EndOK, SeenIssue
<1> QED
  BY <1>1, <1>3, <1>4, <1>5, <1>6, KeepsEnds

LEMMA RequestEnds ==
    ASSUME OneByOne, TypeOK, LocalsOK, ResultInv, EndInv, NEW p \in Procs, UserRequest(p)
    PROVE  EndInv'
PROOF
<1>1. g[p].pc = "idle" /\ p \in Handlers
  BY DEF UserRequest, TriggerAutopilot, SetIssueStatus, DeleteIssue, UpdateAutopilot,
         UpdateAutopilotTrigger, ArchiveAgent, Request, At
<1>2. ASSUME NEW q \in Procs \ {p}, g[q].pc \in Relies
      PROVE  EndOK(q) /\ g[q].pc \in {"agent", "task", "issue", "fail"}
  BY <1>1, <1>2 DEF EndInv, EndOK, OneByOne, Relies
<1>3. EndOK(p)
  BY DEF EndInv
<1>4. "none" \notin IssueStatus /\ "deleted" \notin IssueStatus
  BY DEF IssueStatus
<1>5. CASE \E a \in Autopilots : TriggerAutopilot(p, a)
  <2>1. PICK a : Goto(p, [Idle EXCEPT !.pc = "create", !.owner = a, !.mode = autopilot[a].mode])
    BY <1>5 DEF TriggerAutopilot
  <2>2. [Idle EXCEPT !.pc = "create", !.owner = a, !.mode = autopilot[a].mode].pc = "create"
    BY DEF Idle
  <2>3. g'[p].pc = "create" /\ \A q \in Procs \ {p} : g'[q] = g[q]
    BY <2>1, <2>2, GoesTo
  <2>4. UNCHANGED <<archived, issue, task, run>>
    BY <1>5 DEF TriggerAutopilot, runVars
  <2> QED
    BY <2>3, <2>4, CarelessIsOK, CarelessPlaces, MovesOnWithEnds
<1>6. ASSUME NEW k \in RunId, NEW s \in IssueStatus, SetIssueStatus(p, k, s)
      PROVE  EndInv'
  <2>1. /\ UNCHANGED <<archived, task, run>>
        /\ issue[k] \in IssueStatus /\ issue'[k] = s
        /\ \A j \in RunId \ {k} : issue'[j] = issue[j]
    BY <1>6 DEF SetIssueStatus, runVars, TypeOK
  <2>2. /\ \A q \in Procs \ {p} : g'[q] = g[q]
        /\ g'[p].pc = "idle" \/ (g'[p].pc = "getIssue" /\ g'[p].k = k)
    <3>1. CASE g' = g
      BY <1>1, <3>1
    <3>2. CASE Goto(p, [Idle EXCEPT !.pc = "getIssue", !.k = k])
      <4> DEFINE r == [Idle EXCEPT !.pc = "getIssue", !.k = k]
      <4>1. r.pc = "getIssue" /\ r.k = k
        BY DEF Idle
      <4> HIDE DEF r
      <4>2. Goto(p, r)
        BY <3>2 DEF r
      <4> QED
        BY <4>1, <4>2, GoesTo
    <3> QED
      BY <1>6, <3>1, <3>2 DEF SetIssueStatus
  <2>3. EndOK(p)'
    BY <1>1, <2>1, <2>2 DEF EndOK, SeenIssue
  <2>4. task[k] = "none"
    BY <1>4, <2>1 DEF EndInv, OneEnd
  <2>5. OneEnd(k)'
    BY <2>1, <2>4 DEF OneEnd
  <2>6. ASSUME NEW q \in Procs \ {p}, g[q].pc \in Relies, g[q].k = k
        PROVE  EndOK(q)'
    <3>1. g[q].pc = "issue" /\ g'[q] = g[q]
      BY <1>2, <1>4, <2>1, <2>2, <2>6 DEF EndOK
    <3> QED
      BY <2>1, <2>4, <2>6, <3>1 DEF EndOK, SeenIssue
  <2> QED
    BY <2>1, <2>2, <2>3, <2>5, <2>6, KeepsEnds
<1>7. ASSUME NEW k \in RunId, DeleteIssue(p, k)
      PROVE  EndInv'
  <2>1. UNCHANGED <<archived, task, issue>> /\ issue[k] \in IssueStatus
    BY <1>7 DEF DeleteIssue
  <2>2. \A j \in RunId \ {k} : run'[j].status = run[j].status
    <3>1. CASE SetRun(k, "failed")
      BY <3>1, NewStatus
    <3>2. CASE UNCHANGED runVars
      BY <3>2 DEF runVars
    <3> QED
      BY <1>7, <3>1, <3>2 DEF DeleteIssue
  <2>3. g'[p].pc = "delete" /\ g'[p].k = k /\ \A q \in Procs \ {p} : g'[q] = g[q]
    <3> DEFINE r == [Idle EXCEPT !.pc = "delete", !.k = k]
    <3>1. r.pc = "delete" /\ r.k = k
      BY DEF Idle
    <3> HIDE DEF r
    <3>2. Goto(p, r)
      BY <1>7 DEF r, DeleteIssue
    <3> QED
      BY <3>1, <3>2, GoesTo
  <2>4. EndOK(p)'
    BY <1>1, <2>1, <2>3 DEF EndOK, SeenIssue
  <2>5. task[k] = "none"
    BY <1>4, <2>1 DEF EndInv, OneEnd
  <2>6. OneEnd(k)'
    BY <2>1, <2>5 DEF OneEnd
  <2>7. ASSUME NEW q \in Procs \ {p}, g[q].pc \in Relies, g[q].k = k
        PROVE  EndOK(q)'
    <3>1. g[q].pc = "issue" /\ g'[q] = g[q]
      BY <1>2, <1>4, <2>1, <2>3, <2>7 DEF EndOK
    <3> QED
      BY <2>1, <2>5, <2>7, <3>1 DEF EndOK, SeenIssue
  <2> QED
    BY <2>1, <2>2, <2>3, <2>4, <2>6, <2>7, KeepsEnds
<1>8. ASSUME UNCHANGED <<archived, issue, task, run, g>>
      PROVE  EndInv'
  BY <1>8 DEF EndInv, EndOK, OneEnd
<1>9. ASSUME NEW x \in Agents, ArchiveAgent(p, x)
      PROVE  FALSE
  BY <1>9 DEF ArchiveAgent, Request, OneByOne
<1> QED
  BY <1>5, <1>6, <1>7, <1>8, <1>9 DEF UserRequest, UpdateAutopilot, UpdateAutopilotTrigger, runVars

LEMMA EndInvStep ==
    ASSUME OneByOne, FireInv, ResultInv, EndInv, [Next]_vars
    PROVE  EndInv'
PROOF
<1>1. TypeOK /\ LocalsOK /\ KnownRuns
  BY DEF FireInv
<1>2. ASSUME UNCHANGED <<archived, issue, task, run, g>>
      PROVE  EndInv'
  BY <1>2 DEF EndInv, EndOK, OneEnd
<1>3. ASSUME NEW p \in Procs, Continue(p)
      PROVE  EndInv'
  BY <1>1, <1>3, SchedulerEnds, DispatchEnds, ListenerEnds DEF Continue
<1>4. ASSUME NEW p \in Schedulers, StartScheduler(p) \/ ClaimDue(p)
      PROVE  EndInv'
  BY <1>1, <1>4, SchedulerEnds DEF Procs
<1>5. ASSUME NEW P \in SUBSET Procs, Crash(P)
      PROVE  EndInv'
  <2>1. UNCHANGED <<archived, run, task, issue>>
    BY <1>5 DEF Crash, runVars
  <2>2. Idle.pc = "idle" /\ Down.pc = "down"
    BY DEF Idle, Down
  <2>3. \A q \in Procs : g'[q] = g[q] \/ g'[q].pc \in {"idle", "down"}
    BY <1>5, <2>2 DEF Crash
  <2>4. \A q \in Procs : EndOK(q)'
    <3> SUFFICES ASSUME NEW q \in Procs
                 PROVE  EndOK(q)'
      OBVIOUS
    <3>1. CASE g'[q] = g[q]
      BY <2>1, <3>1 DEF EndInv, EndOK
    <3> QED
      BY <2>3, <3>1, CarelessIsOK, CarelessPlaces
  <2>5. \A k \in RunId : OneEnd(k)'
    BY <2>1 DEF EndInv, OneEnd
  <2> QED
    BY <2>1, <2>4, <2>5 DEF EndInv
<1> QED
  BY <1>1, <1>2, <1>3, <1>4, <1>5, EndTaskEnds, RequestEnds
  DEF Next, Tick, Quiet, vars, runVars, env

LEMMA EndInvInit ==
    ASSUME Init
    PROVE  EndInv
PROOF
<1>1. \A p \in Procs : g[p] \in {Idle, Down}
  BY DEF Init
<1>2. \A p \in Procs : g[p].pc \in {"idle", "down"}
  BY <1>1 DEF Idle, Down
<1>3. \A p \in Procs : EndOK(p)
  BY <1>2 DEF EndOK, SeenIssue
<1> QED
  BY <1>3 DEF Init, EndInv, OneEnd

\* A run that has ended is changed by its dispatch only: whoever else ends a run
\* found it open.
LEMMA EndsStay ==
    ASSUME FireInv, ResultInv, EndInv, [Next]_vars, NEW k \in RunId,
           run[k].status \in Ended, ~Dispatching(k)
    PROVE  run'[k].status = run[k].status
PROOF
<1>1. TypeOK /\ LocalsOK /\ created \in Nat
  BY DEF FireInv, TypeOK
<1>2. run[k].status \notin Open /\ k <= created
  <2>1. "none" \notin Ended /\ Open \cap Ended = {}
    BY DEF Open, Ended
  <2>2. ~(k > created) /\ k \in Nat
    BY <1>1, <2>1, AutopilotAssumption DEF TypeOK, RunId
  <2> QED
    BY <1>1, <2>1, <2>2
<1>3. ASSUME NEW p \in Procs, NEW s, SetRun(g[p].k, s), g[p].k \in RunId, g[p].k # k
      PROVE  run'[k].status = run[k].status
  <2>1. PICK j : j = g[p].k
    OBVIOUS
  <2> QED
    BY <1>1, <1>3, <2>1, NewStatus
<1>4. ASSUME NEW p \in Procs, Continue(p)
      PROVE  run'[k].status = run[k].status
  <2>1. g[p].pc \in UsesRun => g[p].k \in RunId
    BY <1>1, UsedRuns
  <2>2. g[p].pc \in Dispatch => g[p].k # k
    BY DEF Dispatching
  <2>3. g[p].pc \in {"endRun", "syncTask"} => g[p].k # k
    BY <1>2 DEF EndInv, EndOK
  <2>4. CASE run' = run
    BY <2>4
  <2>5. CASE CreateRun(p)
    <3>1. created + 1 # k
      BY <1>1, <1>2
    <3> QED
      BY <1>1, <2>5, <3>1 DEF CreateRun, TypeOK
  <2>6. CASE LinkIssue(p)
    <3>1. g[p].k # k
      BY <2>2, <2>6 DEF LinkIssue, At, Dispatch
    <3> QED
      BY <1>1, <2>6, <3>1 DEF LinkIssue, runVars, TypeOK
  <2>7. CASE LinkTask(p) \/ FailRun(p)
    <3>1. g[p].pc \in Dispatch \cap UsesRun
      BY <2>7 DEF LinkTask, FailRun, At, Dispatch, UsesRun
    <3> QED
      BY <1>3, <2>1, <2>2, <2>7, <3>1 DEF LinkTask, FailRun
  <2>8. CASE SyncRunFromTask(p) \/ EndRun(p)
    <3>1. g[p].pc \in {"endRun", "syncTask"} \cap UsesRun
      BY <2>8 DEF SyncRunFromTask, EndRun, At, UsesRun
    <3> QED
      BY <1>3, <2>1, <2>3, <2>8, <3>1 DEF SyncRunFromTask, EndRun
  <2>9. CASE DeleteIssueRow(p)
    <3>1. \A j \in RunId : run[j] \in RunRow
      BY <1>1 DEF TypeOK
    <3>2. \A j \in RunId : [run[j] EXCEPT !.linked = FALSE].status = run[j].status
      BY <3>1 DEF RunRow
    <3>3. run'[k] \in {run[k], [run[k] EXCEPT !.linked = FALSE]}
      BY <1>1, <2>9 DEF DeleteIssueRow, TypeOK
    <3> QED
      BY <3>2, <3>3
  <2> QED
    BY <1>4, <2>4, <2>5, <2>6, <2>7, <2>8, <2>9
    DEF Continue, RecoverTrigger, NextTrigger, LoopDone, CreateIssue, LoadAgent,
        CreateAutopilotTask, EnqueueTaskForIssue, Advance, GetIssue, GetRun,
        CancelTasksOfAgent, runVars
<1>5. ASSUME NEW p \in Procs, NEW j \in RunId, DeleteIssue(p, j)
      PROVE  run'[k].status = run[k].status
  <2>1. CASE SetRun(j, "failed") /\ run[j].status \in Open
    BY <1>1, <1>2, <2>1, NewStatus
  <2>2. CASE UNCHANGED runVars
    BY <2>2 DEF runVars
  <2> QED
    BY <1>5, <2>1, <2>2 DEF DeleteIssue
<1>6. ASSUME run' = run
      PROVE  run'[k].status = run[k].status
  BY <1>6
<1> QED
  BY <1>4, <1>5, <1>6
  DEF Next, Tick, StartScheduler, ClaimDue, UserRequest, TriggerAutopilot, SetIssueStatus,
      UpdateAutopilot, UpdateAutopilotTrigger, ArchiveAgent, EndTask, Crash, Quiet, vars, runVars

\* autopilot.go and autopilot_listeners.go: once a run is dispatched its first
\* end is its last, for any number of servers that dispatch, crash and start
\* again, if one request is served at a time and no agent is archived.
THEOREM EndsAreFinal ==
    ASSUME \A p, q \in Handlers : p = q, "archive" \notin Events
    PROVE  Spec => EndIsFinal
PROOF
<1>1. OneByOne
  BY DEF OneByOne
<1> DEFINE Inv == FireInv /\ ResultInv /\ EndInv
<1>2. Init => Inv
  BY InvariantInit, InitHolds, EndInvInit
<1>3. Inv /\ [Next]_vars => Inv'
  BY <1>1, InvariantStep, ResultInvStep, EndInvStep
<1>4. Inv /\ [Next]_vars =>
        [\A k \in RunId :
            run[k].status \in Ended /\ ~Dispatching(k) => run'[k].status = run[k].status]_vars
  BY EndsStay
<1> QED
  BY <1>2, <1>3, <1>4, PTL DEF Spec, EndIsFinal
=============================================================================
