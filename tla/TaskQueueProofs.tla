-------------------------- MODULE TaskQueueProofs --------------------------
(***************************************************************************)
(* For any number of agents, issues, chat sessions, runtimes, handlers and *)
(* tasks: the types, SerialPerIssueAgent, TerminalIsForever,               *)
(* OvershootIsBounded, and that the queue implements AgentLanes.           *)
(*                                                                         *)
(* A step of the system does one of six things to the table (RowStep).     *)
(* The lemmas of the first part say what each of them preserves; the lemma *)
(* NextStep goes through the actions once and says which of the six it is  *)
(* and what becomes of the handlers; the theorems put the two together.    *)
(***************************************************************************)
EXTENDS TaskQueue, FiniteSetTheorems, TLAPS

InsertStep == \E r \in Row : r.agent \in Agents /\ Insert(r)

ClaimStep ==
    \E p \in Procs, t \in TasksIn({"queued"}) :
        /\ At(p, "update")
        /\ t \in h[p].cand
        /\ h'[p].pc \notin {"select", "update"}
        /\ SetStatus({t}, "dispatched")
        /\ UNCHANGED reason

StartStep ==
    \E t \in TasksIn({"dispatched"}) :
        SetStatus({t}, "running") /\ UNCHANGED reason

EndStep ==
    \E S \in SUBSET TasksIn(Live), s \in Terminal :
        /\ SetStatus(S, s)
        /\ \E why \in Reason :
              reason' = [t \in TaskId |-> IF t \in S THEN why ELSE reason[t]]

CancelStep ==
    \E S \in SUBSET TasksIn(Live) : SetStatus(S, "cancelled") /\ UNCHANGED reason

RowStep ==
    \/ UNCHANGED rowVars
    \/ InsertStep
    \/ ClaimStep
    \/ StartStep
    \/ EndStep
    \/ CancelStep

\* What the handlers know of the snapshots of their claims after a step.
SnapshotStep ==
    \A p \in Procs : h'[p].pc = "update" =>
        \/ At(p, "update") /\ h'[p].cand = h[p].cand
        \/ /\ At(p, "select") /\ UNCHANGED rowVars
           /\ h'[p].cand = Claimable(h[p].agent)

\* A claim in flight stays with its agent, and one that begins has just found
\* a free slot.
SlotStep ==
    \A p \in Procs : h'[p].pc \in {"select", "update"} =>
        \/ h[p].pc \in {"select", "update"} /\ h'[p].agent = h[p].agent
        \/ /\ At(p, "agent") /\ UNCHANGED rowVars
           /\ CountRunningTasks(h'[p].agent) < MaxConcurrent

Typed == TypeOK /\ LocalsOK /\ RowsComplete

-----------------------------------------------------------------------------
(* The table *)

\* Rows keep their columns, and the types of the table hold after any step.
LEMMA RowStepTyped ==
    ASSUME RowsTypeOK, RowsComplete, RowStep
    PROVE  /\ RowsTypeOK' /\ RowsComplete'
           /\ created' \in {created, created + 1}
           /\ \A t \in 1..created : row'[t] = row[t]
PROOF
<1> USE TaskRowsAssumption DEF TaskId
<1>1. CASE UNCHANGED rowVars
  BY <1>1 DEF rowVars, RowsTypeOK, RowsComplete
<1>2. CASE InsertStep
  <2>1. PICK r \in Row : r.agent \in Agents /\ Insert(r)
    BY <1>2 DEF InsertStep
  <2>2. created + 1 \in TaskId /\ created' = created + 1
    BY <2>1 DEF Insert, RowsTypeOK
  <2>3. /\ row' \in [TaskId -> Row] /\ status' \in [TaskId -> Status]
        /\ reason' \in [TaskId -> Reason]
    BY <2>1, <2>2 DEF Insert, RowsTypeOK, Status, Live
  <2>4. \A t \in TaskId : (status'[t] = "none") <=> (t > created')
    BY <2>1, <2>2 DEF Insert, RowsTypeOK, Status, Live
  <2>5. \A t \in 1..created : row'[t] = row[t]
    BY <2>1, <2>2 DEF Insert, RowsTypeOK
  <2>6. RowsComplete'
    BY <2>1, <2>2, <2>5 DEF Insert, RowsTypeOK, RowsComplete
  <2>7. created' \in 0..MaxTasks
    BY <2>2
  <2>8. RowsTypeOK'
    BY <2>3, <2>4, <2>7 DEF RowsTypeOK
  <2> QED
    BY <2>2, <2>5, <2>6, <2>8
<1>3. ASSUME NEW S \in SUBSET TasksIn(Live), NEW s \in Status \ {"none"},
             SetStatus(S, s), reason' \in [TaskId -> Reason]
      PROVE  /\ RowsTypeOK' /\ RowsComplete'
             /\ created' = created
             /\ \A t \in 1..created : row'[t] = row[t]
  BY <1>3 DEF SetStatus, RowsTypeOK, RowsComplete, TasksIn, Live
<1>4. CASE ClaimStep
  <2>1. PICK t \in TasksIn({"queued"}) : SetStatus({t}, "dispatched") /\ UNCHANGED reason
    BY <1>4 DEF ClaimStep
  <2>2. {t} \in SUBSET TasksIn(Live) /\ "dispatched" \in Status \ {"none"}
    BY DEF TasksIn, Live, Status
  <2> QED
    BY <1>3, <2>1, <2>2 DEF RowsTypeOK
<1>5. CASE StartStep
  <2>1. PICK t \in TasksIn({"dispatched"}) : SetStatus({t}, "running") /\ UNCHANGED reason
    BY <1>5 DEF StartStep
  <2>2. {t} \in SUBSET TasksIn(Live) /\ "running" \in Status \ {"none"}
    BY DEF TasksIn, Live, Status
  <2> QED
    BY <1>3, <2>1, <2>2 DEF RowsTypeOK
<1>6. CASE EndStep
  <2>1. PICK S \in SUBSET TasksIn(Live), s \in Terminal, why \in Reason :
          /\ SetStatus(S, s)
          /\ reason' = [t \in TaskId |-> IF t \in S THEN why ELSE reason[t]]
    BY <1>6 DEF EndStep
  <2>2. s \in Status \ {"none"} /\ reason' \in [TaskId -> Reason]
    BY <2>1 DEF Terminal, Status, RowsTypeOK
  <2> QED
    BY <1>3, <2>1, <2>2
<1>7. CASE CancelStep
  <2>1. PICK S \in SUBSET TasksIn(Live) : SetStatus(S, "cancelled") /\ UNCHANGED reason
    BY <1>7 DEF CancelStep
  <2>2. "cancelled" \in Status \ {"none"}
    BY DEF Terminal, Status
  <2> QED
    BY <1>3, <2>1, <2>2 DEF RowsTypeOK
<1> QED
  BY <1>1, <1>2, <1>4, <1>5, <1>6, <1>7 DEF RowStep

\* What CountRunningTasks counts is finite.
LEMMA CountIsNat ==
    ASSUME NEW S \in SUBSET TaskId
    PROVE  IsFiniteSet(S) /\ Cardinality(S) \in Nat
PROOF
<1>1. IsFiniteSet(TaskId)
  BY TaskRowsAssumption, FS_Interval DEF TaskId
<1> QED
  BY <1>1, FS_Subset, FS_CardinalityType

\* A row that has ended is not touched by any step.
LEMMA RowStepTerminal ==
    ASSUME RowsTypeOK, RowStep, NEW t \in TaskId, status[t] \in Terminal
    PROVE  status'[t] = status[t] /\ reason'[t] = reason[t] /\ row'[t] = row[t]
PROOF
<1>1. CASE UNCHANGED rowVars
  BY <1>1 DEF rowVars
<1>2. CASE InsertStep
  BY <1>2 DEF InsertStep, Insert, RowsTypeOK, Terminal
<1>3. CASE ClaimStep
  BY <1>3 DEF ClaimStep, SetStatus, TasksIn, Terminal
<1>4. CASE StartStep
  BY <1>4 DEF StartStep, SetStatus, TasksIn, Terminal
<1>5. CASE EndStep
  BY <1>5 DEF EndStep, SetStatus, TasksIn, Terminal, Live
<1>6. CASE CancelStep
  BY <1>6 DEF CancelStep, SetStatus, TasksIn, Terminal, Live
<1> QED
  BY <1>1, <1>2, <1>3, <1>4, <1>5, <1>6 DEF RowStep

\* When no row is inserted, becomes pending or becomes active, the lanes stay
\* serial.
LEMMA ShrinkingSafe ==
    ASSUME OnePendingTask, SnapshotStaysValid, SerialPerIssueAgent, SnapshotStep,
           row' = row,
           \A t \in TaskId : status'[t] \in Active => status[t] \in Active,
           \A t \in TaskId : status'[t] \in Pending => status[t] \in Pending,
           \A t \in TaskId : status'[t] = "queued" => status[t] = "queued"
    PROVE  OnePendingTask' /\ SnapshotStaysValid' /\ SerialPerIssueAgent'
PROOF
<1>1. OnePendingTask'
  BY DEF OnePendingTask, TasksIn, SameLane
<1>2. SerialPerIssueAgent'
  BY DEF SerialPerIssueAgent, TasksIn, SameLane
<1>3. SnapshotStaysValid'
  <2> SUFFICES ASSUME NEW p \in Procs, h'[p].pc = "update",
                      NEW t \in TaskId, t \in h'[p].cand, status'[t] = "queued",
                      row[t].work \in Issues,
                      NEW u \in TaskId, status'[u] \in Active
               PROVE  ~SameLane(t, u)
    BY DEF SnapshotStaysValid, TasksIn, SameLane, At
  <2>1. CASE At(p, "update") /\ h'[p].cand = h[p].cand
    BY <2>1 DEF SnapshotStaysValid, TasksIn
  <2>2. CASE h'[p].cand = Claimable(h[p].agent)
    BY <2>2 DEF Claimable, TasksIn
  <2> QED
    BY <2>1, <2>2 DEF SnapshotStep
<1> QED
  BY <1>1, <1>2, <1>3

\* Every step of the table keeps the lanes serial: an insertion because of the
\* index, a claim because its snapshot is still valid.
LEMMA RowStepSafe ==
    ASSUME RowsTypeOK, LocalsOK, OnePendingTask, SnapshotStaysValid,
           SerialPerIssueAgent, RowStep, SnapshotStep
    PROVE  OnePendingTask' /\ SnapshotStaysValid' /\ SerialPerIssueAgent'
PROOF
<1> USE TaskRowsAssumption DEF TaskId
<1>1. CASE UNCHANGED rowVars
  BY <1>1, ShrinkingSafe DEF rowVars
<1>2. CASE InsertStep
  <2>1. PICK r \in Row : Insert(r)
    BY <1>2 DEF InsertStep
  <2> DEFINE n == created + 1
  <2>2. /\ n \in TaskId /\ status[n] = "none"
        /\ row' = [row EXCEPT ![n] = r]
        /\ status' = [status EXCEPT ![n] = "queued"]
        /\ IndexAdmits(r.agent, r.work)
    BY <2>1 DEF Insert, RowsTypeOK
  <2>3. \A t \in TaskId : t # n => row'[t] = row[t] /\ status'[t] = status[t]
    BY <2>2 DEF RowsTypeOK
  <2>4. row'[n] = r /\ status'[n] = "queued"
    BY <2>2 DEF RowsTypeOK
  <2>5. SerialPerIssueAgent'
    BY <2>2, <2>3, <2>4 DEF SerialPerIssueAgent, SameLane, TasksIn, Active
  <2>6. OnePendingTask'
    <3> SUFFICES ASSUME NEW t \in TaskId, NEW u \in TaskId, t # u,
                        status'[t] \in Pending, status'[u] \in Pending,
                        row'[t].work \in Issues, SameLane(t, u)'
                 PROVE  FALSE
      BY DEF OnePendingTask, TasksIn
    <3>1. CASE t # n /\ u # n
      BY <2>3, <3>1 DEF OnePendingTask, SameLane, TasksIn
    <3>2. CASE t = n
      BY <2>2, <2>3, <2>4, <3>2 DEF IndexAdmits, HasPendingTask, SameLane, TasksIn
    <3>3. CASE u = n
      BY <2>2, <2>3, <2>4, <3>3 DEF IndexAdmits, HasPendingTask, SameLane, TasksIn
    <3> QED
      BY <3>1, <3>2, <3>3
  <2>7. SnapshotStaysValid'
    <3> SUFFICES ASSUME NEW p \in Procs, h'[p].pc = "update",
                        NEW t \in TaskId, t \in h'[p].cand, status'[t] = "queued",
                        row'[t].work \in Issues,
                        NEW u \in TaskId, status'[u] \in Active
                 PROVE  ~SameLane(t, u)'
      BY DEF SnapshotStaysValid, TasksIn, At
    <3>1. ~UNCHANGED rowVars
      BY <2>2, <2>4 DEF rowVars
    <3>2. At(p, "update") /\ h'[p].cand = h[p].cand
      BY <3>1 DEF SnapshotStep
    <3>3. t # n /\ u # n
      BY <3>2, <2>2, <2>4 DEF LocalsOK, LocalOK, RowsTypeOK, Active
    <3> QED
      BY <3>2, <3>3, <2>3 DEF SnapshotStaysValid, SameLane, TasksIn
  <2> QED
    BY <2>5, <2>6, <2>7
<1>3. CASE ClaimStep
  <2>1. PICK q \in Procs, c \in TasksIn({"queued"}) :
          /\ At(q, "update") /\ c \in h[q].cand
          /\ SetStatus({c}, "dispatched")
    BY <1>3 DEF ClaimStep
  <2>2. /\ c \in TaskId /\ status[c] = "queued" /\ status'[c] = "dispatched"
        /\ row' = row
        /\ \A t \in TaskId : t # c => status'[t] = status[t]
    BY <2>1 DEF SetStatus, TasksIn
  <2>3. row[c].work \in Issues => \A u \in TasksIn(Active) : ~SameLane(c, u) /\ ~SameLane(u, c)
    BY <2>1 DEF SnapshotStaysValid, SameLane
  <2>4. OnePendingTask'
    BY <2>2 DEF OnePendingTask, SameLane, TasksIn, Pending
  <2>5. SerialPerIssueAgent'
    BY <2>2, <2>3 DEF SerialPerIssueAgent, SameLane, TasksIn, Active
  <2>6. SnapshotStaysValid'
    <3> SUFFICES ASSUME NEW p \in Procs, h'[p].pc = "update",
                        NEW t \in TaskId, t \in h'[p].cand, status'[t] = "queued",
                        row[t].work \in Issues,
                        NEW u \in TaskId, status'[u] \in Active
                 PROVE  ~SameLane(t, u)
      BY <2>2 DEF SnapshotStaysValid, TasksIn, At, SameLane
    <3>1. ~UNCHANGED rowVars
      BY <2>2 DEF rowVars
    <3>2. At(p, "update") /\ t \in h[p].cand /\ t # c /\ status[t] = "queued"
      BY <3>1, <2>2 DEF SnapshotStep
    <3>3. CASE u = c
      BY <3>2, <3>3, <2>2 DEF OnePendingTask, TasksIn, Pending
    <3>4. CASE u # c
      BY <3>2, <3>4, <2>2 DEF SnapshotStaysValid, TasksIn
    <3> QED
      BY <3>3, <3>4
  <2> QED
    BY <2>4, <2>5, <2>6
<1>4. CASE StartStep
  BY <1>4, ShrinkingSafe DEF StartStep, SetStatus, TasksIn, Active, Pending
<1>5. CASE EndStep
  BY <1>5, ShrinkingSafe DEF EndStep, SetStatus, TasksIn, Active, Pending, Terminal
<1>6. CASE CancelStep
  BY <1>6, ShrinkingSafe DEF CancelStep, SetStatus, TasksIn, Active, Pending, Terminal
<1> QED
  BY <1>1, <1>2, <1>3, <1>4, <1>5, <1>6 DEF RowStep

-----------------------------------------------------------------------------
(* The handlers *)

HandlersOK == h \in [Procs -> Handler] /\ LocalsOK

\* The part of TypeOK that is neither the table nor the handlers.
OthersOK ==
    /\ issue \in [Issues -> IssueRow]
    /\ archived \in [Agents -> BOOLEAN]
    /\ runtimeOf \in [Agents -> Runtimes]
    /\ agentStatus \in [Agents -> {"idle", "working"}]
    /\ online \in [Runtimes -> BOOLEAN]
    /\ delivered \in SUBSET TaskId
    /\ requests \in 0..MaxRequests

\* A record that a handler may go on with, now and when more rows exist.
Good(s) ==
    /\ s \in Handler
    /\ s.pc \notin {"select", "update"}
    /\ \A n \in Nat : n >= created => LocalOK(s, n)

LEMMA GoodNow ==
    ASSUME created \in Nat, NEW s \in Handler, s.pc \notin {"select", "update"}, LocalOK(s, created)
    PROVE  Good(s)
BY DEF Good, LocalOK

LEMMA IdleGood == Good(Idle)
BY DEF Good, Idle, Handler, PC, LocalOK

LEMMA LoadGood ==
    ASSUME NEW a \in Agents \cup {None}, NEW w \in Works \cup {None}
    PROVE  Good(Load(a, w))
BY DEF Good, Load, Idle, Handler, PC, LocalOK

LEMMA ReconcileGood ==
    ASSUME NEW S \in SUBSET Agents
    PROVE  Good(Reconcile(S))
BY DEF Good, Reconcile, Idle, Handler, PC, LocalOK

LEMMA SaveGood ==
    ASSUME NEW i \in Issues, NEW e \in Edit
    PROVE  Good(Save(i, e))
BY DEF Good, Save, Idle, Handler, PC, LocalOK, Works

\* No handler changes, and rows are at most added.
LEMMA StayOK ==
    ASSUME RowsTypeOK, HandlersOK, created' \in {created, created + 1}, h' = h
    PROVE  HandlersOK' /\ SnapshotStep /\ SlotStep
BY DEF HandlersOK, LocalsOK, LocalOK, RowsTypeOK, SnapshotStep, SlotStep, At

\* One handler goes on with a good record, and rows are at most added.
LEMMA GotoOK ==
    ASSUME RowsTypeOK, HandlersOK, created' \in {created, created + 1},
           NEW p \in Procs, NEW s, Good(s), Goto(p, s)
    PROVE  HandlersOK' /\ SnapshotStep /\ SlotStep
PROOF
<1>1. \A q \in Procs : h'[q] = IF q = p THEN s ELSE h[q]
  BY DEF Goto, HandlersOK
<1>2. h' \in [Procs -> Handler]
  BY DEF Goto, HandlersOK, Good
<1>3. created' \in Nat /\ created' >= created
  BY DEF RowsTypeOK
<1>4. \A q \in Procs : LocalOK(h[q], created')
  BY DEF HandlersOK, LocalsOK, LocalOK, RowsTypeOK
<1>5. LocalOK(s, created')
  BY <1>3 DEF Good
<1>6. LocalsOK'
  BY <1>1, <1>4, <1>5 DEF LocalsOK
<1>7. SnapshotStep /\ SlotStep
  BY <1>1 DEF SnapshotStep, SlotStep, At, Good
<1> QED
  BY <1>2, <1>6, <1>7 DEF HandlersOK

-----------------------------------------------------------------------------
(* The actions *)

StepOK == RowStep /\ SnapshotStep /\ SlotStep /\ HandlersOK' /\ OthersOK'

LEMMA TypedParts ==
    ASSUME Typed
    PROVE  RowsTypeOK /\ RowsComplete /\ HandlersOK /\ OthersOK /\ created \in Nat
BY TaskRowsAssumption DEF Typed, TypeOK, HandlersOK, OthersOK, RowsTypeOK

LEMMA GotoStep ==
    ASSUME Typed, RowStep, OthersOK', NEW p \in Procs, NEW s, Good(s), Goto(p, s)
    PROVE  StepOK
PROOF
<1>1. created' \in {created, created + 1}
  BY TypedParts, RowStepTyped
<1> QED
  BY <1>1, TypedParts, GotoOK DEF StepOK

LEMMA StayStep ==
    ASSUME Typed, RowStep, OthersOK', h' = h
    PROVE  StepOK
PROOF
<1>1. created' \in {created, created + 1}
  BY TypedParts, RowStepTyped
<1> QED
  BY <1>1, TypedParts, StayOK DEF StepOK

LEMMA UserRequestStep ==
    ASSUME Typed, NEW p \in Procs, UserRequest(p)
    PROVE  StepOK
PROOF
<1> USE TypedParts
<1>1. ASSUME NEW kind, Request(p, kind)
      PROVE  requests' \in 0..MaxRequests
  BY <1>1, TaskQueueAssumption DEF Request, OthersOK
<1>2. ASSUME NEW kind, Request(p, kind),
             UNCHANGED <<issue, archived, runtimeOf, agentStatus, online, delivered>>
      PROVE  OthersOK'
  <2>1. requests' \in 0..MaxRequests
    BY <1>1, <1>2
  <2> QED
    BY <1>2, <2>1 DEF OthersOK
<1>3. ASSUME NEW kind, Request(p, kind), UNCHANGED <<dbVars, delivered>>,
             NEW s, Good(s), Goto(p, s)
      PROVE  StepOK
  <2>1. OthersOK'
    BY <1>2, <1>3 DEF dbVars
  <2>2. RowStep
    BY <1>3 DEF dbVars, rowVars, RowStep
  <2> QED
    BY <1>3, <2>1, <2>2, GotoStep
<1>4. ASSUME NEW a \in Agents, NEW i \in Issues, CommentOrMention(p, a, i)
      PROVE  StepOK
  BY <1>3, <1>4, LoadGood DEF CommentOrMention, Works
<1>5. ASSUME NEW i \in Issues, NEW a \in Agents \cup {None}, AssignIssue(p, i, a)
      PROVE  StepOK
  <2> DEFINE e == [prev |-> issue[i], status |-> None,
                   assign |-> TRUE, to |-> a, member |-> TRUE]
  <2>1. e \in Edit
    BY DEF Edit, OthersOK
  <2> QED
    BY <1>3, <1>5, <2>1, SaveGood DEF AssignIssue
<1>6. ASSUME NEW i \in Issues, NEW st \in IssueStatus, MoveIssue(p, i, st)
      PROVE  StepOK
  <2> DEFINE e == [prev |-> issue[i], status |-> st,
                   assign |-> FALSE, to |-> None, member |-> TRUE]
  <2>1. e \in Edit
    BY DEF Edit, OthersOK
  <2> QED
    BY <1>3, <1>6, <2>1, SaveGood DEF MoveIssue
<1>7. ASSUME NEW i \in Issues, RerunIssue(p, i)
      PROVE  StepOK
  <2> DEFINE s == [Idle EXCEPT !.pc = "rerun", !.agent = issue[i].assignee, !.work = i]
  <2>1. issue[i].assignee \in Agents /\ i \in Works
    BY <1>7 DEF RerunIssue, OthersOK, IssueRow, Works
  <2>2. Good(s)
    BY <2>1 DEF Good, Idle, Handler, PC, LocalOK
  <2> QED
    BY <1>3, <1>7, <2>2 DEF RerunIssue
<1>8. ASSUME NEW c \in Chats, SendChatMessage(p, c)
      PROVE  StepOK
  <2>1. ChatAgent[c] \in Agents
    BY TaskQueueAssumption
  <2> QED
    BY <1>3, <1>8, <2>1, LoadGood DEF SendChatMessage, Works
<1>9. ASSUME NEW x \in Runs, NEW a \in Agents, DispatchRunOnly(p, x, a)
      PROVE  StepOK
  BY <1>3, <1>9, LoadGood DEF DispatchRunOnly, Works
<1>10. ASSUME NEW t \in TaskId, CancelTask(p, t)
       PROVE  StepOK
  <2>1. t \in TasksIn(Live) /\ row[t].agent \in Agents
    BY <1>10 DEF CancelTask, TasksIn, RowsTypeOK, RowsComplete, Live, TaskId
  <2>2. RowStep
    BY <1>10 DEF CancelTask, Cancel, RowStep, CancelStep
  <2>3. OthersOK'
    BY <1>2, <1>10 DEF CancelTask
  <2>4. Good(Reconcile({row[t].agent}))
    BY <2>1, ReconcileGood
  <2> QED
    BY <1>10, <2>2, <2>3, <2>4, GotoStep DEF CancelTask
<1>11. ASSUME NEW a \in Agents, ArchiveAgent(p, a)
       PROVE  StepOK
  <2> DEFINE s == [Idle EXCEPT !.pc = "cancelAgent", !.agent = a]
  <2>1. Good(s)
    BY DEF Good, Idle, Handler, PC, LocalOK
  <2>2. RowStep
    BY <1>11 DEF ArchiveAgent, RowStep
  <2>3. OthersOK'
    BY <1>1, <1>11 DEF ArchiveAgent, OthersOK
  <2> QED
    BY <1>11, <2>1, <2>2, <2>3, GotoStep DEF ArchiveAgent
<1>12. ASSUME NEW a \in Agents, RestoreAgent(p, a)
       PROVE  StepOK
  BY <1>1, <1>12, StayStep DEF RestoreAgent, OthersOK, RowStep
<1>13. ASSUME NEW a \in Agents, NEW r \in Runtimes, MoveAgent(p, a, r)
       PROVE  StepOK
  BY <1>1, <1>13, StayStep DEF MoveAgent, OthersOK, RowStep
<1> QED
  BY <1>4, <1>5, <1>6, <1>7, <1>8, <1>9, <1>10, <1>11, <1>12, <1>13 DEF UserRequest

\* The shapes that the remaining actions have.
LEMMA QuietRows ==
    ASSUME UNCHANGED rowVars
    PROVE  RowStep
BY DEF RowStep

LEMMA OthersStay ==
    ASSUME OthersOK,
           UNCHANGED <<issue, archived, runtimeOf, agentStatus, online, envVars>>
    PROVE  OthersOK'
BY DEF OthersOK, envVars

\* A retry is an insertion: its row has the agent of a row that exists.
LEMMA RetriedStep ==
    ASSUME Typed, NEW t \in 1..created, Retried(t) \/ NotRetried(t)
    PROVE  RowStep
PROOF
<1>1. CASE Retried(t)
  <2>1. t \in TaskId /\ row[t] \in Row /\ row[t].agent \in Agents
    BY TypedParts, TaskRowsAssumption DEF RowsTypeOK, RowsComplete, TaskId
  <2>2. row[t].attempt < MaxAttempts /\ row[t].attempt \in Nat
    BY <1>1, <2>1, TaskRowsAssumption DEF Retried, CanRetry, Row
  <2>3. ASSUME NEW r \in Row, r.attempt \in 0..MaxAttempts, r.attempt < MaxAttempts
        PROVE  /\ [r EXCEPT !.attempt = @ + 1, !.parent = t] \in Row
               /\ [r EXCEPT !.attempt = @ + 1, !.parent = t].agent = r.agent
    <3>1. r.attempt + 1 \in 0..MaxAttempts
      BY <2>3, TaskRowsAssumption
    <3> QED
      BY <2>1, <3>1 DEF Row
  <2>4. RetryRow(t) \in Row /\ RetryRow(t).agent \in Agents
    BY <2>1, <2>2, <2>3 DEF RetryRow, Row
  <2> QED
    BY <1>1, <2>4 DEF Retried, RowStep, InsertStep
<1>2. CASE NotRetried(t)
  BY <1>2 DEF NotRetried, RowStep
<1> QED
  BY <1>1, <1>2

LEMMA FailEnds ==
    ASSUME NEW S \in SUBSET TasksIn(Active), NEW why \in Reason, Fail(S, why)
    PROVE  RowStep
PROOF
<1>1. S \in SUBSET TasksIn(Live) /\ "failed" \in Terminal
  BY DEF TasksIn, Active, Live, Terminal
<1> QED
  BY <1>1 DEF Fail, RowStep, EndStep

LEMMA RequestHandlersStep ==
    ASSUME Typed, NEW p \in Procs,
           \/ SaveIssue(p) \/ LoadAgent(p) \/ InsertTask(p)
           \/ CancelTasksForIssue(p) \/ CancelTasksOfAgent(p) \/ CancelForRerun(p)
           \/ ReconcileCount(p) \/ ReconcileWrite(p)
    PROVE  StepOK
PROOF
<1> USE TypedParts
<1>1. h[p] \in Handler /\ LocalOK(h[p], created)
  BY DEF HandlersOK, LocalsOK
<1>2. CASE SaveIssue(p)
  <2> DEFINE i == h[p].work
             e == h[p].edit
             new == [status   |-> IF e.status = None THEN issue[i].status ELSE e.status,
                     assignee |-> IF e.assign THEN e.to ELSE e.prev.assignee]
  <2>1. e \in Edit /\ i \in Works \cup {None}
    BY <1>1, <1>2 DEF SaveIssue, At, LocalOK, Handler
  <2>2. new.assignee \in Agents \cup {None}
    BY <2>1 DEF Edit, IssueRow
  <2>3. i \in Issues => new \in IssueRow
    BY <2>1 DEF Edit, IssueRow, OthersOK
  <2>4. issue' = [issue EXCEPT ![i] = new] /\ Goto(p, FollowUp(i, e, new))
    BY <1>2 DEF SaveIssue
  <2>5. OthersOK'
    <3>1. issue \in [Issues -> IssueRow]
      BY DEF OthersOK
    <3>2. issue' \in [Issues -> IssueRow]
      BY <2>3, <2>4, <3>1
    <3> QED
      BY <1>2, <3>2 DEF SaveIssue, OthersOK, envVars
  <2>6. Good(FollowUp(i, e, new))
    <3> HIDE DEF new, e, i
    <3>1. e.to \in Agents \cup {None}
      BY <2>1 DEF Edit
    <3>2. Good([Idle EXCEPT !.pc = "cancelIssue", !.work = i])
      BY <2>1 DEF Good, Idle, Handler, PC, LocalOK
    <3>3. Good([Idle EXCEPT !.pc = "cancelIssue", !.work = i, !.agent = e.to])
      BY <2>1, <3>1 DEF Good, Idle, Handler, PC, LocalOK
    <3>4. [[Idle EXCEPT !.pc = "cancelIssue", !.work = i] EXCEPT !.agent = e.to]
            = [Idle EXCEPT !.pc = "cancelIssue", !.work = i, !.agent = e.to]
      BY DEF Idle
    <3>5. Good(Load(new.assignee, i))
      BY <2>1, <2>2, LoadGood
    <3> QED
      BY <3>2, <3>3, <3>4, <3>5, IdleGood DEF FollowUp
  <2>7. RowStep
    BY <1>2, QuietRows DEF SaveIssue
  <2> QED
    BY <2>4, <2>5, <2>6, <2>7, GotoStep
<1>3. CASE LoadAgent(p)
  <2>1. RowStep /\ OthersOK'
    BY <1>3, QuietRows, OthersStay DEF LoadAgent, dbVars, rowVars, envVars
  <2>2. CASE Ready(h[p].agent)
    <3>1. h[p].agent \in Agents /\ runtimeOf[h[p].agent] \in Runtimes
      BY <2>2 DEF Ready, OthersOK
    <3>2. Good([h[p] EXCEPT !.pc = "insert", !.rt = runtimeOf[h[p].agent]])
      <4> DEFINE s == [h[p] EXCEPT !.pc = "insert", !.rt = runtimeOf[h[p].agent]]
      <4>1. s \in Handler
        BY <1>1, <3>1 DEF Handler, PC
      <4>2. s.pc \notin {"select", "update"} /\ LocalOK(s, created)
        BY <1>1, <3>1 DEF LocalOK, Handler
      <4> QED
        BY <4>1, <4>2, GoodNow
    <3> QED
      BY <1>3, <2>1, <2>2, <3>2, GotoStep DEF LoadAgent
  <2>3. CASE ~Ready(h[p].agent)
    BY <1>3, <2>1, <2>3, IdleGood, GotoStep DEF LoadAgent, Return
  <2> QED
    BY <2>2, <2>3
<1>4. CASE InsertTask(p)
  <2>1. OthersOK'
    BY <1>4, OthersStay DEF InsertTask
  <2>2. h[p].agent \in Agents
    BY <1>1, <1>4 DEF InsertTask, At, LocalOK
  <2>3. FreshRow(h[p].agent, h[p].work, h[p].rt) \in Row
    BY <1>1, <2>2, TaskRowsAssumption DEF FreshRow, Row, Handler
  <2>4. FreshRow(h[p].agent, h[p].work, h[p].rt).agent \in Agents
    BY <2>2 DEF FreshRow
  <2>5. RowStep
    BY <1>4, <2>3, <2>4 DEF InsertTask, RowStep, InsertStep
  <2> QED
    BY <1>4, <2>1, <2>5, IdleGood, GotoStep DEF InsertTask, Return
<1>5. CASE CancelTasksForIssue(p)
  <2>1. OthersOK'
    BY <1>5, OthersStay DEF CancelTasksForIssue
  <2>2. RowStep
    BY <1>5 DEF CancelTasksForIssue, Cancel, RowStep, CancelStep
  <2>3. Good(Load(h[p].agent, h[p].work))
    BY <1>1, LoadGood DEF Handler
  <2> QED
    BY <1>5, <2>1, <2>2, <2>3, IdleGood, GotoStep DEF CancelTasksForIssue, Return
<1>6. CASE CancelTasksOfAgent(p)
  <2>1. OthersOK'
    BY <1>6, OthersStay DEF CancelTasksOfAgent
  <2>2. RowStep
    BY <1>6 DEF CancelTasksOfAgent, Cancel, RowStep, CancelStep
  <2> QED
    BY <1>6, <2>1, <2>2, IdleGood, GotoStep DEF CancelTasksOfAgent, Return
<1>7. CASE ReconcileCount(p)
  <2>1. RowStep /\ OthersOK'
    BY <1>7, QuietRows, OthersStay DEF ReconcileCount, dbVars, rowVars, envVars
  <2>2. PICK a \in h[p].agents :
          LET st == IF CountRunningTasks(a) > 0 THEN "working" ELSE "idle"
          IN  Goto(p, [h[p] EXCEPT !.pc = "write", !.agent = a, !.seen = st])
    BY <1>7 DEF ReconcileCount
  <2>3. a \in Agents
    BY <1>1 DEF Handler
  <2>4. ASSUME NEW st \in {"idle", "working"}
        PROVE  Good([h[p] EXCEPT !.pc = "write", !.agent = a, !.seen = st])
    <3> DEFINE s == [h[p] EXCEPT !.pc = "write", !.agent = a, !.seen = st]
    <3>1. s \in Handler
      BY <1>1, <2>3 DEF Handler, PC
    <3>2. s.pc \notin {"select", "update"} /\ LocalOK(s, created)
      BY <1>1, <2>3 DEF LocalOK, Handler
    <3> QED
      BY <3>1, <3>2, GoodNow
  <2> QED
    BY <2>1, <2>2, <2>4, GotoStep
<1>8. CASE ReconcileWrite(p)
  <2>1. OthersOK'
    BY <1>1, <1>8 DEF ReconcileWrite, OthersOK, envVars, Handler
  <2>2. RowStep
    BY <1>8, QuietRows DEF ReconcileWrite
  <2>3. Good(Load(h[p].agent, h[p].work))
    BY <1>1, LoadGood DEF Handler
  <2>4. Good(Reconcile(h[p].agents \ {h[p].agent}))
    BY <1>1, ReconcileGood DEF Handler
  <2> QED
    BY <1>8, <2>1, <2>2, <2>3, <2>4, GotoStep DEF ReconcileWrite
<1>9. CASE CancelForRerun(p)
  <2> DEFINE s == [Idle EXCEPT !.pc = "count", !.agents = {h[p].agent}, !.agent = h[p].agent,
                               !.work = h[p].work, !.then = "load"]
  <2>1. OthersOK'
    BY <1>9, OthersStay DEF CancelForRerun
  <2>2. RowStep
    BY <1>9 DEF CancelForRerun, Cancel, RowStep, CancelStep
  <2>3. h[p].agent \in Agents /\ h[p].work \in Works \cup {None}
    BY <1>1, <1>9 DEF CancelForRerun, At, LocalOK, Handler
  <2>4. Good(s)
    BY <2>3 DEF Good, Idle, Handler, PC, LocalOK
  <2>5. Good(Load(h[p].agent, h[p].work))
    BY <2>3, LoadGood
  <2> QED
    BY <1>9, <2>1, <2>2, <2>4, <2>5, GotoStep DEF CancelForRerun
<1> QED
  BY <1>2, <1>3, <1>4, <1>5, <1>6, <1>7, <1>8, <1>9

LEMMA ClaimStepOK ==
    ASSUME Typed, NEW p \in Procs,
           \/ ClaimCount(p) \/ ClaimSelect(p) \/ ClaimUpdate(p) \/ ClaimReturn(p)
    PROVE  StepOK
PROOF
<1> USE TypedParts
<1>1. h[p] \in Handler /\ LocalOK(h[p], created)
  BY DEF HandlersOK, LocalsOK
<1>2. CASE ClaimCount(p)
  <2>1. RowStep /\ OthersOK'
    BY <1>2, QuietRows, OthersStay DEF ClaimCount, dbVars, rowVars, envVars
  <2>2. CASE Return(p)
    BY <2>1, <2>2, IdleGood, GotoStep DEF Return
  <2>3. ASSUME NEW a \in h[p].agents,
               LET s == [h[p] EXCEPT !.agents = @ \ {a}]
               IN  Goto(p, IF CountRunningTasks(a) >= MaxConcurrent THEN s
                           ELSE [s EXCEPT !.pc = "select", !.agent = a]),
               At(p, "agent")
        PROVE  StepOK
    <3> DEFINE s == [h[p] EXCEPT !.agents = @ \ {a}]
               u == [s EXCEPT !.pc = "select", !.agent = a]
    <3>1. a \in Agents /\ h[p].pc = "agent"
      BY <1>1, <2>3 DEF Handler, At
    <3>2. s \in Handler /\ s.pc = "agent" /\ LocalOK(s, created)
      BY <1>1, <3>1 DEF LocalOK, Handler
    <3>3. u \in Handler
      BY <3>1, <3>2 DEF Handler, PC
    <3>4. u.pc = "select" /\ u.batch = s.batch /\ u.cand = s.cand
      BY <3>2 DEF Handler
    <3>5. LocalOK(u, created)
      BY <3>2, <3>4 DEF LocalOK
    <3>6. CASE CountRunningTasks(a) >= MaxConcurrent
      BY <2>1, <2>3, <3>2, <3>6, GoodNow, GotoStep
    <3>7. CASE ~(CountRunningTasks(a) >= MaxConcurrent)
      <4>1. UNCHANGED rowVars /\ created' = created
        BY <1>2 DEF ClaimCount, dbVars, rowVars
      <4>2. /\ h' \in [Procs -> Handler]
            /\ \A q \in Procs : h'[q] = IF q = p THEN u ELSE h[q]
        BY <2>3, <3>3, <3>7 DEF Goto, HandlersOK
      <4>3. HandlersOK'
        BY <3>5, <4>1, <4>2 DEF HandlersOK, LocalsOK
      <4>4. SnapshotStep
        BY <3>4, <4>2 DEF SnapshotStep, At
      <4>5. u.agent = a
        BY <3>2 DEF Handler
      <4>6. CountRunningTasks(a) < MaxConcurrent
        <5>1. CountRunningTasks(a) \in Nat
          BY CountIsNat DEF CountRunningTasks, TasksIn
        <5> QED
          BY <3>7, <5>1, TaskQueueAssumption
      <4>7. SlotStep
        BY <2>3, <3>4, <4>1, <4>2, <4>5, <4>6 DEF SlotStep
      <4> QED
        BY <2>1, <4>3, <4>4, <4>7 DEF StepOK
    <3> QED
      BY <3>6, <3>7
  <2> QED
    BY <1>2, <2>2, <2>3 DEF ClaimCount
<1>3. CASE ClaimSelect(p)
  <2> DEFINE s == [h[p] EXCEPT !.pc = "update", !.cand = Claimable(h[p].agent)]
  <2>1. RowStep /\ OthersOK'
    BY <1>3, QuietRows, OthersStay DEF ClaimSelect, dbVars, rowVars, envVars
  <2>2. UNCHANGED rowVars /\ created' = created
    BY <1>3 DEF ClaimSelect, dbVars, rowVars
  <2>3. Claimable(h[p].agent) \subseteq 1..created /\ Claimable(h[p].agent) \subseteq TaskId
    BY DEF Claimable, TasksIn, RowsTypeOK, TaskId
  <2>4. s \in Handler /\ s.cand = Claimable(h[p].agent)
    BY <1>1, <2>3 DEF Handler, PC
  <2>5. LocalOK(s, created)
    BY <1>1, <2>3 DEF LocalOK, Handler
  <2>6. /\ h' \in [Procs -> Handler]
        /\ \A q \in Procs : h'[q] = IF q = p THEN s ELSE h[q]
    BY <1>3, <2>4 DEF ClaimSelect, Goto, HandlersOK
  <2>7. HandlersOK'
    BY <2>2, <2>5, <2>6 DEF HandlersOK, LocalsOK
  <2>8. SnapshotStep
    BY <1>3, <2>2, <2>4, <2>6 DEF SnapshotStep, ClaimSelect, At
  <2>9. SlotStep
    <3>1. h[p].pc = "select" /\ s.agent = h[p].agent
      BY <1>1, <1>3 DEF ClaimSelect, At, Handler
    <3> QED
      BY <2>6, <3>1 DEF SlotStep
  <2> QED
    BY <2>1, <2>7, <2>8, <2>9 DEF StepOK
<1>4. CASE ClaimUpdate(p)
  <2>1. OthersOK'
    BY <1>4, OthersStay DEF ClaimUpdate
  <2> DEFINE open == h[p].cand \cap TasksIn({"queued"})
  <2>2. ASSUME NEW t \in open, SetStatus({t}, "dispatched"),
               Goto(p, [h[p] EXCEPT !.pc = "working", !.task = t, !.cand = {}])
        PROVE  StepOK
    <3> DEFINE s == [h[p] EXCEPT !.pc = "working", !.task = t, !.cand = {}]
    <3>2. t \in TaskId /\ t \in 1..created
      BY <1>1 DEF LocalOK, TasksIn
    <3>3. s \in Handler
      BY <1>1, <3>2 DEF Handler, PC
    <3>4. s.pc \notin {"select", "update"} /\ LocalOK(s, created)
      BY <1>1, <3>2 DEF LocalOK, Handler
    <3>5. h'[p] = s
      BY <2>2 DEF Goto, HandlersOK
    <3>1. RowStep
      BY <1>4, <2>2, <3>4, <3>5 DEF ClaimUpdate, RowStep, ClaimStep
    <3> QED
      BY <2>1, <2>2, <3>1, <3>3, <3>4, GoodNow, GotoStep
  <2>3. ASSUME UNCHANGED <<created, row, status>>,
               Goto(p, [h[p] EXCEPT !.pc = "agent", !.agent = None, !.cand = {}])
        PROVE  StepOK
    <3> DEFINE s == [h[p] EXCEPT !.pc = "agent", !.agent = None, !.cand = {}]
    <3>1. RowStep
      BY <1>4, <2>3 DEF ClaimUpdate, RowStep, rowVars
    <3>2. s \in Handler
      BY <1>1 DEF Handler, PC
    <3>3. s.pc \notin {"select", "update"} /\ LocalOK(s, created)
      BY <1>1 DEF LocalOK, Handler
    <3> QED
      BY <2>1, <2>3, <3>1, <3>2, <3>3, GoodNow, GotoStep
  <2> QED
    BY <1>4, <2>2, <2>3 DEF ClaimUpdate
<1>5. CASE ClaimReturn(p)
  <2> DEFINE s == [h[p] EXCEPT !.pc = "agent", !.agent = None, !.task = None]
  <2>1. RowStep
    BY <1>5, QuietRows DEF ClaimReturn
  <2>2. h[p].task \in TaskId
    BY <1>1, <1>5, TaskRowsAssumption DEF ClaimReturn, At, LocalOK, TaskId, RowsTypeOK
  <2>3. delivered' \in SUBSET TaskId
    BY <1>5, <2>2 DEF ClaimReturn, OthersOK
  <2>4. agentStatus' \in [Agents -> {"idle", "working"}]
    BY <1>5 DEF ClaimReturn, OthersOK
  <2>5. OthersOK'
    BY <1>5, <2>3, <2>4 DEF ClaimReturn, OthersOK
  <2>6. s \in Handler
    BY <1>1 DEF Handler, PC
  <2>7. s.pc \notin {"select", "update"} /\ LocalOK(s, created)
    BY <1>1 DEF LocalOK, Handler
  <2>8. Good(s)
    BY <2>6, <2>7, GoodNow
  <2> QED
    BY <1>5, <2>1, <2>5, <2>8, IdleGood, GotoStep DEF ClaimReturn, Return
<1> QED
  BY <1>2, <1>3, <1>4, <1>5

LEMMA FailureStepOK ==
    ASSUME Typed, NEW p \in Procs,
           \/ RetryOne(p) \/ FailOffline(p) \/ BatchRetry(p) \/ BatchGetIssue(p)
           \/ BatchHasActive(p) \/ BatchResetIssue(p) \/ BatchDone(p)
    PROVE  StepOK
PROOF
<1> USE TypedParts
<1>1. h[p] \in Handler /\ LocalOK(h[p], created)
  BY DEF HandlersOK, LocalsOK
<1>2. CASE RetryOne(p)
  <2>1. h[p].task \in 1..created
    BY <1>1, <1>2 DEF RetryOne, At, LocalOK
  <2>2. RowStep
    BY <1>2, <2>1, RetriedStep DEF RetryOne
  <2>3. OthersOK'
    BY <1>2, OthersStay DEF RetryOne
  <2>4. Good(Reconcile({row[h[p].task].agent}))
    BY <2>1, ReconcileGood DEF RowsComplete
  <2> QED
    BY <1>2, <2>2, <2>3, <2>4, GotoStep DEF RetryOne
<1>3. CASE FailOffline(p)
  <2> DEFINE S == {t \in TasksIn(Active) : ~online[row[t].runtime]}
             s == [Idle EXCEPT !.pc = "batch", !.batch = S]
  <2>1. RowStep
    <3>1. Fail(S, "runtime_offline") /\ S \in SUBSET TasksIn(Active)
      BY <1>3 DEF FailOffline
    <3> QED
      BY <3>1, FailEnds DEF Reason, Retryable
  <2>2. OthersOK'
    BY <1>3, OthersStay DEF FailOffline
  <2>3. S \subseteq TaskId /\ S \subseteq 1..created
    BY DEF TasksIn, Active, RowsTypeOK, TaskId
  <2>4. Good(s)
    <3> HIDE DEF S
    <3> QED
      BY <2>3, GoodNow DEF Idle, Handler, PC, LocalOK
  <2> QED
    BY <1>3, <2>1, <2>2, <2>4, IdleGood, GotoStep DEF FailOffline
<1>4. ASSUME NEW t \in 1..created, NEW k \in SUBSET Issues
      PROVE  /\ [h[p] EXCEPT !.pc = "batch", !.task = None, !.batch = @ \ {t}, !.kept = k,
                              !.agents = @ \cup {row[t].agent}] \in Handler
             /\ Good([h[p] EXCEPT !.pc = "batch", !.task = None, !.batch = @ \ {t}, !.kept = k,
                              !.agents = @ \cup {row[t].agent}])
  <2> DEFINE s == [h[p] EXCEPT !.pc = "batch", !.task = None, !.batch = @ \ {t}, !.kept = k,
                               !.agents = @ \cup {row[t].agent}]
  <2>1. row[t].agent \in Agents
    BY DEF RowsComplete
  <2>2. s \in Handler
    BY <1>1, <2>1 DEF Handler, PC
  <2>3. s.pc \notin {"select", "update"} /\ LocalOK(s, created)
    BY <1>1 DEF LocalOK, Handler
  <2> QED
    BY <2>2, <2>3, GoodNow
<1>5. CASE BatchRetry(p)
  <2>1. PICK t \in h[p].batch :
          LET kept == h[p].kept \cup ({row[t].work} \cap Issues)
              go(k) == IF row[t].work \in Issues
                       THEN Goto(p, [h[p] EXCEPT !.pc = "getIssue", !.task = t, !.kept = k])
                       ELSE NextFailed(p, t, k)
          IN  \/ Retried(t) /\ go(kept)
              \/ NotRetried(t) /\ go(h[p].kept)
    BY <1>5 DEF BatchRetry
  <2>2. t \in 1..created /\ t \in TaskId
    BY <1>1 DEF LocalOK, Handler
  <2>3. RowStep
    BY <2>1, <2>2, RetriedStep
  <2>4. OthersOK'
    BY <1>5, OthersStay DEF BatchRetry
  <2>5. ASSUME NEW k \in SUBSET Issues
        PROVE  Good([h[p] EXCEPT !.pc = "getIssue", !.task = t, !.kept = k])
    <3> DEFINE s == [h[p] EXCEPT !.pc = "getIssue", !.task = t, !.kept = k]
    <3>1. s \in Handler
      BY <1>1, <2>2 DEF Handler, PC
    <3>2. s.pc \notin {"select", "update"} /\ LocalOK(s, created)
      BY <1>1, <2>2 DEF LocalOK, Handler
    <3> QED
      BY <3>1, <3>2, GoodNow
  <2>6. PICK k \in SUBSET Issues :
          \/ Goto(p, [h[p] EXCEPT !.pc = "getIssue", !.task = t, !.kept = k])
          \/ NextFailed(p, t, k)
    <3>1. h[p].kept \in SUBSET Issues
      BY <1>1 DEF Handler
    <3>2. h[p].kept \cup ({row[t].work} \cap Issues) \in SUBSET Issues
      BY <3>1
    <3> QED
      BY <2>1, <3>1, <3>2
  <2>7. CASE Goto(p, [h[p] EXCEPT !.pc = "getIssue", !.task = t, !.kept = k])
    BY <2>3, <2>4, <2>5, <2>7, GotoStep
  <2>8. CASE NextFailed(p, t, k)
    BY <1>4, <2>2, <2>3, <2>4, <2>8, GotoStep DEF NextFailed
  <2> QED
    BY <2>6, <2>7, <2>8
<1>6. CASE BatchGetIssue(p)
  <2> DEFINE t == h[p].task
             i == row[t].work
             s == [h[p] EXCEPT !.pc = "hasActive", !.kept = @ \cup {i}]
  <2>1. RowStep /\ OthersOK'
    BY <1>6, QuietRows, OthersStay DEF BatchGetIssue, dbVars, rowVars, envVars
  <2>2. t \in 1..created /\ h[p].kept \in SUBSET Issues
    BY <1>1, <1>6 DEF BatchGetIssue, At, LocalOK, Handler
  <2>3. CASE NextFailed(p, t, h[p].kept)
    BY <1>4, <2>1, <2>2, <2>3, GotoStep DEF NextFailed
  <2>4. CASE i \in Issues /\ Goto(p, s)
    <3>1. s \in Handler
      BY <1>1, <2>4 DEF Handler, PC
    <3>2. s.pc \notin {"select", "update"} /\ LocalOK(s, created)
      BY <1>1, <2>2 DEF LocalOK, Handler
    <3> QED
      BY <2>1, <2>4, <3>1, <3>2, GoodNow, GotoStep
  <2> QED
    BY <1>6, <2>3, <2>4 DEF BatchGetIssue
<1>7. CASE BatchHasActive(p)
  <2> DEFINE s == [h[p] EXCEPT !.pc = "toTodo"]
  <2>1. RowStep /\ OthersOK'
    BY <1>7, QuietRows, OthersStay DEF BatchHasActive, dbVars, rowVars, envVars
  <2>2. h[p].task \in 1..created /\ h[p].kept \in SUBSET Issues
    BY <1>1, <1>7 DEF BatchHasActive, At, LocalOK, Handler
  <2>3. CASE NextFailed(p, h[p].task, h[p].kept)
    BY <1>4, <2>1, <2>2, <2>3, GotoStep DEF NextFailed
  <2>4. CASE Goto(p, s)
    <3>1. s \in Handler
      BY <1>1 DEF Handler, PC
    <3>2. s.pc \notin {"select", "update"} /\ LocalOK(s, created)
      BY <1>1, <2>2 DEF LocalOK, Handler
    <3> QED
      BY <2>1, <2>4, <3>1, <3>2, GoodNow, GotoStep
  <2> QED
    BY <1>7, <2>3, <2>4 DEF BatchHasActive
<1>8. CASE BatchResetIssue(p)
  <2>1. RowStep
    BY <1>8, QuietRows DEF BatchResetIssue
  <2>2. h[p].task \in 1..created /\ h[p].kept \in SUBSET Issues
    BY <1>1, <1>8 DEF BatchResetIssue, At, LocalOK, Handler
  <2>3. issue' \in [Issues -> IssueRow]
    BY <1>8 DEF BatchResetIssue, OthersOK, IssueRow, IssueStatus
  <2>4. OthersOK'
    BY <1>8, <2>3 DEF BatchResetIssue, OthersOK, envVars
  <2> QED
    BY <1>4, <1>8, <2>1, <2>2, <2>4, GotoStep DEF BatchResetIssue, NextFailed
<1>9. CASE BatchDone(p)
  <2>1. RowStep /\ OthersOK'
    BY <1>9, QuietRows, OthersStay DEF BatchDone, dbVars, rowVars, envVars
  <2>2. Good(Reconcile(h[p].agents))
    BY <1>1, ReconcileGood DEF Handler
  <2> QED
    BY <1>9, <2>1, <2>2, GotoStep DEF BatchDone
<1> QED
  BY <1>2, <1>3, <1>5, <1>6, <1>7, <1>8, <1>9

LEMMA DaemonCallStep ==
    ASSUME Typed, NEW p \in Procs, DaemonCall(p)
    PROVE  StepOK
PROOF
<1> USE TypedParts
<1>1. ASSUME NEW t \in TaskId, NEW st \in AgentSets, AgentSetsIssue(p, t, st)
      PROVE  StepOK
  <2> DEFINE i == row[t].work
             e == [prev |-> issue[i], status |-> st,
                   assign |-> FALSE, to |-> None, member |-> FALSE]
  <2>1. RowStep /\ OthersOK'
    BY <1>1, QuietRows, OthersStay DEF AgentSetsIssue, dbVars, rowVars, envVars
  <2>2. i \in Issues
    BY <1>1 DEF AgentSetsIssue
  <2>3. e \in Edit
    BY <2>2, TaskQueueAssumption DEF Edit, OthersOK
  <2>4. Good(Save(i, e))
    BY <2>2, <2>3, SaveGood
  <2> QED
    BY <1>1, <2>1, <2>4, GotoStep DEF AgentSetsIssue
<1>2. ASSUME NEW r \in Runtimes, ClaimTaskForRuntime(p, r)
      PROVE  StepOK
  <2> DEFINE S == AgentsOf({t \in TasksIn(Pending) : row[t].runtime = r})
             s == [Idle EXCEPT !.pc = "agent", !.rt = r, !.agents = S]
  <2>1. RowStep /\ OthersOK'
    BY <1>2, QuietRows, OthersStay DEF ClaimTaskForRuntime, dbVars, rowVars, envVars
  <2>2. S \subseteq Agents
    BY DEF AgentsOf, TasksIn, Pending, RowsTypeOK, RowsComplete, TaskId
  <2>3. Good(s)
    <3> HIDE DEF S
    <3> QED
      BY <2>2 DEF Good, Idle, Handler, PC, LocalOK
  <2> QED
    BY <1>2, <2>1, <2>3, GotoStep DEF ClaimTaskForRuntime
<1>3. ASSUME NEW t \in TaskId, CompleteTask(p, t)
      PROVE  StepOK
  <2>1. t \in TasksIn(Live) /\ row[t].agent \in Agents
    BY <1>3 DEF CompleteTask, TasksIn, Live, RowsTypeOK, RowsComplete, TaskId
  <2>2. RowStep
    <3>1. SetStatus({t}, "completed") /\ UNCHANGED reason
      BY <1>3 DEF CompleteTask
    <3>2. reason' = [u \in TaskId |-> IF u \in {t} THEN reason[t] ELSE reason[u]]
      BY <3>1 DEF RowsTypeOK
    <3>3. reason[t] \in Reason /\ "completed" \in Terminal
      BY DEF RowsTypeOK, Terminal
    <3> QED
      BY <2>1, <3>1, <3>2, <3>3 DEF RowStep, EndStep
  <2>3. OthersOK'
    BY <1>3, OthersStay DEF CompleteTask
  <2>4. Good(Reconcile({row[t].agent}))
    BY <2>1, ReconcileGood
  <2> QED
    BY <1>3, <2>2, <2>3, <2>4, GotoStep DEF CompleteTask
<1>4. ASSUME NEW t \in TaskId, NEW why \in DaemonReasons, FailTask(p, t, why)
      PROVE  StepOK
  <2> DEFINE s == [Idle EXCEPT !.pc = "retry", !.task = t]
  <2>1. t \in TasksIn(Active) /\ t \in 1..created
    BY <1>4 DEF FailTask, TasksIn, Active, RowsTypeOK, TaskId
  <2>2. why \in Reason
    BY TaskQueueAssumption DEF Reason
  <2>3. RowStep
    <3>1. {t} \in SUBSET TasksIn(Active) /\ Fail({t}, why)
      BY <1>4, <2>1 DEF FailTask
    <3> QED
      BY <2>2, <3>1, FailEnds
  <2>4. OthersOK'
    BY <1>4, OthersStay DEF FailTask
  <2>5. Good(s)
    <3>1. s \in Handler
      BY DEF Idle, Handler, PC
    <3>2. s.pc \notin {"select", "update"} /\ LocalOK(s, created)
      BY <2>1 DEF Idle, LocalOK
    <3> QED
      BY <3>1, <3>2, GoodNow
  <2> QED
    BY <1>4, <2>3, <2>4, <2>5, GotoStep DEF FailTask
<1>5. ASSUME NEW r \in Runtimes, RecoverOrphans(p, r)
      PROVE  StepOK
  <2> DEFINE S == {t \in TasksIn(Active) : row[t].runtime = r}
             s == [Idle EXCEPT !.pc = "batch", !.batch = S]
  <2>1. RowStep
    <3>1. S \in SUBSET TasksIn(Active) /\ Fail(S, "runtime_recovery")
      BY <1>5 DEF RecoverOrphans
    <3> QED
      BY <3>1, FailEnds DEF Reason, Retryable
  <2>2. OthersOK'
    BY <1>5 DEF RecoverOrphans, OthersOK
  <2>3. S \subseteq TaskId /\ S \subseteq 1..created
    BY DEF TasksIn, Active, RowsTypeOK, TaskId
  <2>4. Good(s)
    <3> HIDE DEF S
    <3> QED
      BY <2>3, GoodNow DEF Idle, Handler, PC, LocalOK
  <2> QED
    BY <1>5, <2>1, <2>2, <2>4, GotoStep DEF RecoverOrphans
<1> QED
  BY <1>1, <1>2, <1>3, <1>4, <1>5 DEF DaemonCall

LEMMA SweepStep ==
    ASSUME Typed, NEW p \in Procs, Sweep(p)
    PROVE  StepOK
PROOF
<1> USE TypedParts
<1>1. ASSUME NEW S \in SUBSET Runtimes, MarkStaleRuntimes(p, S)
      PROVE  StepOK
  <2>1. OthersOK'
    BY <1>1 DEF MarkStaleRuntimes, OthersOK, envVars
  <2>2. Good([Idle EXCEPT !.pc = "failOffline"])
    BY DEF Good, Idle, Handler, PC, LocalOK
  <2> QED
    BY <1>1, <2>1, <2>2, QuietRows, GotoStep DEF MarkStaleRuntimes
<1>2. ASSUME NEW S \in SUBSET TaskId, SweepStaleTasks(p, S)
      PROVE  StepOK
  <2> DEFINE s == [Idle EXCEPT !.pc = "batch", !.batch = S]
  <2>1. RowStep
    <3>1. S \in SUBSET TasksIn(Active) /\ Fail(S, "timeout")
      BY <1>2 DEF SweepStaleTasks
    <3> QED
      BY <3>1, FailEnds DEF Reason, Retryable
  <2>2. OthersOK'
    BY <1>2, OthersStay DEF SweepStaleTasks
  <2>3. S \subseteq 1..created
    BY <1>2 DEF SweepStaleTasks, TasksIn, Active, RowsTypeOK, TaskId
  <2>4. Good(s)
    BY <2>3, GoodNow DEF Idle, Handler, PC, LocalOK
  <2> QED
    BY <1>2, <2>1, <2>2, <2>4, GotoStep DEF SweepStaleTasks
<1> QED
  BY <1>1, <1>2 DEF Sweep

LEMMA CrashStep ==
    ASSUME Typed, NEW P \in SUBSET Procs, ServerCrash(P)
    PROVE  StepOK
PROOF
<1> USE TypedParts
<1>1. RowStep /\ created' = created
  BY QuietRows DEF ServerCrash, dbVars, rowVars
<1>2. OthersOK'
  BY TaskQueueAssumption DEF ServerCrash, dbVars, OthersOK
<1>3. /\ Idle \in Handler /\ Idle.pc = "idle"
      /\ LocalOK(Idle, created)
  BY DEF Idle, Handler, PC, LocalOK
<1>4. \A q \in Procs : h'[q] = Idle \/ h'[q] = h[q]
  BY DEF ServerCrash
<1>5. h' \in [Procs -> Handler]
  BY <1>3 DEF ServerCrash, HandlersOK
<1>6. HandlersOK'
  BY <1>1, <1>3, <1>4, <1>5 DEF HandlersOK, LocalsOK
<1>7. SnapshotStep /\ SlotStep
  BY <1>3, <1>4 DEF SnapshotStep, SlotStep, At
<1> QED
  BY <1>1, <1>2, <1>6, <1>7 DEF StepOK

-----------------------------------------------------------------------------
(* Every step of the system *)

LEMMA NextStep ==
    ASSUME Typed, [Next]_vars
    PROVE  StepOK
PROOF
<1> USE TypedParts
<1>1. CASE UNCHANGED vars
  BY <1>1, QuietRows, OthersStay, StayStep DEF vars, dbVars, rowVars, envVars
<1>2. ASSUME NEW p \in Procs, Continue(p)
      PROVE  StepOK
  BY <1>2, RequestHandlersStep, ClaimStepOK, FailureStepOK DEF Continue
<1>3. ASSUME NEW t \in TaskId, StartTask(t)
      PROVE  StepOK
  <2>1. RowStep
    BY <1>3 DEF StartTask, RowStep, StartStep
  <2> QED
    BY <1>3, <2>1, OthersStay, StayStep DEF StartTask
<1>4. ASSUME NEW r \in Runtimes, Heartbeat(r) \/ Deregister(r)
      PROVE  StepOK
  <2>1. OthersOK'
    BY <1>4 DEF Heartbeat, Deregister, OthersOK, envVars
  <2> QED
    BY <1>4, <2>1, QuietRows, StayStep DEF Heartbeat, Deregister
<1>5. CASE Quiet
  BY <1>1, <1>5 DEF Quiet
<1> QED
  BY <1>1, <1>2, <1>3, <1>4, <1>5, UserRequestStep, DaemonCallStep, SweepStep, CrashStep
     DEF Next

\* What a step of the system does to the invariant.
LEMMA InvariantStep ==
    ASSUME IInv, [Next]_vars
    PROVE  IInv'
PROOF
<1>1. Typed
  BY DEF IInv, Typed
<1>2. StepOK
  BY <1>1, NextStep
<1>3. RowsTypeOK' /\ RowsComplete'
  BY <1>1, <1>2, TypedParts, RowStepTyped DEF StepOK
<1>4. OnePendingTask' /\ SnapshotStaysValid' /\ SerialPerIssueAgent'
  BY <1>1, <1>2, TypedParts, RowStepSafe DEF StepOK, IInv
<1> QED
  BY <1>2, <1>3, <1>4 DEF StepOK, HandlersOK, OthersOK, IInv, TypeOK

LEMMA InvariantInit ==
    ASSUME Init
    PROVE  IInv
PROOF
<1> USE TaskRowsAssumption, TaskQueueAssumption DEF Init, RowsInit
<1>1. RowsTypeOK
  BY DEF RowsTypeOK, NoRow, Row, Status, Reason, TaskId
<1>2. Idle \in Handler /\ Idle.pc = "idle" /\ LocalOK(Idle, 0)
  BY DEF Idle, Handler, PC, LocalOK
<1>3. issue \in [Issues -> IssueRow]
  BY DEF IssueRow
<1>4. TypeOK
  BY <1>1, <1>2, <1>3 DEF TypeOK
<1>5. LocalsOK /\ RowsComplete
  BY <1>2 DEF LocalsOK, RowsComplete
<1>6. OnePendingTask /\ SnapshotStaysValid /\ SerialPerIssueAgent
  BY <1>2 DEF OnePendingTask, SnapshotStaysValid, SerialPerIssueAgent, TasksIn,
             Pending, Active, At
<1> QED
  BY <1>4, <1>5, <1>6 DEF IInv

-----------------------------------------------------------------------------

\* The inductive invariant holds for every value of the constants: the index
\* on pending tasks and the snapshots of claims in flight agree for ever.
THEOREM InvariantAlways == Spec => []IInv
BY InvariantInit, InvariantStep, PTL DEF Spec

\* Every variable keeps its type.
THEOREM TypesAlways == Spec => []TypeOK
PROOF
<1>1. IInv => TypeOK
  BY DEF IInv
<1> QED
  BY <1>1, InvariantAlways, PTL

\* However many daemons claim, whatever fails, is retried, cancelled or
\* rerun: an agent never runs two tasks of one issue at a time.
THEOREM SerialAlways == Spec => []SerialPerIssueAgent
PROOF
<1>1. IInv => SerialPerIssueAgent
  BY DEF IInv
<1> QED
  BY <1>1, InvariantAlways, PTL

\* A late answer, a sweep, a recovery or a cancellation never changes a task
\* that has ended.
THEOREM EndedTasksStay == Spec => TerminalIsForever
PROOF
<1>1. ASSUME IInv, [Next]_vars
      PROVE  [\A t \in TaskId : status[t] \in Terminal =>
                /\ status'[t] = status[t]
                /\ reason'[t] = reason[t]
                /\ row'[t] = row[t]]_rowVars
  <2>1. Typed /\ RowsTypeOK
    BY <1>1, TypedParts DEF IInv, Typed
  <2>2. RowStep
    BY <1>1, <2>1, NextStep DEF StepOK
  <2> QED
    BY <2>1, <2>2, RowStepTerminal
<1> QED
  BY <1>1, InvariantAlways, PTL DEF Spec, TerminalIsForever

-----------------------------------------------------------------------------
(* The limit on concurrent tasks *)

Running(a)  == {t \in TasksIn(Active) : row[t].agent = a}
ClaimsOf(a) == {p \in Procs : h[p].pc \in {"select", "update"} /\ h[p].agent = a}

LEMMA CandStep ==
    ASSUME Typed, CandOfAgent, RowStep, SnapshotStep, SlotStep
    PROVE  CandOfAgent'
PROOF
<1> SUFFICES ASSUME NEW p \in Procs, h'[p].pc = "update", NEW t \in h'[p].cand
             PROVE  row'[t].agent = h'[p].agent
  BY DEF CandOfAgent, At
<1>1. CASE At(p, "update") /\ h'[p].cand = h[p].cand
  <2>1. t \in 1..created /\ row[t].agent = h[p].agent /\ h'[p].agent = h[p].agent
    BY <1>1, TypedParts DEF CandOfAgent, SlotStep, HandlersOK, LocalsOK, LocalOK, At
  <2> QED
    BY <2>1, TypedParts, RowStepTyped
<1>2. CASE At(p, "select") /\ UNCHANGED rowVars /\ h'[p].cand = Claimable(h[p].agent)
  BY <1>2 DEF SlotStep, At, Claimable, rowVars
<1> QED
  BY <1>1, <1>2 DEF SnapshotStep

\* Tasks of an agent begin to run one by one, each for a claim that ends.
LEMMA RunningStep ==
    ASSUME Typed, CandOfAgent, RowStep, SlotStep, NEW a \in Agents
    PROVE  \/ Running(a)' \subseteq Running(a)
           \/ \E p \in ClaimsOf(a), t \in TaskId :
                 p \notin ClaimsOf(a)' /\ Running(a)' \subseteq Running(a) \cup {t}
PROOF
<1> USE TypedParts, TaskRowsAssumption DEF Running, TasksIn, TaskId, RowsTypeOK
<1>0. \A t \in TaskId : status[t] # "none" => row'[t] = row[t]
  BY RowStepTyped
<1>1. CASE \A t \in TaskId : status'[t] \in Active => status[t] \in Active
  BY <1>0, <1>1 DEF Active
<1>2. CASE UNCHANGED rowVars
  BY <1>1, <1>2 DEF rowVars
<1>3. CASE InsertStep
  BY <1>1, <1>3 DEF InsertStep, Insert, Active
<1>4. CASE ClaimStep
  <2>1. PICK p \in Procs, t \in TasksIn({"queued"}) :
          /\ At(p, "update") /\ t \in h[p].cand
          /\ h'[p].pc \notin {"select", "update"}
          /\ SetStatus({t}, "dispatched")
    BY <1>4 DEF ClaimStep
  <2>2. row[t].agent = h[p].agent /\ t \in TaskId
    BY <2>1 DEF CandOfAgent
  <2>3. \A u \in TaskId \ {t} : status'[u] = status[u] /\ row'[u] = row[u]
    BY <2>1 DEF SetStatus
  <2>4. CASE h[p].agent = a
    BY <2>1, <2>2, <2>3, <2>4 DEF ClaimsOf, At
  <2>5. CASE h[p].agent # a
    BY <2>1, <2>2, <2>3, <2>5 DEF SetStatus
  <2> QED
    BY <2>4, <2>5
<1>5. CASE StartStep
  BY <1>1, <1>5 DEF StartStep, SetStatus, Active
<1>6. CASE EndStep
  BY <1>1, <1>6 DEF EndStep, SetStatus, Active, Terminal
<1>7. CASE CancelStep
  BY <1>1, <1>7 DEF CancelStep, SetStatus, Active
<1> QED
  BY <1>2, <1>3, <1>4, <1>5, <1>6, <1>7 DEF RowStep

LEMMA OvershootStep ==
    ASSUME IsFiniteSet(Procs), Typed, CandOfAgent, OvershootIsBounded, RowStep, SlotStep
    PROVE  OvershootIsBounded'
PROOF
<1> DEFINE N == Cardinality(Procs)
<1> SUFFICES ASSUME NEW a \in Agents
             PROVE  Cardinality(Running(a)') + Cardinality(ClaimsOf(a)')
                       <= MaxConcurrent + N - 1
  BY DEF OvershootIsBounded, CountRunningTasks, InFlight, Running, ClaimsOf
<1>1. /\ IsFiniteSet(ClaimsOf(a)) /\ Cardinality(ClaimsOf(a)) \in Nat
      /\ IsFiniteSet(ClaimsOf(a)') /\ Cardinality(ClaimsOf(a)') \in Nat
      /\ Cardinality(ClaimsOf(a)') <= N /\ N \in Nat
  <2>1. ClaimsOf(a) \in SUBSET Procs /\ ClaimsOf(a)' \in SUBSET Procs
    BY DEF ClaimsOf
  <2> QED
    BY <2>1, FS_Subset, FS_CardinalityType
<1>2. /\ IsFiniteSet(Running(a)) /\ Cardinality(Running(a)) \in Nat
      /\ IsFiniteSet(Running(a)') /\ Cardinality(Running(a)') \in Nat
  <2>1. Running(a) \in SUBSET TaskId /\ Running(a)' \in SUBSET TaskId
    BY DEF Running, TasksIn
  <2> QED
    BY <2>1, CountIsNat
<1>3. MaxConcurrent \in Nat
  BY TaskQueueAssumption
<1>4. Cardinality(Running(a)) + Cardinality(ClaimsOf(a)) <= MaxConcurrent + N - 1
  BY DEF OvershootIsBounded, CountRunningTasks, InFlight, Running, ClaimsOf
<1>5. ASSUME NEW p \in Procs, UNCHANGED rowVars,
             CountRunningTasks(h'[p].agent) < MaxConcurrent, h'[p].agent = a
      PROVE  Cardinality(Running(a)') + Cardinality(ClaimsOf(a)') <= MaxConcurrent + N - 1
  <2>1. Running(a)' = Running(a) /\ Cardinality(Running(a)) < MaxConcurrent
    BY <1>5 DEF Running, TasksIn, rowVars, CountRunningTasks
  <2> QED
    BY <1>1, <1>2, <1>3, <2>1
<1>6. ASSUME ClaimsOf(a)' \subseteq ClaimsOf(a)
      PROVE  Cardinality(Running(a)') + Cardinality(ClaimsOf(a)') <= MaxConcurrent + N - 1
  <2>1. CASE Running(a)' \subseteq Running(a)
    <3>1. Cardinality(Running(a)') <= Cardinality(Running(a))
      BY <1>2, <2>1, FS_Subset
    <3>2. Cardinality(ClaimsOf(a)') <= Cardinality(ClaimsOf(a))
      BY <1>1, <1>6, FS_Subset
    <3> QED
      BY <1>1, <1>2, <1>3, <1>4, <3>1, <3>2
  <2>2. ASSUME NEW p \in ClaimsOf(a), NEW t \in TaskId,
               p \notin ClaimsOf(a)', Running(a)' \subseteq Running(a) \cup {t}
        PROVE  Cardinality(Running(a)') + Cardinality(ClaimsOf(a)') <= MaxConcurrent + N - 1
    <3>1. Cardinality(Running(a)') <= Cardinality(Running(a)) + 1
      <4>0. /\ IsFiniteSet(Running(a) \cup {t})
            /\ Cardinality(Running(a) \cup {t}) =
                  IF t \in Running(a) THEN Cardinality(Running(a))
                                     ELSE Cardinality(Running(a)) + 1
        BY <1>2, FS_AddElement
      <4>1. /\ IsFiniteSet(Running(a) \cup {t})
            /\ Cardinality(Running(a) \cup {t}) \in Nat
            /\ Cardinality(Running(a) \cup {t}) <= Cardinality(Running(a)) + 1
        BY <1>2, <4>0
      <4>2. Cardinality(Running(a)') <= Cardinality(Running(a) \cup {t})
        BY <2>2, <4>1, FS_Subset
      <4> QED
        BY <1>2, <4>1, <4>2
    <3>2. Cardinality(ClaimsOf(a)') <= Cardinality(ClaimsOf(a)) - 1
      <4>1. /\ IsFiniteSet(ClaimsOf(a) \ {p})
            /\ Cardinality(ClaimsOf(a) \ {p}) = Cardinality(ClaimsOf(a)) - 1
        BY <1>1, FS_RemoveElement
      <4>2. ClaimsOf(a)' \in SUBSET (ClaimsOf(a) \ {p})
        BY <1>6, <2>2
      <4> QED
        BY <4>1, <4>2, FS_Subset
    <3> QED
      BY <1>1, <1>2, <1>3, <1>4, <3>1, <3>2
  <2> QED
    BY <2>1, <2>2, RunningStep
<1> QED
  BY <1>5, <1>6 DEF SlotStep, ClaimsOf

\* The limit on concurrent tasks is exceeded by no more than one task for each
\* claim in flight besides the last, for any finite number of handlers.
THEOREM OvershootBounded ==
    ASSUME IsFiniteSet(Procs)
    PROVE  Spec => []OvershootIsBounded
PROOF
<1> DEFINE Inv == IInv /\ CandOfAgent /\ OvershootIsBounded
<1>1. ASSUME Init
      PROVE  Inv
  <2>1. CandOfAgent
    BY <1>1 DEF Init, CandOfAgent, At, Idle
  <2>2. OvershootIsBounded
    <3>1. Cardinality({}) = 0 /\ Cardinality(Procs) \in Nat
      BY FS_EmptySet, FS_CardinalityType
    <3>2. ASSUME NEW a \in Agents
          PROVE  CountRunningTasks(a) = 0 /\ InFlight(a) = 0
      <4>1. Running(a) = {} /\ ClaimsOf(a) = {}
        BY <1>1 DEF Init, RowsInit, Running, ClaimsOf, TasksIn, Active, Idle
      <4> QED
        BY <3>1, <4>1 DEF CountRunningTasks, InFlight, Running, ClaimsOf
    <3> QED
      BY <3>1, <3>2, TaskQueueAssumption DEF OvershootIsBounded
  <2> QED
    BY <1>1, <2>1, <2>2, InvariantInit
<1>2. ASSUME Inv, [Next]_vars
      PROVE  Inv'
  <2>1. Typed
    BY <1>2 DEF IInv, Typed
  <2>2. RowStep /\ SnapshotStep /\ SlotStep
    BY <1>2, <2>1, NextStep DEF StepOK
  <2> QED
    BY <1>2, <2>1, <2>2, InvariantStep, CandStep, OvershootStep
<1>3. Inv => OvershootIsBounded
  OBVIOUS
<1> QED
  BY <1>1, <1>2, <1>3, PTL DEF Spec

-----------------------------------------------------------------------------
(* The queue implements AgentLanes: a step of the table touches the rows of  *)
(* some lanes, and the invariant says that the place it needs is free.       *)

Lane == Agents \X Issues

\* What a lane looks like from outside, and what LaneHolds says of it.
LEMMA LaneValues ==
    ASSUME NEW l \in Lane
    PROVE  /\ laneWaiting[l] <=> LaneHolds(l, "queued")
           /\ laneHolder[l] = IF LaneHolds(l, "running") THEN "running"
                              ELSE IF LaneHolds(l, "dispatched") THEN "dispatched"
                              ELSE "nobody"
           /\ laneWaiting'[l] <=> LaneHolds(l, "queued")'
           /\ laneHolder'[l] = IF LaneHolds(l, "running")' THEN "running"
                               ELSE IF LaneHolds(l, "dispatched")' THEN "dispatched"
                               ELSE "nobody"
PROOF
<1>1. laneWaiting[l] <=> LaneHolds(l, "queued")
  BY DEF laneWaiting, Lane
<1>2. laneWaiting'[l] <=> LaneHolds(l, "queued")'
  BY DEF laneWaiting, Lane
<1> QED
  BY <1>1, <1>2 DEF laneHolder, Lane

LEMMA LaneTypes ==
    /\ laneWaiting' \in [Lane -> BOOLEAN]
    /\ laneHolder' \in [Lane -> Abstract!Holder]
PROOF
<1>1. laneWaiting' \in [Lane -> BOOLEAN]
  BY DEF laneWaiting, Lane, LaneHolds
<1>2. laneHolder' \in [Lane -> Abstract!Holder]
  BY DEF laneHolder, Lane, Abstract!Holder
<1> QED
  BY <1>1, <1>2

\* In a serial lane nobody runs beside a dispatched task.
LEMMA SerialLane ==
    ASSUME SerialPerIssueAgent, NEW l \in Lane
    PROVE  ~(LaneHolds(l, "running") /\ LaneHolds(l, "dispatched"))
BY DEF SerialPerIssueAgent, LaneHolds, Lane, SameLane, TasksIn, Active

\* A lane whose rows are not touched does not move.
LEMMA UntouchedLane ==
    ASSUME NEW l \in Lane,
           \A s \in Live : LaneHolds(l, s)' <=> LaneHolds(l, s)
    PROVE  Abstract!Leave(l)
BY LaneValues DEF Abstract!Leave, Live

\* A lane in which tasks only end loses its holder, its waiting task or both.
LEMMA EndingLane ==
    ASSUME SerialPerIssueAgent, NEW l \in Lane,
           \A s \in Live : LaneHolds(l, s)' => LaneHolds(l, s)
    PROVE  Abstract!Leave(l)
BY LaneValues, SerialLane DEF Abstract!Leave, Live

\* Each step of the table is a step of each lane.
LEMMA LaneStep ==
    ASSUME RowsTypeOK, OnePendingTask, SnapshotStaysValid, SerialPerIssueAgent,
           RowStep, NEW l \in Lane
    PROVE  \/ Abstract!Enqueue(l) \/ Abstract!Claim(l)
           \/ Abstract!Start(l)   \/ Abstract!Leave(l)
PROOF
<1> USE TaskRowsAssumption DEF TaskId
<1>1. CASE UNCHANGED rowVars
  BY <1>1, UntouchedLane DEF rowVars, LaneHolds
<1>2. CASE InsertStep
  <2>1. PICK r \in Row : Insert(r)
    BY <1>2 DEF InsertStep
  <2> DEFINE n == created + 1
  <2>2. /\ n \in TaskId /\ status[n] = "none"
        /\ row' = [row EXCEPT ![n] = r]
        /\ status' = [status EXCEPT ![n] = "queued"]
        /\ IndexAdmits(r.agent, r.work)
    BY <2>1 DEF Insert, RowsTypeOK
  <2>3. \A t \in TaskId : t # n => row'[t] = row[t] /\ status'[t] = status[t]
    BY <2>2 DEF RowsTypeOK
  <2>4. row'[n] = r /\ status'[n] = "queued"
    BY <2>2 DEF RowsTypeOK
  <2>5. \A s \in {"dispatched", "running"} : LaneHolds(l, s)' <=> LaneHolds(l, s)
    BY <2>2, <2>3, <2>4 DEF LaneHolds
  <2>6. CASE l[1] = r.agent /\ l[2] = r.work
    <3>1. ~LaneHolds(l, "queued") /\ ~LaneHolds(l, "dispatched")
      BY <2>2, <2>6 DEF IndexAdmits, HasPendingTask, LaneHolds, TasksIn, Pending, Lane
    <3>2. LaneHolds(l, "queued")'
      BY <2>2, <2>4, <2>6 DEF LaneHolds
    <3> QED
      BY <3>1, <3>2, <2>5, LaneValues DEF Abstract!Enqueue
  <2>7. CASE ~(l[1] = r.agent /\ l[2] = r.work)
    <3>1. LaneHolds(l, "queued")' <=> LaneHolds(l, "queued")
      BY <2>2, <2>3, <2>4, <2>7 DEF LaneHolds
    <3> QED
      BY <3>1, <2>5, UntouchedLane DEF Live
  <2> QED
    BY <2>6, <2>7
<1>3. CASE ClaimStep
  <2>1. PICK q \in Procs, c \in TasksIn({"queued"}) :
          /\ At(q, "update") /\ c \in h[q].cand
          /\ SetStatus({c}, "dispatched")
    BY <1>3 DEF ClaimStep
  <2>2. /\ c \in TaskId /\ status[c] = "queued" /\ status'[c] = "dispatched"
        /\ row' = row
        /\ \A t \in TaskId : t # c => status'[t] = status[t]
    BY <2>1 DEF SetStatus, TasksIn
  <2>3. CASE l[1] = row[c].agent /\ l[2] = row[c].work
    <3>1. row[c].work \in Issues
      BY <2>3 DEF Lane
    <3>2. \A u \in TasksIn(Active) : ~SameLane(c, u)
      BY <2>1, <3>1 DEF SnapshotStaysValid
    <3>3. ~LaneHolds(l, "running") /\ ~LaneHolds(l, "dispatched")
      BY <2>3, <3>1, <3>2 DEF LaneHolds, SameLane, TasksIn, Active
    <3>4. LaneHolds(l, "queued")
      BY <2>2, <2>3 DEF LaneHolds
    <3>5. ~LaneHolds(l, "queued")'
      BY <2>2, <2>3, <3>1 DEF LaneHolds, OnePendingTask, SameLane, TasksIn, Pending
    <3>6. ~LaneHolds(l, "running")' /\ LaneHolds(l, "dispatched")'
      BY <2>2, <2>3, <3>3 DEF LaneHolds
    <3> QED
      BY <3>3, <3>4, <3>5, <3>6, LaneValues DEF Abstract!Claim
  <2>4. CASE ~(l[1] = row[c].agent /\ l[2] = row[c].work)
    BY <2>2, <2>4, UntouchedLane DEF LaneHolds
  <2> QED
    BY <2>3, <2>4
<1>4. CASE StartStep
  <2>1. PICK c \in TasksIn({"dispatched"}) : SetStatus({c}, "running")
    BY <1>4 DEF StartStep
  <2>2. /\ c \in TaskId /\ status[c] = "dispatched" /\ status'[c] = "running"
        /\ row' = row
        /\ \A t \in TaskId : t # c => status'[t] = status[t]
    BY <2>1 DEF SetStatus, TasksIn
  <2>3. CASE l[1] = row[c].agent /\ l[2] = row[c].work
    <3>1. LaneHolds(l, "dispatched") /\ ~LaneHolds(l, "running")
      BY <2>2, <2>3, SerialLane DEF LaneHolds
    <3>2. LaneHolds(l, "running")'
      BY <2>2, <2>3 DEF LaneHolds
    <3>3. LaneHolds(l, "queued")' <=> LaneHolds(l, "queued")
      BY <2>2 DEF LaneHolds
    <3> QED
      BY <3>1, <3>2, <3>3, LaneValues DEF Abstract!Start
  <2>4. CASE ~(l[1] = row[c].agent /\ l[2] = row[c].work)
    BY <2>2, <2>4, UntouchedLane DEF LaneHolds
  <2> QED
    BY <2>3, <2>4
<1>5. ASSUME NEW S, NEW s \in Terminal, SetStatus(S, s)
      PROVE  Abstract!Leave(l)
  <2>1. \A z \in Live : LaneHolds(l, z)' => LaneHolds(l, z)
    BY <1>5 DEF SetStatus, LaneHolds, Live, Terminal
  <2> QED
    BY <2>1, EndingLane
<1>6. CASE EndStep
  BY <1>5, <1>6 DEF EndStep
<1>7. CASE CancelStep
  BY <1>5, <1>7 DEF CancelStep, Terminal
<1> QED
  BY <1>1, <1>2, <1>3, <1>4, <1>6, <1>7 DEF RowStep

LEMMA LanesInit ==
    ASSUME Init
    PROVE  Abstract!Init
BY DEF Init, RowsInit, Abstract!Init, laneWaiting, laneHolder, LaneHolds

\* Seen from outside, the queue is AgentLanes: per agent and issue one task
\* waits at most, one is worked on at most, and tasks move up in no other way,
\* whichever handlers, daemons and sweeps overlap.
THEOREM QueueImplementsLanes == Spec => ImplementsLanes
PROOF
<1>1. ASSUME IInv, [Next]_vars
      PROVE  [Abstract!Next]_<<laneWaiting, laneHolder>>
  <2>1. Typed /\ RowsTypeOK /\ RowStep
    BY <1>1, NextStep, TypedParts DEF IInv, Typed, StepOK
  <2>2. \A l \in Lane : \/ Abstract!Enqueue(l) \/ Abstract!Claim(l)
                        \/ Abstract!Start(l)   \/ Abstract!Leave(l)
    BY <1>1, <2>1, LaneStep DEF IInv
  <2> QED
    BY <2>2, LaneTypes DEF Abstract!Next, Lane
<1> QED
  BY <1>1, LanesInit, InvariantAlways, PTL DEF Spec, ImplementsLanes, Abstract!Spec
=============================================================================
