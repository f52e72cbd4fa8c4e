------------------------ MODULE NativeLifecycleProofs ------------------------
(***************************************************************************)
(* Proofs about runs as servers drive them, for any number of servers,     *)
(* runs, tool calls, crashes and database errors.                          *)
(***************************************************************************)
EXTENDS NativeLifecycle, CoordinatorProofs

-----------------------------------------------------------------------------
(***************************************************************************)
(* The inductive invariant, on top of IInv of the coordinators.            *)
(***************************************************************************)
\* A tool call runs in a server that is up, on records it has registered.
CallsInPlace ==
  \A s \in Server : call[s] # Idle =>
    /\ s \in alive
    /\ call[s].at \in {"register", "gate"} => call[s].pos = 1
    /\ call[s].at # "register" => memTasks[s][call[s].goal] # NoRow

\* Where the execution of a server stands, its command has been run and its
\* evidence made.
Behind(s) ==
  call[s] # Idle =>
    /\ call[s].at \in {"issue", "evidence", "review", "rejected"} => TaskOf(s) \in ran
    /\ call[s].at = "issue" => dispatchTree[TaskOf(s)] \in Tree
    /\ call[s].at = "review" => TaskReceipt(TaskOf(s)) \in evidence

WorkIsBehind == \A s \in Server : Behind(s)

HostInv == LifecycleTypeOK /\ CallsInPlace /\ WorkIsBehind

\* What EvidenceIsGenuine says of one record of task n of run g.
Genuine(g, n, rec) ==
  rec # NoRow /\ rec.status = "VERIFIED" =>
    /\ rec.evidence # {}
    /\ \A e \in rec.evidence :
         /\ e \in evidence
         /\ e.task \in ran
         /\ e.task[2] = g /\ e.task[3] = n
         /\ state[e.task] = "VERIFIED"
         /\ verdict[e.task].receipts = rec.evidence

\* The status _execute_run goes by.
StatusSeen(s, g) == IF memRun[s][g] = NoRow THEN runRow[g] ELSE memRun[s][g]

Settled == {"CANCELLED", "COMPLETED"}
Says(g, n, statuses) == taskRow[g][n] # NoRow /\ taskRow[g][n].status \in statuses

\* A cache never takes a settled run for an open one.
CacheAgrees(s) ==
  \A g \in Goal : runRow[g] \in Settled => StatusSeen(s, g) \in Settled

\* No execution is on a settled run; the tasks behind it are verified in the
\* rows, all of them when it says COMPLETED, and it ends with none in flight.
ExecutionInOrder(s) ==
  call[s] # Idle =>
    /\ runRow[call[s].goal] \notin Settled
    /\ \A i \in 1 .. call[s].pos - 1 : Says(call[s].goal, Roles[i], {"VERIFIED"})
    /\ call[s].at \in {"gate", "finish"} =>
         ~Says(call[s].goal, RoleOf(call[s]), StaleActive)
    /\ call[s].at = "finish" /\ call[s].result = "COMPLETED" =>
         \A n \in Role : Says(call[s].goal, n, {"VERIFIED"})

\* A row in flight is the current task's, or an exception left it.
FlightsAccounted(s) ==
  \A g \in Goal, n \in TaskName : Says(g, n, StaleActive) =>
    \/ <<s, g>> \in raised
    \/ call[s] # Idle /\ call[s].goal = g /\ RoleOf(call[s]) = n

RowsOf(s) == CacheAgrees(s) /\ ExecutionInOrder(s) /\ FlightsAccounted(s)

CompletedRows ==
  \A g \in Goal : runRow[g] = "COMPLETED" => \A n \in Role : Says(g, n, {"VERIFIED"})

\* With one server at a time.
RowsInv ==
  ~overlapped => /\ \A s, u \in alive : s = u
                 /\ \A s \in alive : RowsOf(s)
                 /\ CompletedRows

-----------------------------------------------------------------------------
(* Tasks, runs and the records of a call.                                  *)

\* The chain PM, DEVELOPER, QA.
LEMMA RoleFacts ==
  /\ Len(Roles) = 3
  /\ Roles[1] = "PM" /\ Roles[2] = "DEVELOPER" /\ Roles[3] = "QA"
  /\ Role = {"PM", "DEVELOPER", "QA"}
<1>1. Len(Roles) = 3 /\ Roles[1] = "PM" /\ Roles[2] = "DEVELOPER" /\ Roles[3] = "QA"
  BY DEF Roles
<1>2. 1 .. 3 = {1, 2, 3}
  OBVIOUS
<1> QED
  BY <1>1, <1>2 DEF Role

\* A call under way is on a task of its server and its run.
LEMMA TaskOfFacts ==
  ASSUME LifecycleTypeOK, NEW s \in Server, call[s] # Idle
  PROVE  /\ call[s] \in Execution
         /\ call[s].goal \in Goal
         /\ call[s].pos \in 1 .. 3
         /\ RoleOf(call[s]) \in Role
         /\ TaskOf(s) \in Task
         /\ TaskOf(s) = <<s, call[s].goal, RoleOf(call[s])>>
         /\ RunOf[TaskOf(s)] = <<s, call[s].goal>>
         /\ <<s, call[s].goal>> \in Run
<1>1. call[s] \in Execution
  BY DEF LifecycleTypeOK
<1>2. call[s].goal \in Goal /\ call[s].pos \in 1 .. 3
  BY <1>1, RoleFacts DEF Execution
<1>3. RoleOf(call[s]) \in Role
  BY <1>2, RoleFacts DEF RoleOf
<1>4. TaskOf(s) = <<s, call[s].goal, RoleOf(call[s])>>
  BY DEF TaskOf
<1>5. TaskOf(s) \in Task /\ <<s, call[s].goal>> \in Run
  BY <1>2, <1>3, <1>4, LifecycleAssumption
<1>6. RunOf[TaskOf(s)] = <<s, call[s].goal>>
  BY <1>4, <1>5, LifecycleAssumption
<1> QED
  BY <1>1, <1>2, <1>3, <1>4, <1>5, <1>6

\* The next record of a call, on the way through one task.
LEMMA StepFacts ==
  ASSUME LifecycleTypeOK, NEW s \in Server, call[s] # Idle, call[s].at # "finish",
         NEW step \in ExecutionPoint
  PROVE  /\ Step(s, step) \in Execution
         /\ Step(s, step).at = step
         /\ Step(s, step).goal = call[s].goal
         /\ Step(s, step).pos = call[s].pos
         /\ Step(s, step).cmds = call[s].cmds
<1>1. call[s] \in [at : ExecutionPoint, goal : Goal, pos : 1 .. Len(Roles), cmds : SUBSET Role]
  BY TaskOfFacts DEF Execution
<1> QED
  BY <1>1 DEF Step, Execution

\* The last record of a call.
LEMMA EndedFacts ==
  ASSUME LifecycleTypeOK, NEW s \in Server, call[s] # Idle,
         NEW status \in {"FAILED", "COMPLETED"}
  PROVE  /\ Ended(s, status) \in Execution
         /\ Ended(s, status).at = "finish"
         /\ Ended(s, status).goal = call[s].goal
         /\ Ended(s, status).pos = call[s].pos
         /\ Ended(s, status).result = status
<1>1. call[s].goal \in Goal /\ call[s].pos \in 1 .. Len(Roles)
  BY TaskOfFacts, RoleFacts
<1> QED
  BY <1>1 DEF Ended, Execution

\* After a task comes the next one, or the end.
LEMMA NextTaskFacts ==
  ASSUME LifecycleTypeOK, NEW s \in Server, call[s] # Idle, call[s].at # "finish"
  PROVE  /\ NextTask(s) \in Execution
         /\ NextTask(s).goal = call[s].goal
         /\ \/ /\ call[s].pos < 3
               /\ NextTask(s).at = "freeze"
               /\ NextTask(s).pos = call[s].pos + 1
            \/ /\ call[s].pos = 3
               /\ NextTask(s).at = "finish"
               /\ NextTask(s).pos = 3
               /\ NextTask(s).result = "COMPLETED"
<1>1. call[s] \in [at : ExecutionPoint, goal : Goal, pos : 1 .. 3, cmds : SUBSET Role]
  BY TaskOfFacts, RoleFacts DEF Execution
<1>2. CASE call[s].pos < 3
  <2>1. NextTask(s) = [call[s] EXCEPT !.at = "freeze", !.pos = @ + 1]
    BY <1>2, RoleFacts DEF NextTask
  <2>2. /\ call[s].goal \in Goal /\ call[s].cmds \in SUBSET Role
        /\ call[s].pos + 1 \in 1 .. 3
    BY <1>1, <1>2
  <2>3. NextTask(s) = [at |-> "freeze", goal |-> call[s].goal, pos |-> call[s].pos + 1,
                       cmds |-> call[s].cmds]
    BY <1>1, <2>1
  <2>4. NextTask(s) \in [at : ExecutionPoint, goal : Goal, pos : 1 .. 3, cmds : SUBSET Role]
    BY <2>2, <2>3 DEF ExecutionPoint
  <2> QED
    BY <1>2, <2>3, <2>4, RoleFacts DEF Execution
<1>3. CASE call[s].pos = 3
  <2>1. NextTask(s) = Ended(s, "COMPLETED")
    BY <1>3, RoleFacts DEF NextTask
  <2> QED
    BY <1>3, <2>1, EndedFacts
<1> QED
  BY <1>1, <1>2, <1>3

LEMMA RecFacts ==
  ASSUME NEW status \in TaskStatus, NEW ev \in SUBSET Receipt
  PROVE  /\ Rec(status, ev) \in TaskRecord
         /\ Rec(status, ev) # NoRow
         /\ Rec(status, ev).status = status
         /\ Rec(status, ev).evidence = ev
<1>1. Rec(status, ev) \in TaskRecord
  BY DEF Rec, TaskRecord
<1> QED
  BY <1>1, NoneAssumption DEF Rec

-----------------------------------------------------------------------------
(* Types.                                                                  *)

\* Ending a call in an exception.
LEMMA RaiseTypes ==
  ASSUME LifecycleTypeOK, NEW s \in Server, call[s] # Idle, Raise(s)
  PROVE  /\ call' \in [Server -> Execution \cup {Idle}]
         /\ raised' \subseteq Run
         /\ call'[s] = Idle
         /\ \A u \in Server : u # s => call'[u] = call[u]
         /\ <<s, call[s].goal>> \in raised'
         /\ raised \subseteq raised'
<1>1. <<s, call[s].goal>> \in Run
  BY TaskOfFacts
<1>2. call' = [call EXCEPT ![s] = Idle] /\ raised' = raised \cup {<<s, call[s].goal>>}
  BY DEF Raise, Goto
<1> QED
  BY <1>1, <1>2 DEF LifecycleTypeOK

\* Going on with a call.
LEMMA GotoTypes ==
  ASSUME LifecycleTypeOK, NEW s \in Server, NEW next \in Execution \cup {Idle}, Goto(s, next)
  PROVE  /\ call' \in [Server -> Execution \cup {Idle}]
         /\ call'[s] = next
         /\ \A u \in Server : u # s => call'[u] = call[u]
  BY DEF Goto, LifecycleTypeOK

LEMMA FaultTypes ==
  ASSUME LifecycleTypeOK, Fault
  PROVE  faults' \in 0 .. MaxFaults
  BY LifecycleAssumption DEF Fault, LifecycleTypeOK

\* Saving a record: the cache takes it, the row takes it or the call raises.
LEMMA SaveTypes ==
  ASSUME LifecycleTypeOK, CallsInPlace, NEW s \in Server, call[s] # Idle,
         call[s].at # "register", NEW rec \in TaskRecord, NEW next \in Execution,
         Save(s, rec, next)
  PROVE  LET g == call[s].goal
             n == RoleOf(call[s]) IN
         /\ memTasks' \in [Server -> [Goal -> Board \cup {NoRow}]]
         /\ memTasks'[s][g] \in Board
         /\ memTasks'[s][g] = [memTasks[s][g] EXCEPT ![n] = rec]
         /\ \A h \in Goal : h # g => memTasks'[s][h] = memTasks[s][h]
         /\ \A u \in Server : u # s => memTasks'[u] = memTasks[u]
         /\ taskRow' \in [Goal -> Board]
         /\ call' \in [Server -> Execution \cup {Idle}]
         /\ \A u \in Server : u # s => call'[u] = call[u]
         /\ raised' \subseteq Run
         /\ raised \subseteq raised'
         /\ faults' \in 0 .. MaxFaults
         /\ \/ /\ taskRow' = [taskRow EXCEPT ![g] = [taskRow[g] EXCEPT ![n] = rec]]
               /\ call'[s] = next
               /\ raised' = raised
            \/ /\ taskRow' = taskRow
               /\ call'[s] = Idle
               /\ <<s, g>> \in raised'
<1> DEFINE g == call[s].goal
           n == RoleOf(call[s])
<1>1. g \in Goal /\ n \in Role /\ n \in TaskName
  BY TaskOfFacts DEF TaskName
<1> HIDE DEF g, n
<1>2. memTasks[s][g] \in Board /\ memTasks[s] \in [Goal -> Board \cup {NoRow}] /\ taskRow[g] \in Board
  BY <1>1 DEF LifecycleTypeOK, CallsInPlace, g
<1>3. memTasks' = [memTasks EXCEPT ![s] = [memTasks[s] EXCEPT ![g] = [memTasks[s][g] EXCEPT ![n] = rec]]]
  BY DEF Save, g, n
<1>4. [memTasks[s][g] EXCEPT ![n] = rec] \in Board /\ [taskRow[g] EXCEPT ![n] = rec] \in Board
  BY <1>1, <1>2 DEF Board
<1>5. /\ memTasks' \in [Server -> [Goal -> Board \cup {NoRow}]]
      /\ memTasks'[s][g] = [memTasks[s][g] EXCEPT ![n] = rec]
      /\ \A h \in Goal : h # g => memTasks'[s][h] = memTasks[s][h]
      /\ \A u \in Server : u # s => memTasks'[u] = memTasks[u]
  BY <1>1, <1>2, <1>3, <1>4 DEF LifecycleTypeOK
<1>6. CASE /\ taskRow' = [taskRow EXCEPT ![g][n] = rec]
           /\ Goto(s, next)
           /\ UNCHANGED <<raised, faults>>
  <2>1. taskRow' = [taskRow EXCEPT ![g] = [taskRow[g] EXCEPT ![n] = rec]]
    BY <1>6
  <2>2. taskRow' \in [Goal -> Board]
    BY <1>1, <1>4, <2>1 DEF LifecycleTypeOK
  <2> QED
    BY <1>4, <1>5, <1>6, <2>1, <2>2, GotoTypes DEF LifecycleTypeOK, g, n
<1>7. CASE Fault /\ Raise(s) /\ UNCHANGED taskRow
  BY <1>4, <1>5, <1>7, RaiseTypes, FaultTypes DEF LifecycleTypeOK, g, n
<1> QED
  BY <1>6, <1>7 DEF Save, g, n

\* Saving the status of the run, at the end of a call.
LEMMA SaveStatusTypes ==
  ASSUME LifecycleTypeOK, NEW s \in Server, call[s] # Idle, NEW status \in RunStatus,
         SaveStatus(s, status)
  PROVE  LET g == call[s].goal IN
         /\ memRun' \in [Server -> [Goal -> RunStatus \cup {NoRow}]]
         /\ memRun'[s] = [memRun[s] EXCEPT ![g] = status]
         /\ \A u \in Server : u # s => memRun'[u] = memRun[u]
         /\ runRow' \in [Goal -> RunStatus \cup {NoRow}]
         /\ call' \in [Server -> Execution \cup {Idle}]
         /\ call'[s] = Idle
         /\ \A u \in Server : u # s => call'[u] = call[u]
         /\ raised' \subseteq Run
         /\ raised \subseteq raised'
         /\ faults' \in 0 .. MaxFaults
         /\ \/ runRow' = [runRow EXCEPT ![g] = status]
            \/ runRow' = runRow /\ <<s, g>> \in raised'
<1> DEFINE g == call[s].goal
<1>1. g \in Goal
  BY TaskOfFacts
<1> HIDE DEF g
<1>2. memRun' = [memRun EXCEPT ![s] = [memRun[s] EXCEPT ![g] = status]]
  BY DEF SaveStatus, g
<1>3. /\ memRun' \in [Server -> [Goal -> RunStatus \cup {NoRow}]]
      /\ memRun'[s] = [memRun[s] EXCEPT ![g] = status]
      /\ \A u \in Server : u # s => memRun'[u] = memRun[u]
  BY <1>1, <1>2 DEF LifecycleTypeOK
<1>4. CASE /\ runRow' = [runRow EXCEPT ![g] = status]
           /\ Goto(s, Idle)
           /\ UNCHANGED <<raised, faults>>
  <2>1. runRow' \in [Goal -> RunStatus \cup {NoRow}]
    BY <1>1, <1>4 DEF LifecycleTypeOK
  <2> QED
    BY <1>3, <1>4, <2>1, GotoTypes DEF LifecycleTypeOK, g
<1>5. CASE Fault /\ Raise(s) /\ UNCHANGED runRow
  BY <1>3, <1>5, RaiseTypes, FaultTypes DEF LifecycleTypeOK, g
<1> QED
  BY <1>4, <1>5 DEF SaveStatus, g

-----------------------------------------------------------------------------
(* What a step of an execution does to the coordinators.                   *)

\* Tasks are triples, and their first component is the server.
LEMMA TaskServer ==
  ASSUME NEW t \in Task, NEW s, NEW g, RunOf[t] = <<s, g>>
  PROVE  t[1] = s
  BY LifecycleAssumption

\* A server touches its own tasks only, and leaves what is verified alone.
Untouched(s) ==
  /\ \A t \in Task : t[1] # s =>
       /\ state'[t] = state[t]
       /\ verdict'[t] = verdict[t]
       /\ dispatch'[t] = dispatch[t]
       /\ dispatchTree'[t] = dispatchTree[t]
  /\ \A t \in Task : state[t] = "VERIFIED" =>
       state'[t] = "VERIFIED" /\ verdict'[t] = verdict[t]
  /\ evidence \subseteq evidence'

\* Whatever leaves the aggregates and the registry alone.
LEMMA UntouchedVars ==
  ASSUME NEW s, UNCHANGED <<aggVars, evidence>>
  PROVE  Untouched(s)
  BY DEF aggVars, Untouched

\* Everything a coordinator action of one task changes is that task's.
LEMMA TaskActionTouches ==
  ASSUME IInv, NEW s, NEW t \in Task, t[1] = s,
         \/ Freeze(t)
         \/ \E k \in Key, a \in Allowance : BeginDispatch(t, k, a)
         \/ \E d, tr : ReportProcessSucceeded(t, d, tr)
         \/ \E ev, tr, ok : QaAccept(t, 0, ev, tr, ok)
         \/ \E ev, tr, ok : QaReject(t, 0, ev, tr, ok)
  PROVE  Untouched(s)
<1>1. TypeOK
  BY DEF IInv
<1>2. CASE Freeze(t)
  BY <1>1, <1>2 DEF Freeze, Untouched, TypeOK, registryVars
<1>3. ASSUME NEW k \in Key, NEW a \in Allowance, BeginDispatch(t, k, a) PROVE Untouched(s)
  BY <1>1, <1>3 DEF BeginDispatch, Untouched, TypeOK, registryVars
<1>4. ASSUME NEW d, NEW tr, ReportProcessSucceeded(t, d, tr) PROVE Untouched(s)
  BY <1>1, <1>4 DEF ReportProcessSucceeded, Untouched, TypeOK, registryVars
<1>5. ASSUME NEW ev, NEW tr, NEW ok, QaAccept(t, 0, ev, tr, ok) PROVE Untouched(s)
  BY <1>1, <1>5 DEF QaAccept, Reviewable, Untouched, TypeOK, registryVars
<1>6. ASSUME NEW ev, NEW tr, NEW ok, QaReject(t, 0, ev, tr, ok) PROVE Untouched(s)
  BY <1>1, <1>6 DEF QaReject, Reviewable, Demote, Untouched, TypeOK, registryVars, aggVars
<1> QED
  BY <1>2, <1>3, <1>4, <1>5, <1>6

LEMMA RefusalTouches ==
  ASSUME IInv, NEW s, NEW g, <<s, g>> \in Run, BeginRefused(<<s, g>>)
  PROVE  Untouched(s)
<1>1. TypeOK /\ BeginPending /\ beginning[<<s, g>>] # Idle
  BY DEF IInv, SlotInv, BeginRefused
<1>2. beginning[<<s, g>>].task \in Task
  BY <1>1 DEF TypeOK, Beginning
<1>3. PICK t \in Task : t = beginning[<<s, g>>].task
  BY <1>2
<1>4. RunOf[t] = <<s, g>> /\ state[t] = "DISPATCHED"
  BY <1>1, <1>3 DEF BeginPending
<1>5. t[1] = s
  BY <1>4, TaskServer
<1>6. Demote(t, "RECOVERY_REQUIRED") /\ UNCHANGED evidence
  BY <1>3 DEF BeginRefused, registryVars
<1> QED
  BY <1>1, <1>4, <1>5, <1>6 DEF Demote, Untouched, TypeOK

\* A step of an execution, in its effect on the coordinators.
LEMMA ExecutionTouches ==
  ASSUME IInv, HostInv, NEW s \in Server, ExecutionStep(s)
  PROVE  Untouched(s) /\ ran \subseteq ran'
<1>1. LifecycleTypeOK
  BY DEF HostInv
<1>2. call[s] # Idle
  BY DEF ExecutionStep, RegisterTasks, GateCommandExecution, CreateCoordinator, FreezeTask,
    CommandMissing, BeginTask, ReserveTask, CommandFails, CommandSucceeds, IssueTaskReceipt,
    CreateTaskEvidence, ReviewTask, GiveUpTask, FinishRun, At
<1>3. PICK t \in Task : t = TaskOf(s)
  BY <1>1, <1>2, TaskOfFacts
<1>4. t[1] = s /\ <<s, call[s].goal>> \in Run
  BY <1>1, <1>2, <1>3, TaskOfFacts
<1>5. ran \subseteq ran'
  BY DEF ExecutionStep, RegisterTasks, GateCommandExecution, CreateCoordinator, FreezeTask,
    CommandMissing, BeginTask, ReserveTask, CommandFails, CommandSucceeds, IssueTaskReceipt,
    CreateTaskEvidence, ReviewTask, GiveUpTask, FinishRun
<1>6. CASE UNCHANGED vars
  BY <1>5, <1>6, UntouchedVars DEF vars, registryVars
<1>7. CASE FreezeTask(s)
  BY <1>3, <1>4, <1>5, <1>7, TaskActionTouches DEF FreezeTask
<1>8. CASE BeginTask(s)
  <2>1. CASE \E a \in Allowance : BeginDispatch(t, TheKey, a)
    BY <1>4, <1>5, <2>1, TaskActionTouches, LifecycleAssumption
  <2> QED
    BY <1>3, <1>6, <1>8, <2>1 DEF BeginTask
<1>9. CASE ReserveTask(s)
  <2>1. CASE BeginReserve(<<s, call[s].goal>>)
    BY <1>5, <2>1, UntouchedVars DEF BeginReserve, registryVars
  <2>2. CASE BeginRefused(<<s, call[s].goal>>)
    BY <1>4, <1>5, <2>2, RefusalTouches
  <2> QED
    BY <1>9, <2>1, <2>2 DEF ReserveTask
<1>10. CASE CommandFails(s) \/ GiveUpTask(s)
  BY <1>5, <1>10, UntouchedVars DEF CommandFails, GiveUpTask, ReleaseDispatch, registryVars
<1>11. CASE CommandSucceeds(s)
  BY <1>3, <1>4, <1>5, <1>11, TaskActionTouches DEF CommandSucceeds
<1>12. CASE IssueTaskReceipt(s)
  BY <1>5, <1>12, UntouchedVars DEF IssueTaskReceipt, IssueReceipt
<1>13. CASE CreateTaskEvidence(s)
  BY <1>5, <1>13 DEF CreateTaskEvidence, CreateEvidence, aggVars, Untouched
<1>14. CASE ReviewTask(s)
  BY <1>3, <1>4, <1>5, <1>14, TaskActionTouches DEF ReviewTask
<1> QED
  BY <1>6, <1>7, <1>8, <1>9, <1>10, <1>11, <1>12, <1>13, <1>14
  DEF ExecutionStep, RegisterTasks, GateCommandExecution, CreateCoordinator, CommandMissing,
    FinishRun

-----------------------------------------------------------------------------
(* The lifecycle drives the coordinators as their specification allows.    *)

\* Every step of a server is a step of a coordinator, a crash, or none of its
\* coordinators' business.
LEMMA DrivesCoordinators ==
  ASSUME IInv, HostInv, LifecycleNext
  PROVE  Next \/ UNCHANGED vars
<1>1. LifecycleTypeOK /\ WorkIsBehind /\ TypeOK /\ KeysSpent
  BY DEF HostInv, IInv, SlotInv
<1>2. ASSUME NEW s \in Server, ServerDies(s) PROVE Next
  BY <1>2, LifecycleAssumption DEF ServerDies, Next
<1>3. ASSUME NEW s \in Server, ExecutionStep(s) PROVE Next \/ UNCHANGED vars
  <2>1. call[s] # Idle
    BY <1>3 DEF ExecutionStep, RegisterTasks, GateCommandExecution, CreateCoordinator, FreezeTask,
      CommandMissing, BeginTask, ReserveTask, CommandFails, CommandSucceeds, IssueTaskReceipt,
      CreateTaskEvidence, ReviewTask, GiveUpTask, FinishRun, At
  <2>2. PICK t \in Task : t = TaskOf(s)
    BY <1>1, <2>1, TaskOfFacts
  <2>3. <<s, call[s].goal>> \in Run /\ TheKey \in Key
    BY <1>1, <2>1, TaskOfFacts, LifecycleAssumption
  <2>4. CASE FreezeTask(s)
    BY <2>2, <2>4 DEF FreezeTask, Next, TaskStep
  <2>5. CASE BeginTask(s)
    BY <2>2, <2>3, <2>5 DEF BeginTask, Next, TaskStep
  <2>6. CASE ReserveTask(s)
    BY <2>3, <2>6 DEF ReserveTask, Next, RunStep
  <2>7. CASE CommandFails(s) \/ GiveUpTask(s)
    BY <2>2, <2>7 DEF CommandFails, GiveUpTask, Next, TaskStep
  <2>8. CASE CommandSucceeds(s)
    <3>1. ReportProcessSucceeded(t, dispatch[t], dispatchTree[t])
      BY <2>2, <2>8 DEF CommandSucceeds
    <3>2. PICK k \in usedKeys[t] : dispatch[t] = <<t, k>>
      BY <1>1, <3>1 DEF ReportProcessSucceeded, CurrentDispatch, KeysSpent
    <3>3. dispatchTree[t] \in Tree
      BY <1>1, <3>1 DEF ReportProcessSucceeded, CurrentDispatch, TypeOK
    <3> QED
      BY <3>1, <3>2, <3>3 DEF Next, TaskStep
  <2>9. CASE IssueTaskReceipt(s)
    <3>1. IssueReceipt(t, TheKey, dispatchTree[t], 0) /\ dispatchTree[t] \in Tree
      BY <1>1, <2>1, <2>2, <2>9 DEF IssueTaskReceipt, WorkIsBehind, Behind, At
    <3> QED
      BY <2>3, <3>1 DEF Next, TaskStep
  <2>10. CASE CreateTaskEvidence(s)
    BY <2>10 DEF CreateTaskEvidence, CreateEvidence, Next
  <2>11. CASE ReviewTask(s)
    <3>1. {TaskReceipt(t)} \in SUBSET evidence
      BY <1>1, <2>1, <2>2, <2>11 DEF ReviewTask, WorkIsBehind, Behind, At
    <3>2. 0 \in 0 .. FixRoundCap
      BY DEF FixRoundCap
    <3>3. PICK tr \in Tree, ok \in BOOLEAN :
            QaAccept(t, 0, {TaskReceipt(t)}, tr, ok) \/ QaReject(t, 0, {TaskReceipt(t)}, tr, ok)
      BY <2>2, <2>11 DEF ReviewTask
    <3>4. TaskStep(t)
      BY <3>1, <3>2, <3>3 DEF TaskStep
    <3> QED
      BY <3>4 DEF Next
  <2> QED
    BY <1>3, <2>4, <2>5, <2>6, <2>7, <2>8, <2>9, <2>10, <2>11
    DEF ExecutionStep, RegisterTasks, GateCommandExecution, CreateCoordinator, CommandMissing,
      FinishRun
<1>4. ASSUME NEW s \in Server, RehydrateRunsAndTasks(s) \/ \E g \in Goal : ToolCall(s, g)
      PROVE  UNCHANGED vars
  BY <1>4 DEF RehydrateRunsAndTasks, ToolCall, SubmitGoal, GetRun, ListTasks, CancelRun,
    RejectApproval, ExecuteRun
<1> QED
  BY <1>2, <1>3, <1>4 DEF LifecycleNext

-----------------------------------------------------------------------------
(* The shape of the steps of execute_lifecycle: what each leaves in rows,  *)
(* caches and calls.                                                       *)

TaskPoint == ExecutionPoint \ {"register", "gate"}

\* The steps that work on one task.
OneTaskStep(s) ==
  \/ FreezeTask(s)
  \/ CommandMissing(s)
  \/ BeginTask(s)
  \/ ReserveTask(s)
  \/ CommandFails(s)
  \/ CommandSucceeds(s)
  \/ IssueTaskReceipt(s)
  \/ CreateTaskEvidence(s)
  \/ ReviewTask(s)
  \/ GiveUpTask(s)

\* A record is saved: on the way, at a failure, or when the task is verified.
Saves(s, rec, next) ==
  /\ rec \in TaskRecord
  /\ rec # NoRow
  /\ next \in Execution
  /\ next.goal = call[s].goal
  /\ Save(s, rec, next)
  /\ \/ /\ rec.status # "VERIFIED"
        /\ next.at \in TaskPoint
        /\ next.pos = call[s].pos
     \/ /\ rec.status \notin StaleActive \cup {"VERIFIED"}
        /\ next.at = "finish"
        /\ next.pos = call[s].pos
        /\ next.result = "FAILED"
     \/ /\ rec.status = "VERIFIED"
        /\ call[s].pos < 3
        /\ next.at = "freeze"
        /\ next.pos = call[s].pos + 1
     \/ /\ rec.status = "VERIFIED"
        /\ call[s].pos = 3
        /\ next.at = "finish"
        /\ next.pos = 3
        /\ next.result = "COMPLETED"

\* Nothing is saved.
MovesOn(s, next) ==
  /\ next \in Execution
  /\ next.at \in TaskPoint
  /\ next.goal = call[s].goal
  /\ next.pos = call[s].pos
  /\ Goto(s, next)
  /\ UNCHANGED <<taskRow, memTasks, raised, faults>>

Stops(s) == Raise(s) /\ UNCHANGED <<taskRow, memTasks, faults>>

\* A record that is not VERIFIED, and the next step of the same task.
LEMMA SavesOnTheWay ==
  ASSUME LifecycleTypeOK, NEW s \in Server, call[s] # Idle, call[s].at # "finish",
         NEW status \in TaskStatus \ {"VERIFIED"}, NEW step \in TaskPoint,
         Save(s, Rec(status, {}), Step(s, step))
  PROVE  \E rec, next : Saves(s, rec, next) /\ rec.status # "VERIFIED" /\ next.at = step
<1>1. PICK rec : rec = Rec(status, {})
  OBVIOUS
<1>2. PICK next : next = Step(s, step)
  OBVIOUS
<1>3. rec \in TaskRecord /\ rec # NoRow /\ rec.status = status
  BY <1>1, RecFacts
<1>4. /\ next \in Execution /\ next.at = step
      /\ next.goal = call[s].goal /\ next.pos = call[s].pos
  BY <1>2, StepFacts DEF TaskPoint
<1>5. Saves(s, rec, next)
  BY <1>1, <1>2, <1>3, <1>4 DEF Saves
<1> QED
  BY <1>3, <1>4, <1>5

\* A record of failure, and the end of the run.
LEMMA SavesAtTheEnd ==
  ASSUME LifecycleTypeOK, NEW s \in Server, call[s] # Idle,
         NEW status \in {"FAILED", "UNVERIFIED"},
         Save(s, Rec(status, {}), Ended(s, "FAILED"))
  PROVE  \E rec, next : Saves(s, rec, next) /\ rec.status # "VERIFIED" /\ next.at = "finish"
<1>1. PICK rec : rec = Rec(status, {})
  OBVIOUS
<1>2. PICK next : next = Ended(s, "FAILED")
  OBVIOUS
<1>3. rec \in TaskRecord /\ rec # NoRow /\ rec.status = status
  BY <1>1, RecFacts DEF TaskStatus
<1>4. /\ next \in Execution /\ next.at = "finish" /\ next.result = "FAILED"
      /\ next.goal = call[s].goal /\ next.pos = call[s].pos
  BY <1>2, EndedFacts
<1>5. Saves(s, rec, next)
  BY <1>1, <1>2, <1>3, <1>4 DEF Saves, StaleActive
<1> QED
  BY <1>3, <1>4, <1>5

\* Going on without saving.
LEMMA GoesOn ==
  ASSUME LifecycleTypeOK, NEW s \in Server, call[s] # Idle, call[s].at # "finish",
         NEW step \in TaskPoint, Goto(s, Step(s, step)),
         UNCHANGED <<taskRow, memTasks, raised, faults>>
  PROVE  \E next : MovesOn(s, next) /\ next.at = step
<1>1. PICK next : next = Step(s, step)
  OBVIOUS
<1>2. /\ next \in Execution /\ next.at = step
      /\ next.goal = call[s].goal /\ next.pos = call[s].pos
  BY <1>1, StepFacts DEF TaskPoint
<1> QED
  BY <1>1, <1>2 DEF MovesOn

\* The record of a verified task: the coordinator has just verified it with
\* the evidence the record carries.
LEMMA SavesVerified ==
  ASSUME IInv, HostInv, NEW s \in Server, ReviewTask(s), NEW t \in Task, t = TaskOf(s),
         \E tr, ok : QaAccept(t, 0, {TaskReceipt(t)}, tr, ok),
         Save(s, Rec("VERIFIED", {TaskReceipt(t)}), NextTask(s))
  PROVE  \E rec, next :
           /\ Saves(s, rec, next)
           /\ next.at \in {"freeze", "finish"}
           /\ \A g, n : g = call[s].goal /\ n = RoleOf(call[s]) => Genuine(g, n, rec)'
<1>1. LifecycleTypeOK /\ TypeOK /\ WorkIsBehind
  BY DEF HostInv, IInv
<1>2. call[s] # Idle /\ call[s].at = "review"
  BY DEF ReviewTask, At
<1>3. PICK x : x = TaskReceipt(t)
  OBVIOUS
<1>4. PICK rec : rec = Rec("VERIFIED", {x})
  OBVIOUS
<1>5. PICK next : next = NextTask(s)
  OBVIOUS
<1>6. PICK tr, ok : QaAccept(t, 0, {x}, tr, ok)
  BY <1>3
<1>7. /\ x \in evidence /\ x.task = t
      /\ evidence' = evidence
      /\ state'[t] = "VERIFIED"
      /\ verdict'[t].receipts = {x}
  BY <1>1, <1>6 DEF QaAccept, GatePasses, EvidenceMatches, registryVars, TypeOK
<1>8. x \in Receipt
  BY <1>1, <1>7 DEF TypeOK
<1>9. rec \in TaskRecord /\ rec # NoRow /\ rec.status = "VERIFIED" /\ rec.evidence = {x}
  BY <1>4, <1>8, RecFacts DEF TaskStatus
<1>10. t \in ran /\ ran' = ran
  BY <1>1, <1>2 DEF WorkIsBehind, Behind, ReviewTask
<1>11. t[2] = call[s].goal /\ t[3] = RoleOf(call[s])
  BY DEF TaskOf
<1>12. \A g, n : g = call[s].goal /\ n = RoleOf(call[s]) => Genuine(g, n, rec)'
  BY <1>7, <1>9, <1>10, <1>11 DEF Genuine
<1>13. /\ next \in Execution
       /\ next.goal = call[s].goal
       /\ \/ /\ call[s].pos < 3
             /\ next.at = "freeze"
             /\ next.pos = call[s].pos + 1
          \/ /\ call[s].pos = 3
             /\ next.at = "finish"
             /\ next.pos = 3
             /\ next.result = "COMPLETED"
  BY <1>1, <1>2, <1>5, NextTaskFacts
<1>14. Save(s, rec, next)
  BY <1>3, <1>4, <1>5
<1>15. Saves(s, rec, next)
  BY <1>9, <1>13, <1>14 DEF Saves
<1> QED
  BY <1>12, <1>13, <1>15

\* Every step on a task saves, moves on or stops, and says what it ran.
LEMMA OneTaskShape ==
  ASSUME IInv, HostInv, NEW s \in Server, OneTaskStep(s)
  PROVE  /\ s \in alive /\ call[s] # Idle /\ call[s].at \in TaskPoint
         /\ ServerKeeps
         /\ ran' \subseteq ran \cup {TaskOf(s)}
         /\ call[s].at # "run" => ran' = ran
         /\ \/ \E rec, next :
                 /\ Saves(s, rec, next)
                 /\ next.at \notin {"review"}
                 /\ \A g, n : g = call[s].goal /\ n = RoleOf(call[s]) => Genuine(g, n, rec)'
            \/ \E next : MovesOn(s, next)
            \/ Stops(s)
<1>1. LifecycleTypeOK
  BY DEF HostInv
<1>2. s \in alive /\ call[s] # Idle /\ call[s].at \in TaskPoint
  BY DEF OneTaskStep, FreezeTask, CommandMissing, BeginTask, ReserveTask, CommandFails,
    CommandSucceeds, IssueTaskReceipt, CreateTaskEvidence, ReviewTask, GiveUpTask, At,
    TaskPoint, ExecutionPoint
<1>3. /\ ServerKeeps
      /\ ran' \subseteq ran \cup {TaskOf(s)}
      /\ call[s].at # "run" => ran' = ran
  BY DEF OneTaskStep, FreezeTask, CommandMissing, BeginTask, ReserveTask, CommandFails,
    CommandSucceeds, IssueTaskReceipt, CreateTaskEvidence, ReviewTask, GiveUpTask, At
<1>4. call[s].at # "finish"
  BY <1>2 DEF TaskPoint, ExecutionPoint
<1> DEFINE Shape == \/ \E rec, next :
                         /\ Saves(s, rec, next)
                         /\ next.at \notin {"review"}
                         /\ \A g, n : g = call[s].goal /\ n = RoleOf(call[s]) => Genuine(g, n, rec)'
                    \/ \E next : MovesOn(s, next)
                    \/ Stops(s)
<1>5. ASSUME NEW rec, NEW next, Saves(s, rec, next), rec.status # "VERIFIED", next.at # "review"
      PROVE  Shape
  BY <1>5 DEF Genuine
<1>6. CASE FreezeTask(s)
  <2>1. Save(s, Rec("FROZEN", {}), Step(s, "begin"))
    BY <1>6 DEF FreezeTask
  <2>2. \E rec, next : Saves(s, rec, next) /\ rec.status # "VERIFIED" /\ next.at = "begin"
    BY <1>1, <1>2, <1>4, <2>1, SavesOnTheWay DEF TaskPoint, ExecutionPoint, TaskStatus
  <2> QED
    BY <1>2, <1>3, <1>5, <2>2
<1>7. CASE CommandMissing(s)
  <2>1. Save(s, Rec("FAILED", {}), Ended(s, "FAILED"))
    BY <1>7 DEF CommandMissing
  <2>2. \E rec, next : Saves(s, rec, next) /\ rec.status # "VERIFIED" /\ next.at = "finish"
    BY <1>1, <1>2, <2>1, SavesAtTheEnd
  <2> QED
    BY <1>2, <1>3, <1>5, <2>2
<1>8. CASE BeginTask(s)
  <2>1. UNCHANGED <<taskRow, memTasks, faults>>
    BY <1>8 DEF BeginTask
  <2>2. CASE Goto(s, Step(s, "reserve")) /\ UNCHANGED raised
    <3>1. \E next : MovesOn(s, next)
      BY <1>1, <1>2, <1>4, <2>1, <2>2, GoesOn DEF TaskPoint, ExecutionPoint
    <3> QED
      BY <1>2, <1>3, <3>1
  <2>3. CASE Raise(s)
    BY <1>2, <1>3, <2>1, <2>3 DEF Stops
  <2> QED
    BY <1>8, <2>2, <2>3 DEF BeginTask
<1>9. CASE ReserveTask(s)
  <2>1. CASE Save(s, Rec("DISPATCHED", {}), Step(s, "run"))
    <3>1. \E rec, next : Saves(s, rec, next) /\ rec.status # "VERIFIED" /\ next.at = "run"
      BY <1>1, <1>2, <1>4, <2>1, SavesOnTheWay DEF TaskPoint, ExecutionPoint, TaskStatus
    <3> QED
      BY <1>2, <1>3, <1>5, <3>1
  <2>2. CASE Raise(s) /\ UNCHANGED <<taskRow, memTasks, faults>>
    BY <1>2, <1>3, <2>2 DEF Stops
  <2> QED
    BY <1>9, <2>1, <2>2 DEF ReserveTask
<1>10. CASE CommandFails(s)
  <2>1. Save(s, Rec("FAILED", {}), Ended(s, "FAILED"))
    BY <1>10 DEF CommandFails
  <2>2. \E rec, next : Saves(s, rec, next) /\ rec.status # "VERIFIED" /\ next.at = "finish"
    BY <1>1, <1>2, <2>1, SavesAtTheEnd
  <2> QED
    BY <1>2, <1>3, <1>5, <2>2
<1>11. CASE CommandSucceeds(s)
  <2>1. Save(s, Rec("PROCESS_SUCCEEDED", {}), Step(s, "issue"))
    BY <1>11 DEF CommandSucceeds
  <2>2. \E rec, next : Saves(s, rec, next) /\ rec.status # "VERIFIED" /\ next.at = "issue"
    BY <1>1, <1>2, <1>4, <2>1, SavesOnTheWay DEF TaskPoint, ExecutionPoint, TaskStatus
  <2> QED
    BY <1>2, <1>3, <1>5, <2>2
<1>12. CASE IssueTaskReceipt(s)
  <2>1. \E next : MovesOn(s, next) /\ next.at = "evidence"
    BY <1>1, <1>2, <1>4, <1>12, GoesOn DEF IssueTaskReceipt, TaskPoint, ExecutionPoint
  <2> QED
    BY <1>2, <1>3, <2>1
<1>13. CASE CreateTaskEvidence(s)
  <2>1. \E next : MovesOn(s, next) /\ next.at = "review"
    BY <1>1, <1>2, <1>4, <1>13, GoesOn DEF CreateTaskEvidence, TaskPoint, ExecutionPoint
  <2> QED
    BY <1>2, <1>3, <2>1
<1>14. CASE ReviewTask(s)
  <2>1. PICK t \in Task : t = TaskOf(s)
    BY <1>1, <1>2, TaskOfFacts
  <2>2. CASE /\ \E tr, ok : QaAccept(t, 0, {TaskReceipt(t)}, tr, ok)
             /\ Save(s, Rec("VERIFIED", {TaskReceipt(t)}), NextTask(s))
    <3>1. Shape
      BY <1>14, <2>1, <2>2, SavesVerified
    <3> QED
      BY <1>2, <1>3, <3>1
  <2>3. CASE Goto(s, Step(s, "rejected")) /\ UNCHANGED <<taskRow, memTasks, raised, faults>>
    <3>1. \E next : MovesOn(s, next)
      BY <1>1, <1>2, <1>4, <2>3, GoesOn DEF TaskPoint, ExecutionPoint
    <3> QED
      BY <1>2, <1>3, <3>1
  <2> QED
    BY <1>14, <2>1, <2>2, <2>3 DEF ReviewTask
<1>15. CASE GiveUpTask(s)
  <2>1. Save(s, Rec("UNVERIFIED", {}), Ended(s, "FAILED"))
    BY <1>15 DEF GiveUpTask
  <2>2. \E rec, next : Saves(s, rec, next) /\ rec.status # "VERIFIED" /\ next.at = "finish"
    BY <1>1, <1>2, <2>1, SavesAtTheEnd
  <2> QED
    BY <1>2, <1>3, <1>5, <2>2
<1> QED
  BY <1>6, <1>7, <1>8, <1>9, <1>10, <1>11, <1>12, <1>13, <1>14, <1>15 DEF OneTaskStep

-----------------------------------------------------------------------------
(* Types and places are kept, action by action.                            *)

TypesAndPlaces == LifecycleTypeOK /\ CallsInPlace

LEMMA OneTaskKeepsTypes ==
  ASSUME IInv, HostInv, NEW s \in Server, OneTaskStep(s)
  PROVE  TypesAndPlaces'
<1>1. LifecycleTypeOK /\ CallsInPlace
  BY DEF HostInv
<1>2. /\ s \in alive /\ call[s] # Idle /\ call[s].at \in TaskPoint
      /\ ServerKeeps
      /\ ran' \subseteq ran \cup {TaskOf(s)}
  BY OneTaskShape
<1>3. ran' \subseteq Task
  BY <1>1, <1>2, TaskOfFacts DEF LifecycleTypeOK
<1>4. call[s].at \notin {"register", "gate", "finish"}
  BY <1>2 DEF TaskPoint, ExecutionPoint
<1>5. ASSUME NEW rec, NEW next, Saves(s, rec, next) PROVE TypesAndPlaces'
  <2>1. /\ rec \in TaskRecord /\ next \in Execution /\ Save(s, rec, next)
        /\ next.goal = call[s].goal /\ next.at \notin {"register", "gate"}
    BY <1>5 DEF Saves, TaskPoint
  <2>2. /\ memTasks' \in [Server -> [Goal -> Board \cup {NoRow}]]
        /\ memTasks'[s][call[s].goal] \in Board
        /\ \A u \in Server : u # s => memTasks'[u] = memTasks[u]
        /\ taskRow' \in [Goal -> Board]
        /\ call' \in [Server -> Execution \cup {Idle}]
        /\ \A u \in Server : u # s => call'[u] = call[u]
        /\ raised' \subseteq Run
        /\ faults' \in 0 .. MaxFaults
        /\ call'[s] = next \/ call'[s] = Idle
    BY <1>1, <1>2, <1>4, <2>1, SaveTypes
  <2>3. LifecycleTypeOK'
    BY <1>1, <1>2, <1>3, <2>2 DEF LifecycleTypeOK, ServerKeeps
  <2>4. CallsInPlace'
    BY <1>1, <1>2, <2>1, <2>2, NoneAssumption DEF CallsInPlace, ServerKeeps
  <2> QED
    BY <2>3, <2>4 DEF TypesAndPlaces
<1>6. ASSUME NEW next, MovesOn(s, next) PROVE TypesAndPlaces'
  <2>1. /\ next \in Execution /\ Goto(s, next)
        /\ next.goal = call[s].goal /\ next.at \notin {"register", "gate"}
        /\ UNCHANGED <<taskRow, memTasks, raised, faults>>
    BY <1>6 DEF MovesOn, TaskPoint
  <2>2. /\ call' \in [Server -> Execution \cup {Idle}]
        /\ call'[s] = next
        /\ \A u \in Server : u # s => call'[u] = call[u]
    BY <1>1, <2>1, GotoTypes
  <2>3. LifecycleTypeOK'
    BY <1>1, <1>2, <1>3, <2>1, <2>2 DEF LifecycleTypeOK, ServerKeeps
  <2>4. CallsInPlace'
    BY <1>1, <1>2, <1>4, <2>1, <2>2 DEF CallsInPlace, ServerKeeps
  <2> QED
    BY <2>3, <2>4 DEF TypesAndPlaces
<1>7. CASE Stops(s)
  <2>1. /\ call' \in [Server -> Execution \cup {Idle}]
        /\ raised' \subseteq Run
        /\ call'[s] = Idle
        /\ \A u \in Server : u # s => call'[u] = call[u]
    BY <1>1, <1>2, <1>7, RaiseTypes DEF Stops
  <2>2. LifecycleTypeOK'
    BY <1>1, <1>2, <1>3, <1>7, <2>1 DEF LifecycleTypeOK, ServerKeeps, Stops
  <2>3. CallsInPlace'
    BY <1>1, <1>2, <1>7, <2>1 DEF CallsInPlace, ServerKeeps, Stops
  <2> QED
    BY <2>2, <2>3 DEF TypesAndPlaces
<1> QED
  BY <1>5, <1>6, <1>7, OneTaskShape

\* Registering afresh.
LEMMA FreshFacts ==
  ASSUME NEW old \in Board, NEW k \in 0 .. 3
  PROVE  /\ Fresh(old, k) \in Board
         /\ \A n \in TaskName : Fresh(old, k)[n] \in {old[n], Rec("PENDING", {})}
         /\ k = 3 => \A n \in Role : Fresh(old, k)[n] = Rec("PENDING", {})
<1>1. Rec("PENDING", {}) \in TaskRecord
  BY RecFacts DEF TaskStatus
<1>2. \A n \in TaskName : Fresh(old, k)[n] \in {old[n], Rec("PENDING", {})}
  BY DEF Fresh
<1>3. Fresh(old, k) \in Board
  BY <1>1 DEF Fresh, Board
<1>4. k = 3 => \A n \in Role : Fresh(old, k)[n] = Rec("PENDING", {})
  BY RoleFacts DEF Fresh, TaskName
<1> QED
  BY <1>2, <1>3, <1>4

NoBoard == [n \in TaskName |-> NoRow]

\* What registering the decomposed tasks comes to.
LEMMA RegisterFacts ==
  ASSUME LifecycleTypeOK, NEW s \in Server, RegisterTasks(s)
  PROVE  LET g == call[s].goal IN
         /\ call[s] # Idle /\ call[s].at = "register" /\ s \in alive
         /\ UNCHANGED <<alive, started, runRow, memRun, pending, principals, ran,
                        overlapped, calls>>
         /\ \E k \in 0 .. 3 :
              /\ taskRow' = [taskRow EXCEPT ![g] = Fresh(taskRow[g], k)]
              /\ \/ k < 3 /\ Fault /\ Raise(s) /\ UNCHANGED memTasks
                 \/ /\ k = 3
                    /\ Goto(s, Step(s, "gate"))
                    /\ memTasks' = [memTasks EXCEPT ![s] =
                                      [memTasks[s] EXCEPT ![g] = Fresh(NoBoard, 3)]]
                    /\ UNCHANGED <<raised, faults>>
<1>1. /\ call[s] # Idle /\ call[s].at = "register" /\ s \in alive
      /\ UNCHANGED <<alive, started, runRow, memRun, pending, principals, ran,
                     overlapped, calls>>
  BY DEF RegisterTasks, At
<1>2. call[s].goal \in Goal
  BY <1>1, TaskOfFacts
<1>3. \E k \in 0 .. 3 :
        /\ taskRow' = [taskRow EXCEPT ![call[s].goal] = Fresh(taskRow[call[s].goal], k)]
        /\ \/ k < 3 /\ Fault /\ Raise(s) /\ UNCHANGED memTasks
           \/ /\ k = 3
              /\ Goto(s, Step(s, "gate"))
              /\ memTasks' = [memTasks EXCEPT ![s] =
                                [memTasks[s] EXCEPT ![call[s].goal] = Fresh(NoBoard, 3)]]
              /\ UNCHANGED <<raised, faults>>
  BY RoleFacts DEF RegisterTasks, NoBoard, Step
<1> QED
  BY <1>1, <1>3

LEMMA RegisterKeepsTypes ==
  ASSUME HostInv, NEW s \in Server, RegisterTasks(s)
  PROVE  TypesAndPlaces'
<1>1. LifecycleTypeOK /\ CallsInPlace
  BY DEF HostInv
<1>2. PICK g : g = call[s].goal
  OBVIOUS
<1>3. /\ call[s] # Idle /\ call[s].at = "register" /\ s \in alive
      /\ UNCHANGED <<alive, started, runRow, memRun, pending, principals, ran,
                     overlapped, calls>>
  BY <1>1, RegisterFacts
<1>4. PICK k \in 0 .. 3 :
        /\ taskRow' = [taskRow EXCEPT ![g] = Fresh(taskRow[g], k)]
        /\ \/ k < 3 /\ Fault /\ Raise(s) /\ UNCHANGED memTasks
           \/ /\ k = 3
              /\ Goto(s, Step(s, "gate"))
              /\ memTasks' = [memTasks EXCEPT ![s] =
                                [memTasks[s] EXCEPT ![g] = Fresh(NoBoard, 3)]]
              /\ UNCHANGED <<raised, faults>>
  BY <1>1, <1>2, RegisterFacts
<1>5. g \in Goal
  BY <1>1, <1>2, <1>3, TaskOfFacts
<1>6. Fresh(taskRow[g], k) \in Board
  BY <1>1, <1>5, FreshFacts DEF LifecycleTypeOK
<1>7. taskRow' \in [Goal -> Board]
  BY <1>1, <1>4, <1>5, <1>6 DEF LifecycleTypeOK
<1>8. CASE Fault /\ Raise(s) /\ UNCHANGED memTasks
  <2>1. /\ call' \in [Server -> Execution \cup {Idle}]
        /\ raised' \subseteq Run
        /\ call'[s] = Idle
        /\ \A u \in Server : u # s => call'[u] = call[u]
        /\ faults' \in 0 .. MaxFaults
    BY <1>1, <1>3, <1>8, RaiseTypes, FaultTypes
  <2> QED
    BY <1>1, <1>3, <1>7, <1>8, <2>1 DEF LifecycleTypeOK, CallsInPlace, TypesAndPlaces
<1>9. CASE /\ Goto(s, Step(s, "gate"))
           /\ memTasks' = [memTasks EXCEPT ![s] = [memTasks[s] EXCEPT ![g] = Fresh(NoBoard, 3)]]
           /\ UNCHANGED <<raised, faults>>
  <2>1. PICK next : next = Step(s, "gate")
    OBVIOUS
  <2>2. /\ next \in Execution /\ next.at = "gate"
        /\ next.goal = g /\ next.pos = call[s].pos
    BY <1>1, <1>2, <1>3, <2>1, StepFacts DEF ExecutionPoint
  <2>3. /\ call' \in [Server -> Execution \cup {Idle}]
        /\ call'[s] = next
        /\ \A u \in Server : u # s => call'[u] = call[u]
    BY <1>1, <1>9, <2>1, <2>2, GotoTypes
  <2>4. NoBoard \in Board
    BY DEF NoBoard, Board
  <2>5. Fresh(NoBoard, 3) \in Board
    BY <2>4, FreshFacts
  <2>6. /\ memTasks' \in [Server -> [Goal -> Board \cup {NoRow}]]
        /\ memTasks'[s][g] \in Board
        /\ \A u \in Server : u # s => memTasks'[u] = memTasks[u]
    BY <1>1, <1>5, <1>9, <2>5 DEF LifecycleTypeOK
  <2>7. LifecycleTypeOK'
    BY <1>1, <1>3, <1>7, <1>9, <2>3, <2>6 DEF LifecycleTypeOK
  <2>8. CallsInPlace'
    BY <1>1, <1>3, <2>2, <2>3, <2>6, NoneAssumption DEF CallsInPlace
  <2> QED
    BY <2>7, <2>8 DEF TypesAndPlaces
<1> QED
  BY <1>4, <1>8, <1>9

\* The end of a call: the gate, the coordinator that cannot be made, the save.
LEMMA GateFacts ==
  ASSUME LifecycleTypeOK, NEW s \in Server, GateCommandExecution(s)
  PROVE  /\ call[s] # Idle /\ call[s].at = "gate" /\ s \in alive
         /\ UNCHANGED <<alive, started, taskRow, memTasks, principals, ran, overlapped, calls>>
         /\ pending' \in [Server -> SUBSET Goal]
         /\ \/ SaveStatus(s, "BLOCKED")
            \/ Fault /\ Raise(s) /\ UNCHANGED <<runRow, memRun>>
<1>1. call[s] # Idle /\ call[s].at = "gate" /\ s \in alive
  BY DEF GateCommandExecution, At
<1>2. call[s].goal \in Goal
  BY <1>1, TaskOfFacts
<1>3. pending' = [pending EXCEPT ![s] = @ \cup {call[s].goal}]
  BY DEF GateCommandExecution, Enqueue
<1>4. pending' \in [Server -> SUBSET Goal]
  BY <1>2, <1>3 DEF LifecycleTypeOK
<1>5. \/ SaveStatus(s, "BLOCKED")
      \/ Fault /\ Raise(s) /\ UNCHANGED <<runRow, memRun>>
  BY DEF GateCommandExecution
<1>6. UNCHANGED <<alive, started, taskRow, memTasks, principals, ran, overlapped, calls>>
  BY DEF GateCommandExecution
<1> QED
  BY <1>1, <1>4, <1>5, <1>6

LEMMA GateKeepsTypes ==
  ASSUME HostInv, NEW s \in Server, GateCommandExecution(s)
  PROVE  TypesAndPlaces'
<1>1. LifecycleTypeOK /\ CallsInPlace
  BY DEF HostInv
<1>2. /\ call[s] # Idle /\ s \in alive
      /\ UNCHANGED <<alive, started, taskRow, memTasks, principals, ran, overlapped, calls>>
      /\ pending' \in [Server -> SUBSET Goal]
  BY <1>1, GateFacts
<1>3. CASE SaveStatus(s, "BLOCKED")
  <2>1. /\ memRun' \in [Server -> [Goal -> RunStatus \cup {NoRow}]]
        /\ runRow' \in [Goal -> RunStatus \cup {NoRow}]
        /\ call' \in [Server -> Execution \cup {Idle}]
        /\ call'[s] = Idle
        /\ \A u \in Server : u # s => call'[u] = call[u]
        /\ raised' \subseteq Run
        /\ faults' \in 0 .. MaxFaults
    BY <1>1, <1>2, <1>3, SaveStatusTypes DEF RunStatus
  <2> QED
    BY <1>1, <1>2, <2>1 DEF LifecycleTypeOK, CallsInPlace, TypesAndPlaces
<1>4. CASE Fault /\ Raise(s) /\ UNCHANGED <<runRow, memRun>>
  <2>1. /\ call' \in [Server -> Execution \cup {Idle}]
        /\ raised' \subseteq Run
        /\ call'[s] = Idle
        /\ \A u \in Server : u # s => call'[u] = call[u]
        /\ faults' \in 0 .. MaxFaults
    BY <1>1, <1>2, <1>4, RaiseTypes, FaultTypes
  <2> QED
    BY <1>1, <1>2, <1>4, <2>1 DEF LifecycleTypeOK, CallsInPlace, TypesAndPlaces
<1> QED
  BY <1>1, <1>3, <1>4, GateFacts

LEMMA CreateKeepsTypes ==
  ASSUME HostInv, NEW s \in Server, CreateCoordinator(s)
  PROVE  TypesAndPlaces'
<1>1. LifecycleTypeOK /\ CallsInPlace
  BY DEF HostInv
<1>2. /\ call[s] # Idle /\ call[s].at = "gate" /\ s \in alive
      /\ UNCHANGED <<alive, started, runRow, taskRow, memRun, memTasks, pending, ran,
                     overlapped, calls, faults>>
  BY DEF CreateCoordinator, At
<1>3. principals' \subseteq Run
  BY <1>1, <1>2, TaskOfFacts DEF CreateCoordinator, LifecycleTypeOK
<1>4. CASE Goto(s, Step(s, "freeze")) /\ UNCHANGED raised
  <2>1. PICK next : next = Step(s, "freeze")
    OBVIOUS
  <2>2. next \in Execution /\ next.at = "freeze" /\ next.goal = call[s].goal
    BY <1>1, <1>2, <2>1, StepFacts DEF ExecutionPoint
  <2>3. /\ call' \in [Server -> Execution \cup {Idle}]
        /\ call'[s] = next
        /\ \A u \in Server : u # s => call'[u] = call[u]
    BY <1>1, <1>4, <2>1, <2>2, GotoTypes
  <2>4. LifecycleTypeOK'
    BY <1>1, <1>2, <1>3, <1>4, <2>3 DEF LifecycleTypeOK
  <2>5. CallsInPlace'
    BY <1>1, <1>2, <2>2, <2>3 DEF CallsInPlace
  <2> QED
    BY <2>4, <2>5 DEF TypesAndPlaces
<1>5. CASE Raise(s)
  <2>1. /\ call' \in [Server -> Execution \cup {Idle}]
        /\ raised' \subseteq Run
        /\ call'[s] = Idle
        /\ \A u \in Server : u # s => call'[u] = call[u]
    BY <1>1, <1>2, <1>5, RaiseTypes
  <2> QED
    BY <1>1, <1>2, <1>3, <2>1 DEF LifecycleTypeOK, CallsInPlace, TypesAndPlaces
<1> QED
  BY <1>4, <1>5 DEF CreateCoordinator, Step

LEMMA FinishFacts ==
  ASSUME LifecycleTypeOK, NEW s \in Server, FinishRun(s)
  PROVE  /\ call[s] # Idle /\ call[s].at = "finish" /\ s \in alive
         /\ call[s].result \in {"FAILED", "COMPLETED"}
         /\ call[s].result \in RunStatus
         /\ SaveStatus(s, call[s].result)
         /\ UNCHANGED <<alive, started, taskRow, memTasks, pending, principals, ran,
                        overlapped, calls>>
<1>1. call[s] # Idle /\ call[s].at = "finish" /\ s \in alive
  BY DEF FinishRun, At
<1>2. call[s].result \in {"FAILED", "COMPLETED"}
  BY <1>1, TaskOfFacts DEF Execution, ExecutionPoint
<1> QED
  BY <1>1, <1>2 DEF FinishRun, RunStatus

LEMMA FinishKeepsTypes ==
  ASSUME HostInv, NEW s \in Server, FinishRun(s)
  PROVE  TypesAndPlaces'
<1>1. LifecycleTypeOK /\ CallsInPlace
  BY DEF HostInv
<1>2. /\ call[s] # Idle /\ s \in alive
      /\ call[s].result \in RunStatus
      /\ SaveStatus(s, call[s].result)
      /\ UNCHANGED <<alive, started, taskRow, memTasks, pending, principals, ran,
                     overlapped, calls>>
  BY <1>1, FinishFacts
<1>3. /\ memRun' \in [Server -> [Goal -> RunStatus \cup {NoRow}]]
      /\ runRow' \in [Goal -> RunStatus \cup {NoRow}]
      /\ call' \in [Server -> Execution \cup {Idle}]
      /\ call'[s] = Idle
      /\ \A u \in Server : u # s => call'[u] = call[u]
      /\ raised' \subseteq Run
      /\ faults' \in 0 .. MaxFaults
  BY <1>1, <1>2, SaveStatusTypes
<1> QED
  BY <1>1, <1>2, <1>3 DEF LifecycleTypeOK, CallsInPlace, TypesAndPlaces

\* Cancelling leaves a record as it was, or CANCELLED.
LEMMA CancelledFacts ==
  ASSUME NEW tasks \in Board, NEW old \in Board, NEW k
  PROVE  /\ WithCancelled(tasks, old, k) \in Board
         /\ \A n \in TaskName :
              \/ WithCancelled(tasks, old, k)[n] = old[n]
              \/ /\ WithCancelled(tasks, old, k)[n] \in TaskRecord
                 /\ WithCancelled(tasks, old, k)[n].status = "CANCELLED"
<1>1. ASSUME NEW n \in TaskName
      PROVE  /\ WithCancelled(tasks, old, k)[n] \in TaskRecord \cup {NoRow}
             /\ \/ WithCancelled(tasks, old, k)[n] = old[n]
                \/ /\ WithCancelled(tasks, old, k)[n] \in TaskRecord
                   /\ WithCancelled(tasks, old, k)[n].status = "CANCELLED"
  <2>1. CASE Cancellable(tasks[n]) /\ \E i \in 1 .. k : CancelOrder[i] = n
    <3>1. WithCancelled(tasks, old, k)[n] = Rec("CANCELLED", tasks[n].evidence)
      BY <2>1 DEF WithCancelled
    <3>2. tasks[n] \in TaskRecord
      BY <2>1 DEF Cancellable, Board
    <3>3. tasks[n].evidence \in SUBSET Receipt
      BY <3>2 DEF TaskRecord
    <3> QED
      BY <3>1, <3>3, RecFacts DEF TaskStatus
  <2>2. CASE ~(Cancellable(tasks[n]) /\ \E i \in 1 .. k : CancelOrder[i] = n)
    <3>1. WithCancelled(tasks, old, k)[n] = old[n]
      BY <2>2 DEF WithCancelled
    <3> QED
      BY <3>1 DEF Board
  <2> QED
    BY <2>1, <2>2
<1>2. WithCancelled(tasks, old, k) = [n \in TaskName |-> WithCancelled(tasks, old, k)[n]]
  BY DEF WithCancelled
<1> QED
  BY <1>1, <1>2 DEF Board

\* What cancel_run comes to.
LEMMA CancelFacts ==
  ASSUME LifecycleTypeOK, NEW s \in Server, NEW g \in Goal, CancelRun(s, g)
  PROVE  /\ s \in alive /\ call[s] = Idle
         /\ UNCHANGED <<vars, alive, started, pending, principals, call, ran, overlapped>>
         /\ calls' \in 0 .. MaxCalls /\ faults' \in 0 .. MaxFaults
         /\ raised' \subseteq Run /\ raised \subseteq raised'
         /\ runRow' = [runRow EXCEPT ![g] = "CANCELLED"]
         /\ memRun' = [memRun EXCEPT ![s] = [memRun[s] EXCEPT ![g] = "CANCELLED"]]
         /\ \E tasks \in Board : \E k, l :
              /\ tasks = taskRow[g] \/ tasks = memTasks[s][g]
              /\ taskRow' = [taskRow EXCEPT ![g] = WithCancelled(tasks, taskRow[g], k)]
              /\ memTasks' = [memTasks EXCEPT ![s] = [memTasks[s] EXCEPT ![g] =
                                WithCancelled(tasks, tasks, l)]]
<1>1. PICK tasks : tasks = (IF memTasks[s][g] = NoRow THEN taskRow[g] ELSE memTasks[s][g])
  OBVIOUS
<1>2. tasks \in Board /\ (tasks = taskRow[g] \/ tasks = memTasks[s][g])
  <2>1. memTasks[s][g] \in Board \cup {NoRow} /\ taskRow[g] \in Board
    BY DEF LifecycleTypeOK
  <2> QED
    BY <1>1, <2>1
<1>3. PICK k \in 0 .. Len(CancelOrder) :
        /\ IF k < Len(CancelOrder) THEN Fault ELSE UNCHANGED faults
        /\ taskRow' = [taskRow EXCEPT ![g] = WithCancelled(tasks, @, k)]
        /\ memTasks' = [memTasks EXCEPT ![s][g] =
             WithCancelled(tasks, tasks, IF k < Len(CancelOrder) THEN k + 1 ELSE k)]
        /\ raised' = IF k < Len(CancelOrder) THEN raised \cup {<<s, g>>} ELSE raised
  BY <1>1 DEF CancelRun
<1>4. faults' \in 0 .. MaxFaults
  <2>1. CASE Fault
    BY <2>1, FaultTypes
  <2>2. CASE UNCHANGED faults
    BY <2>2 DEF LifecycleTypeOK
  <2> QED
    BY <1>3, <2>1, <2>2
<1>5. raised' \subseteq Run /\ raised \subseteq raised'
  <2>1. <<s, g>> \in Run
    BY LifecycleAssumption
  <2> QED
    BY <1>3, <2>1 DEF LifecycleTypeOK
<1>6. \E l : memTasks' = [memTasks EXCEPT ![s] = [memTasks[s] EXCEPT ![g] =
                            WithCancelled(tasks, tasks, l)]]
  BY <1>3
<1>7. taskRow' = [taskRow EXCEPT ![g] = WithCancelled(tasks, taskRow[g], k)]
  BY <1>3
<1>8. calls' \in 0 .. MaxCalls
  BY LifecycleAssumption DEF CancelRun, Free, LifecycleTypeOK
<1>9. /\ s \in alive /\ call[s] = Idle
      /\ UNCHANGED <<vars, alive, started, pending, principals, call, ran, overlapped>>
      /\ runRow' = [runRow EXCEPT ![g] = "CANCELLED"]
      /\ memRun' = [memRun EXCEPT ![s] = [memRun[s] EXCEPT ![g] = "CANCELLED"]]
  BY DEF CancelRun, Free
<1> QED
  BY <1>2, <1>4, <1>5, <1>6, <1>7, <1>8, <1>9

LEMMA CancelKeepsTypes ==
  ASSUME HostInv, NEW s \in Server, NEW g \in Goal, CancelRun(s, g)
  PROVE  TypesAndPlaces'
<1>1. LifecycleTypeOK /\ CallsInPlace
  BY DEF HostInv
<1>2. /\ s \in alive /\ call[s] = Idle
      /\ UNCHANGED <<vars, alive, started, pending, principals, call, ran, overlapped>>
      /\ calls' \in 0 .. MaxCalls /\ faults' \in 0 .. MaxFaults
      /\ raised' \subseteq Run
      /\ runRow' = [runRow EXCEPT ![g] = "CANCELLED"]
      /\ memRun' = [memRun EXCEPT ![s] = [memRun[s] EXCEPT ![g] = "CANCELLED"]]
  BY <1>1, CancelFacts
<1>3. PICK tasks, k, l :
        /\ tasks \in Board
        /\ tasks = taskRow[g] \/ tasks = memTasks[s][g]
        /\ taskRow' = [taskRow EXCEPT ![g] = WithCancelled(tasks, taskRow[g], k)]
        /\ memTasks' = [memTasks EXCEPT ![s] = [memTasks[s] EXCEPT ![g] =
                          WithCancelled(tasks, tasks, l)]]
  BY <1>1, CancelFacts, SMTT(60)
<1>4. WithCancelled(tasks, taskRow[g], k) \in Board /\ WithCancelled(tasks, tasks, l) \in Board
  BY <1>1, <1>3, CancelledFacts DEF LifecycleTypeOK
<1>5. /\ taskRow' \in [Goal -> Board]
      /\ memTasks' \in [Server -> [Goal -> Board \cup {NoRow}]]
      /\ \A u \in Server : u # s => memTasks'[u] = memTasks[u]
  BY <1>1, <1>3, <1>4 DEF LifecycleTypeOK
<1>6. /\ runRow' \in [Goal -> RunStatus \cup {NoRow}]
      /\ memRun' \in [Server -> [Goal -> RunStatus \cup {NoRow}]]
  BY <1>1, <1>2 DEF LifecycleTypeOK, RunStatus
<1>7. LifecycleTypeOK'
  BY <1>1, <1>2, <1>5, <1>6 DEF LifecycleTypeOK
<1>8. CallsInPlace'
  BY <1>1, <1>2, <1>5 DEF CallsInPlace
<1> QED
  BY <1>7, <1>8 DEF TypesAndPlaces

FirstBoard == [n \in TaskName |-> IF n = "initial" THEN Rec("PENDING", {}) ELSE NoRow]

LEMMA FirstBoardFacts ==
  FirstBoard \in Board /\ \A n \in TaskName : FirstBoard[n] \in {NoRow, Rec("PENDING", {})}
<1>1. Rec("PENDING", {}) \in TaskRecord
  BY RecFacts DEF TaskStatus
<1> QED
  BY <1>1 DEF FirstBoard, Board

\* What submit_goal comes to.
LEMMA SubmitFacts ==
  ASSUME LifecycleTypeOK, NEW s \in Server, NEW g \in Goal, SubmitGoal(s, g)
  PROVE  /\ s \in alive /\ call[s] = Idle
         /\ UNCHANGED <<vars, alive, started, pending, principals, call, ran, raised, overlapped>>
         /\ calls' \in 0 .. MaxCalls /\ faults' \in 0 .. MaxFaults
         /\ runRow[g] = NoRow
         /\ runRow' = [runRow EXCEPT ![g] = "SUBMITTED"]
         /\ taskRow' = taskRow \/ taskRow' = [taskRow EXCEPT ![g] = FirstBoard]
         /\ \/ memRun' = memRun /\ memTasks' = memTasks
            \/ /\ memRun' = [memRun EXCEPT ![s] = [memRun[s] EXCEPT ![g] = "SUBMITTED"]]
               /\ memTasks' = [memTasks EXCEPT ![s] = [memTasks[s] EXCEPT ![g] = FirstBoard]]
<1>1. calls' \in 0 .. MaxCalls
  BY LifecycleAssumption DEF SubmitGoal, Free, LifecycleTypeOK
<1>2. CASE /\ taskRow' = [taskRow EXCEPT ![g] = FirstBoard]
           /\ memRun' = [memRun EXCEPT ![s][g] = "SUBMITTED"]
           /\ memTasks' = [memTasks EXCEPT ![s][g] = FirstBoard]
           /\ UNCHANGED faults
  BY <1>1, <1>2 DEF SubmitGoal, Free, LifecycleTypeOK
<1>3. CASE /\ taskRow' \in {taskRow, [taskRow EXCEPT ![g] = FirstBoard]}
           /\ Fault
           /\ UNCHANGED <<memRun, memTasks>>
  BY <1>1, <1>3, FaultTypes DEF SubmitGoal, Free
<1> QED
  BY <1>2, <1>3 DEF SubmitGoal, FirstBoard

LEMMA SubmitKeepsTypes ==
  ASSUME HostInv, NEW s \in Server, NEW g \in Goal, SubmitGoal(s, g)
  PROVE  TypesAndPlaces'
<1>1. LifecycleTypeOK /\ CallsInPlace
  BY DEF HostInv
<1>2. /\ s \in alive /\ call[s] = Idle
      /\ UNCHANGED <<vars, alive, started, pending, principals, call, ran, raised, overlapped>>
      /\ calls' \in 0 .. MaxCalls /\ faults' \in 0 .. MaxFaults
      /\ runRow' = [runRow EXCEPT ![g] = "SUBMITTED"]
      /\ taskRow' = taskRow \/ taskRow' = [taskRow EXCEPT ![g] = FirstBoard]
      /\ \/ memRun' = memRun /\ memTasks' = memTasks
         \/ /\ memRun' = [memRun EXCEPT ![s] = [memRun[s] EXCEPT ![g] = "SUBMITTED"]]
            /\ memTasks' = [memTasks EXCEPT ![s] = [memTasks[s] EXCEPT ![g] = FirstBoard]]
  BY <1>1, SubmitFacts
<1>3. taskRow' \in [Goal -> Board] /\ runRow' \in [Goal -> RunStatus \cup {NoRow}]
  BY <1>1, <1>2, FirstBoardFacts DEF LifecycleTypeOK, RunStatus
<1>4. /\ memRun' \in [Server -> [Goal -> RunStatus \cup {NoRow}]]
      /\ memTasks' \in [Server -> [Goal -> Board \cup {NoRow}]]
      /\ \A u \in Server : u # s => memTasks'[u] = memTasks[u]
  <2>1. CASE memRun' = memRun /\ memTasks' = memTasks
    BY <1>1, <2>1 DEF LifecycleTypeOK
  <2>2. CASE /\ memRun' = [memRun EXCEPT ![s] = [memRun[s] EXCEPT ![g] = "SUBMITTED"]]
             /\ memTasks' = [memTasks EXCEPT ![s] = [memTasks[s] EXCEPT ![g] = FirstBoard]]
    <3>1. memRun' \in [Server -> [Goal -> RunStatus \cup {NoRow}]]
      BY <1>1, <2>2 DEF LifecycleTypeOK, RunStatus
    <3> QED
      BY <1>1, <2>2, <3>1, FirstBoardFacts DEF LifecycleTypeOK
  <2> QED
    BY <1>2, <2>1, <2>2
<1>5. LifecycleTypeOK'
  BY <1>1, <1>2, <1>3, <1>4 DEF LifecycleTypeOK
<1>6. CallsInPlace'
  BY <1>1, <1>2, <1>4 DEF CallsInPlace
<1> QED
  BY <1>5, <1>6 DEF TypesAndPlaces

\* get_run and list_tasks: the caches take what the rows say.
LEMMA ReadFacts ==
  ASSUME LifecycleTypeOK, NEW s \in Server, NEW g \in Goal, GetRun(s, g) \/ ListTasks(s, g)
  PROVE  /\ s \in alive /\ call[s] = Idle
         /\ UNCHANGED <<vars, alive, started, runRow, taskRow, pending, principals, call,
                        ran, raised, overlapped, faults>>
         /\ calls' \in 0 .. MaxCalls
         /\ runRow[g] # NoRow
         /\ \/ memRun' = memRun
            \/ /\ memRun[s][g] = NoRow
               /\ memRun' = [memRun EXCEPT ![s] = [memRun[s] EXCEPT ![g] = runRow[g]]]
         /\ \/ memTasks' = memTasks
            \/ memTasks' = [memTasks EXCEPT ![s] = [memTasks[s] EXCEPT ![g] = taskRow[g]]]
<1>1. calls' \in 0 .. MaxCalls
  BY LifecycleAssumption DEF GetRun, ListTasks, Free, LifecycleTypeOK
<1>2. CASE ListTasks(s, g)
  BY <1>1, <1>2 DEF ListTasks, Free
<1>3. CASE GetRun(s, g)
  <2>1. memTasks' = [memTasks EXCEPT ![s] = [memTasks[s] EXCEPT ![g] =
                       IF memTasks[s][g] = NoRow THEN taskRow[g] ELSE memTasks[s][g]]]
    BY <1>3 DEF GetRun
  <2>2. CASE memTasks[s][g] = NoRow
    BY <1>1, <1>3, <2>1, <2>2 DEF GetRun, Free
  <2>3. CASE memTasks[s][g] # NoRow
    <3>1. memTasks' = memTasks
      BY <2>1, <2>3 DEF LifecycleTypeOK
    <3> QED
      BY <1>1, <1>3, <3>1 DEF GetRun, Free
  <2> QED
    BY <2>2, <2>3
<1> QED
  BY <1>2, <1>3

LEMMA ReadKeepsTypes ==
  ASSUME HostInv, NEW s \in Server, NEW g \in Goal, GetRun(s, g) \/ ListTasks(s, g)
  PROVE  TypesAndPlaces'
<1>1. LifecycleTypeOK /\ CallsInPlace
  BY DEF HostInv
<1>2. /\ s \in alive /\ call[s] = Idle
      /\ UNCHANGED <<vars, alive, started, runRow, taskRow, pending, principals, call,
                     ran, raised, overlapped, faults>>
      /\ calls' \in 0 .. MaxCalls
      /\ \/ memRun' = memRun
         \/ memRun' = [memRun EXCEPT ![s] = [memRun[s] EXCEPT ![g] = runRow[g]]]
      /\ \/ memTasks' = memTasks
         \/ memTasks' = [memTasks EXCEPT ![s] = [memTasks[s] EXCEPT ![g] = taskRow[g]]]
  BY <1>1, ReadFacts
<1>3. memRun' \in [Server -> [Goal -> RunStatus \cup {NoRow}]]
  BY <1>1, <1>2 DEF LifecycleTypeOK
<1>4. /\ memTasks' \in [Server -> [Goal -> Board \cup {NoRow}]]
      /\ \A u \in Server : u # s => memTasks'[u] = memTasks[u]
  <2>1. CASE memTasks' = memTasks
    BY <1>1, <2>1 DEF LifecycleTypeOK
  <2>2. CASE memTasks' = [memTasks EXCEPT ![s] = [memTasks[s] EXCEPT ![g] = taskRow[g]]]
    <3>1. taskRow[g] \in Board
      BY <1>1 DEF LifecycleTypeOK
    <3> QED
      BY <1>1, <2>2, <3>1 DEF LifecycleTypeOK
  <2> QED
    BY <1>2, <2>1, <2>2
<1>5. LifecycleTypeOK'
  BY <1>1, <1>2, <1>3, <1>4 DEF LifecycleTypeOK
<1>6. CallsInPlace'
  BY <1>1, <1>2, <1>4 DEF CallsInPlace
<1> QED
  BY <1>5, <1>6 DEF TypesAndPlaces

LEMMA RejectKeepsTypes ==
  ASSUME HostInv, NEW s \in Server, NEW g \in Goal, RejectApproval(s, g)
  PROVE  TypesAndPlaces'
<1>1. LifecycleTypeOK /\ CallsInPlace
  BY DEF HostInv
<1>2. calls' \in 0 .. MaxCalls
  BY <1>1, LifecycleAssumption DEF RejectApproval, Free, LifecycleTypeOK
<1>3. pending' \in [Server -> SUBSET Goal]
  BY <1>1 DEF RejectApproval, LifecycleTypeOK
<1> QED
  BY <1>1, <1>2, <1>3 DEF RejectApproval, LifecycleTypeOK, CallsInPlace, TypesAndPlaces

\* The rows of a run without those of pending tasks.
Kept(g) == [n \in TaskName |-> IF taskRow[g][n] # NoRow /\ taskRow[g][n].status = "PENDING"
                               THEN NoRow ELSE taskRow[g][n]]

\* What the beginning of _execute_run comes to.
LEMMA ExecuteFacts ==
  ASSUME LifecycleTypeOK, NEW s \in Server, NEW g \in Goal, NEW cmds \in CommandMaps,
         ExecuteRun(s, g, cmds)
  PROVE  /\ s \in alive /\ call[s] = Idle
         /\ UNCHANGED <<vars, alive, started, runRow, memTasks, pending, principals, ran,
                        raised, overlapped>>
         /\ calls' \in 0 .. MaxCalls /\ faults' \in 0 .. MaxFaults
         /\ StatusSeen(s, g) \in RunStatus /\ StatusSeen(s, g) \notin Settled
         /\ memRun' = [memRun EXCEPT ![s] = [memRun[s] EXCEPT ![g] = StatusSeen(s, g)]]
         /\ taskRow' = taskRow \/ taskRow' = [taskRow EXCEPT ![g] = Kept(g)]
         /\ Kept(g) \in Board
         /\ \E next \in Execution :
              /\ next.at = "register" /\ next.goal = g /\ next.pos = 1
              /\ call' = [call EXCEPT ![s] = next]
<1>1. calls' \in 0 .. MaxCalls
  BY LifecycleAssumption DEF ExecuteRun, Free, LifecycleTypeOK
<1>2. /\ s \in alive /\ call[s] = Idle
      /\ UNCHANGED <<vars, alive, started, runRow, memTasks, pending, principals, ran,
                     raised, overlapped>>
      /\ StatusSeen(s, g) # NoRow /\ StatusSeen(s, g) \notin Finished
      /\ memRun' = [memRun EXCEPT ![s] = [memRun[s] EXCEPT ![g] = StatusSeen(s, g)]]
  BY DEF ExecuteRun, Free, StatusSeen
<1>3. StatusSeen(s, g) \in RunStatus /\ StatusSeen(s, g) \notin Settled
  BY <1>2 DEF StatusSeen, LifecycleTypeOK, Finished, Settled
<1>4. /\ taskRow' = taskRow \/ taskRow' = [taskRow EXCEPT ![g] = Kept(g)]
      /\ faults' \in 0 .. MaxFaults
  BY FaultTypes DEF ExecuteRun, Kept, LifecycleTypeOK
<1>5. Kept(g) \in Board
  BY DEF Kept, Board, LifecycleTypeOK
<1>6. PICK next : next = [at |-> "register", goal |-> g, pos |-> 1, cmds |-> cmds]
  OBVIOUS
<1>7. cmds \in SUBSET Role
  BY LifecycleAssumption
<1>8. next \in Execution /\ next.at = "register" /\ next.goal = g /\ next.pos = 1
  BY <1>6, <1>7, RoleFacts DEF Execution, ExecutionPoint
<1>9. call' = [call EXCEPT ![s] = next]
  BY <1>6 DEF ExecuteRun, Goto
<1> QED
  BY <1>1, <1>2, <1>3, <1>4, <1>5, <1>8, <1>9

LEMMA ExecuteKeepsTypes ==
  ASSUME HostInv, NEW s \in Server, NEW g \in Goal, NEW cmds \in CommandMaps,
         ExecuteRun(s, g, cmds)
  PROVE  TypesAndPlaces'
<1>1. LifecycleTypeOK /\ CallsInPlace
  BY DEF HostInv
<1>2. /\ s \in alive /\ call[s] = Idle
      /\ UNCHANGED <<vars, alive, started, runRow, memTasks, pending, principals, ran,
                     raised, overlapped>>
      /\ calls' \in 0 .. MaxCalls /\ faults' \in 0 .. MaxFaults
      /\ StatusSeen(s, g) \in RunStatus
      /\ memRun' = [memRun EXCEPT ![s] = [memRun[s] EXCEPT ![g] = StatusSeen(s, g)]]
      /\ taskRow' = taskRow \/ taskRow' = [taskRow EXCEPT ![g] = Kept(g)]
      /\ Kept(g) \in Board
  BY <1>1, ExecuteFacts
<1>3. PICK next \in Execution :
        /\ next.at = "register" /\ next.goal = g /\ next.pos = 1
        /\ call' = [call EXCEPT ![s] = next]
  BY <1>1, ExecuteFacts
<1>4. /\ memRun' \in [Server -> [Goal -> RunStatus \cup {NoRow}]]
      /\ taskRow' \in [Goal -> Board]
      /\ call' \in [Server -> Execution \cup {Idle}]
  BY <1>1, <1>2, <1>3, SMTT(60) DEF LifecycleTypeOK
<1>5. LifecycleTypeOK'
  BY <1>1, <1>2, <1>4 DEF LifecycleTypeOK
<1>6. call'[s] = next /\ \A u \in Server : u # s => call'[u] = call[u]
  BY <1>1, <1>3 DEF LifecycleTypeOK
<1>7. CallsInPlace'
  BY <1>1, <1>2, <1>3, <1>6 DEF CallsInPlace
<1> QED
  BY <1>5, <1>7 DEF TypesAndPlaces

-----------------------------------------------------------------------------
(* Servers start and die.                                                  *)

\* A reset row is as it was, or RECOVERY_REQUIRED; none is in flight.
LEMMA ResetFacts ==
  ASSUME LifecycleTypeOK
  PROVE  /\ ResetStaleActiveTasks(taskRow) \in [Goal -> Board]
         /\ \A g \in Goal, n \in TaskName :
              \/ /\ ResetStaleActiveTasks(taskRow)[g][n] = taskRow[g][n]
                 /\ ~Says(g, n, StaleActive)
              \/ /\ ResetStaleActiveTasks(taskRow)[g][n] # NoRow
                 /\ ResetStaleActiveTasks(taskRow)[g][n].status = "RECOVERY_REQUIRED"
                 /\ Says(g, n, StaleActive)
<1>1. ASSUME NEW g \in Goal, NEW n \in TaskName
      PROVE  /\ ResetStaleActiveTasks(taskRow)[g][n] \in TaskRecord \cup {NoRow}
             /\ \/ /\ ResetStaleActiveTasks(taskRow)[g][n] = taskRow[g][n]
                   /\ ~Says(g, n, StaleActive)
                \/ /\ ResetStaleActiveTasks(taskRow)[g][n] # NoRow
                   /\ ResetStaleActiveTasks(taskRow)[g][n].status = "RECOVERY_REQUIRED"
                   /\ Says(g, n, StaleActive)
  <2>1. taskRow[g][n] \in TaskRecord \cup {NoRow}
    BY DEF LifecycleTypeOK, Board
  <2>2. CASE Says(g, n, StaleActive)
    <3>1. ResetStaleActiveTasks(taskRow)[g][n] = [taskRow[g][n] EXCEPT !.status = "RECOVERY_REQUIRED"]
      BY <2>2 DEF ResetStaleActiveTasks, Says
    <3>2. taskRow[g][n] \in TaskRecord
      BY <2>1, <2>2 DEF Says
    <3>3. /\ ResetStaleActiveTasks(taskRow)[g][n] \in TaskRecord
          /\ ResetStaleActiveTasks(taskRow)[g][n].status = "RECOVERY_REQUIRED"
      BY <3>1, <3>2 DEF TaskRecord, TaskStatus
    <3> QED
      BY <2>2, <3>3, NoneAssumption
  <2>3. CASE ~Says(g, n, StaleActive)
    BY <2>1, <2>3 DEF ResetStaleActiveTasks, Says
  <2> QED
    BY <2>2, <2>3
<1>2. ASSUME NEW g \in Goal PROVE ResetStaleActiveTasks(taskRow)[g] \in Board
  <2>1. ResetStaleActiveTasks(taskRow)[g] =
          [n \in TaskName |-> ResetStaleActiveTasks(taskRow)[g][n]]
    BY DEF ResetStaleActiveTasks
  <2> QED
    BY <1>1, <2>1 DEF Board
<1>3. ResetStaleActiveTasks(taskRow) = [g \in Goal |-> ResetStaleActiveTasks(taskRow)[g]]
  BY DEF ResetStaleActiveTasks
<1> QED
  BY <1>1, <1>2, <1>3

LEMMA RehydrateFacts ==
  ASSUME LifecycleTypeOK, NEW s \in Server, RehydrateRunsAndTasks(s)
  PROVE  /\ s \notin started /\ started' = started \cup {s}
         /\ alive' = alive \cup {s}
         /\ overlapped' = (overlapped \/ alive # {})
         /\ UNCHANGED <<vars, runRow, pending, principals, call, ran, raised, calls, faults>>
         /\ taskRow' = ResetStaleActiveTasks(taskRow)
         /\ taskRow' \in [Goal -> Board]
         /\ memRun' = [memRun EXCEPT ![s] = runRow]
         /\ memTasks' \in [Server -> [Goal -> Board \cup {NoRow}]]
         /\ \A u \in Server : u # s => memTasks'[u] = memTasks[u]
         /\ \A g \in Goal : memTasks'[s][g] \in {NoRow, taskRow'[g]}
<1>1. taskRow' = ResetStaleActiveTasks(taskRow)
  BY DEF RehydrateRunsAndTasks
<1>2. taskRow' \in [Goal -> Board]
  BY <1>1, ResetFacts
<1>3. PICK boards : boards = [g \in Goal |-> Loaded(taskRow', g)]
  OBVIOUS
<1>4. boards \in [Goal -> Board \cup {NoRow}] /\ \A g \in Goal : boards[g] \in {NoRow, taskRow'[g]}
  BY <1>2, <1>3 DEF Loaded
<1>5. memTasks' = [memTasks EXCEPT ![s] = boards]
  BY <1>3 DEF RehydrateRunsAndTasks
<1>6. /\ memTasks' \in [Server -> [Goal -> Board \cup {NoRow}]]
      /\ memTasks'[s] = boards
      /\ \A u \in Server : u # s => memTasks'[u] = memTasks[u]
  BY <1>4, <1>5 DEF LifecycleTypeOK
<1> QED
  BY <1>1, <1>2, <1>4, <1>6 DEF RehydrateRunsAndTasks

LEMMA RehydrateKeepsTypes ==
  ASSUME HostInv, NEW s \in Server, RehydrateRunsAndTasks(s)
  PROVE  TypesAndPlaces'
<1>1. LifecycleTypeOK /\ CallsInPlace
  BY DEF HostInv
<1>2. /\ s \notin started /\ started' = started \cup {s}
      /\ alive' = alive \cup {s}
      /\ overlapped' = (overlapped \/ alive # {})
      /\ UNCHANGED <<vars, runRow, pending, principals, call, ran, raised, calls, faults>>
      /\ taskRow' \in [Goal -> Board]
      /\ memRun' = [memRun EXCEPT ![s] = runRow]
      /\ memTasks' \in [Server -> [Goal -> Board \cup {NoRow}]]
      /\ \A u \in Server : u # s => memTasks'[u] = memTasks[u]
  BY <1>1, RehydrateFacts
<1>3. memRun' \in [Server -> [Goal -> RunStatus \cup {NoRow}]]
  BY <1>1, <1>2 DEF LifecycleTypeOK
<1>4. overlapped' \in BOOLEAN
  BY <1>1, <1>2 DEF LifecycleTypeOK
<1>5. started' \subseteq Server /\ alive' \subseteq started'
  BY <1>1, <1>2 DEF LifecycleTypeOK
<1>6. LifecycleTypeOK'
  BY <1>1, <1>2, <1>3, <1>4, <1>5 DEF LifecycleTypeOK
<1>7. s \notin alive
  BY <1>1, <1>2 DEF LifecycleTypeOK
<1>8. CallsInPlace'
  BY <1>1, <1>2, <1>7 DEF CallsInPlace
<1> QED
  BY <1>6, <1>8 DEF TypesAndPlaces

LEMMA DeathKeepsTypes ==
  ASSUME HostInv, NEW s \in Server, ServerDies(s)
  PROVE  /\ TypesAndPlaces'
         /\ s \in alive /\ alive' = alive \ {s}
         /\ call'[s] = Idle
         /\ \A u \in Server : u # s =>
              /\ call'[u] = call[u]
              /\ memRun'[u] = memRun[u]
              /\ memTasks'[u] = memTasks[u]
         /\ \A g \in Goal : memTasks'[s][g] = NoRow
         /\ UNCHANGED <<started, runRow, taskRow, principals, ran, raised, overlapped,
                        calls, faults>>
<1>1. LifecycleTypeOK /\ CallsInPlace
  BY DEF HostInv
<1>2. /\ s \in alive /\ alive' = alive \ {s}
      /\ memRun' = [memRun EXCEPT ![s] = [g \in Goal |-> NoRow]]
      /\ memTasks' = [memTasks EXCEPT ![s] = [g \in Goal |-> NoRow]]
      /\ pending' = [pending EXCEPT ![s] = {}]
      /\ call' = [call EXCEPT ![s] = Idle]
      /\ UNCHANGED <<started, runRow, taskRow, principals, ran, raised, overlapped,
                     calls, faults>>
  BY DEF ServerDies
<1>3. /\ memRun' \in [Server -> [Goal -> RunStatus \cup {NoRow}]]
      /\ memTasks' \in [Server -> [Goal -> Board \cup {NoRow}]]
      /\ pending' \in [Server -> SUBSET Goal]
      /\ call' \in [Server -> Execution \cup {Idle}]
  BY <1>1, <1>2 DEF LifecycleTypeOK
<1>4. LifecycleTypeOK'
  BY <1>1, <1>2, <1>3 DEF LifecycleTypeOK
<1>5. /\ call'[s] = Idle
      /\ \A u \in Server : u # s =>
           /\ call'[u] = call[u]
           /\ memRun'[u] = memRun[u]
           /\ memTasks'[u] = memTasks[u]
      /\ \A g \in Goal : memTasks'[s][g] = NoRow
  BY <1>1, <1>2 DEF LifecycleTypeOK
<1>6. CallsInPlace'
  BY <1>1, <1>2, <1>5 DEF CallsInPlace
<1> QED
  BY <1>2, <1>4, <1>5, <1>6 DEF TypesAndPlaces

\* Types and places are kept by every step.
LEMMA TypesStep ==
  ASSUME IInv, HostInv, LifecycleNext
  PROVE  TypesAndPlaces'
<1>1. ASSUME NEW s \in Server, ExecutionStep(s) PROVE TypesAndPlaces'
  BY <1>1, OneTaskKeepsTypes, RegisterKeepsTypes, GateKeepsTypes, CreateKeepsTypes,
    FinishKeepsTypes DEF ExecutionStep, OneTaskStep
<1>2. ASSUME NEW s \in Server, NEW g \in Goal, ToolCall(s, g) PROVE TypesAndPlaces'
  BY <1>2, SubmitKeepsTypes, ReadKeepsTypes, CancelKeepsTypes, RejectKeepsTypes,
    ExecuteKeepsTypes DEF ToolCall
<1> QED
  BY <1>1, <1>2, RehydrateKeepsTypes, DeathKeepsTypes DEF LifecycleNext

-----------------------------------------------------------------------------
(* The command has been run and the evidence made before they are used.    *)

\* The calls of the other servers.
LEMMA BehindElsewhere ==
  ASSUME HostInv, NEW s \in Server, Untouched(s), ran \subseteq ran',
         NEW u \in Server, u # s, call'[u] = call[u]
  PROVE  Behind(u)'
<1> SUFFICES ASSUME call[u] # Idle PROVE Behind(u)'
  BY DEF Behind
<1>1. Behind(u) /\ LifecycleTypeOK
  BY DEF HostInv, WorkIsBehind
<1>2. PICK t \in Task : t = TaskOf(u)
  BY <1>1, TaskOfFacts
<1>3. t[1] = u /\ TaskOf(u)' = t
  BY <1>2 DEF TaskOf, RoleOf
<1>4. dispatch'[t] = dispatch[t] /\ dispatchTree'[t] = dispatchTree[t] /\ evidence \subseteq evidence'
  BY <1>3 DEF Untouched
<1>5. PICK x : x = TaskReceipt(t)
  OBVIOUS
<1>6. TaskReceipt(TaskOf(u))' = x
  BY <1>3, <1>4, <1>5 DEF TaskReceipt
<1> QED
  BY <1>1, <1>2, <1>3, <1>4, <1>5, <1>6 DEF Behind

\* A call that is over, or not yet at the work.
LEMMA BehindEarly ==
  ASSUME NEW u, call'[u] = Idle \/ call'[u].at \notin {"issue", "evidence", "review", "rejected"}
  PROVE  Behind(u)'
  BY DEF Behind

\* A call that goes on with its task.
LEMMA SameTask ==
  ASSUME LifecycleTypeOK, NEW s \in Server, call[s] # Idle, call[s].at # "finish",
         NEW step \in ExecutionPoint, Goto(s, Step(s, step))
  PROVE  /\ call'[s].at = step
         /\ TaskOf(s)' = TaskOf(s)
<1>1. PICK next : next = Step(s, step)
  OBVIOUS
<1>2. /\ next \in Execution /\ next.at = step
      /\ next.goal = call[s].goal /\ next.pos = call[s].pos
  BY <1>1, StepFacts
<1>3. call'[s] = next
  BY <1>1, <1>2, GotoTypes
<1> QED
  BY <1>2, <1>3 DEF TaskOf, RoleOf

\* A saved record, and the call goes on or raises.
LEMMA SaveGoes ==
  ASSUME LifecycleTypeOK, NEW s \in Server, call[s] # Idle, NEW rec, NEW next, Save(s, rec, next)
  PROVE  Goto(s, next) \/ call'[s] = Idle
  BY RaiseTypes DEF Save

LEMMA BehindHere ==
  ASSUME IInv, HostInv, NEW s \in Server, ExecutionStep(s)
  PROVE  Behind(s)'
<1>1. LifecycleTypeOK /\ Behind(s) /\ TypeOK /\ CallsInPlace
  BY DEF HostInv, IInv, WorkIsBehind
<1>2. call[s] # Idle
  BY DEF ExecutionStep, RegisterTasks, GateCommandExecution, CreateCoordinator, FreezeTask,
    CommandMissing, BeginTask, ReserveTask, CommandFails, CommandSucceeds, IssueTaskReceipt,
    CreateTaskEvidence, ReviewTask, GiveUpTask, FinishRun, At
<1>3. PICK t \in Task : t = TaskOf(s)
  BY <1>1, <1>2, TaskOfFacts
<1>4. ASSUME Goto(s, Step(s, "begin")) \/ Goto(s, Step(s, "reserve")) \/ Goto(s, Step(s, "run"))
               \/ Goto(s, Step(s, "gate")) \/ Goto(s, Step(s, "freeze")),
             call[s].at # "finish"
      PROVE  Behind(s)'
  BY <1>1, <1>2, <1>4, SameTask, BehindEarly DEF ExecutionPoint
<1>5. ASSUME Goto(s, Ended(s, "FAILED")) PROVE Behind(s)'
  <2>1. call'[s] = Ended(s, "FAILED")
    BY <1>1, <1>2, <1>5, EndedFacts, GotoTypes
  <2>2. call'[s].at = "finish"
    BY <1>1, <1>2, <2>1, EndedFacts
  <2> QED
    BY <2>2, BehindEarly
<1>6. ASSUME Goto(s, NextTask(s)), call[s].at = "review" PROVE Behind(s)'
  <2>1. call'[s] = NextTask(s)
    BY <1>1, <1>2, <1>6, NextTaskFacts, GotoTypes
  <2>2. call'[s].at \in {"freeze", "finish"}
    BY <1>1, <1>2, <1>6, <2>1, NextTaskFacts
  <2> QED
    BY <2>2, BehindEarly
<1>7. CASE call'[s] = Idle
  BY <1>7, BehindEarly
<1>8. CASE RegisterTasks(s)
  BY <1>1, <1>2, <1>4, <1>7, <1>8, RaiseTypes DEF RegisterTasks, At, Step
<1>9. CASE GateCommandExecution(s)
  BY <1>1, <1>2, <1>7, <1>9, RaiseTypes, SaveStatusTypes DEF GateCommandExecution, RunStatus
<1>10. CASE CreateCoordinator(s)
  BY <1>1, <1>2, <1>4, <1>7, <1>10, RaiseTypes DEF CreateCoordinator, At, Step
<1>11. CASE FreezeTask(s)
  BY <1>1, <1>2, <1>4, <1>7, <1>11, SaveGoes DEF FreezeTask, At
<1>12. CASE CommandMissing(s) \/ CommandFails(s) \/ GiveUpTask(s)
  BY <1>1, <1>2, <1>5, <1>7, <1>12, SaveGoes DEF CommandMissing, CommandFails, GiveUpTask
<1>13. CASE BeginTask(s)
  BY <1>1, <1>2, <1>4, <1>7, <1>13, RaiseTypes DEF BeginTask, At
<1>14. CASE ReserveTask(s)
  BY <1>1, <1>2, <1>4, <1>7, <1>14, SaveGoes, RaiseTypes DEF ReserveTask, At
<1>15. CASE CommandSucceeds(s)
  <2>1. ReportProcessSucceeded(t, dispatch[t], dispatchTree[t]) /\ t \in ran'
    BY <1>3, <1>15 DEF CommandSucceeds
  <2>2. dispatchTree'[t] \in Tree
    BY <1>1, <2>1 DEF ReportProcessSucceeded, CurrentDispatch, TypeOK
  <2>3. CASE Goto(s, Step(s, "issue"))
    <3>1. call'[s].at = "issue" /\ TaskOf(s)' = t
      BY <1>1, <1>2, <1>3, <1>15, <2>3, SameTask DEF ExecutionPoint, CommandSucceeds, At
    <3> QED
      BY <2>1, <2>2, <3>1 DEF Behind
  <2> QED
    BY <1>1, <1>2, <1>7, <1>15, <2>3, SaveGoes DEF CommandSucceeds
<1>16. CASE IssueTaskReceipt(s)
  <2>1. t \in ran' /\ call[s].at = "issue" /\ Goto(s, Step(s, "evidence"))
    BY <1>1, <1>2, <1>3, <1>16 DEF IssueTaskReceipt, Behind, At
  <2>2. call'[s].at = "evidence" /\ TaskOf(s)' = t
    BY <1>1, <1>2, <1>3, <2>1, SameTask DEF ExecutionPoint
  <2> QED
    BY <2>1, <2>2 DEF Behind
<1>17. CASE CreateTaskEvidence(s)
  <2>1. t \in ran' /\ call[s].at = "evidence" /\ Goto(s, Step(s, "review"))
    BY <1>1, <1>2, <1>3, <1>17 DEF CreateTaskEvidence, Behind, At
  <2>2. call'[s].at = "review" /\ TaskOf(s)' = t
    BY <1>1, <1>2, <1>3, <2>1, SameTask DEF ExecutionPoint
  <2>3. PICK x : x = TaskReceipt(t)
    OBVIOUS
  <2>4. x \in evidence' /\ UNCHANGED <<dispatch, dispatchTree>>
    BY <1>3, <1>17, <2>3 DEF CreateTaskEvidence, CreateEvidence, aggVars
  <2>5. TaskReceipt(TaskOf(s))' = x
    BY <2>2, <2>3, <2>4 DEF TaskReceipt
  <2> QED
    BY <2>1, <2>2, <2>4, <2>5 DEF Behind
<1>18. CASE ReviewTask(s)
  <2>1. t \in ran' /\ call[s].at = "review"
    BY <1>1, <1>2, <1>3, <1>18 DEF ReviewTask, Behind, At
  <2>2. CASE Goto(s, Step(s, "rejected"))
    <3>1. call'[s].at = "rejected" /\ TaskOf(s)' = t
      BY <1>1, <1>2, <1>3, <2>1, <2>2, SameTask DEF ExecutionPoint
    <3> QED
      BY <2>1, <3>1 DEF Behind
  <2>3. CASE \E rec : Save(s, rec, NextTask(s))
    BY <1>1, <1>2, <1>6, <1>7, <2>1, <2>3, SaveGoes
  <2> QED
    BY <1>18, <2>2, <2>3 DEF ReviewTask
<1>19. CASE FinishRun(s)
  BY <1>1, <1>2, <1>7, <1>19, FinishFacts, SaveStatusTypes
<1> QED
  BY <1>8, <1>9, <1>10, <1>11, <1>12, <1>13, <1>14, <1>15, <1>16, <1>17, <1>18, <1>19
  DEF ExecutionStep

\* An execution leaves the calls of the other servers alone.
LEMMA OtherCalls ==
  ASSUME IInv, HostInv, NEW s \in Server, ExecutionStep(s), NEW u \in Server, u # s
  PROVE  call'[u] = call[u]
<1>1. LifecycleTypeOK
  BY DEF HostInv
<1>2. call[s] # Idle
  BY DEF ExecutionStep, RegisterTasks, GateCommandExecution, CreateCoordinator, FreezeTask,
    CommandMissing, BeginTask, ReserveTask, CommandFails, CommandSucceeds, IssueTaskReceipt,
    CreateTaskEvidence, ReviewTask, GiveUpTask, FinishRun, At
<1>3. (\E next : Goto(s, next)) => call'[u] = call[u]
  BY <1>1 DEF Goto, LifecycleTypeOK
<1>4. \E next : Goto(s, next)
  BY DEF ExecutionStep, RegisterTasks, GateCommandExecution, CreateCoordinator, FreezeTask,
    CommandMissing, BeginTask, ReserveTask, CommandFails, CommandSucceeds, IssueTaskReceipt,
    CreateTaskEvidence, ReviewTask, GiveUpTask, FinishRun, Save, SaveStatus, Raise
<1> QED
  BY <1>3, <1>4

LEMMA BehindStep ==
  ASSUME IInv, HostInv, LifecycleNext
  PROVE  WorkIsBehind'
<1>1. LifecycleTypeOK /\ WorkIsBehind
  BY DEF HostInv
<1> SUFFICES ASSUME NEW u \in Server PROVE Behind(u)'
  BY DEF WorkIsBehind
<1>2. ASSUME NEW s \in Server, ExecutionStep(s) PROVE Behind(u)'
  <2>1. CASE u = s
    BY <1>2, <2>1, BehindHere
  <2>2. CASE u # s
    BY <1>2, <2>2, ExecutionTouches, OtherCalls, BehindElsewhere
  <2> QED
    BY <2>1, <2>2
<1>3. ASSUME NEW s \in Server, ServerDies(s) PROVE Behind(u)'
  <2>1. CASE u = s
    BY <1>3, <2>1, DeathKeepsTypes, BehindEarly
  <2>2. CASE u # s
    <3>1. UNCHANGED <<aggVars, evidence, ran>> /\ call'[u] = call[u]
      BY <1>3, <2>2, DeathKeepsTypes DEF ServerDies, Crash, registryVars
    <3> QED
      BY <2>2, <3>1, UntouchedVars, BehindElsewhere
  <2> QED
    BY <2>1, <2>2
<1>4. ASSUME NEW s \in Server, NEW g \in Goal, NEW cmds \in CommandMaps, ExecuteRun(s, g, cmds)
      PROVE  Behind(u)'
  <2>1. UNCHANGED <<vars, ran>>
    BY <1>1, <1>4, ExecuteFacts
  <2>2. PICK next \in Execution :
          /\ next.at = "register" /\ call' = [call EXCEPT ![s] = next]
    BY <1>1, <1>4, ExecuteFacts
  <2>3. CASE u = s
    BY <1>1, <2>2, <2>3, BehindEarly DEF LifecycleTypeOK
  <2>4. CASE u # s
    <3>1. call'[u] = call[u] /\ UNCHANGED <<aggVars, evidence>>
      BY <1>1, <2>1, <2>2, <2>4 DEF LifecycleTypeOK, vars, registryVars
    <3> QED
      BY <2>1, <2>4, <3>1, UntouchedVars, BehindElsewhere
  <2> QED
    BY <2>3, <2>4
<1>5. CASE UNCHANGED <<vars, ran, call>>
  BY <1>1, <1>5 DEF WorkIsBehind, Behind, vars, aggVars, registryVars, TaskOf, RoleOf, TaskReceipt
<1> QED
  BY <1>2, <1>3, <1>4, <1>5 DEF LifecycleNext, ToolCall, RehydrateRunsAndTasks, SubmitGoal,
    GetRun, ListTasks, CancelRun, RejectApproval

-----------------------------------------------------------------------------
(* The first theorems.                                                     *)

DrivenInv == IInv /\ HostInv

LEMMA LifecycleInitInv == LifecycleInit => DrivenInv
<1> SUFFICES ASSUME LifecycleInit PROVE DrivenInv
  OBVIOUS
<1>1. IInv
  BY InitInv DEF LifecycleInit
<1>2. LifecycleTypeOK
  <2>1. NoBoard \in Board
    BY DEF NoBoard, Board
  <2>2. taskRow \in [Goal -> Board]
    BY <2>1 DEF LifecycleInit, NoBoard
  <2>3. calls \in 0 .. MaxCalls /\ faults \in 0 .. MaxFaults
    BY LifecycleAssumption DEF LifecycleInit
  <2>4. /\ runRow \in [Goal -> RunStatus \cup {NoRow}]
        /\ memRun \in [Server -> [Goal -> RunStatus \cup {NoRow}]]
        /\ memTasks \in [Server -> [Goal -> Board \cup {NoRow}]]
        /\ pending \in [Server -> SUBSET Goal]
        /\ call \in [Server -> Execution \cup {Idle}]
    BY DEF LifecycleInit
  <2>5. /\ started \subseteq Server /\ alive \subseteq started /\ principals \subseteq Run
        /\ ran \subseteq Task /\ raised \subseteq Run /\ overlapped \in BOOLEAN
    BY DEF LifecycleInit
  <2> QED
    BY <2>2, <2>3, <2>4, <2>5 DEF LifecycleTypeOK
<1>3. CallsInPlace /\ WorkIsBehind
  BY DEF LifecycleInit, CallsInPlace, WorkIsBehind, Behind
<1> QED
  BY <1>1, <1>2, <1>3 DEF DrivenInv, HostInv

LEMMA LifecycleStepInv == DrivenInv /\ [LifecycleNext]_allVars => DrivenInv'
<1> SUFFICES ASSUME DrivenInv, [LifecycleNext]_allVars PROVE DrivenInv'
  OBVIOUS
<1>1. IInv /\ HostInv
  BY DEF DrivenInv
<1>2. CASE LifecycleNext
  <2>1. IInv'
    BY <1>1, <1>2, DrivesCoordinators, StepInv
  <2>2. HostInv'
    BY <1>1, <1>2, TypesStep, BehindStep DEF TypesAndPlaces, HostInv
  <2> QED
    BY <2>1, <2>2 DEF DrivenInv
<1>3. CASE UNCHANGED allVars
  <2>1. UNCHANGED vars
    BY <1>3 DEF allVars
  <2>2. IInv'
    BY <1>1, <2>1, StepInv
  <2>3. HostInv'
    BY <1>1, <1>3 DEF allVars, hostVars, HostInv, LifecycleTypeOK, CallsInPlace, WorkIsBehind,
      Behind, TaskOf, RoleOf, TaskReceipt, vars, aggVars, registryVars
  <2> QED
    BY <2>2, <2>3 DEF DrivenInv
<1> QED
  BY <1>2, <1>3

THEOREM LifecycleInvariance == LifecycleSpec => []DrivenInv
  BY LifecycleInitInv, LifecycleStepInv, PTL DEF LifecycleSpec

(***************************************************************************)
(* The rows of runs and tasks, the caches of every server and every call   *)
(* under way keep their types, through database errors at any save.        *)
(***************************************************************************)
THEOREM LifecycleTypes == LifecycleSpec => []LifecycleTypeOK
<1>1. DrivenInv => LifecycleTypeOK
  BY DEF DrivenInv, HostInv
<1> QED
  BY <1>1, LifecycleInvariance, PTL

(***************************************************************************)
(* The lifecycle drives its coordinators as the coordinators' own          *)
(* specification says they are driven: servers, runs and crashes together  *)
(* implement Coordinator, with the ledger that all share.                  *)
(***************************************************************************)
THEOREM LifecycleImplementsCoordinators == LifecycleSpec => Spec
<1>1. LifecycleInit => Init
  BY DEF LifecycleInit
<1>2. DrivenInv /\ [LifecycleNext]_allVars => [Next]_vars
  BY DrivesCoordinators DEF DrivenInv, allVars
<1> QED
  BY <1>1, <1>2, LifecycleInvariance, PTL DEF LifecycleSpec, Spec

-----------------------------------------------------------------------------
(* EvidenceIsGenuine.  Evidence, commands run and verified tasks are never *)
(* taken back, so a genuine record stays genuine wherever it is copied.    *)

AllGenuine ==
  /\ \A g \in Goal, n \in TaskName : Genuine(g, n, taskRow[g][n])
  /\ \A s \in Server, g \in Goal, n \in TaskName :
       memTasks[s][g] # NoRow => Genuine(g, n, memTasks[s][g][n])

\* A record that is not VERIFIED, or that a row or a cache had for that task.
FromBefore(g, n, rec) ==
  \/ rec = NoRow
  \/ rec.status # "VERIFIED"
  \/ rec = taskRow[g][n]
  \/ \E s \in Server : memTasks[s][g] # NoRow /\ rec = memTasks[s][g][n]

RecordsKept ==
  /\ \A g \in Goal, n \in TaskName : FromBefore(g, n, taskRow'[g][n])
  /\ \A u \in Server, g \in Goal, n \in TaskName :
       memTasks'[u][g] # NoRow => FromBefore(g, n, memTasks'[u][g][n])

LEMMA NothingTakenBack ==
  ASSUME IInv, HostInv, LifecycleNext
  PROVE  /\ evidence \subseteq evidence'
         /\ ran \subseteq ran'
         /\ \A t \in Task : state[t] = "VERIFIED" =>
              state'[t] = "VERIFIED" /\ verdict'[t] = verdict[t]
<1>1. PICK s \in Server : RehydrateRunsAndTasks(s) \/ ServerDies(s) \/ ExecutionStep(s)
                            \/ \E g \in Goal : ToolCall(s, g)
  BY DEF LifecycleNext
<1>2. CASE ExecutionStep(s)
  BY <1>2, ExecutionTouches DEF Untouched
<1>3. CASE UNCHANGED <<aggVars, evidence, ran>>
  BY <1>3 DEF aggVars
<1>4. CASE ServerDies(s)
  BY <1>3, <1>4 DEF ServerDies, Crash, registryVars
<1>5. CASE RehydrateRunsAndTasks(s) \/ \E g \in Goal : ToolCall(s, g)
  <2>1. UNCHANGED <<vars, ran>>
    BY <1>5 DEF RehydrateRunsAndTasks, ToolCall, SubmitGoal, GetRun, ListTasks, CancelRun,
      RejectApproval, ExecuteRun
  <2> QED
    BY <1>3, <2>1 DEF vars, registryVars
<1> QED
  BY <1>1, <1>2, <1>4, <1>5

LEMMA GenuineStays ==
  ASSUME IInv, HostInv, LifecycleNext, NEW g, NEW n, NEW rec, Genuine(g, n, rec)
  PROVE  Genuine(g, n, rec)'
<1>1. ran \subseteq Task
  BY DEF HostInv, LifecycleTypeOK
<1> QED
  BY <1>1, NothingTakenBack DEF Genuine

LEMMA FromBeforeGenuine ==
  ASSUME IInv, HostInv, AllGenuine, LifecycleNext, NEW g \in Goal, NEW n \in TaskName, NEW rec,
         FromBefore(g, n, rec)
  PROVE  Genuine(g, n, rec)'
<1>1. CASE rec = NoRow \/ rec.status # "VERIFIED"
  BY <1>1 DEF Genuine
<1>2. CASE Genuine(g, n, rec)
  BY <1>2, GenuineStays
<1> QED
  BY <1>1, <1>2 DEF FromBefore, AllGenuine

LEMMA KeptGenuine ==
  ASSUME IInv, HostInv, AllGenuine, LifecycleNext, RecordsKept
  PROVE  AllGenuine'
<1>1. ASSUME NEW g \in Goal, NEW n \in TaskName PROVE Genuine(g, n, taskRow[g][n])'
  <2>1. PICK rec : rec = taskRow'[g][n]
    OBVIOUS
  <2>2. Genuine(g, n, rec)'
    BY <2>1, FromBeforeGenuine DEF RecordsKept
  <2> QED
    BY <2>1, <2>2 DEF Genuine
<1>2. ASSUME NEW u \in Server, NEW g \in Goal, NEW n \in TaskName, memTasks'[u][g] # NoRow
      PROVE  Genuine(g, n, memTasks[u][g][n])'
  <2>1. PICK rec : rec = memTasks'[u][g][n]
    OBVIOUS
  <2>2. Genuine(g, n, rec)'
    BY <1>2, <2>1, FromBeforeGenuine DEF RecordsKept
  <2> QED
    BY <2>1, <2>2 DEF Genuine
<1> QED
  BY <1>1, <1>2 DEF AllGenuine

\* A record saved on a task.
LEMMA SaveGenuine ==
  ASSUME IInv, HostInv, AllGenuine, LifecycleNext, NEW s \in Server, call[s] # Idle,
         call[s].at # "register", NEW rec, NEW next, Saves(s, rec, next),
         \A g, n : g = call[s].goal /\ n = RoleOf(call[s]) => Genuine(g, n, rec)'
  PROVE  AllGenuine'
<1>1. LifecycleTypeOK /\ CallsInPlace
  BY DEF HostInv
<1>2. PICK h \in Goal : h = call[s].goal
  BY <1>1, TaskOfFacts
<1>3. PICK m \in TaskName : m = RoleOf(call[s])
  BY <1>1, TaskOfFacts DEF TaskName
<1>4. Genuine(h, m, rec)'
  BY <1>2, <1>3
<1>5. /\ memTasks'[s][h] = [memTasks[s][h] EXCEPT ![m] = rec]
      /\ \A g \in Goal : g # h => memTasks'[s][g] = memTasks[s][g]
      /\ \A u \in Server : u # s => memTasks'[u] = memTasks[u]
      /\ taskRow' = taskRow \/ taskRow' = [taskRow EXCEPT ![h] = [taskRow[h] EXCEPT ![m] = rec]]
  BY <1>1, <1>2, <1>3, SaveTypes DEF Saves
<1>6. memTasks[s][h] \in Board /\ memTasks[s][h] # NoRow
  BY <1>1, <1>2 DEF LifecycleTypeOK, CallsInPlace
<1>7. ASSUME NEW g \in Goal, NEW n \in TaskName PROVE Genuine(g, n, taskRow[g][n])'
  <2>1. PICK x : x = taskRow'[g][n]
    OBVIOUS
  <2>2. x = taskRow[g][n] \/ (g = h /\ n = m /\ x = rec)
    BY <1>1, <1>5, <2>1 DEF LifecycleTypeOK, Board
  <2>3. Genuine(g, n, x)'
    BY <1>4, <2>2, FromBeforeGenuine DEF FromBefore
  <2> QED
    BY <2>1, <2>3 DEF Genuine
<1>8. ASSUME NEW u \in Server, NEW g \in Goal, NEW n \in TaskName, memTasks'[u][g] # NoRow
      PROVE  Genuine(g, n, memTasks[u][g][n])'
  <2>1. PICK x : x = memTasks'[u][g][n]
    OBVIOUS
  <2>2. CASE u = s /\ g = h
    <3>1. x = memTasks[s][h][n] \/ (n = m /\ x = rec)
      BY <1>5, <1>6, <2>1, <2>2 DEF Board
    <3>2. Genuine(g, n, x)'
      BY <1>4, <1>6, <2>2, <3>1, FromBeforeGenuine DEF FromBefore
    <3> QED
      BY <2>1, <3>2 DEF Genuine
  <2>3. CASE ~(u = s /\ g = h)
    <3>1. memTasks'[u][g] = memTasks[u][g]
      BY <1>5, <2>3
    <3>2. FromBefore(g, n, x)
      BY <1>8, <2>1, <3>1 DEF FromBefore
    <3>3. Genuine(g, n, x)'
      BY <3>2, FromBeforeGenuine
    <3> QED
      BY <2>1, <3>3 DEF Genuine
  <2> QED
    BY <2>2, <2>3
<1> QED
  BY <1>7, <1>8 DEF AllGenuine

LEMMA KeptUnchanged ==
  ASSUME UNCHANGED <<taskRow, memTasks>>
  PROVE  RecordsKept
  BY DEF RecordsKept, FromBefore

\* A pending record is no claim.
LEMMA PendingKept ==
  ASSUME NEW g, NEW n, NEW rec, rec = Rec("PENDING", {})
  PROVE  FromBefore(g, n, rec)
  BY RecFacts DEF FromBefore, TaskStatus

\* When a step replaces one board of the rows and one of one cache.
LEMMA KeptBoards ==
  ASSUME LifecycleTypeOK, NEW s \in Server, NEW g \in Goal, NEW row \in Board, NEW mem \in Board,
         \A n \in TaskName : FromBefore(g, n, row[n]) /\ FromBefore(g, n, mem[n]),
         taskRow' = taskRow \/ taskRow' = [taskRow EXCEPT ![g] = row],
         \/ memTasks' = memTasks
         \/ memTasks' = [memTasks EXCEPT ![s] = [memTasks[s] EXCEPT ![g] = mem]]
  PROVE  RecordsKept
<1>1. ASSUME NEW h \in Goal, NEW n \in TaskName PROVE FromBefore(h, n, taskRow'[h][n])
  <2>1. taskRow'[h] = taskRow[h] \/ (h = g /\ taskRow'[h] = row)
    BY DEF LifecycleTypeOK
  <2> QED
    BY <2>1 DEF FromBefore
<1>2. ASSUME NEW u \in Server, NEW h \in Goal, NEW n \in TaskName, memTasks'[u][h] # NoRow
      PROVE  FromBefore(h, n, memTasks'[u][h][n])
  <2>1. memTasks'[u][h] = memTasks[u][h] \/ (h = g /\ memTasks'[u][h] = mem)
    BY DEF LifecycleTypeOK
  <2> QED
    BY <1>2, <2>1 DEF FromBefore
<1> QED
  BY <1>1, <1>2 DEF RecordsKept

LEMMA RegisterKept ==
  ASSUME HostInv, NEW s \in Server, RegisterTasks(s)
  PROVE  RecordsKept
<1>1. LifecycleTypeOK
  BY DEF HostInv
<1>2. PICK g \in Goal : g = call[s].goal
  BY <1>1, RegisterFacts, TaskOfFacts
<1>3. PICK k \in 0 .. 3 :
        /\ taskRow' = [taskRow EXCEPT ![g] = Fresh(taskRow[g], k)]
        /\ \/ UNCHANGED memTasks
           \/ memTasks' = [memTasks EXCEPT ![s] = [memTasks[s] EXCEPT ![g] = Fresh(NoBoard, 3)]]
  BY <1>1, <1>2, RegisterFacts
<1>4. NoBoard \in Board /\ taskRow[g] \in Board
  BY <1>1 DEF NoBoard, Board, LifecycleTypeOK
<1>5. /\ Fresh(taskRow[g], k) \in Board
      /\ \A n \in TaskName : Fresh(taskRow[g], k)[n] \in {taskRow[g][n], Rec("PENDING", {})}
  BY <1>4, FreshFacts
<1>6. /\ Fresh(NoBoard, 3) \in Board
      /\ \A n \in TaskName : Fresh(NoBoard, 3)[n] \in {NoBoard[n], Rec("PENDING", {})}
  BY <1>4, FreshFacts
<1>7. \A n \in TaskName : FromBefore(g, n, Fresh(taskRow[g], k)[n])
  BY <1>5, PendingKept DEF FromBefore
<1>8. \A n \in TaskName : FromBefore(g, n, Fresh(NoBoard, 3)[n])
  BY <1>6, PendingKept DEF FromBefore, NoBoard
<1> QED
  BY <1>1, <1>3, <1>5, <1>6, <1>7, <1>8, KeptBoards

LEMMA SubmitKept ==
  ASSUME HostInv, NEW s \in Server, NEW g \in Goal, SubmitGoal(s, g)
  PROVE  RecordsKept
<1>1. LifecycleTypeOK
  BY DEF HostInv
<1>2. \A n \in TaskName : FromBefore(g, n, FirstBoard[n])
  BY FirstBoardFacts, PendingKept DEF FromBefore
<1> QED
  BY <1>1, <1>2, SubmitFacts, FirstBoardFacts, KeptBoards

LEMMA ReadKept ==
  ASSUME HostInv, NEW s \in Server, NEW g \in Goal, GetRun(s, g) \/ ListTasks(s, g)
  PROVE  RecordsKept
<1>1. LifecycleTypeOK
  BY DEF HostInv
<1>2. taskRow[g] \in Board /\ \A n \in TaskName : FromBefore(g, n, taskRow[g][n])
  BY <1>1 DEF FromBefore, LifecycleTypeOK
<1>3. /\ taskRow' = taskRow
      /\ \/ memTasks' = memTasks
         \/ memTasks' = [memTasks EXCEPT ![s] = [memTasks[s] EXCEPT ![g] = taskRow[g]]]
  BY <1>1, ReadFacts
<1> QED
  BY <1>1, <1>2, <1>3, KeptBoards

LEMMA CancelKept ==
  ASSUME HostInv, NEW s \in Server, NEW g \in Goal, CancelRun(s, g)
  PROVE  RecordsKept
<1>1. LifecycleTypeOK
  BY DEF HostInv
<1>2. PICK tasks, k, l :
        /\ tasks \in Board
        /\ tasks = taskRow[g] \/ tasks = memTasks[s][g]
        /\ taskRow' = [taskRow EXCEPT ![g] = WithCancelled(tasks, taskRow[g], k)]
        /\ memTasks' = [memTasks EXCEPT ![s] = [memTasks[s] EXCEPT ![g] =
                          WithCancelled(tasks, tasks, l)]]
  BY <1>1, CancelFacts, SMTT(60)
<1>3. taskRow[g] \in Board
  BY <1>1 DEF LifecycleTypeOK
<1>4. tasks # NoRow
  BY <1>2, NoneAssumption
<1>5. \A n \in TaskName : FromBefore(g, n, tasks[n]) /\ FromBefore(g, n, taskRow[g][n])
  BY <1>2, <1>4 DEF FromBefore
<1>6. ASSUME NEW rec, rec.status = "CANCELLED", NEW n PROVE FromBefore(g, n, rec)
  BY <1>6 DEF FromBefore
<1>7. /\ WithCancelled(tasks, taskRow[g], k) \in Board
      /\ WithCancelled(tasks, tasks, l) \in Board
  BY <1>2, <1>3, CancelledFacts
<1>8. \A n \in TaskName : FromBefore(g, n, WithCancelled(tasks, taskRow[g], k)[n])
  BY <1>2, <1>3, <1>5, <1>6, CancelledFacts
<1>9. \A n \in TaskName : FromBefore(g, n, WithCancelled(tasks, tasks, l)[n])
  BY <1>2, <1>5, <1>6, CancelledFacts
<1> QED
  BY <1>1, <1>2, <1>7, <1>8, <1>9, KeptBoards

LEMMA ExecuteKept ==
  ASSUME HostInv, NEW s \in Server, NEW g \in Goal, NEW cmds \in CommandMaps,
         ExecuteRun(s, g, cmds)
  PROVE  RecordsKept
<1>1. LifecycleTypeOK
  BY DEF HostInv
<1>2. /\ UNCHANGED memTasks
      /\ taskRow' = taskRow \/ taskRow' = [taskRow EXCEPT ![g] = Kept(g)]
      /\ Kept(g) \in Board
  BY <1>1, ExecuteFacts
<1>3. \A n \in TaskName : FromBefore(g, n, Kept(g)[n])
  BY DEF Kept, FromBefore
<1> QED
  BY <1>1, <1>2, <1>3, KeptBoards

LEMMA RehydrateKept ==
  ASSUME HostInv, NEW s \in Server, RehydrateRunsAndTasks(s)
  PROVE  RecordsKept
<1>1. LifecycleTypeOK
  BY DEF HostInv
<1>2. /\ taskRow' = ResetStaleActiveTasks(taskRow)
      /\ \A u \in Server : u # s => memTasks'[u] = memTasks[u]
      /\ \A g \in Goal : memTasks'[s][g] \in {NoRow, taskRow'[g]}
  BY <1>1, RehydrateFacts
<1>3. ASSUME NEW g \in Goal, NEW n \in TaskName PROVE FromBefore(g, n, taskRow'[g][n])
  BY <1>1, <1>2, ResetFacts DEF FromBefore
<1>4. ASSUME NEW u \in Server, NEW g \in Goal, NEW n \in TaskName, memTasks'[u][g] # NoRow
      PROVE  FromBefore(g, n, memTasks'[u][g][n])
  <2>1. CASE u = s
    BY <1>2, <1>3, <1>4, <2>1
  <2>2. CASE u # s
    BY <1>2, <1>4, <2>2 DEF FromBefore
  <2> QED
    BY <2>1, <2>2
<1> QED
  BY <1>3, <1>4 DEF RecordsKept

LEMMA DeathKept ==
  ASSUME HostInv, NEW s \in Server, ServerDies(s)
  PROVE  RecordsKept
<1>1. /\ taskRow' = taskRow
      /\ \A u \in Server : u # s => memTasks'[u] = memTasks[u]
      /\ \A g \in Goal : memTasks'[s][g] = NoRow
  BY DeathKeepsTypes
<1> QED
  BY <1>1 DEF RecordsKept, FromBefore

LEMMA GenuineStep ==
  ASSUME IInv, HostInv, AllGenuine, LifecycleNext
  PROVE  AllGenuine'
<1>1. LifecycleTypeOK
  BY DEF HostInv
<1>2. ASSUME NEW s \in Server, OneTaskStep(s) PROVE AllGenuine'
  <2>1. call[s] # Idle /\ call[s].at # "register"
    BY <1>2, OneTaskShape DEF TaskPoint
  <2>2. ASSUME NEW rec, NEW next, Saves(s, rec, next),
               \A g, n : g = call[s].goal /\ n = RoleOf(call[s]) => Genuine(g, n, rec)'
        PROVE  AllGenuine'
    BY <2>1, <2>2, SaveGenuine
  <2>3. CASE UNCHANGED <<taskRow, memTasks>>
    BY <2>3, KeptUnchanged, KeptGenuine
  <2> QED
    BY <1>2, <2>2, <2>3, OneTaskShape DEF MovesOn, Stops
<1>3. ASSUME NEW s \in Server,
             GateCommandExecution(s) \/ CreateCoordinator(s) \/ FinishRun(s)
      PROVE  AllGenuine'
  <2>1. UNCHANGED <<taskRow, memTasks>>
    BY <1>3 DEF GateCommandExecution, CreateCoordinator, FinishRun
  <2> QED
    BY <2>1, KeptUnchanged, KeptGenuine
<1>4. ASSUME NEW s \in Server, RegisterTasks(s) PROVE AllGenuine'
  BY <1>4, RegisterKept, KeptGenuine
<1>5. ASSUME NEW s \in Server, NEW g \in Goal, ToolCall(s, g) PROVE AllGenuine'
  <2>1. CASE RejectApproval(s, g)
    BY <2>1, KeptUnchanged, KeptGenuine DEF RejectApproval
  <2> QED
    BY <1>5, <2>1, SubmitKept, ReadKept, CancelKept, ExecuteKept, KeptGenuine DEF ToolCall
<1>6. ASSUME NEW s \in Server, RehydrateRunsAndTasks(s) \/ ServerDies(s) PROVE AllGenuine'
  BY <1>6, RehydrateKept, DeathKept, KeptGenuine
<1> QED
  BY <1>2, <1>3, <1>4, <1>5, <1>6 DEF LifecycleNext, ExecutionStep, OneTaskStep

LEMMA AllGenuineIsEvidence == AllGenuine => EvidenceIsGenuine
  BY DEF AllGenuine, Genuine, EvidenceIsGenuine

(***************************************************************************)
(* INV-01 where a client reads it: a task any server's cache or any row    *)
(* calls VERIFIED carries evidence of a command that was run for that      *)
(* task, and its coordinator verified it with just that evidence; for any  *)
(* number of servers executing the same runs at once, dying and restarting.*)
(***************************************************************************)
THEOREM VerifiedRecordsAreGenuine == LifecycleSpec => []EvidenceIsGenuine
<1>1. LifecycleInit => AllGenuine
  BY DEF LifecycleInit, AllGenuine, Genuine
<1>2. AllGenuine /\ DrivenInv /\ [LifecycleNext]_allVars => AllGenuine'
  <2>1. ASSUME AllGenuine, UNCHANGED allVars PROVE AllGenuine'
    BY <2>1 DEF AllGenuine, Genuine, allVars, hostVars, vars, aggVars, registryVars
  <2> QED
    BY <2>1, GenuineStep DEF DrivenInv
<1> QED
  BY <1>1, <1>2, LifecycleInvariance, AllGenuineIsEvidence, PTL DEF LifecycleSpec

-----------------------------------------------------------------------------
(* One server at a time: what the rows say.                                *)

\* Roles are told apart by their place in the chain.
LEMMA RolesDistinct ==
  ASSUME NEW i \in 1 .. 3, NEW j \in 1 .. 3, Roles[i] = Roles[j]
  PROVE  i = j
  BY RoleFacts

\* The rows of the run a server is not on do not change under its feet.
RowsKept(g) == \A n \in TaskName : taskRow'[g][n] = taskRow[g][n]

LEMMA SaysKept ==
  ASSUME NEW g, NEW n, NEW statuses, taskRow'[g][n] = taskRow[g][n]
  PROVE  Says(g, n, statuses)' = Says(g, n, statuses)
  BY DEF Says

\* Saving a record.
LEMMA SaveRows ==
  ASSUME HostInv, NEW s \in Server, RowsOf(s), CompletedRows, call[s] # Idle,
         call[s].at \in TaskPoint, ServerKeeps, NEW rec, NEW next, Saves(s, rec, next)
  PROVE  RowsOf(s)' /\ CompletedRows'
<1>1. LifecycleTypeOK /\ CallsInPlace /\ call[s].at # "register"
  BY DEF HostInv, TaskPoint
<1>2. PICK h \in Goal : h = call[s].goal
  BY <1>1, TaskOfFacts
<1>3. PICK p \in 1 .. 3 : p = call[s].pos
  BY <1>1, TaskOfFacts
<1>4. PICK m \in Role : m = Roles[p] /\ m = RoleOf(call[s])
  BY <1>1, <1>3, TaskOfFacts DEF RoleOf
<1>5. UNCHANGED <<runRow, memRun>> /\ runRow[h] \notin Settled
  BY <1>2 DEF ServerKeeps, RowsOf, ExecutionInOrder
<1>6. \/ /\ taskRow' = [taskRow EXCEPT ![h] = [taskRow[h] EXCEPT ![m] = rec]]
         /\ call'[s] = next
         /\ raised' = raised
      \/ /\ taskRow' = taskRow
         /\ call'[s] = Idle
         /\ <<s, h>> \in raised'
         /\ raised \subseteq raised'
  <2>1. rec \in TaskRecord /\ next \in Execution /\ Save(s, rec, next)
    BY DEF Saves
  <2>2. /\ \/ /\ taskRow' = [taskRow EXCEPT ![call[s].goal] =
                               [taskRow[call[s].goal] EXCEPT ![RoleOf(call[s])] = rec]]
              /\ call'[s] = next
              /\ raised' = raised
           \/ /\ taskRow' = taskRow
              /\ call'[s] = Idle
              /\ <<s, call[s].goal>> \in raised'
        /\ raised \subseteq raised'
    BY <1>1, <2>1, SaveTypes
  <2> QED
    BY <1>2, <1>4, <2>2
<1>7. /\ \A g \in Goal, n \in TaskName : g # h \/ n # m => taskRow'[g][n] = taskRow[g][n]
      /\ call'[s] = next => taskRow'[h][m] = rec \/ call'[s] = Idle
  BY <1>1, <1>2, <1>4, <1>6 DEF LifecycleTypeOK, Board, TaskName
<1>8. CacheAgrees(s)'
  BY <1>5 DEF RowsOf, CacheAgrees, StatusSeen
<1>9. CompletedRows'
  BY <1>5, <1>7, SaysKept DEF CompletedRows, Settled, TaskName
<1>10. FlightsAccounted(s)'
  <2> SUFFICES ASSUME NEW g \in Goal, NEW n \in TaskName, Says(g, n, StaleActive)'
               PROVE  \/ <<s, g>> \in raised'
                      \/ call'[s] # Idle /\ call'[s].goal = g /\ RoleOf(call'[s]) = n
    BY DEF FlightsAccounted, RoleOf
  <2>1. CASE call'[s] = Idle
    <3>1. taskRow' = taskRow /\ <<s, h>> \in raised' /\ raised \subseteq raised'
      BY <1>6, <2>1, NoneAssumption DEF Saves
    <3>2. Says(g, n, StaleActive)
      BY <3>1 DEF Says
    <3> QED
      BY <1>2, <3>1, <3>2 DEF RowsOf, FlightsAccounted
  <2>2. CASE call'[s] # Idle
    <3>1. call'[s] = next /\ raised' = raised
      BY <1>6, <2>2
    <3>2. CASE g = h /\ n = m
      <4>1. rec.status \in StaleActive
        BY <1>7, <2>2, <3>1, <3>2 DEF Says
      <4>2. next.goal = h /\ next.pos = p
        BY <1>2, <1>3, <4>1 DEF Saves, StaleActive
      <4> QED
        BY <1>4, <2>2, <3>1, <3>2, <4>2 DEF RoleOf
    <3>3. CASE g # h \/ n # m
      <4>1. Says(g, n, StaleActive)
        BY <1>7, <3>3, SaysKept
      <4> QED
        BY <1>2, <1>4, <3>1, <3>3, <4>1 DEF RowsOf, FlightsAccounted
    <3> QED
      BY <3>2, <3>3
  <2> QED
    BY <2>1, <2>2
<1>11. ExecutionInOrder(s)'
  <2> SUFFICES ASSUME call'[s] # Idle PROVE ExecutionInOrder(s)'
    BY DEF ExecutionInOrder
  <2>1. call'[s] = next /\ taskRow'[h][m] = rec
    BY <1>6, <1>7
  <2>2. next.goal = h /\ runRow'[h] \notin Settled
    BY <1>2, <1>5 DEF Saves
  <2>3. \A i \in 1 .. p - 1 : Says(h, Roles[i], {"VERIFIED"})'
    <3> SUFFICES ASSUME NEW i \in 1 .. p - 1 PROVE Says(h, Roles[i], {"VERIFIED"})'
      OBVIOUS
    <3>1. i \in 1 .. 3 /\ i # p
      OBVIOUS
    <3>2. Roles[i] # m
      BY <1>4, <3>1, RolesDistinct
    <3>4. Roles[i] \in TaskName
      BY <3>1, RoleFacts DEF TaskName, Role
    <3>3. Says(h, Roles[i], {"VERIFIED"})
      BY <1>2, <1>3 DEF RowsOf, ExecutionInOrder
    <3> QED
      BY <1>7, <3>2, <3>3, <3>4, SaysKept
  <2>4. CASE rec.status # "VERIFIED"
    <3>1. next.pos = p /\ next.at # "gate"
      BY <1>3, <2>4 DEF Saves, TaskPoint
    <3>2. next.at = "finish" => next.result = "FAILED" /\ ~Says(h, m, StaleActive)'
      BY <2>1, <2>4 DEF Saves, TaskPoint, ExecutionPoint, Says
    <3> QED
      BY <1>4, <2>1, <2>2, <2>3, <3>1, <3>2 DEF ExecutionInOrder, RoleOf
  <2>5. CASE rec.status = "VERIFIED" /\ p < 3
    <3>1. next.pos = p + 1 /\ next.at = "freeze"
      BY <1>3, <2>5 DEF Saves
    <3>2. Says(h, Roles[p], {"VERIFIED"})'
      BY <1>4, <2>1, <2>5 DEF Says, Saves
    <3>3. \A i \in 1 .. next.pos - 1 : Says(h, Roles[i], {"VERIFIED"})'
      BY <2>3, <3>1, <3>2
    <3> QED
      BY <2>1, <2>2, <3>1, <3>3 DEF ExecutionInOrder
  <2>6. CASE rec.status = "VERIFIED" /\ p = 3
    <3>1. next.pos = 3 /\ next.at = "finish"
      BY <1>3, <2>6 DEF Saves
    <3>2. Says(h, m, {"VERIFIED"})' /\ ~Says(h, m, StaleActive)'
      BY <2>1, <2>6 DEF Says, Saves, StaleActive
    <3>3. \A n \in Role : Says(h, n, {"VERIFIED"})'
      <4>1. Says(h, Roles[1], {"VERIFIED"})' /\ Says(h, Roles[2], {"VERIFIED"})'
        BY <2>3, <2>6
      <4>2. Says(h, Roles[3], {"VERIFIED"})'
        BY <1>4, <2>6, <3>2
      <4> QED
        BY <4>1, <4>2, RoleFacts
    <3> QED
      BY <1>4, <2>1, <2>2, <2>3, <2>6, <3>1, <3>2, <3>3 DEF ExecutionInOrder, RoleOf
  <2> QED
    BY <2>4, <2>5, <2>6
<1> QED
  BY <1>8, <1>9, <1>10, <1>11 DEF RowsOf

\* Rows untouched, and the call goes on with its task.
LEMMA MoveRows ==
  ASSUME HostInv, NEW s \in Server, RowsOf(s), CompletedRows, call[s] # Idle,
         UNCHANGED <<runRow, memRun>>, NEW next, MovesOn(s, next)
  PROVE  RowsOf(s)' /\ CompletedRows'
<1>1. LifecycleTypeOK
  BY DEF HostInv
<1>2. /\ call'[s] = next
      /\ next.goal = call[s].goal /\ next.pos = call[s].pos /\ next.at \notin {"gate", "finish"}
      /\ UNCHANGED <<taskRow, raised>>
  BY <1>1, GotoTypes DEF MovesOn, TaskPoint, ExecutionPoint
<1>3. call'[s] # Idle
  BY <1>2, NoneAssumption DEF MovesOn
<1>4. CacheAgrees(s)' /\ CompletedRows'
  BY <1>2 DEF RowsOf, CacheAgrees, StatusSeen, CompletedRows, Says
<1>5. FlightsAccounted(s)'
  BY <1>2, <1>3 DEF RowsOf, FlightsAccounted, Says, RoleOf
<1>6. ExecutionInOrder(s)'
  BY <1>2, <1>3 DEF RowsOf, ExecutionInOrder, Says
<1> QED
  BY <1>4, <1>5, <1>6 DEF RowsOf

\* Rows untouched, and the call ends in an exception.
LEMMA StopRows ==
  ASSUME HostInv, NEW s \in Server, RowsOf(s), CompletedRows, call[s] # Idle,
         UNCHANGED <<runRow, memRun, taskRow>>, Raise(s)
  PROVE  RowsOf(s)' /\ CompletedRows'
<1>1. LifecycleTypeOK
  BY DEF HostInv
<1>2. call'[s] = Idle /\ <<s, call[s].goal>> \in raised' /\ raised \subseteq raised'
  BY <1>1, RaiseTypes
<1>3. CacheAgrees(s)' /\ CompletedRows'
  BY DEF RowsOf, CacheAgrees, StatusSeen, CompletedRows, Says
<1>4. FlightsAccounted(s)'
  BY <1>2 DEF RowsOf, FlightsAccounted, Says
<1>5. ExecutionInOrder(s)'
  BY <1>2 DEF ExecutionInOrder
<1> QED
  BY <1>3, <1>4, <1>5 DEF RowsOf

\* The status is saved at the end of a call, when nothing of it is in flight.
LEMMA StatusRows ==
  ASSUME HostInv, NEW s \in Server, RowsOf(s), CompletedRows, call[s] # Idle,
         call[s].at \in {"gate", "finish"}, UNCHANGED taskRow,
         NEW status \in RunStatus, SaveStatus(s, status), status # "CANCELLED",
         status = "COMPLETED" => \A n \in Role : Says(call[s].goal, n, {"VERIFIED"})
  PROVE  RowsOf(s)' /\ CompletedRows'
<1>1. LifecycleTypeOK
  BY DEF HostInv
<1>2. PICK h \in Goal : h = call[s].goal
  BY <1>1, TaskOfFacts
<1>3. /\ memRun'[s] = [memRun[s] EXCEPT ![h] = status]
      /\ call'[s] = Idle
      /\ raised \subseteq raised'
      /\ runRow' = [runRow EXCEPT ![h] = status] \/ runRow' = runRow
  BY <1>1, <1>2, SaveStatusTypes
<1>4. runRow[h] \notin Settled /\ ~Says(h, RoleOf(call[s]), StaleActive)
  BY <1>2 DEF RowsOf, ExecutionInOrder
<1>5. \A g \in Goal : g # h => runRow'[g] = runRow[g] /\ memRun'[s][g] = memRun[s][g]
  BY <1>1, <1>2, <1>3 DEF LifecycleTypeOK
<1>6. memRun'[s][h] = status /\ runRow'[h] \in {status, runRow[h]}
  BY <1>1, <1>2, <1>3 DEF LifecycleTypeOK
<1>7. status # NoRow
  BY NoneAssumption
<1>8. CacheAgrees(s)'
  BY <1>4, <1>5, <1>6, <1>7 DEF RowsOf, CacheAgrees, StatusSeen
<1>9. CompletedRows'
  BY <1>2, <1>4, <1>5, <1>6 DEF CompletedRows, Says, Settled
<1>10. FlightsAccounted(s)'
  BY <1>2, <1>3, <1>4 DEF RowsOf, FlightsAccounted, Says
<1>11. ExecutionInOrder(s)'
  BY <1>3 DEF ExecutionInOrder
<1> QED
  BY <1>8, <1>9, <1>10, <1>11 DEF RowsOf

\* The rows of one run change, none of them into something in flight, and the
\* run's status is not, or no longer, COMPLETED.
LEMMA RunRows ==
  ASSUME NEW s \in Server, NEW h \in Goal, RowsOf(s), CompletedRows, CacheAgrees(s)',
         \A g \in Goal : g # h => runRow'[g] = runRow[g],
         \A g \in Goal, n \in TaskName : g # h => taskRow'[g][n] = taskRow[g][n],
         \A n \in TaskName : Says(h, n, StaleActive)' => Says(h, n, StaleActive),
         runRow'[h] # "COMPLETED", raised \subseteq raised', ExecutionInOrder(s)',
         \/ call'[s] = call[s]
         \/ call[s] = Idle
         \/ call'[s] = Idle /\ call[s].goal = h /\ <<s, h>> \in raised'
         \/ /\ call'[s] # Idle /\ call'[s].goal = h /\ call[s].goal = h
            /\ call'[s].pos = call[s].pos
  PROVE  RowsOf(s)' /\ CompletedRows'
<1>1. CompletedRows'
  BY SaysKept DEF CompletedRows, TaskName
<1>2. FlightsAccounted(s)'
  <2> SUFFICES ASSUME NEW g \in Goal, NEW n \in TaskName, Says(g, n, StaleActive)'
               PROVE  \/ <<s, g>> \in raised'
                      \/ call'[s] # Idle /\ call'[s].goal = g /\ RoleOf(call'[s]) = n
    BY DEF FlightsAccounted, RoleOf
  <2>1. Says(g, n, StaleActive)
    BY SaysKept
  <2>2. \/ <<s, g>> \in raised
        \/ call[s] # Idle /\ call[s].goal = g /\ RoleOf(call[s]) = n
    BY <2>1 DEF RowsOf, FlightsAccounted
  <2> QED
    BY <2>2 DEF RoleOf
<1> QED
  BY <1>1, <1>2 DEF RowsOf

LEMMA RegisterRows ==
  ASSUME HostInv, NEW s \in Server, RowsOf(s), CompletedRows, RegisterTasks(s)
  PROVE  RowsOf(s)' /\ CompletedRows'
<1>1. LifecycleTypeOK /\ CallsInPlace
  BY DEF HostInv
<1>2. /\ call[s] # Idle /\ call[s].at = "register"
      /\ UNCHANGED <<runRow, memRun>>
  BY <1>1, RegisterFacts
<1>3. PICK h \in Goal : h = call[s].goal
  BY <1>1, <1>2, TaskOfFacts
<1>4. PICK k \in 0 .. 3 :
        /\ taskRow' = [taskRow EXCEPT ![h] = Fresh(taskRow[h], k)]
        /\ \/ k < 3 /\ Raise(s)
           \/ k = 3 /\ Goto(s, Step(s, "gate")) /\ UNCHANGED raised
  BY <1>1, <1>3, RegisterFacts
<1>5. taskRow[h] \in Board
  BY <1>1 DEF LifecycleTypeOK
<1>6. \A n \in TaskName : Fresh(taskRow[h], k)[n] \in {taskRow[h][n], Rec("PENDING", {})}
  BY <1>5, FreshFacts
<1>7. /\ \A g \in Goal, n \in TaskName : g # h => taskRow'[g][n] = taskRow[g][n]
      /\ \A n \in TaskName : taskRow'[h][n] \in {taskRow[h][n], Rec("PENDING", {})}
  BY <1>1, <1>4, <1>6 DEF LifecycleTypeOK
<1>8. \A n \in TaskName : Says(h, n, StaleActive)' => Says(h, n, StaleActive)
  BY <1>7, RecFacts DEF Says, StaleActive, TaskStatus
<1>9. runRow'[h] \notin Settled /\ runRow'[h] # "COMPLETED"
  BY <1>2, <1>3 DEF RowsOf, ExecutionInOrder, Settled
<1>10. CacheAgrees(s)'
  BY <1>2 DEF RowsOf, CacheAgrees, StatusSeen
<1>11. CASE Raise(s)
  <2>1. call'[s] = Idle /\ <<s, h>> \in raised' /\ raised \subseteq raised'
    BY <1>1, <1>2, <1>3, <1>11, RaiseTypes
  <2>2. ExecutionInOrder(s)'
    BY <2>1 DEF ExecutionInOrder
  <2> QED
    BY <1>2, <1>3, <1>7, <1>8, <1>9, <1>10, <2>1, <2>2, RunRows
<1>12. CASE k = 3 /\ Goto(s, Step(s, "gate")) /\ UNCHANGED raised
  <2>1. PICK next : next = Step(s, "gate")
    OBVIOUS
  <2>2. /\ next \in Execution /\ next.at = "gate"
        /\ next.goal = h /\ next.pos = call[s].pos
    BY <1>1, <1>2, <1>3, <2>1, StepFacts DEF ExecutionPoint
  <2>3. call'[s] = next /\ call'[s] # Idle
    BY <1>1, <1>12, <2>1, <2>2, GotoTypes, NoneAssumption
  <2>4. next.pos = 1
    BY <1>1, <1>2, <2>2 DEF CallsInPlace
  <2>5. Roles[1] \in Role /\ Roles[1] \in TaskName
    BY RoleFacts DEF TaskName
  <2>6. taskRow'[h][Roles[1]] = Rec("PENDING", {})
    BY <1>1, <1>4, <1>5, <1>12, <2>5, FreshFacts DEF LifecycleTypeOK
  <2>7. ~Says(h, Roles[1], StaleActive)'
    BY <2>6, RecFacts DEF Says, StaleActive, TaskStatus
  <2>8. ExecutionInOrder(s)'
    BY <1>9, <2>2, <2>3, <2>4, <2>7 DEF ExecutionInOrder, RoleOf
  <2> QED
    BY <1>2, <1>3, <1>7, <1>8, <1>9, <1>10, <1>12, <2>2, <2>3, <2>8, RunRows
<1> QED
  BY <1>4, <1>11, <1>12

LEMMA SubmitRows ==
  ASSUME HostInv, NEW s \in Server, RowsOf(s), CompletedRows, NEW h \in Goal, SubmitGoal(s, h)
  PROVE  RowsOf(s)' /\ CompletedRows'
<1>1. LifecycleTypeOK
  BY DEF HostInv
<1>2. /\ call[s] = Idle /\ UNCHANGED <<call, raised>>
      /\ runRow' = [runRow EXCEPT ![h] = "SUBMITTED"]
      /\ taskRow' = taskRow \/ taskRow' = [taskRow EXCEPT ![h] = FirstBoard]
      /\ \/ memRun' = memRun
         \/ memRun' = [memRun EXCEPT ![s] = [memRun[s] EXCEPT ![h] = "SUBMITTED"]]
  BY <1>1, SubmitFacts
<1>3. /\ \A g \in Goal : g # h => runRow'[g] = runRow[g] /\ memRun'[s][g] = memRun[s][g]
      /\ runRow'[h] = "SUBMITTED"
  BY <1>1, <1>2 DEF LifecycleTypeOK
<1>4. CacheAgrees(s)'
  BY <1>3 DEF RowsOf, CacheAgrees, StatusSeen, Settled
<1>5. ExecutionInOrder(s)'
  BY <1>2 DEF ExecutionInOrder
<1>6. /\ \A g \in Goal, n \in TaskName : g # h => taskRow'[g][n] = taskRow[g][n]
      /\ \A n \in TaskName : taskRow'[h][n] \in {taskRow[h][n], NoRow, Rec("PENDING", {})}
  BY <1>1, <1>2, FirstBoardFacts DEF LifecycleTypeOK
<1>7. \A n \in TaskName : Says(h, n, StaleActive)' => Says(h, n, StaleActive)
  BY <1>6, RecFacts DEF Says, StaleActive, TaskStatus
<1> QED
  BY <1>2, <1>3, <1>4, <1>5, <1>6, <1>7, RunRows

LEMMA CancelRows ==
  ASSUME HostInv, NEW s \in Server, RowsOf(s), CompletedRows, NEW h \in Goal, CancelRun(s, h)
  PROVE  RowsOf(s)' /\ CompletedRows'
<1>1. LifecycleTypeOK
  BY DEF HostInv
<1>2. /\ call[s] = Idle /\ UNCHANGED call /\ raised \subseteq raised'
      /\ runRow' = [runRow EXCEPT ![h] = "CANCELLED"]
      /\ memRun' = [memRun EXCEPT ![s] = [memRun[s] EXCEPT ![h] = "CANCELLED"]]
  BY <1>1, CancelFacts
<1>3. PICK tasks, k :
        /\ tasks \in Board
        /\ taskRow' = [taskRow EXCEPT ![h] = WithCancelled(tasks, taskRow[h], k)]
  BY <1>1, CancelFacts, SMTT(60)
<1>4. /\ \A g \in Goal : g # h => runRow'[g] = runRow[g] /\ memRun'[s][g] = memRun[s][g]
      /\ runRow'[h] = "CANCELLED" /\ memRun'[s][h] = "CANCELLED"
  BY <1>1, <1>2 DEF LifecycleTypeOK
<1>5. CacheAgrees(s)'
  BY <1>4 DEF RowsOf, CacheAgrees, StatusSeen, Settled
<1>6. ExecutionInOrder(s)'
  BY <1>2 DEF ExecutionInOrder
<1>7. /\ \A g \in Goal, n \in TaskName : g # h => taskRow'[g][n] = taskRow[g][n]
      /\ \A n \in TaskName : taskRow'[h][n] = taskRow[h][n] \/ taskRow'[h][n].status = "CANCELLED"
  BY <1>1, <1>3, CancelledFacts DEF LifecycleTypeOK
<1>8. \A n \in TaskName : Says(h, n, StaleActive)' => Says(h, n, StaleActive)
  BY <1>7 DEF Says, StaleActive
<1> QED
  BY <1>2, <1>4, <1>5, <1>6, <1>7, <1>8, RunRows

\* _execute_run starts on a run that the rows, too, say is open.
LEMMA ExecuteRows ==
  ASSUME HostInv, NEW s \in Server, RowsOf(s), CompletedRows, NEW h \in Goal,
         NEW cmds \in CommandMaps, ExecuteRun(s, h, cmds)
  PROVE  RowsOf(s)' /\ CompletedRows'
<1>1. LifecycleTypeOK
  BY DEF HostInv
<1>2. /\ call[s] = Idle /\ UNCHANGED <<runRow, raised>>
      /\ StatusSeen(s, h) \notin Settled
      /\ memRun' = [memRun EXCEPT ![s] = [memRun[s] EXCEPT ![h] = StatusSeen(s, h)]]
      /\ taskRow' = taskRow \/ taskRow' = [taskRow EXCEPT ![h] = Kept(h)]
  BY <1>1, ExecuteFacts
<1>3. PICK next \in Execution :
        /\ next.at = "register" /\ next.goal = h /\ next.pos = 1
        /\ call' = [call EXCEPT ![s] = next]
  BY <1>1, ExecuteFacts
<1>4. call'[s] = next
  BY <1>1, <1>3 DEF LifecycleTypeOK
<1>5. runRow[h] \notin Settled
  BY <1>2 DEF RowsOf, CacheAgrees
<1>6. \A g \in Goal : g # h => memRun'[s][g] = memRun[s][g]
  BY <1>1, <1>2 DEF LifecycleTypeOK
<1>7. CacheAgrees(s)'
  BY <1>2, <1>5, <1>6 DEF RowsOf, CacheAgrees, StatusSeen
<1>8. ExecutionInOrder(s)'
  BY <1>2, <1>3, <1>4, <1>5 DEF ExecutionInOrder
<1>9. /\ \A g \in Goal, n \in TaskName : g # h => taskRow'[g][n] = taskRow[g][n]
      /\ \A n \in TaskName : taskRow'[h][n] \in {taskRow[h][n], NoRow}
  BY <1>1, <1>2 DEF LifecycleTypeOK, Kept
<1>10. \A n \in TaskName : Says(h, n, StaleActive)' => Says(h, n, StaleActive)
  BY <1>9 DEF Says
<1> QED
  BY <1>2, <1>5, <1>7, <1>8, <1>9, <1>10, RunRows DEF Settled

\* A cache filled from the rows sees what it saw.
LEMMA ReadRows ==
  ASSUME HostInv, NEW s \in Server, RowsOf(s), CompletedRows, NEW h \in Goal,
         GetRun(s, h) \/ ListTasks(s, h)
  PROVE  RowsOf(s)' /\ CompletedRows'
<1>1. LifecycleTypeOK
  BY DEF HostInv
<1>2. /\ UNCHANGED <<runRow, taskRow, call, raised>>
      /\ \/ memRun' = memRun
         \/ /\ memRun[s][h] = NoRow
            /\ memRun' = [memRun EXCEPT ![s] = [memRun[s] EXCEPT ![h] = runRow[h]]]
  BY <1>1, ReadFacts
<1>3. \A g \in Goal : StatusSeen(s, g)' = StatusSeen(s, g)
  BY <1>1, <1>2 DEF StatusSeen, LifecycleTypeOK
<1>4. CacheAgrees(s)'
  BY <1>2, <1>3 DEF RowsOf, CacheAgrees
<1> QED
  BY <1>2, <1>4, SMTT(60) DEF RowsOf, ExecutionInOrder, FlightsAccounted, CompletedRows, Says, RoleOf

\* A server that starts alone finds rows with nothing in flight.
LEMMA RehydrateRows ==
  ASSUME HostInv, NEW s \in Server, CompletedRows, RehydrateRunsAndTasks(s)
  PROVE  RowsOf(s)' /\ CompletedRows'
<1>1. LifecycleTypeOK /\ CallsInPlace
  BY DEF HostInv
<1>2. /\ s \notin started /\ UNCHANGED <<runRow, call>>
      /\ taskRow' = ResetStaleActiveTasks(taskRow)
      /\ memRun' = [memRun EXCEPT ![s] = runRow]
  BY <1>1, RehydrateFacts
<1>3. call'[s] = Idle
  BY <1>1, <1>2 DEF CallsInPlace, LifecycleTypeOK
<1>4. \A g \in Goal : StatusSeen(s, g)' = runRow'[g]
  BY <1>1, <1>2 DEF StatusSeen, LifecycleTypeOK
<1>5. CacheAgrees(s)'
  BY <1>4 DEF CacheAgrees
<1>6. \A g \in Goal, n \in TaskName : ~Says(g, n, StaleActive)'
  BY <1>1, <1>2, ResetFacts DEF Says, StaleActive
<1>7. \A g \in Goal, n \in TaskName : Says(g, n, {"VERIFIED"}) => Says(g, n, {"VERIFIED"})'
  BY <1>1, <1>2, ResetFacts DEF Says, StaleActive
<1>8. CompletedRows'
  BY <1>2, <1>7 DEF CompletedRows, TaskName
<1>9. FlightsAccounted(s)' /\ ExecutionInOrder(s)'
  BY <1>3, <1>6 DEF FlightsAccounted, ExecutionInOrder
<1> QED
  BY <1>5, <1>8, <1>9 DEF RowsOf

\* A step of an execution.
LEMMA ExecutionRows ==
  ASSUME IInv, HostInv, NEW s \in Server, RowsOf(s), CompletedRows, ExecutionStep(s)
  PROVE  RowsOf(s)' /\ CompletedRows'
<1>1. LifecycleTypeOK
  BY DEF HostInv
<1>2. CASE OneTaskStep(s)
  <2>1. call[s] # Idle /\ call[s].at \in TaskPoint /\ ServerKeeps
    BY <1>2, OneTaskShape
  <2>2. ASSUME NEW rec, NEW next, Saves(s, rec, next) PROVE RowsOf(s)' /\ CompletedRows'
    BY <2>1, <2>2, SaveRows
  <2>3. ASSUME NEW next, MovesOn(s, next) PROVE RowsOf(s)' /\ CompletedRows'
    BY <2>1, <2>3, MoveRows DEF ServerKeeps
  <2>4. CASE Stops(s)
    BY <2>1, <2>4, StopRows DEF ServerKeeps, Stops
  <2> QED
    BY <1>2, <2>2, <2>3, <2>4, OneTaskShape
<1>3. CASE RegisterTasks(s)
  BY <1>3, RegisterRows
<1>4. CASE GateCommandExecution(s)
  <2>1. call[s] # Idle /\ call[s].at = "gate" /\ UNCHANGED taskRow
    BY <1>1, <1>4, GateFacts
  <2>2. CASE SaveStatus(s, "BLOCKED")
    BY <2>1, <2>2, StatusRows DEF RunStatus
  <2>3. CASE Raise(s) /\ UNCHANGED <<runRow, memRun>>
    BY <2>1, <2>3, StopRows
  <2> QED
    BY <1>1, <1>4, <2>2, <2>3, GateFacts
<1>5. CASE CreateCoordinator(s)
  <2>1. /\ call[s] # Idle /\ call[s].at = "gate"
        /\ UNCHANGED <<runRow, memRun, taskRow, memTasks, faults>>
    BY <1>5 DEF CreateCoordinator, At
  <2>2. CASE Goto(s, Step(s, "freeze")) /\ UNCHANGED raised
    <3>1. PICK next : MovesOn(s, next)
      BY <1>1, <2>1, <2>2, GoesOn DEF TaskPoint, ExecutionPoint
    <3> QED
      BY <2>1, <3>1, MoveRows
  <2>3. CASE Raise(s)
    BY <2>1, <2>3, StopRows
  <2> QED
    BY <1>5, <2>2, <2>3 DEF CreateCoordinator, Step
<1>6. CASE FinishRun(s)
  <2>1. PICK status : status = call[s].result
    OBVIOUS
  <2>2. /\ call[s] # Idle /\ call[s].at = "finish" /\ UNCHANGED taskRow
        /\ status \in {"FAILED", "COMPLETED"} /\ status \in RunStatus
        /\ SaveStatus(s, status)
    BY <1>1, <1>6, <2>1, FinishFacts
  <2>3. status = "COMPLETED" => \A n \in Role : Says(call[s].goal, n, {"VERIFIED"})
    BY <2>1, <2>2 DEF RowsOf, ExecutionInOrder
  <2> QED
    BY <2>2, <2>3, StatusRows
<1> QED
  BY <1>2, <1>3, <1>4, <1>5, <1>6 DEF ExecutionStep, OneTaskStep

LEMMA ToolRows ==
  ASSUME HostInv, NEW s \in Server, RowsOf(s), CompletedRows, NEW g \in Goal, ToolCall(s, g)
  PROVE  RowsOf(s)' /\ CompletedRows'
<1>1. CASE RejectApproval(s, g)
  <2>1. UNCHANGED <<runRow, taskRow, memRun, call, raised>>
    BY <1>1 DEF RejectApproval
  <2> QED
    BY <2>1, SMTT(60) DEF RowsOf, CacheAgrees, StatusSeen, ExecutionInOrder, FlightsAccounted,
      CompletedRows, Says, RoleOf
<1> QED
  BY <1>1, SubmitRows, ReadRows, CancelRows, ExecuteRows DEF ToolCall

\* The server that takes a step is up.
LEMMA ActorIsUp ==
  ASSUME NEW s \in Server, ExecutionStep(s) \/ \E g \in Goal : ToolCall(s, g)
  PROVE  s \in alive /\ UNCHANGED <<alive, overlapped>>
<1>1. CASE ExecutionStep(s)
  BY <1>1 DEF ExecutionStep, RegisterTasks, GateCommandExecution, CreateCoordinator, FreezeTask,
    CommandMissing, BeginTask, ReserveTask, CommandFails, CommandSucceeds, IssueTaskReceipt,
    CreateTaskEvidence, ReviewTask, GiveUpTask, FinishRun, At, ServerKeeps
<1>2. CASE \E g \in Goal : ToolCall(s, g)
  BY <1>2 DEF ToolCall, SubmitGoal, GetRun, ListTasks, CancelRun, RejectApproval, ExecuteRun, Free
<1> QED
  BY <1>1, <1>2

LEMMA RowsStep ==
  ASSUME IInv, HostInv, RowsInv, LifecycleNext
  PROVE  RowsInv'
<1> SUFFICES ASSUME ~overlapped'
             PROVE  /\ \A s, u \in alive' : s = u
                    /\ \A s \in alive' : RowsOf(s)'
                    /\ CompletedRows'
  BY DEF RowsInv
<1>1. LifecycleTypeOK
  BY DEF HostInv
<1>2. PICK s \in Server : RehydrateRunsAndTasks(s) \/ ServerDies(s) \/ ExecutionStep(s)
                            \/ \E g \in Goal : ToolCall(s, g)
  BY DEF LifecycleNext
<1>3. CASE ExecutionStep(s) \/ \E g \in Goal : ToolCall(s, g)
  <2>1. s \in alive /\ alive' = alive /\ overlapped' = overlapped
    BY <1>3, ActorIsUp
  <2>2. (\A x, u \in alive : x = u) /\ RowsOf(s) /\ CompletedRows
    BY <2>1 DEF RowsInv
  <2>3. RowsOf(s)' /\ CompletedRows'
    BY <1>3, <2>2, ExecutionRows, ToolRows
  <2>4. \A x \in alive' : x = s
    BY <2>1, <2>2
  <2>5. \A x \in alive' : RowsOf(x)'
    BY <2>3, <2>4
  <2> QED
    BY <2>1, <2>2, <2>3, <2>5
<1>4. CASE RehydrateRunsAndTasks(s)
  <2>1. alive' = alive \cup {s} /\ overlapped' = (overlapped \/ alive # {})
    BY <1>1, <1>4, RehydrateFacts
  <2>2. ~overlapped /\ alive = {} /\ alive' = {s}
    BY <2>1
  <2>3. RowsOf(s)' /\ CompletedRows'
    BY <1>4, <2>2, RehydrateRows DEF RowsInv
  <2>4. \A x \in alive' : x = s
    BY <2>2
  <2>5. \A x \in alive' : RowsOf(x)'
    BY <2>3, <2>4
  <2> QED
    BY <2>3, <2>4, <2>5
<1>5. CASE ServerDies(s)
  <2>1. s \in alive /\ alive' = alive \ {s} /\ UNCHANGED <<runRow, taskRow, overlapped>>
    BY <1>5, DeathKeepsTypes
  <2>2. alive' = {}
    BY <2>1 DEF RowsInv
  <2>3. CompletedRows'
    BY <2>1 DEF RowsInv, CompletedRows, Says
  <2> QED
    BY <2>2, <2>3
<1> QED
  BY <1>2, <1>3, <1>4, <1>5

LEMMA RowsInitially == LifecycleInit => RowsInv
<1> SUFFICES ASSUME LifecycleInit PROVE RowsInv
  OBVIOUS
<1>1. alive = {} /\ runRow = [g \in Goal |-> NoRow]
  BY DEF LifecycleInit
<1>2. CompletedRows
  BY <1>1, NoneAssumption DEF CompletedRows, RunStatus
<1> QED
  BY <1>1, <1>2 DEF RowsInv

THEOREM RowsInvariance == LifecycleSpec => [](DrivenInv /\ RowsInv)
<1>1. RowsInv /\ DrivenInv /\ [LifecycleNext]_allVars => RowsInv'
  <2>1. ASSUME RowsInv, UNCHANGED allVars PROVE RowsInv'
    BY <2>1 DEF RowsInv, RowsOf, CacheAgrees, StatusSeen, ExecutionInOrder, FlightsAccounted,
      CompletedRows, Says, RoleOf, allVars, hostVars
  <2> QED
    BY <2>1, RowsStep DEF DrivenInv
<1> QED
  BY <1>1, RowsInitially, LifecycleInvariance, PTL DEF LifecycleSpec

(***************************************************************************)
(* A run the database calls COMPLETED has all its tasks VERIFIED there,    *)
(* after any crashes, restarts, failed saves and repeated execute_run      *)
(* calls, as long as no two servers were up at once.                       *)
(***************************************************************************)
THEOREM CompletedRunsVerified == LifecycleSpec => []CompletedRunIsVerified
<1>1. RowsInv => CompletedRunIsVerified
  BY DEF RowsInv, CompletedRows, CompletedRunIsVerified, Says
<1> QED
  BY <1>1, RowsInvariance, PTL

(***************************************************************************)
(* "not left in phantom DISPATCHED": a row in flight belongs to the task   *)
(* its server is on or to an execution that raised.                        *)
(***************************************************************************)
THEOREM NoPhantoms == LifecycleSpec => []NoPhantomInFlight
<1>1. RowsInv => NoPhantomInFlight
  BY DEF RowsInv, RowsOf, FlightsAccounted, NoPhantomInFlight, Says, StaleActive
<1> QED
  BY <1>1, RowsInvariance, PTL

\* What FinishedRunsStayFinished says of one step and one run.
LEMMA FinishedStep ==
  ASSUME IInv, HostInv, RowsInv, LifecycleNext, NEW g \in Goal, runRow[g] \in Settled, ~overlapped'
  PROVE  /\ runRow'[g] \in {"CANCELLED", runRow[g]}
         /\ \A t \in ran' \ ran : t[2] # g
<1>1. LifecycleTypeOK
  BY DEF HostInv
<1>2. PICK s \in Server : RehydrateRunsAndTasks(s) \/ ServerDies(s) \/ ExecutionStep(s)
                            \/ \E h \in Goal : ToolCall(s, h)
  BY DEF LifecycleNext
<1>3. CASE UNCHANGED <<runRow, ran>>
  BY <1>3
<1>4. CASE RehydrateRunsAndTasks(s) \/ ServerDies(s)
  BY <1>3, <1>4 DEF RehydrateRunsAndTasks, ServerDies
<1>5. ASSUME NEW h \in Goal, ToolCall(s, h)
      PROVE  runRow'[g] \in {"CANCELLED", runRow[g]} /\ UNCHANGED ran
  <2>1. CASE SubmitGoal(s, h)
    <3>1. runRow[h] = NoRow /\ runRow' = [runRow EXCEPT ![h] = "SUBMITTED"] /\ UNCHANGED ran
      BY <1>1, <2>1, SubmitFacts
    <3>2. h # g
      BY <3>1, NoneAssumption DEF Settled, RunStatus
    <3> QED
      BY <1>1, <3>1, <3>2 DEF LifecycleTypeOK
  <2>2. CASE CancelRun(s, h)
    <3>1. runRow' = [runRow EXCEPT ![h] = "CANCELLED"] /\ UNCHANGED ran
      BY <1>1, <2>2, CancelFacts
    <3> QED
      BY <1>1, <3>1 DEF LifecycleTypeOK
  <2> QED
    BY <1>5, <2>1, <2>2 DEF ToolCall, GetRun, ListTasks, RejectApproval, ExecuteRun
<1>6. CASE ExecutionStep(s)
  <2>1. s \in alive /\ ~overlapped
    BY <1>6, ActorIsUp
  <2>2. call[s] # Idle
    BY <1>6 DEF ExecutionStep, RegisterTasks, GateCommandExecution, CreateCoordinator, FreezeTask,
      CommandMissing, BeginTask, ReserveTask, CommandFails, CommandSucceeds, IssueTaskReceipt,
      CreateTaskEvidence, ReviewTask, GiveUpTask, FinishRun, At
  <2>3. call[s].goal # g /\ call[s].goal \in Goal
    BY <1>1, <2>1, <2>2, TaskOfFacts DEF RowsInv, RowsOf, ExecutionInOrder
  <2>4. CASE OneTaskStep(s)
    <3>1. UNCHANGED runRow /\ ran' \subseteq ran \cup {TaskOf(s)}
      BY <2>4, OneTaskShape DEF ServerKeeps
    <3>2. TaskOf(s)[2] # g
      BY <2>3 DEF TaskOf
    <3> QED
      BY <3>1, <3>2
  <2>5. CASE \E status : SaveStatus(s, status) /\ UNCHANGED ran
    BY <1>1, <2>3, <2>5 DEF SaveStatus, LifecycleTypeOK
  <2> QED
    BY <1>3, <1>6, <2>4, <2>5 DEF ExecutionStep, OneTaskStep, RegisterTasks,
      GateCommandExecution, CreateCoordinator, FinishRun
<1> QED
  BY <1>2, <1>4, <1>5, <1>6

(***************************************************************************)
(* With one server at a time, once the database says a run is CANCELLED or *)
(* COMPLETED it stays so, or becomes CANCELLED, and no command of the run  *)
(* is started again, after any crash and restart.                          *)
(***************************************************************************)
THEOREM FinishedStaysFinished == LifecycleSpec => FinishedRunsStayFinished
<1>1. DrivenInv /\ RowsInv /\ [LifecycleNext]_allVars =>
        [\A g \in Goal : runRow[g] \in {"CANCELLED", "COMPLETED"} /\ ~overlapped' =>
           /\ runRow'[g] \in {"CANCELLED", runRow[g]}
           /\ \A t \in ran' \ ran : t[2] # g]_allVars
  BY FinishedStep DEF DrivenInv, Settled
<1> QED
  BY <1>1, RowsInvariance, PTL DEF LifecycleSpec, FinishedRunsStayFinished

(***************************************************************************)
(* What holds of coordinators holds of the servers that drive them:        *)
(* ceilings and conservation of the budget, VERIFIED only for what was     *)
(* reported and reviewed, slots accounted for, dispatches paid, and three  *)
(* failed rounds final, for any number of servers, restarts and failing    *)
(* saves.                                                                  *)
(***************************************************************************)
THEOREM ServedRunsAreSafe ==
  LifecycleSpec => [](/\ CeilingsHold /\ NoBudgetCreated /\ VerifiedIsEarned
                      /\ ReservationsAccountedFor /\ NoUnpaidDispatch
                      /\ ExhaustedNeverVerified)
BY LifecycleImplementsCoordinators, RunsRespectCeilings, RunsConserveBudget, VerifiedEarned,
   NoSlotLeak, DispatchesPaid, CapIsFinal, PTL
=============================================================================
