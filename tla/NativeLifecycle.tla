--------------------------- MODULE NativeLifecycle ---------------------------
(***************************************************************************)
(* Runs as the MCP server and the native lifecycle drive them:             *)
(*   server.py                    submit_goal, execute_run, cancel_run ... *)
(*   execution/native_runtime.py  SupervisedNativeLifecycle                *)
(*   storage/sqlite_store.py      the rows of runs and tasks               *)
(* on top of the coordinator, whose actions every step of a run takes.     *)
(*                                                                         *)
(* A Server is one server process, from its start to its death; a restart  *)
(* is another Server.  One process serves one tool call at a time, but     *)
(* each MCP client may have its own, and all of them share the database of *)
(* runs and tasks and the budget ledger.  What a process keeps in memory,  *)
(* _runs and _tasks, is a cache no other process invalidates.  A           *)
(* coordinator belongs to one process and one run.                         *)
(*                                                                         *)
(* Any save may raise (the database is locked): nothing in the lifecycle   *)
(* catches it, so the tool call ends there, with memory ahead of the row.  *)
(* Audit events are best effort (_log_event swallows every exception) and  *)
(* are left out, except the GOAL_SUBMITTED event submit_goal depends on.   *)
(***************************************************************************)
EXTENDS Coordinator, Sequences

CONSTANTS
  Server,        \* server processes
  Goal,          \* the runs clients submit
  CommandMaps,   \* the command maps clients pass: the roles that get a command
  MaxCalls,      \* bound: tool calls that change anything
  MaxFaults,     \* bound: calls of the database that raise
  NoRow,         \* no such row, no such entry of the dictionary
  TheKey         \* idempotency key dispatch:{run}:{task}

\* TaskDecomposer.decompose_goal: the order of the DAG is its only chain.
Roles == <<"PM", "DEVELOPER", "QA">>
Role == {Roles[i] : i \in 1 .. Len(Roles)}

ASSUME LifecycleAssumption ==
  /\ Run = Server \X Goal
  /\ Task = Server \X Goal \X Role
  /\ RunOf = [t \in Task |-> <<t[1], t[2]>>]
  /\ Deps = [t \in Task |-> {u \in Task : \E i \in 2 .. Len(Roles) :
                               /\ t = <<t[1], t[2], Roles[i]>>
                               /\ u = <<t[1], t[2], Roles[i - 1]>>}]
  /\ Key = {TheKey}
  /\ CommandMaps \subseteq SUBSET Role
  /\ MaxCalls \in Nat
  /\ MaxFaults \in Nat

TaskName == Role \cup {"initial"}   \* the record submit_goal makes
RunStatus == {"SUBMITTED", "BLOCKED", "FAILED", "COMPLETED", "CANCELLED"}
TaskStatus == {"PENDING", "FROZEN", "DISPATCHED", "PROCESS_SUCCEEDED", "VERIFIED",
               "UNVERIFIED", "FAILED", "CANCELLED", "RECOVERY_REQUIRED"}
TaskRecord == [status : TaskStatus, evidence : SUBSET Receipt]
Board == [TaskName -> TaskRecord \cup {NoRow}]   \* the tasks of one run
ExecutionPoint == {"register", "gate", "freeze", "begin", "reserve", "run", "issue",
                   "evidence", "review", "rejected"}
Execution ==
  [at : ExecutionPoint, goal : Goal, pos : 1 .. Len(Roles), cmds : SUBSET Role]
  \cup [at : {"finish"}, goal : Goal, pos : 1 .. Len(Roles), cmds : {{}},
        result : {"FAILED", "COMPLETED"}]

\* None is neither a status, nor a record, nor a dictionary of records.
ASSUME NoneAssumption ==
  /\ NoRow \notin RunStatus \cup TaskRecord \cup Board
  /\ Idle \notin Execution

VARIABLES
  alive,       \* server processes that are up
  started,     \* server processes that ever were
  runRow,      \* table runs: the status of each
  taskRow,     \* table tasks: status and evidence_ids of each
  memRun,      \* _runs of a server
  memTasks,    \* _tasks of a server
  pending,     \* runs with an unresolved action in a server's _pending
  principals,  \* runs whose principals a server's IdentityRegistry holds
  call,        \* the _execute_run a server is in
  calls,       \* auxiliary: tool calls made, for their bound
  faults,      \* auxiliary: database errors met, for their bound
  ran,         \* auxiliary: tasks whose command was started
  raised,      \* auxiliary: executions that ended in an exception
  overlapped   \* auxiliary: two servers have been up at the same time

hostVars == <<alive, started, runRow, taskRow, memRun, memTasks, pending,
              principals, call, calls, faults, ran, raised, overlapped>>
allVars == <<vars, hostVars>>

Rec(status, ev) == [status |-> status, evidence |-> ev]

LifecycleInit ==
  /\ Init
  /\ alive = {}
  /\ started = {}
  /\ runRow = [g \in Goal |-> NoRow]
  /\ taskRow = [g \in Goal |-> [n \in TaskName |-> NoRow]]
  /\ memRun = [s \in Server |-> [g \in Goal |-> NoRow]]
  /\ memTasks = [s \in Server |-> [g \in Goal |-> NoRow]]
  /\ pending = [s \in Server |-> {}]
  /\ principals = {}
  /\ call = [s \in Server |-> Idle]
  /\ calls = 0
  /\ faults = 0
  /\ ran = {}
  /\ raised = {}
  /\ overlapped = FALSE

\* The database is locked, or its disk is full.
Fault ==
  /\ faults < MaxFaults
  /\ faults' = faults + 1

-----------------------------------------------------------------------------
(* Server processes come and go.                                           *)

\* (a report that was in when the server died is taken for settled)
StaleActiveDispatchedOnly == {"DISPATCHED"}

\* reset_stale_active_tasks
StaleActive == {"DISPATCHED", "PROCESS_SUCCEEDED"}

\* (a reset that catches every task which is not pending)
ResetEverything(rows) ==
  [g \in Goal |-> [n \in TaskName |->
    IF rows[g][n] # NoRow /\ rows[g][n].status # "PENDING"
    THEN [rows[g][n] EXCEPT !.status = "RECOVERY_REQUIRED"] ELSE rows[g][n]]]

ResetStaleActiveTasks(rows) ==
  [g \in Goal |-> [n \in TaskName |->
    IF rows[g][n] # NoRow /\ rows[g][n].status \in StaleActive
    THEN [rows[g][n] EXCEPT !.status = "RECOVERY_REQUIRED"] ELSE rows[g][n]]]

\* load_all_tasks has an entry only for a run with tasks.
Loaded(rows, g) == IF \A n \in TaskName : rows[g][n] = NoRow THEN NoRow ELSE rows[g]

RehydrateRunsAndTasks(s) ==
  /\ s \notin started
  /\ started' = started \cup {s}
  /\ overlapped' = (overlapped \/ alive # {})
  /\ alive' = alive \cup {s}
  /\ taskRow' = ResetStaleActiveTasks(taskRow)
  /\ memRun' = [memRun EXCEPT ![s] = runRow]
  /\ memTasks' = [memTasks EXCEPT ![s] = [g \in Goal |-> Loaded(taskRow', g)]]
  /\ UNCHANGED <<vars, runRow, pending, principals, call, ran, raised, calls, faults>>

\* All the coordinators of the process are lost at once.
ServerDies(s) ==
  /\ s \in alive
  /\ Crash({s} \X Goal)
  /\ alive' = alive \ {s}
  /\ memRun' = [memRun EXCEPT ![s] = [g \in Goal |-> NoRow]]
  /\ memTasks' = [memTasks EXCEPT ![s] = [g \in Goal |-> NoRow]]
  /\ pending' = [pending EXCEPT ![s] = {}]
  /\ call' = [call EXCEPT ![s] = Idle]
  /\ UNCHANGED <<started, runRow, taskRow, principals, ran, raised, overlapped,
                 calls, faults>>

-----------------------------------------------------------------------------
(* Tool calls that end in one step.                                        *)

Free(s) ==
  /\ s \in alive
  /\ call[s] = Idle
  /\ calls < MaxCalls
  /\ calls' = calls + 1

\* The two rows, then the audit event.  When the event cannot be written the
\* rows are deleted again (nothing changed), if the database lets them be; and
\* when the second row cannot be written the first one stays.
SubmitGoal(s, g) ==
  LET first == [n \in TaskName |-> IF n = "initial" THEN Rec("PENDING", {}) ELSE NoRow]
  IN
  /\ Free(s)
  /\ runRow[g] = NoRow
  /\ runRow' = [runRow EXCEPT ![g] = "SUBMITTED"]
  /\ \/ /\ taskRow' = [taskRow EXCEPT ![g] = first]
        /\ memRun' = [memRun EXCEPT ![s][g] = "SUBMITTED"]
        /\ memTasks' = [memTasks EXCEPT ![s][g] = first]
        /\ UNCHANGED faults
     \/ /\ taskRow' \in {taskRow, [taskRow EXCEPT ![g] = first]}
        /\ Fault
        /\ UNCHANGED <<memRun, memTasks>>
  /\ UNCHANGED <<vars, alive, started, pending, principals, call, ran, raised,
                 overlapped>>

\* get_run, and list_tasks or get_task_evidence: fill the cache from the rows.
GetRun(s, g) ==
  /\ Free(s)
  /\ runRow[g] # NoRow
  /\ memRun[s][g] = NoRow
  /\ memRun' = [memRun EXCEPT ![s][g] = runRow[g]]
  /\ memTasks' = [memTasks EXCEPT ![s][g] = IF @ = NoRow THEN taskRow[g] ELSE @]
  /\ UNCHANGED <<vars, alive, started, runRow, taskRow, pending, principals, call,
                 ran, raised, overlapped, faults>>

ListTasks(s, g) ==
  /\ Free(s)
  /\ runRow[g] # NoRow
  /\ memTasks[s][g] = NoRow
  /\ memTasks' = [memTasks EXCEPT ![s][g] = taskRow[g]]
  /\ UNCHANGED <<vars, alive, started, runRow, taskRow, memRun, pending, principals,
                 call, ran, raised, overlapped, faults>>

Cancellable(rec) ==
  rec # NoRow /\ rec.status \notin {"VERIFIED", "FAILED", "CANCELLED"}

CancelOrder == <<"initial">> \o Roles

\* The records of tasks that are not settled, cancelled up to the k-th, over old.
WithCancelled(tasks, old, k) == [n \in TaskName |->
  IF Cancellable(tasks[n]) /\ \E i \in 1 .. k : CancelOrder[i] = n
  THEN Rec("CANCELLED", tasks[n].evidence) ELSE old[n]]

\* The run row first, then each task of the cache that is not settled; a save
\* that raises leaves the rest, in the cache the one task that failed excepted.
CancelRun(s, g) ==
  LET tasks == IF memTasks[s][g] = NoRow THEN taskRow[g] ELSE memTasks[s][g]
      all == Len(CancelOrder)
  IN
  /\ Free(s)
  /\ runRow[g] # NoRow
  /\ runRow' = [runRow EXCEPT ![g] = "CANCELLED"]
  /\ memRun' = [memRun EXCEPT ![s][g] = "CANCELLED"]
  /\ \E k \in 0 .. all :
       /\ IF k < all THEN Fault ELSE UNCHANGED faults
       /\ taskRow' = [taskRow EXCEPT ![g] = WithCancelled(tasks, @, k)]
       /\ memTasks' = [memTasks EXCEPT ![s][g] =
                         WithCancelled(tasks, tasks, IF k < all THEN k + 1 ELSE k)]
       /\ raised' = IF k < all THEN raised \cup {<<s, g>>} ELSE raised
  /\ UNCHANGED <<vars, alive, started, pending, principals, call, ran, overlapped>>

\* PendingActionQueue.resolve: a rejection, the only resolution it accepts.
RejectApproval(s, g) ==
  /\ Free(s)
  /\ g \in pending[s]
  /\ pending' = [pending EXCEPT ![s] = @ \ {g}]
  /\ UNCHANGED <<vars, alive, started, runRow, taskRow, memRun, memTasks, principals,
                 call, ran, raised, overlapped, faults>>

-----------------------------------------------------------------------------
(* _execute_run, up to the coordinator.                                    *)

\* (a cancelled run is taken for one that can be tried again)
FinishedUnlessCancelled == {"COMPLETED", "VERIFIED"}

\* Statuses with which _execute_run returns at once.
Finished == {"COMPLETED", "VERIFIED", "CANCELLED"}

Goto(s, next) == call' = [call EXCEPT ![s] = next]

\* An exception nobody catches: the tool call ends, the server goes on.
Raise(s) ==
  /\ raised' = raised \cup {<<s, call[s].goal>>}
  /\ Goto(s, Idle)

At(s, step) == s \in alive /\ call[s] # Idle /\ call[s].at = step

\* The status read is the cache's; the pending tasks are deleted if possible.
ExecuteRun(s, g, cmds) ==
  LET status == IF memRun[s][g] = NoRow THEN runRow[g] ELSE memRun[s][g]
      kept == [n \in TaskName |-> IF taskRow[g][n] # NoRow /\ taskRow[g][n].status = "PENDING"
                                  THEN NoRow ELSE taskRow[g][n]]
  IN
  /\ Free(s)
  /\ status # NoRow
  /\ status \notin Finished
  /\ memRun' = [memRun EXCEPT ![s][g] = status]
  /\ \/ taskRow' = [taskRow EXCEPT ![g] = kept] /\ UNCHANGED faults
     \/ Fault /\ UNCHANGED taskRow
  /\ Goto(s, [at |-> "register", goal |-> g, pos |-> 1, cmds |-> cmds])
  /\ UNCHANGED <<vars, alive, started, runRow, memTasks, pending, principals, ran,
                 raised, overlapped>>

\* upsert_task of the first k decomposed records.
Fresh(old, k) == [n \in TaskName |->
  IF \E i \in 1 .. k : Roles[i] = n THEN Rec("PENDING", {}) ELSE old[n]]

\* The decomposed records, one after the other, whatever the rows said before;
\* _tasks takes the new records when all are in.
RegisterTasks(s) ==
  LET g == call[s].goal IN
  /\ At(s, "register")
  /\ \E k \in 0 .. Len(Roles) :
       /\ taskRow' = [taskRow EXCEPT ![g] = Fresh(@, k)]
       /\ \/ /\ k < Len(Roles)
             /\ Fault
             /\ Raise(s)
             /\ UNCHANGED memTasks
          \/ /\ k = Len(Roles)
             /\ Goto(s, [call[s] EXCEPT !.at = "gate"])
             /\ memTasks' = [memTasks EXCEPT ![s][g] = Fresh([n \in TaskName |-> NoRow], k)]
             /\ UNCHANGED <<raised, faults>>
  /\ UNCHANGED <<vars, alive, started, runRow, memRun, pending, principals, ran,
                 overlapped, calls>>

\* The end of _execute_run: the status goes to the cache and to the row, over
\* whatever is there.
SaveStatus(s, status) ==
  LET g == call[s].goal IN
  /\ memRun' = [memRun EXCEPT ![s][g] = status]
  /\ \/ /\ runRow' = [runRow EXCEPT ![g] = status]
        /\ Goto(s, Idle)
        /\ UNCHANGED <<raised, faults>>
     \/ /\ Fault
        /\ Raise(s)
        /\ UNCHANGED runRow

\* PendingActionQueue.enqueue: in memory first, then its row, which nobody loads.
Enqueue(s, g) == pending' = [pending EXCEPT ![s] = @ \cup {g}]

\* _gate_command_execution finds a command that is neither granted nor on the
\* allowlist: one pending action per run and command, and the run is BLOCKED.
\* (No code grants an approval: _approved_commands stays empty.)
GateCommandExecution(s) ==
  /\ At(s, "gate")
  /\ call[s].cmds # {}
  /\ Enqueue(s, call[s].goal)
  /\ \/ SaveStatus(s, "BLOCKED")
     \/ /\ call[s].goal \notin pending[s]
        /\ Fault
        /\ Raise(s)
        /\ UNCHANGED <<runRow, memRun>>
  /\ UNCHANGED <<vars, alive, started, taskRow, memTasks, principals, ran, overlapped, calls>>

\* create_coordinator_for_run: registering the principals of the run a second
\* time in the life of a process raises.
CreateCoordinator(s) ==
  LET r == <<s, call[s].goal>> IN
  /\ At(s, "gate")
  /\ principals' = principals \cup {r}
  /\ \/ /\ r \notin principals
        /\ Goto(s, [call[s] EXCEPT !.at = "freeze"])
        /\ UNCHANGED raised
     \/ /\ r \in principals
        /\ Raise(s)
  /\ UNCHANGED <<vars, alive, started, runRow, taskRow, memRun, memTasks, pending, ran,
                 overlapped, calls, faults>>

-----------------------------------------------------------------------------
(* execute_lifecycle: the steps of one task, in order.                     *)

RoleOf(c) == Roles[c.pos]
TaskOf(s) == <<s, call[s].goal, RoleOf(call[s])>>

\* record["status"] = ..., upsert_task(record), and on to the next step.
Save(s, rec, next) ==
  LET c == call[s] IN
  /\ memTasks' = [memTasks EXCEPT ![s][c.goal][RoleOf(c)] = rec]
  /\ \/ /\ taskRow' = [taskRow EXCEPT ![c.goal][RoleOf(c)] = rec]
        /\ Goto(s, next)
        /\ UNCHANGED <<raised, faults>>
     \/ /\ Fault
        /\ Raise(s)
        /\ UNCHANGED taskRow

Step(s, step) == [call[s] EXCEPT !.at = step]
Ended(s, status) ==
  [at |-> "finish", goal |-> call[s].goal, pos |-> call[s].pos, cmds |-> {},
   result |-> status]

ServerKeeps == UNCHANGED <<alive, started, runRow, memRun, pending, principals,
                           calls, overlapped>>

FreezeTask(s) ==
  /\ At(s, "freeze")
  /\ Freeze(TaskOf(s))
  /\ Save(s, Rec("FROZEN", {}), Step(s, "begin"))
  /\ UNCHANGED ran
  /\ ServerKeeps

CommandMissing(s) ==
  /\ At(s, "begin")
  /\ RoleOf(call[s]) \notin call[s].cmds
  /\ Save(s, Rec("FAILED", {}), Ended(s, "FAILED"))
  /\ UNCHANGED <<vars, ran>>
  /\ ServerKeeps

BeginTask(s) ==
  /\ At(s, "begin")
  /\ RoleOf(call[s]) \in call[s].cmds
  /\ \E a \in Allowance :
       \/ /\ BeginDispatch(TaskOf(s), TheKey, a)
          /\ Goto(s, Step(s, "reserve"))
          /\ UNCHANGED raised
       \/ /\ \/ Cardinality(reservations) >= ConfiguredWorkers
             \/ a.tokens > tokens
             \/ a.cost > cost
          /\ Raise(s)
          /\ UNCHANGED vars
  /\ UNCHANGED <<taskRow, memTasks, ran, faults>>
  /\ ServerKeeps

ReserveTask(s) ==
  LET r == <<s, call[s].goal>> IN
  /\ At(s, "reserve")
  /\ \/ /\ BeginReserve(r)
        /\ Save(s, Rec("DISPATCHED", {}), Step(s, "run"))
     \/ /\ BeginRefused(r)
        /\ Raise(s)
        /\ UNCHANGED <<taskRow, memTasks, faults>>
  /\ UNCHANGED ran
  /\ ServerKeeps

\* (the slot of a command that failed is left to the ledger)
CommandFailsKeepingSlot(s) ==
  /\ At(s, "run")
  /\ ran' = ran \cup {TaskOf(s)}
  /\ Save(s, Rec("FAILED", {}), Ended(s, "FAILED"))
  /\ UNCHANGED vars
  /\ ServerKeeps

\* run_isolated ends with another exit code, times out or raises.
CommandFails(s) ==
  /\ At(s, "run")
  /\ ran' = ran \cup {TaskOf(s)}
  /\ ReleaseDispatch(TaskOf(s))
  /\ Save(s, Rec("FAILED", {}), Ended(s, "FAILED"))
  /\ ServerKeeps

\* Exit code 0, and the developer's report.
CommandSucceeds(s) ==
  LET t == TaskOf(s) IN
  /\ At(s, "run")
  /\ ran' = ran \cup {t}
  /\ ReportProcessSucceeded(t, dispatch[t], dispatchTree[t])
  /\ Save(s, Rec("PROCESS_SUCCEEDED", {}), Step(s, "issue"))
  /\ ServerKeeps

IssueTaskReceipt(s) ==
  LET t == TaskOf(s) IN
  /\ At(s, "issue")
  /\ IssueReceipt(t, TheKey, dispatchTree[t], 0)
  /\ Goto(s, Step(s, "evidence"))
  /\ UNCHANGED <<taskRow, memTasks, ran, raised, faults>>
  /\ ServerKeeps

TaskReceipt(t) ==
  [task |-> t, dispatch |-> dispatch[t], tree |-> dispatchTree[t], exit |-> 0]

CreateTaskEvidence(s) ==
  /\ At(s, "evidence")
  /\ CreateEvidence(TaskReceipt(TaskOf(s)))
  /\ Goto(s, Step(s, "review"))
  /\ UNCHANGED <<taskRow, memTasks, ran, raised, faults>>
  /\ ServerKeeps

NextTask(s) ==
  IF call[s].pos < Len(Roles) THEN [call[s] EXCEPT !.at = "freeze", !.pos = @ + 1]
  ELSE Ended(s, "COMPLETED")

\* (the record is marked VERIFIED before the decision is looked at)
ReviewTaskUnread(s) ==
  LET t == TaskOf(s) IN
  /\ At(s, "review")
  /\ \E tr \in Tree, ok \in BOOLEAN :
       \/ QaAccept(t, 0, {TaskReceipt(t)}, tr, ok)
       \/ QaReject(t, 0, {TaskReceipt(t)}, tr, ok)
  /\ Save(s, Rec("VERIFIED", {TaskReceipt(t)}), NextTask(s))
  /\ UNCHANGED ran
  /\ ServerKeeps

\* The QA tests are run, then the checkout, its tree and the test files are
\* looked at again: ok stands for tests passed, clean and hashes as pinned.
ReviewTask(s) ==
  LET t == TaskOf(s) IN
  /\ At(s, "review")
  /\ \E tr \in Tree, ok \in BOOLEAN :
       \/ /\ QaAccept(t, 0, {TaskReceipt(t)}, tr, ok)
          /\ Save(s, Rec("VERIFIED", {TaskReceipt(t)}), NextTask(s))
       \/ /\ QaReject(t, 0, {TaskReceipt(t)}, tr, ok)
          /\ Goto(s, Step(s, "rejected"))
          /\ UNCHANGED <<taskRow, memTasks, raised, faults>>
  /\ UNCHANGED ran
  /\ ServerKeeps

\* decision.status of a first round that failed is UNVERIFIED.
GiveUpTask(s) ==
  /\ At(s, "rejected")
  /\ ReleaseDispatch(TaskOf(s))
  /\ Save(s, Rec("UNVERIFIED", {}), Ended(s, "FAILED"))
  /\ UNCHANGED ran
  /\ ServerKeeps

FinishRun(s) ==
  /\ At(s, "finish")
  /\ SaveStatus(s, call[s].result)
  /\ UNCHANGED <<vars, alive, started, taskRow, memTasks, pending, principals, ran,
                 overlapped, calls>>

-----------------------------------------------------------------------------
\* The thread of a server in _execute_run.
ExecutionStep(s) ==
  \/ RegisterTasks(s)
  \/ GateCommandExecution(s)
  \/ CreateCoordinator(s)
  \/ FreezeTask(s)
  \/ CommandMissing(s)
  \/ BeginTask(s)
  \/ ReserveTask(s)
  \/ CommandFails(s)
  \/ CommandSucceeds(s)
  \/ IssueTaskReceipt(s)
  \/ CreateTaskEvidence(s)
  \/ ReviewTask(s)
  \/ GiveUpTask(s)
  \/ FinishRun(s)

ToolCall(s, g) ==
  \/ SubmitGoal(s, g)
  \/ GetRun(s, g)
  \/ ListTasks(s, g)
  \/ CancelRun(s, g)
  \/ RejectApproval(s, g)
  \/ \E cmds \in CommandMaps : ExecuteRun(s, g, cmds)

LifecycleNext ==
  \E s \in Server :
    \/ RehydrateRunsAndTasks(s)
    \/ ServerDies(s)
    \/ ExecutionStep(s)
    \/ \E g \in Goal : ToolCall(s, g)

(***************************************************************************)
(* The only fairness: a server that is up and inside a tool call goes on   *)
(* with it.  The one external wait of the lifecycle, run_isolated, has a   *)
(* timeout of 30 seconds.  Clients need not call, servers need not start.  *)
(***************************************************************************)
LifecycleSpec ==
  /\ LifecycleInit
  /\ [][LifecycleNext]_allVars
  /\ \A s \in Server : WF_allVars(ExecutionStep(s))

-----------------------------------------------------------------------------
\* The rows, the caches and the calls under way have their types.
LifecycleTypeOK ==
  /\ started \subseteq Server
  /\ alive \subseteq started
  /\ runRow \in [Goal -> RunStatus \cup {NoRow}]
  /\ taskRow \in [Goal -> Board]
  /\ memRun \in [Server -> [Goal -> RunStatus \cup {NoRow}]]
  /\ memTasks \in [Server -> [Goal -> Board \cup {NoRow}]]
  /\ pending \in [Server -> SUBSET Goal]
  /\ principals \subseteq Run
  /\ call \in [Server -> Execution \cup {Idle}]
  /\ calls \in 0 .. MaxCalls
  /\ faults \in 0 .. MaxFaults
  /\ ran \subseteq Task
  /\ raised \subseteq Run
  /\ overlapped \in BOOLEAN

(***************************************************************************)
(* INV-01 of docs/INVARIANTS.md at the far end, where a client reads it: a *)
(* task that any server's cache or the database calls VERIFIED carries     *)
(* evidence, and the coordinator of some execution verified that task with *)
(* just that evidence, from a command that was really run.  However many   *)
(* servers execute the same run, fail half-way, restart or cancel.         *)
(***************************************************************************)
EvidenceIsGenuine ==
  \A g \in Goal, n \in TaskName :
    \A rec \in {taskRow[g][n]} \cup
               {memTasks[s][g][n] : s \in {x \in Server : memTasks[x][g] # NoRow}} :
      rec # NoRow /\ rec.status = "VERIFIED" =>
        /\ rec.evidence # {}
        /\ \A e \in rec.evidence :
             /\ e \in evidence
             /\ e.task \in ran
             /\ e.task[2] = g /\ e.task[3] = n
             /\ state[e.task] = "VERIFIED"
             /\ verdict[e.task].receipts = rec.evidence

(***************************************************************************)
(* A run the database calls COMPLETED has all its tasks VERIFIED there,    *)
(* across crashes, restarts, failed saves and repeated execute_run calls,  *)
(* as long as no two servers were up at once (a second server with an old  *)
(* cache executes the run again over the rows).                            *)
(***************************************************************************)
CompletedRunIsVerified ==
  \A g \in Goal : runRow[g] = "COMPLETED" /\ ~overlapped =>
    \A n \in Role : taskRow[g][n] # NoRow /\ taskRow[g][n].status = "VERIFIED"

(***************************************************************************)
(* "Task must be marked RECOVERY_REQUIRED, not left in phantom DISPATCHED" *)
(* (tests/test_durable_control_plane.py): while a server is up, a task row *)
(* that says work is in flight belongs to the task that server is on, or   *)
(* to an execution that ended there in an exception.  One server at a time *)
(* again: a later one only cleans up what died before it started.          *)
(***************************************************************************)
NoPhantomInFlight ==
  \A s \in alive, g \in Goal, n \in TaskName :
    /\ ~overlapped
    /\ taskRow[g][n] # NoRow
    /\ taskRow[g][n].status \in {"DISPATCHED", "PROCESS_SUCCEEDED"}
    => \/ <<s, g>> \in raised
       \/ /\ call[s] # Idle
          /\ call[s].goal = g
          /\ RoleOf(call[s]) = n

(***************************************************************************)
(* "cancel_run updates run and all active tasks to CANCELLED durably"      *)
(* (tests/test_durable_control_plane.py), and a completed run is not       *)
(* executed again: once the database says a run is CANCELLED or COMPLETED, *)
(* with one server at a time, it never says anything else but CANCELLED,   *)
(* and no command of the run is started, after any crash and restart.      *)
(***************************************************************************)
FinishedRunsStayFinished ==
  [][\A g \in Goal : runRow[g] \in {"CANCELLED", "COMPLETED"} /\ ~overlapped' =>
       /\ runRow'[g] \in {"CANCELLED", runRow[g]}
       /\ \A t \in ran' \ ran : t[2] # g]_allVars

(***************************************************************************)
(* Liveness: every execution ends, and a worker slot obtained for a task   *)
(* comes back, whichever way the task ends: verified, rejected, failed, or *)
(* with its server.  The exception is an execution cut short by an         *)
(* exception: there is no try/finally around the slot.                     *)
(***************************************************************************)
SlotsComeBack ==
  \A s \in Server :
    call[s] # Idle ~>
      /\ call[s] = Idle
      /\ \A t \in Task : t[1] = s /\ activeId[t] # NoDispatch => RunOf[t] \in raised
=============================================================================
