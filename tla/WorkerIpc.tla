------------------------------ MODULE WorkerIpc ------------------------------
(***************************************************************************)
(* One worker process and the controller that owns its pipes:              *)
(*   execution/worker_process.py             WorkerProcessController       *)
(*   execution/worker_runtime_entrypoint.py  the child: a reader thread    *)
(*                                           and the main loop             *)
(* with the authority that issues the execution tickets (TrustedApproval). *)
(*                                                                         *)
(* Several threads of the controller (Client) call it at once.  A call is  *)
(* as many steps as it has places where another thread or the worker can   *)
(* come in between: the unlocked checks, the admission under _state_lock,  *)
(* the write, the wait for an answer under the reader's _consume_lock, the *)
(* accounting under _state_lock, the load and the save of the session row. *)
(* Every wait may time out at any moment, also when its answer is there.   *)
(*                                                                         *)
(* The pipe to the reader thread of the controller and the lines it holds  *)
(* back (_pending, queue) are one sequence: readline_matching takes the    *)
(* first line that matches and leaves the others in their order.           *)
(*                                                                         *)
(* Calls that raise or return before they changed anything are stuttering  *)
(* steps and left out.  Attempts are numbered by the calls that made them; *)
(* the numbers stand for request ids and are never read by the matching of *)
(* task results, which knows only the task id.                             *)
(***************************************************************************)
EXTENDS Naturals, Sequences, SequencesExt, TrustedApproval

CONSTANTS
  Client,     \* threads that call the controller
  Task,       \* task ids
  Kind,       \* what the payload of a task asks for
  For,        \* the task whose command an action approves
  Harness,    \* harness names
  InitHarness,
  Budget,     \* budget_tokens of the worker
  MaxCalls,   \* bound: calls made on the controller
  MaxSpawns,  \* bound: processes spawned
  NoTask,     \* no entry in _busy_task_ids
  Nobody,     \* a lock is free
  Quiet,      \* no call under way in a thread; no task in the main loop
  NoLine,     \* nothing read yet
  NoTokens    \* a result without tokens_consumed

TaskKind == {"command", "sleep", "instruction"}

ASSUME IpcAssumption ==
  /\ Kind \in [Task -> TaskKind]
  /\ For \in [Action -> Task]
  /\ InitHarness \in Harness
  /\ Budget \in Nat /\ MaxCalls \in Nat /\ MaxSpawns \in Nat
  /\ NoTask \notin Task
  /\ Nobody \notin Client
  /\ NoAction \notin Action
  /\ NoTokens \notin Nat

WorkerStatus == {"UNKNOWN", "IDLE", "RUNNING", "PAUSED", "INTERRUPTED", "FAILED", "ARCHIVED"}

VARIABLES
  proc,      \* the operating system's process: "none", "live", "exited", "killed"
  attached,  \* _processes and _readers have it
  rec,       \* _records: the status
  recTokens, \* _records: tokens_consumed
  session,   \* the durable session row: status, tokens_consumed, harness
  busy,      \* _busy_workers and _busy_task_ids
  lock,      \* who holds _state_lock over several steps
  reading,   \* who holds the reader's _consume_lock
  call,      \* what each thread is doing
  calls,     \* calls made so far
  spawns,    \* processes spawned so far
  stdin,     \* lines written to the child, not read yet
  inbox,     \* the child's msg_queue
  lines,     \* lines written by the child, not taken yet
  cancel,    \* the child's cancel_event
  running,   \* the task the child's main loop is in
  used,      \* the child's total_tokens_consumed
  harness,   \* the child's harness_name
  seen,      \* the child's consumed_action_ids
  aimed,     \* auxiliary: unanswered attempts an INTERRUPT was written after
  executed   \* auxiliary: how often the command of an action was started

ctlVars == <<attached, rec, recTokens, busy, lock, reading>>
boundVars == <<calls, spawns>>
childVars == <<proc, inbox, cancel, running, used, harness, seen>>
auxVars == <<aimed, executed>>
vars == <<approvalVars, ctlVars, session, call, boundVars, stdin, lines,
          childVars, auxVars>>

-----------------------------------------------------------------------------
(* Messages.  n is the number of the call that sent a TASK or RECONFIGURE. *)

TaskMsg(t, a, n) == [command |-> "TASK", task |-> t, action |-> a, n |-> n]
Plain(cmd) == [command |-> cmd, n |-> 0]
Reconfigure(h, n) == [command |-> "RECONFIGURE", harness |-> h, n |-> n]

Result(t, n, status, tk) ==
  [type |-> "RESULT", task |-> t, n |-> n, status |-> status, tokens |-> tk]
Event(type, n) == [type |-> type, n |-> n]

MessageSet ==
  [command : {"TASK"}, task : Task, action : Action \cup {NoAction}, n : Nat]
    \cup [command : {"RECONFIGURE"}, harness : Harness, n : Nat]
    \cup [command : {"PING", "INTERRUPT", "STOP", "EOF"}, n : Nat]
ResultSet ==
  [type : {"RESULT"}, task : Task, n : Nat, tokens : Nat \cup {NoTokens},
   status : {"COMPLETED", "FAILED", "CANCELLED", "DENIED"}]
LineSet == ResultSet \cup [type : {"PONG", "INTERRUPTED", "RECONFIGURED"}, n : Nat]

\* The session row.
SessionSet == [status : WorkerStatus, tokens : Nat, harness : Harness]

\* A call under way: what, where in it, for which task, and the session row and
\* the line it has read.
Call(op, at, t, a, n) ==
  [op |-> op, at |-> at, task |-> t, action |-> a, n |-> n,
   row |-> NoLine, line |-> NoLine]
WithRow(k) == [k EXCEPT !.row = session]

CallSet ==
  [op : {"dispatch", "async", "collect", "ping", "interrupt", "switch", "pause",
         "resume", "terminate", "kill"},
   at : {"admit", "write", "wait", "read", "account", "mark", "save", "commit", "stop",
         "stopping"},
   task : Task \cup Harness \cup {NoTask}, action : Action \cup {NoAction}, n : Nat,
   row : SessionSet \cup {NoLine}, line : LineSet \cup {NoLine}]

\* A task in the main loop of the child.
RunSet ==
  [task : Task, action : Action \cup {NoAction}, n : Nat, at : {"ready", "run"},
   hit : BOOLEAN]

ASSUME QuietAssumption == Quiet \notin CallSet \cup RunSet

At(c, at) == call[c] # Quiet /\ call[c].at = at
Goto(c, at) == call' = [call EXCEPT ![c].at = at]
Return(c) == call' = [call EXCEPT ![c] = Quiet]

\* Attempts the child has been sent and has not answered.
Unanswered ==
  {m.n : m \in {x \in ToSet(stdin) \cup ToSet(inbox) : x.command = "TASK"}}
    \cup (IF running = Quiet THEN {} ELSE {running.n})
Results == {m \in ToSet(lines) : m.type = "RESULT"}

Init ==
  /\ ApprovalInit
  /\ proc = "none" /\ attached = FALSE
  /\ rec = "UNKNOWN" /\ recTokens = 0
  /\ session = [status |-> "UNKNOWN", tokens |-> 0, harness |-> InitHarness]
  /\ busy = NoTask /\ lock = Nobody /\ reading = Nobody
  /\ call = [c \in Client |-> Quiet]
  /\ calls = 0 /\ spawns = 0
  /\ stdin = <<>> /\ inbox = <<>> /\ lines = <<>>
  /\ cancel = FALSE /\ running = Quiet
  /\ used = 0 /\ harness = InitHarness /\ seen = {}
  /\ aimed = {}
  /\ executed = [a \in Action |-> 0]

-----------------------------------------------------------------------------
(* The life of the process.                                                *)

\* is_worker_alive, has_attached_worker_ipc
Alive == proc = "live"
AttachedIpc == attached /\ Alive

(***************************************************************************)
(* spawn_worker, as crash recovery calls it: never while a process of this *)
(* worker is alive, and no other call on the worker overlaps it.  A        *)
(* process that fails its INIT handshake is killed and nothing changes.    *)
(***************************************************************************)
SpawnWorker ==
  /\ spawns < MaxSpawns
  /\ ~Alive
  /\ \A c \in Client : call[c] = Quiet
  /\ spawns' = spawns + 1
  /\ proc' = "live" /\ attached' = TRUE
  /\ rec' = "IDLE" /\ recTokens' = session.tokens
  /\ session' = [session EXCEPT !.status = "IDLE"]
  /\ busy' = NoTask
  /\ stdin' = <<>> /\ inbox' = <<>> /\ lines' = <<>>
  /\ cancel' = FALSE /\ running' = Quiet
  /\ used' = session.tokens /\ harness' = session.harness /\ seen' = {}
  /\ aimed' = {}
  /\ UNCHANGED <<approvalVars, lock, reading, call, calls, executed>>

\* The end of a process takes its memory and its end of the pipe with it.
ChildGone ==
  /\ stdin' = <<>> /\ inbox' = <<>>
  /\ cancel' = FALSE /\ running' = Quiet
  /\ used' = 0 /\ harness' = InitHarness /\ seen' = {}
  /\ aimed' = {}

\* The operating system, or an exception the main loop does not catch.
WorkerDies ==
  /\ Alive
  /\ proc' = "killed"
  /\ ChildGone
  /\ UNCHANGED <<approvalVars, ctlVars, session, call, boundVars, lines, executed>>

\* A fresh supervisor on the same store: all the controller knew is gone.  An
\* orphan reads the end of its stdin and exits after what it was sent.
ControllerRestarts ==
  /\ attached
  /\ AuthorityLost
  /\ attached' = FALSE
  /\ rec' = "UNKNOWN" /\ recTokens' = 0
  /\ busy' = NoTask /\ lock' = Nobody /\ reading' = Nobody
  /\ call' = [c \in Client |-> Quiet]
  /\ stdin' = IF Alive THEN Append(stdin, Plain("EOF")) ELSE stdin
  /\ lines' = <<>>
  /\ UNCHANGED <<session, boundVars, childVars, auxVars>>

\* Both leave the controller without the worker and without its claim.  Only a
\* thread that waits already has the old reader still.
Forget(st) ==
  /\ attached' = FALSE
  /\ rec' = IF rec = "UNKNOWN" THEN rec ELSE st
  /\ session' = [session EXCEPT !.status = IF @ = "UNKNOWN" THEN @ ELSE st]
  /\ busy' = NoTask
  /\ lines' = IF \E c \in Client : At(c, "wait") \/ At(c, "read") THEN lines ELSE <<>>
  /\ UNCHANGED recTokens

ReapDeadWorkers ==
  /\ attached /\ ~Alive
  /\ Forget("FAILED")
  /\ UNCHANGED <<approvalVars, lock, reading, call, boundVars, stdin, childVars,
                 auxVars>>

\* reconcile_rehydrated_sessions: by the records first, then by the rows.
ReconcileRehydratedSessions ==
  /\ ~Alive
  /\ \/ rec # "UNKNOWN"
     \/ session.status \in {"RUNNING", "IDLE"}
  /\ rec' = "FAILED"
  /\ recTokens' = IF rec = "UNKNOWN" THEN session.tokens ELSE recTokens
  /\ session' = [session EXCEPT !.status = IF @ = "UNKNOWN" THEN @ ELSE "FAILED"]
  /\ UNCHANGED <<approvalVars, attached, busy, lock, reading, call, boundVars, stdin,
                 lines, childVars, auxVars>>

\* register_persisted_session, of an orphan.
RegisterPersistedSession ==
  /\ Alive /\ ~attached
  /\ rec' = "RUNNING" /\ recTokens' = session.tokens
  /\ session' = [session EXCEPT !.status = "RUNNING"]
  /\ UNCHANGED <<approvalVars, attached, busy, lock, reading, call, boundVars, stdin,
                 lines, childVars, auxVars>>

-----------------------------------------------------------------------------
(* Calls: sending a task, collecting its result.                           *)

Fresh(c) == call[c] = Quiet /\ calls < MaxCalls

Start(c, k) ==
  /\ call' = [call EXCEPT ![c] = k]
  /\ calls' = calls + 1
  /\ UNCHANGED spawns

\* A call without a task, an approval or a request id.
Simple(op, at) == Call(op, at, NoTask, NoAction, 0)

\* The unlocked look at the status, PAUSED or INTERRUPTED, and at the claim.
LooksFree == rec \notin {"PAUSED", "INTERRUPTED"} /\ busy = NoTask

(***************************************************************************)
(* dispatch_task_to_worker (op "dispatch") and send_task_async ("async"),  *)
(* up to the admission: the checks without the lock, and for a command the *)
(* ticket, which consumes the approval.  A refused ticket ends the call.   *)
(***************************************************************************)
BeginTask(c, op, t, a) ==
  /\ Fresh(c)
  /\ AttachedIpc
  /\ LooksFree
  /\ IF Kind[t] = "command"
     THEN a \in Action /\ For[a] = t /\ VerifyAndConsume(a)
     ELSE a = NoAction /\ UNCHANGED approvalVars
  /\ Start(c, Call(op, "admit", t, a, calls + 1))
  /\ UNCHANGED <<ctlVars, session, stdin, lines, childVars, auxVars>>

\* (the claim is looked at only once, before the lock is taken)
AdmissibleByStatus == rec \notin {"PAUSED", "INTERRUPTED", "FAILED", "ARCHIVED"}

Admissible ==
  /\ busy = NoTask
  /\ rec \notin {"PAUSED", "INTERRUPTED", "FAILED", "ARCHIVED"}

\* Under _state_lock: claim the worker, or give up; the ticket is not returned.
AdmitTask(c) ==
  /\ At(c, "admit")
  /\ lock = Nobody
  /\ \/ /\ Admissible
        /\ busy' = call[c].task
        /\ Goto(c, "write")
     \/ /\ ~Admissible
        /\ Return(c)
        /\ UNCHANGED busy
  /\ UNCHANGED <<approvalVars, attached, rec, recTokens, lock, reading, session,
                 boundVars, stdin, lines, childVars, auxVars>>

\* Write the TASK; a broken pipe takes the claim back.
WriteTask(c) ==
  /\ At(c, "write")
  /\ \/ /\ AttachedIpc
        /\ stdin' = Append(stdin, TaskMsg(call[c].task, call[c].action, call[c].n))
        /\ IF call[c].op = "async" THEN Return(c) ELSE Goto(c, "wait")
        /\ UNCHANGED busy
     \/ /\ ~AttachedIpc
        /\ busy' = NoTask
        /\ Return(c)
        /\ UNCHANGED stdin
  /\ UNCHANGED <<approvalVars, attached, rec, recTokens, lock, reading, session,
                 boundVars, lines, childVars, auxVars>>

\* collect_async_result: only for the outstanding task, on attached pipes.
BeginCollect(c, t) ==
  /\ Fresh(c)
  /\ busy = t
  /\ AttachedIpc
  /\ Start(c, Call("collect", "wait", t, NoAction, 0))
  /\ UNCHANGED <<approvalVars, ctlVars, session, stdin, lines, childVars, auxVars>>

-----------------------------------------------------------------------------
(* Calls: control messages.                                                *)

Send(m) == stdin' = Append(stdin, m)

BeginPing(c) ==
  /\ Fresh(c)
  /\ AttachedIpc
  /\ Send(Plain("PING"))
  /\ Start(c, Simple("ping", "wait"))
  /\ UNCHANGED <<approvalVars, ctlVars, session, lines, childVars, auxVars>>

BeginInterrupt(c) ==
  /\ Fresh(c)
  /\ AttachedIpc
  /\ Send(Plain("INTERRUPT"))
  /\ aimed' = aimed \cup Unanswered
  /\ Start(c, Simple("interrupt", "wait"))
  /\ UNCHANGED <<approvalVars, ctlVars, session, lines, childVars, executed>>

\* switch_worker_harness holds _state_lock from its checks to its end.
BeginSwitch(c, h) ==
  /\ Fresh(c)
  /\ lock = Nobody
  /\ Alive
  /\ rec \in {"IDLE", "PAUSED"}
  /\ busy = NoTask
  /\ lock' = c
  /\ Start(c, WithRow(Call("switch", IF attached THEN "wait" ELSE "commit", h,
                           NoAction, calls + 1)))
  /\ IF attached THEN Send(Reconfigure(h, calls + 1)) ELSE UNCHANGED stdin
  /\ UNCHANGED <<approvalVars, attached, rec, recTokens, busy, reading, session,
                 lines, childVars, auxVars>>

\* pause_worker and resume_worker: the record at once, the row by a load and a
\* save.
BeginPause(c) ==
  /\ Fresh(c)
  /\ Alive
  /\ rec \in {"IDLE", "RUNNING"}
  /\ rec' = "PAUSED"
  /\ Start(c, WithRow(Simple("pause", "save")))
  /\ UNCHANGED <<approvalVars, attached, recTokens, busy, lock, reading, session,
                 stdin, lines, childVars, auxVars>>

BeginResume(c) ==
  /\ Fresh(c)
  /\ Alive
  /\ rec \in {"PAUSED", "INTERRUPTED"}
  /\ busy = NoTask
  /\ rec' = "IDLE"
  /\ Start(c, WithRow(Simple("resume", "save")))
  /\ UNCHANGED <<approvalVars, attached, recTokens, busy, lock, reading, session,
                 stdin, lines, childVars, auxVars>>

\* The row as it was loaded, with the new status: what others wrote in between
\* is lost.
SaveStatus(c) ==
  /\ At(c, "save")
  /\ session' = [call[c].row EXCEPT !.status =
       IF @ = "UNKNOWN" THEN @
       ELSE CASE call[c].op = "pause" -> "PAUSED"
              [] call[c].op = "resume" -> "IDLE"
              [] call[c].op = "interrupt" -> "INTERRUPTED"]
  /\ Return(c)
  /\ UNCHANGED <<approvalVars, ctlVars, boundVars, stdin, lines, childVars, auxVars>>

(***************************************************************************)
(* terminate_worker: STOP, one second for the worker to leave by itself,   *)
(* then the process tree is killed, the pipes are closed and the worker is *)
(* forgotten.  A worker known only by its record ("kill") has no exit code *)
(* and is archived.                                                        *)
(***************************************************************************)
BeginTerminate(c) ==
  /\ Fresh(c)
  /\ attached \/ rec # "UNKNOWN"
  /\ stdin' = IF AttachedIpc THEN Append(stdin, Plain("STOP")) ELSE stdin
  /\ Start(c, Simple(IF attached THEN "terminate" ELSE "kill", "stopping"))
  /\ UNCHANGED <<approvalVars, ctlVars, session, lines, childVars, auxVars>>

\* (the terminate inside a switch that raises past the release of the lock)
EndTerminateKeepsLock(c) ==
  /\ At(c, "stopping")
  /\ proc' = IF Alive THEN "killed" ELSE proc
  /\ ChildGone
  /\ Forget(IF call[c].op = "kill" \/ proc = "exited" THEN "ARCHIVED" ELSE "FAILED")
  /\ Return(c)
  /\ UNCHANGED <<approvalVars, lock, reading, boundVars, executed>>

EndTerminate(c) ==
  /\ At(c, "stopping")
  /\ proc' = IF Alive THEN "killed" ELSE proc
  /\ ChildGone
  /\ Forget(IF call[c].op = "kill" \/ proc = "exited" THEN "ARCHIVED" ELSE "FAILED")
  /\ lock' = IF lock = c THEN Nobody ELSE lock
  /\ Return(c)
  /\ UNCHANGED <<approvalVars, reading, boundVars, executed>>

-----------------------------------------------------------------------------
(* Waiting for an answer: TimedStreamReader.readline_matching.             *)

\* _is_task_result, _is_control_event, _is_reconfigure_ack
Answers(k, m) ==
  CASE k.op \in {"dispatch", "collect"} -> m.type = "RESULT" /\ m.task = k.task
    [] k.op = "ping" -> m.type = "PONG"
    [] k.op = "interrupt" -> m.type = "INTERRUPTED"
    [] k.op = "switch" -> m.type = "RECONFIGURED" /\ m.n = k.n

EnterRead(c) ==
  /\ At(c, "wait")
  /\ reading = Nobody
  /\ reading' = c
  /\ Goto(c, "read")
  /\ UNCHANGED <<approvalVars, attached, rec, recTokens, busy, lock, session,
                 boundVars, stdin, lines, childVars, auxVars>>

\* Where each call goes on with the line it waited for.
AfterAnswer(k, m) ==
  CASE k.op \in {"dispatch", "collect"} -> [k EXCEPT !.at = "account", !.line = m]
    [] k.op = "ping" -> Quiet
    [] k.op = "interrupt" -> [k EXCEPT !.at = "mark"]
    [] k.op = "switch" -> [k EXCEPT !.at = "commit"]

TakeLine(c) ==
  /\ At(c, "read")
  /\ \E i \in 1 .. Len(lines) :
       /\ Answers(call[c], lines[i])
       /\ \A j \in 1 .. i - 1 : ~Answers(call[c], lines[j])
       /\ lines' = RemoveAt(lines, i)
       /\ call' = [call EXCEPT ![c] = AfterAnswer(call[c], lines[i])]
  /\ reading' = Nobody
  /\ UNCHANGED <<approvalVars, attached, rec, recTokens, busy, lock, session,
                 boundVars, stdin, childVars, auxVars>>

\* The deadline, or the end of the child's output.  A task keeps its claim; a
\* switch that is not confirmed terminates the worker.
AfterTimeout(k) ==
  CASE k.op \in {"dispatch", "collect", "ping"} -> Quiet
    [] k.op = "interrupt" -> [k EXCEPT !.at = "mark"]
    [] k.op = "switch" -> [k EXCEPT !.at = "stop"]

TimeOut(c) ==
  /\ At(c, "read")
  /\ reading' = Nobody
  /\ call' = [call EXCEPT ![c] = AfterTimeout(call[c])]
  /\ UNCHANGED <<approvalVars, attached, rec, recTokens, busy, lock, session,
                 boundVars, stdin, lines, childVars, auxVars>>

\* (the row is written, the record in memory is not)
AccountRowOnly(c) ==
  /\ At(c, "account")
  /\ lock = Nobody
  /\ LET tk == call[c].line.tokens IN
       IF tk = NoTokens
       THEN UNCHANGED session
       ELSE session' = [session EXCEPT !.tokens = tk]
  /\ busy' = NoTask
  /\ Return(c)
  /\ UNCHANGED <<approvalVars, attached, rec, recTokens, lock, reading, boundVars,
                 stdin, lines, childVars, auxVars>>

\* Under _state_lock: the tokens into the record and the row, then the claim.
Account(c) ==
  /\ At(c, "account")
  /\ lock = Nobody
  /\ LET tk == call[c].line.tokens IN
       IF tk = NoTokens
       THEN UNCHANGED <<recTokens, session>>
       ELSE /\ recTokens' = IF rec = "UNKNOWN" THEN recTokens ELSE tk
            /\ session' = [session EXCEPT !.tokens = tk]
  /\ busy' = NoTask
  /\ Return(c)
  /\ UNCHANGED <<approvalVars, attached, rec, lock, reading, boundVars, stdin, lines,
                 childVars, auxVars>>

\* interrupt_worker after its wait: the record, and the load of the row.
MarkInterrupted(c) ==
  /\ At(c, "mark")
  /\ rec' = IF rec = "UNKNOWN" THEN rec ELSE "INTERRUPTED"
  /\ call' = [call EXCEPT ![c].at = "save", ![c].row = session]
  /\ UNCHANGED <<approvalVars, attached, recTokens, busy, lock, reading, session,
                 boundVars, stdin, lines, childVars, auxVars>>

\* switch_worker_harness: the acknowledged configuration, over the row it loaded.
CommitSwitch(c) ==
  /\ At(c, "commit")
  /\ session' = [call[c].row EXCEPT !.harness = call[c].task]
  /\ lock' = Nobody
  /\ Return(c)
  /\ UNCHANGED <<approvalVars, attached, rec, recTokens, busy, reading, boundVars,
                 stdin, lines, childVars, auxVars>>

\* (a switch that gives up and leaves the worker as it is)
AbandonSwitch(c) ==
  /\ At(c, "stop")
  /\ lock' = Nobody
  /\ Return(c)
  /\ UNCHANGED <<approvalVars, attached, rec, recTokens, busy, reading, session,
                 boundVars, stdin, lines, childVars, auxVars>>

\* ... or the terminate_worker inside it.
AbortSwitch(c) ==
  /\ At(c, "stop")
  /\ stdin' = IF AttachedIpc THEN Append(stdin, Plain("STOP")) ELSE stdin
  /\ Goto(c, "stopping")
  /\ UNCHANGED <<approvalVars, ctlVars, session, boundVars, lines, childVars, auxVars>>

ClientStep(c) ==
  \/ AdmitTask(c) \/ WriteTask(c)
  \/ EnterRead(c) \/ TakeLine(c) \/ TimeOut(c)
  \/ Account(c) \/ MarkInterrupted(c) \/ SaveStatus(c)
  \/ CommitSwitch(c) \/ AbortSwitch(c) \/ EndTerminate(c)

NewCall(c) ==
  \/ \E op \in {"dispatch", "async"}, t \in Task, a \in Action \cup {NoAction} :
       BeginTask(c, op, t, a)
  \/ \E t \in Task : BeginCollect(c, t)
  \/ BeginPing(c)
  \/ BeginInterrupt(c)
  \/ \E h \in Harness : BeginSwitch(c, h)
  \/ BeginPause(c)
  \/ BeginResume(c)
  \/ BeginTerminate(c)

-----------------------------------------------------------------------------
(* The child.                                                              *)

\* stdin_reader_thread: an INTERRUPT takes effect on arrival, and is queued too.
\* hit is auxiliary: the task in the main loop was there when it arrived.
ReadStdin ==
  /\ Alive
  /\ stdin # <<>>
  /\ LET m == Head(stdin) IN
       /\ inbox' = Append(inbox, m)
       /\ cancel' = (cancel \/ m.command = "INTERRUPT")
       /\ running' = IF m.command = "INTERRUPT" /\ running # Quiet
                     THEN [running EXCEPT !.hit = TRUE] ELSE running
  /\ stdin' = Tail(stdin)
  /\ UNCHANGED <<approvalVars, ctlVars, session, call, boundVars, lines, proc, used,
                 harness, seen, auxVars>>

\* The main loop takes a message of one of the given commands.
Takes(cmds) ==
  /\ Alive
  /\ running = Quiet
  /\ inbox # <<>>
  /\ Head(inbox).command \in cmds

\* Only while a controller has the other end of the pipe.
Emit(m) == attached /\ lines' = Append(lines, m)

HandleControl ==
  /\ Takes({"PING", "INTERRUPT", "RECONFIGURE"})
  /\ LET m == Head(inbox) IN
       /\ cancel' = (cancel \/ m.command = "INTERRUPT")
       /\ harness' = IF m.command = "RECONFIGURE" THEN m.harness ELSE harness
       /\ Emit(Event(CASE m.command = "PING" -> "PONG"
                       [] m.command = "INTERRUPT" -> "INTERRUPTED"
                       [] m.command = "RECONFIGURE" -> "RECONFIGURED", m.n))
  /\ inbox' = Tail(inbox)
  /\ UNCHANGED <<approvalVars, ctlVars, session, call, boundVars, stdin, proc, running,
                 used, seen, auxVars>>

\* STOP, or the end of stdin.
HandleStop ==
  /\ Takes({"STOP", "EOF"})
  /\ proc' = "exited"
  /\ ChildGone
  /\ UNCHANGED <<approvalVars, ctlVars, session, call, boundVars, lines, executed>>

\* A task asks for one token; the budget is checked before anything else.
Affordable == used + 1 <= Budget

Answer(t, n, status, tk) ==
  /\ Emit(Result(t, n, status, tk))
  /\ aimed' = aimed \ {n}

(***************************************************************************)
(* TASK: the cancel event of earlier interrupts is cleared, then the       *)
(* checks: over budget, or a command whose ticket was used before or has   *)
(* expired, is answered with DENIED at once.                               *)
(***************************************************************************)
DenyTask ==
  /\ Takes({"TASK"})
  /\ LET m == Head(inbox) IN
       \/ /\ ~Affordable
          /\ Answer(m.task, m.n, "DENIED", used)
       \/ /\ Affordable
          /\ Kind[m.task] = "command"
          /\ Answer(m.task, m.n, "DENIED", NoTokens)
  /\ cancel' = FALSE
  /\ inbox' = Tail(inbox)
  /\ UNCHANGED <<approvalVars, ctlVars, session, call, boundVars, stdin, proc, running,
                 used, harness, seen, executed>>

Begin(m) == [task |-> m.task, action |-> m.action, n |-> m.n,
             at |-> IF Kind[m.task] = "command" THEN "ready" ELSE "run", hit |-> FALSE]

\* (the event of an earlier interrupt is not cleared)
StartTaskUncleared ==
  /\ Takes({"TASK"})
  /\ LET m == Head(inbox) IN
       /\ Affordable
       /\ m.action \notin seen
       /\ seen' = IF Kind[m.task] = "command" THEN seen \cup {m.action} ELSE seen
       /\ running' = Begin(m)
  /\ inbox' = Tail(inbox)
  /\ UNCHANGED <<approvalVars, ctlVars, session, call, boundVars, stdin, lines, proc,
                 cancel, used, harness, auxVars>>

StartTask ==
  /\ Takes({"TASK"})
  /\ LET m == Head(inbox) IN
       /\ Affordable
       /\ m.action \notin seen
       /\ seen' = IF Kind[m.task] = "command" THEN seen \cup {m.action} ELSE seen
       /\ running' = Begin(m)
  /\ cancel' = FALSE
  /\ inbox' = Tail(inbox)
  /\ UNCHANGED <<approvalVars, ctlVars, session, call, boundVars, stdin, lines, proc,
                 used, harness, auxVars>>

\* The subprocess of a command is started unless an interrupt came first.
StartCommand ==
  /\ Alive
  /\ running # Quiet
  /\ running.at = "ready"
  /\ ~cancel
  /\ running' = [running EXCEPT !.at = "run"]
  /\ executed' = [executed EXCEPT ![running.action] = @ + 1]
  /\ UNCHANGED <<approvalVars, ctlVars, session, call, boundVars, stdin, lines, proc,
                 inbox, cancel, used, harness, seen, aimed>>

\* Commands and sleeps look at the event before they report, a harness does not.
Cancellable == Kind[running.task] # "instruction"

CancelTask ==
  /\ Alive
  /\ running # Quiet
  /\ Cancellable
  /\ cancel
  /\ Answer(running.task, running.n, "CANCELLED", NoTokens)
  /\ running' = Quiet
  /\ UNCHANGED <<approvalVars, ctlVars, session, call, boundVars, stdin, proc, inbox,
                 cancel, used, harness, seen, executed>>

\* The outcome: metered success or failure, or a failure (timeout, exception,
\* nothing to execute) that is not metered.
FinishTask ==
  /\ Alive
  /\ running # Quiet
  /\ running.at = "run"
  /\ ~(Cancellable /\ cancel)
  /\ \/ /\ Kind[running.task] # "sleep"
        /\ used' = used + 1
        /\ \E st \in {"COMPLETED", "FAILED"} : Answer(running.task, running.n, st, used')
     \/ /\ Answer(running.task, running.n, "FAILED", NoTokens)
        /\ UNCHANGED used
  /\ running' = Quiet
  /\ UNCHANGED <<approvalVars, ctlVars, session, call, boundVars, stdin, proc, inbox,
                 cancel, harness, seen, executed>>

\* An orphan that writes to its broken pipe dies of it.
OrphanBreaks ==
  /\ Alive
  /\ ~attached
  /\ running # Quiet \/ Takes({"PING", "INTERRUPT", "RECONFIGURE", "TASK"})
  /\ proc' = "killed"
  /\ ChildGone
  /\ UNCHANGED <<approvalVars, ctlVars, session, call, boundVars, lines, executed>>

MainLoop ==
  \/ OrphanBreaks
  \/ HandleControl \/ HandleStop \/ DenyTask \/ StartTask \/ StartCommand
  \/ CancelTask \/ FinishTask

-----------------------------------------------------------------------------
\* A call looks at an action once, under the authority's lock, so it makes no
\* difference to let the human act only between the calls.
HumanActs ==
  /\ \A c \in Client : call[c] = Quiet
  /\ ApprovalStep
  /\ UNCHANGED <<ctlVars, session, call, boundVars, stdin, lines, childVars, auxVars>>

Next ==
  \/ SpawnWorker
  \/ WorkerDies
  \/ ControllerRestarts
  \/ ReapDeadWorkers
  \/ ReconcileRehydratedSessions
  \/ RegisterPersistedSession
  \/ HumanActs
  \/ \E c \in Client : NewCall(c) \/ ClientStep(c)
  \/ ReadStdin
  \/ MainLoop

Spec == Init /\ [][Next]_vars

-----------------------------------------------------------------------------
\* Every variable has its type.
IpcTypeOK ==
  /\ ApprovalTypeOK
  /\ proc \in {"none", "live", "exited", "killed"}
  /\ attached \in BOOLEAN
  /\ rec \in WorkerStatus /\ recTokens \in Nat
  /\ session \in SessionSet
  /\ busy \in Task \cup {NoTask}
  /\ lock \in Client \cup {Nobody} /\ reading \in Client \cup {Nobody}
  /\ call \in [Client -> CallSet \cup {Quiet}]
  /\ calls \in Nat /\ spawns \in Nat
  /\ stdin \in Seq(MessageSet) /\ inbox \in Seq(MessageSet)
  /\ lines \in Seq(LineSet)
  /\ cancel \in BOOLEAN
  /\ running \in RunSet \cup {Quiet}
  /\ used \in Nat
  /\ harness \in Harness
  /\ seen \subseteq Action
  /\ aimed \subseteq Nat
  /\ executed \in [Action -> Nat]

\* Work of the worker that nobody has reconciled: attempts without an answer,
\* results nobody has taken, a result taken and not accounted for.
Outstanding ==
  {[task |-> m.task, n |-> m.n] :
     m \in {x \in ToSet(stdin) \cup ToSet(inbox) : x.command = "TASK"}
           \cup (IF running = Quiet THEN {} ELSE {running})
           \cup Results
           \cup {call[c].line : c \in {d \in Client : At(d, "account")}}}

(***************************************************************************)
(* The claim on a worker covers all the work it may be doing: whatever     *)
(* dispatches, asynchronous sends, collections, timeouts and interrupts    *)
(* overlap, an attached worker has at most one attempt in the pipes, in    *)
(* execution or answered and not reconciled, and _busy_task_ids names its  *)
(* task ("unknown external effects must not be replayed or followed by an  *)
(* unrelated task without reconciliation").                                *)
(***************************************************************************)
ClaimCoversWork ==
  AttachedIpc => \A x, y \in Outstanding : x = y /\ busy = x.task

(***************************************************************************)
(* An interrupt hits the task it was sent for, or none.  A command or a    *)
(* sleep in the main loop when the reader thread reads the INTERRUPT is    *)
(* answered with CANCELLED; and no attempt is CANCELLED by an INTERRUPT    *)
(* that was written before its TASK, though the event is set by two        *)
(* threads and the message carries a task id nobody compares.              *)
(***************************************************************************)
InterruptIsExact ==
  [][\A k \in 1 .. MaxCalls :
       (k \in Unanswered /\ Len(lines') = Len(lines) + 1
          /\ lines'[Len(lines')].type = "RESULT" /\ lines'[Len(lines')].n = k) =>
       LET status == lines'[Len(lines')].status IN
         /\ (running # Quiet /\ running.hit /\ Cancellable) => status = "CANCELLED"
         /\ status = "CANCELLED" => k \in aimed]_vars

(***************************************************************************)
(* A command runs only on an approval the authority has consumed, and at   *)
(* most once per approval, over all the processes the worker has had.      *)
(***************************************************************************)
CommandsRunOnce ==
  \A a \in Action : executed[a] <= 1 /\ (executed[a] = 1 => a \in consumed)

(***************************************************************************)
(* When the claim is released the tokens of the task are accounted for:    *)
(* the record of an attached worker without a claim has the child's total, *)
(* whichever call took the result, or took it late.                        *)
(***************************************************************************)
TokensAccounted == AttachedIpc /\ busy = NoTask => recTokens = used

(***************************************************************************)
(* "The child may apply a delayed reconfiguration after timeout": once     *)
(* switch_worker_harness has returned or raised, an attached worker has no *)
(* RECONFIGURE left to apply, so no task is overtaken by one.              *)
(***************************************************************************)
NoDelayedReconfigure ==
  AttachedIpc /\ lock = Nobody =>
    \A m \in ToSet(stdin) \cup ToSet(inbox) : m.command # "RECONFIGURE"

\* The one-shot approval: a grant is spent when its ticket is issued, and used
\* up when its command is started.
StatusOf(a) ==
  IF a \in consumed
  THEN IF executed[a] > 0 THEN "ticketed" ELSE "spent"
  ELSE CASE act[a] = "UNKNOWN" -> "unasked"
         [] act[a] = "BLOCKED" -> "open"
         [] act[a] = "APPROVED" -> "granted"
         [] act[a] \in {"REJECTED", "EXPIRED", "LOST"} -> "closed"

OneShot == INSTANCE OneShotApproval WITH status <- [a \in Action |-> StatusOf(a)]

\* Authority, tickets and worker together implement the one-shot approval: also
\* a ticket lost at the admission is spent for good.
ImplementsOneShot == OneShot!Spec

(***************************************************************************)
(* No call waits for a lock whose holder cannot go on.  _state_lock is     *)
(* kept over several steps only by a switch of the harness that is waiting *)
(* (with a deadline), committing or terminating the worker, and            *)
(* _consume_lock only by a call inside its wait; so two threads never hold *)
(* one lock each and want the other's, and no exit of a call, timeouts and *)
(* broken pipes included, leaves a lock behind.                            *)
(***************************************************************************)
LocksAreReleased ==
  /\ lock # Nobody =>
       /\ call[lock] # Quiet
       /\ call[lock].op = "switch"
       /\ call[lock].at \in {"wait", "read", "commit", "stop", "stopping"}
  /\ reading # Nobody => At(reading, "read")
  /\ \A c \in Client : call[c] # Quiet /\ call[c].op = "switch" => lock = c
=============================================================================
