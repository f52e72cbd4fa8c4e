---------------------------- MODULE CrashRecovery ----------------------------
(***************************************************************************)
(* recovery/crash_recovery.py: resume_task_from_checkpoint brings the work *)
(* of one worker's queue items to its end across crashes of the supervisor *)
(* and of the worker, from                                                 *)
(*   the item's row      status and payload["_unverified_completed_steps"] *)
(*   simpul_checkpoints  what was done, at which commit of the worktree    *)
(*   the worktree        HEAD and the artifacts of the steps               *)
(*   the approvals       of the steps that are commands.                   *)
(*                                                                         *)
(* One supervisor at a time, with one call at a time: overlapping writes   *)
(* of the rows are the subject of TeamQueue, overlapping calls on the      *)
(* worker of WorkerIpc.  A call dies between any two of its writes; a step *)
(* it has sent to the worker may take effect afterwards.                   *)
(*                                                                         *)
(* A payload without a list of steps is an item of Single: one step, with  *)
(* neither marker nor checkpoint.  Tokens, the classification reported to  *)
(* the caller, and pausing the worker decide nothing here and are left     *)
(* out; so are calls that return before they changed anything.             *)
(***************************************************************************)
EXTENDS Naturals, Sequences, SequencesExt

CONSTANTS
  Item,       \* dispatch ids
  TaskOf,     \* the task id of an item
  Step,       \* names of steps
  StepsOf,    \* payload["steps"]
  Single,     \* items whose payload is one instruction or command
  Path,       \* paths of artifacts in the worktree
  PathOf,     \* the artifact that <<item, step>> declares, or NoPath
  Command,    \* <<item, step>>: the step is a command
  Expected,   \* payload["expected_artifacts"] of an item
  MaxHead,    \* bound: commits of the worktree
  MaxFaults,  \* bound: crashes, failed steps, lost artifacts
  NoPath,     \* a step without an artifact
  NoCall,     \* no resume under way
  NoWork      \* the worker has no step

StepOf(i) == ToSet(StepsOf[i])
Unit == {u \in Item \X Step : u[2] \in StepOf(u[1])}

Phase == {"worker", "audit", "preflight", "step", "wait", "checkpoint"}

\* A resume under way: its item, where it is, completed_steps, the step it has sent
\* last, step_idx and current_commit.
CallRecord == [item : Item, at : Phase, done : SUBSET Step, now : Unit \cup {NoWork},
               idx : Nat, commit : Nat]

ASSUME RecoveryAssumption ==
  /\ StepsOf \in [Item -> Seq(Step)]
  /\ \A i \in Item : IsInjective(StepsOf[i])
  /\ \A i \in Single : Len(StepsOf[i]) = 1
  /\ PathOf \in [Unit -> Path \cup {NoPath}]
  /\ Command \subseteq Unit
  /\ Expected \in [Item -> SUBSET Path]
  /\ MaxHead \in Nat /\ MaxFaults \in Nat
  /\ NoWork \notin Unit
  /\ NoCall \notin CallRecord

FileState == {"absent", "empty", "full"}

VARIABLES
  row,       \* simpul_queue: status, and the marker in the payload
  cps,       \* simpul_checkpoints of the worker, in the order of created_at
  head,      \* HEAD of the worktree; 0: git knows none
  file,      \* "absent", "empty" or "full" for an artifact
  ticket,    \* the approval a command step's approval_action_id names
  proc,      \* the worker's process: "none", "attached", or "orphan" of a dead supervisor
  work,      \* the step the worker was sent and has not answered to the supervisor
  answer,    \* its answer, while nobody has taken it
  session,   \* the durable session's status
  call,      \* the resume under way
  faults,    \* faults so far
  ran,       \* auxiliary: steps that were run
  owed,      \* auxiliary: steps there is a reason to run
  licensed,  \* auxiliary: command steps a human has approved one run of
  vouched,   \* auxiliary: items an operator marked completed
  lost       \* auxiliary: items whose resume died

workerVars == <<proc, work, answer, session>>
worldVars == <<head, file>>
auxVars == <<ran, owed, licensed, vouched, lost>>
vars == <<row, cps, worldVars, ticket, workerVars, call, faults, auxVars>>

Init ==
  /\ row = [i \in Item |-> [status |-> "PENDING", marker |-> {}]]
  /\ cps = <<>>
  /\ head \in {0, 1}
  /\ file = [p \in Path |-> "absent"]
  /\ ticket = [u \in Unit |-> "none"]
  /\ proc = "none" /\ work = NoWork /\ answer = "none" /\ session = "IDLE"
  /\ call = NoCall
  /\ faults = 0
  /\ ran = {} /\ owed = Unit /\ licensed = {}
  /\ vouched = {} /\ lost = {}

-----------------------------------------------------------------------------
At(at) == call # NoCall /\ call.at = at
SetStatus(i, s) == row' = [row EXCEPT ![i].status = s]
Return == call' = NoCall

\* The step that may have been run and that no checkpoint speaks of.
Undecided == IF At("wait") \/ At("checkpoint") THEN {call.now} ELSE {}
Owe(units) == owed' = owed \cup units

Declaring(p) == {u \in Unit : PathOf[u] = p}

Fault == faults < MaxFaults /\ faults' = faults + 1

-----------------------------------------------------------------------------
(* The claim and the worker.                                               *)

\* mark_task_resuming, unless the process is alive and not attached.
MarkTaskResuming(i) ==
  /\ call = NoCall
  /\ proc # "orphan"
  /\ row[i].status \notin {"RUNNING", "COMPLETED", "CANCELLED"}
  /\ SetStatus(i, "RUNNING")
  /\ call' = [item |-> i, at |-> "worker", done |-> {}, now |-> NoWork, idx |-> 0,
              commit |-> 0]
  /\ UNCHANGED <<cps, worldVars, ticket, workerVars, faults, auxVars>>

\* is_worker_dispatchable, or resume_worker_from_checkpoint spawns another.
WorkerReady ==
  /\ At("worker")
  /\ \/ proc = "attached" /\ work = NoWork /\ UNCHANGED workerVars
     \/ /\ proc = "none"
        /\ proc' = "attached" /\ work' = NoWork /\ answer' = "none" /\ session' = "IDLE"
  /\ call' = [call EXCEPT !.at = "audit"]
  /\ UNCHANGED <<row, cps, worldVars, ticket, faults, auxVars>>

\* (the claim is kept)
WorkerNotSafeKeepsClaim ==
  /\ At("worker")
  /\ proc = "attached" /\ work # NoWork
  /\ Return
  /\ UNCHANGED <<row, cps, worldVars, ticket, workerVars, faults, auxVars>>

\* resume_worker refuses: a result is outstanding.
WorkerNotSafe ==
  /\ At("worker")
  /\ proc = "attached" /\ work # NoWork
  /\ SetStatus(call.item, "DISPATCHED")
  /\ Return
  /\ UNCHANGED <<cps, worldVars, ticket, workerVars, faults, auxVars>>

-----------------------------------------------------------------------------
(* The audit of the checkpoint.                                            *)

\* load_latest_checkpoint: the highest step_index, the youngest of them.
Latest(n) ==
  \A m \in DOMAIN cps : cps[m].idx < cps[n].idx \/ (cps[m].idx = cps[n].idx /\ m <= n)

\* (a checkpoint of another dispatch of the task)
BindsTaskOnly(c, i) == TaskOf[c.item] = TaskOf[i] /\ c.commit # 0 /\ c.commit = head

\* The checkpoint is of this dispatch and task, at the commit of the worktree.
Binds(c, i) ==
  c.item = i /\ TaskOf[c.item] = TaskOf[i] /\ c.commit # 0 /\ c.commit = head

Present(u, states) == u \in Unit /\ PathOf[u] # NoPath => file[PathOf[u]] \in states

\* Steps a checkpoint claims, less those whose artifact is not there.
Verified(c, i) == {s \in c.done : Present(<<i, s>>, {"full"})}

MissingEvidence(i) ==
  IF Expected[i] # {}
  THEN \E p \in Expected[i] : file[p] # "full"
  ELSE \A s \in StepOf(i) : Present(<<i, s>>, {"absent"})

\* (the marker is not looked at)
AmbiguousNever(i, valid) == FALSE

\* An effect was observed that no valid checkpoint vouches for.
Ambiguous(i, valid) == row[i].marker # {} /\ ~valid

\* An instruction without steps has no checkpoint: nobody writes one.
AuditCheckpoint ==
  LET i == call.item
      N == {n \in DOMAIN cps : Latest(n) /\ Binds(cps[n], i)}
      c == cps[CHOOSE n \in N : TRUE]
      valid == i \notin Single /\ N # {}
      kept == IF valid THEN Verified(c, i) ELSE {}
      again == StepOf(i) \subseteq kept /\ MissingEvidence(i)
      done == IF again THEN {} ELSE kept
      todo == StepOf(i) \ done
      commands == {s \in todo : <<i, s>> \in Command}
      next == [call EXCEPT !.at = IF commands = {} THEN "step" ELSE "preflight",
                           !.done = done, !.idx = IF valid THEN c.idx ELSE 0,
                           !.commit = head]
  IN
  /\ At("audit")
  /\ \/ /\ todo = {}
        /\ SetStatus(i, "COMPLETED") /\ Return
     \/ /\ todo # {} /\ Ambiguous(i, valid)
        /\ SetStatus(i, "DISPATCHED") /\ Return
     \/ /\ todo # {} /\ ~Ambiguous(i, valid)
        /\ call' = next /\ UNCHANGED row
  /\ Owe(IF again THEN {<<i, s>> : s \in StepOf(i)} ELSE {})
  /\ UNCHANGED <<cps, worldVars, ticket, workerVars, faults, ran, licensed, vouched, lost>>

\* remaining_steps: places of the steps that are not done yet.
Remaining ==
  {n \in DOMAIN StepsOf[call.item] : StepsOf[call.item][n] \notin call.done}
UnitAt(n) == <<call.item, StepsOf[call.item][n]>>

(***************************************************************************)
(* preflight_command_approvals, for every command left.  A refusal stops   *)
(* it before the commands that come later are asked for.                   *)
(***************************************************************************)
Preflight ==
  LET i == call.item
      commands == {n \in Remaining : UnitAt(n) \in Command}
      refused == {n \in commands : ticket[UnitAt(n)] = "REJECTED"}
      asked == {n \in commands : /\ ticket[UnitAt(n)] \in {"none", "EXPIRED", "CONSUMED"}
                                 /\ \A m \in refused : n < m}
      after == [u \in Unit |-> IF u \in {UnitAt(n) : n \in asked} THEN "BLOCKED" ELSE ticket[u]]
      ready == \A n \in commands : after[UnitAt(n)] = "APPROVED"
  IN
  /\ At("preflight")
  /\ ticket' = after
  /\ IF ready
     THEN call' = [call EXCEPT !.at = "step"] /\ SetStatus(i, "RUNNING")
     ELSE SetStatus(i, "DISPATCHED") /\ Return
  /\ UNCHANGED <<cps, worldVars, workerVars, faults, auxVars>>

\* The caller holds no authority, or not the controller's.
NoAuthority ==
  /\ At("preflight")
  /\ SetStatus(call.item, "DISPATCHED")
  /\ Return
  /\ UNCHANGED <<cps, worldVars, ticket, workerVars, faults, auxVars>>

-----------------------------------------------------------------------------
(* The steps.                                                              *)

\* (the approval is not consumed)
TicketKept(u) == (u \in Command => ticket[u] = "APPROVED") /\ UNCHANGED ticket

\* issue_execution_ticket consumes the approval of a command.
TicketIssued(u) ==
  IF u \in Command
  THEN ticket[u] = "APPROVED" /\ ticket' = [ticket EXCEPT ![u] = "CONSUMED"]
  ELSE UNCHANGED ticket

\* The next step of the loop.
Upcoming(u) == \E n \in Remaining : u = UnitAt(n) /\ \A m \in Remaining : n <= m

DispatchStep(u) ==
  /\ At("step") /\ Upcoming(u)
  /\ proc = "attached" /\ work = NoWork
  /\ TicketIssued(u)
  /\ work' = u
  /\ call' = [call EXCEPT !.at = "wait", !.now = u]
  /\ UNCHANGED <<row, cps, worldVars, proc, answer, session, faults, auxVars>>

\* The worker runs what it was sent, for whoever is left to hear of it.  A step
\* may fail, before or after its effect, or leave no artifact; it may commit.
WorkerRuns(status, f) ==
  LET path == PathOf[work]
      well == status = "COMPLETED" /\ (path = NoPath \/ f = "full")
      heard == At("wait") /\ proc = "attached"
      spoilt == IF path = NoPath \/ f = "full" THEN {} ELSE Declaring(path)
  IN
  /\ work # NoWork /\ answer = "none"
  /\ IF well THEN UNCHANGED faults ELSE Fault
  /\ answer' = status
  /\ file' = IF path = NoPath THEN file ELSE [file EXCEPT ![path] = f]
  /\ head' \in {head} \cup (IF head = 0 THEN {} ELSE {head + 1} \cap 1 .. MaxHead)
  /\ ran' = ran \cup {work}
  /\ licensed' = licensed \ {work}
  /\ owed' = (IF heard THEN owed \ {work} ELSE owed) \cup spoilt
  /\ UNCHANGED <<row, cps, ticket, proc, work, session, call, vouched, lost>>

\* The result is COMPLETED and taken.
TakeCompleted ==
  /\ At("wait") /\ proc = "attached" /\ answer = "COMPLETED"
  /\ work' = NoWork /\ answer' = "none"
  /\ UNCHANGED <<cps, worldVars, ticket, proc, session, faults, auxVars>>

\* One of several steps: the marker is saved before the checkpoint.
StepCompleted ==
  LET done == call.done \cup {call.now[2]} IN
  /\ TakeCompleted
  /\ call.item \notin Single
  /\ row' = [row EXCEPT ![call.item].marker = done]
  /\ call' = [call EXCEPT !.at = "checkpoint", !.done = done]

\* A payload that is one instruction or command.
SingleCompleted ==
  /\ TakeCompleted
  /\ call.item \in Single
  /\ SetStatus(call.item, "COMPLETED")
  /\ Return

\* save_checkpoint: an upsert by the id, made of the dispatch and the step index.
SaveCheckpoint ==
  LET i == call.item
      cp == [item |-> i, idx |-> call.idx + 1, done |-> call.done, commit |-> call.commit]
      same == {n \in DOMAIN cps : cps[n].item = i /\ cps[n].idx = cp.idx}
  IN
  /\ At("checkpoint")
  /\ cps' = IF same = {} THEN Append(cps, cp)
            ELSE [n \in DOMAIN cps |-> IF n \in same THEN cp ELSE cps[n]]
  /\ call' = [call EXCEPT !.at = "step", !.idx = @ + 1]
  /\ UNCHANGED <<row, worldVars, ticket, workerVars, faults, auxVars>>

AllStepsDone ==
  /\ At("step") /\ Remaining = {}
  /\ SetStatus(call.item, "COMPLETED")
  /\ Return
  /\ UNCHANGED <<cps, worldVars, ticket, workerVars, faults, auxVars>>

\* Any other status: the worker failed the step, is gone or busy, the deadline
\* has passed, the approval has expired.
StepFails ==
  /\ \/ At("wait") /\ answer = "FAILED" /\ UNCHANGED faults
                   /\ work' = NoWork /\ answer' = "none"
     \/ At("wait") /\ Fault /\ UNCHANGED <<work, answer>>
     \/ /\ At("step") /\ Remaining # {}
        /\ \/ proc = "none"
           \/ \E u \in Command : Upcoming(u) /\ ticket[u] # "APPROVED"
        /\ UNCHANGED <<work, answer, faults>>
  /\ SetStatus(call.item, "FAILED")
  /\ Return
  /\ Owe(Undecided)
  /\ UNCHANGED <<cps, worldVars, ticket, proc, session, ran, licensed, vouched, lost>>

-----------------------------------------------------------------------------
(* Faults.                                                                 *)

\* An exception: the call dies where it is, the claim stays.
CallLost ==
  /\ call # NoCall /\ Fault
  /\ Return
  /\ lost' = lost \cup {call.item}
  /\ Owe(Undecided)
  /\ UNCHANGED <<row, cps, worldVars, ticket, workerVars, ran, licensed, vouched>>

\* The supervisor dies; approvals kept in its memory are gone.
SupervisorDies ==
  /\ Fault
  /\ Return
  /\ lost' = lost \cup (IF call = NoCall THEN {} ELSE {call.item})
  /\ Owe(Undecided)
  /\ proc' = IF proc = "attached" THEN "orphan" ELSE proc
  /\ \/ UNCHANGED ticket
     \/ ticket' = [u \in Unit |-> "none"]
  /\ UNCHANGED <<row, cps, worldVars, work, answer, session, ran, licensed, vouched>>

\* The end of its stdin, or a signal.
WorkerExits ==
  /\ \/ proc = "orphan" /\ UNCHANGED faults
     \/ proc = "attached" /\ Fault
  /\ proc' = "none"
  /\ work' = NoWork /\ answer' = "none"
  /\ UNCHANGED <<row, cps, worldVars, ticket, session, call, auxVars>>

\* The worktree changes by itself.  A resume looks at it once, at its audit: that
\* it changes between resumes only leaves nothing out.
ArtifactLost(p) ==
  /\ call = NoCall
  /\ file[p] = "full" /\ Fault
  /\ \E f \in {"absent", "empty"} : file' = [file EXCEPT ![p] = f]
  /\ Owe(Declaring(p))
  /\ UNCHANGED <<row, cps, head, ticket, workerVars, call, ran, licensed, vouched, lost>>

HeadMoves ==
  /\ call = NoCall
  /\ head < MaxHead
  /\ head' = head + 1
  /\ UNCHANGED <<row, cps, file, ticket, workerVars, call, faults, auxVars>>

-----------------------------------------------------------------------------
(* Between the resumes.                                                    *)

\* The human or the deadline.
Decide(u, s) ==
  /\ \/ ticket[u] = "BLOCKED" /\ s \in {"APPROVED", "REJECTED"}
     \/ ticket[u] \in {"BLOCKED", "APPROVED"} /\ s = "EXPIRED"
  /\ ticket' = [ticket EXCEPT ![u] = s]
  /\ licensed' = IF s = "APPROVED" THEN licensed \cup {u} ELSE licensed \ {u}
  /\ UNCHANGED <<row, cps, worldVars, workerVars, call, faults, ran, owed, vouched, lost>>

\* The late result of a step that timed out is taken from the pipe.
ReapLateResult ==
  /\ call = NoCall /\ proc = "attached" /\ answer # "none"
  /\ work' = NoWork /\ answer' = "none"
  /\ UNCHANGED <<row, cps, worldVars, ticket, proc, session, call, faults, auxVars>>

ReconcileTeamAfterCrash(ambiguous) ==
  /\ call = NoCall /\ proc = "none" /\ session = "IDLE"
  /\ session' = "FAILED"
  /\ row' = [i \in Item |->
       IF row[i].status \notin {"PENDING", "DISPATCHED", "RUNNING"} THEN row[i]
       ELSE [row[i] EXCEPT !.status =
               IF ambiguous /\ @ # "PENDING" THEN "AMBIGUOUS" ELSE "FAILED"]]
  /\ lost' = {}
  /\ UNCHANGED <<cps, worldVars, ticket, proc, work, answer, call, faults, ran, owed,
                 licensed, vouched>>

ReconcileAmbiguousTask(i, s) ==
  /\ call = NoCall
  /\ row[i].status \in {"AMBIGUOUS", "FAILED", "DISPATCHED"}
  /\ SetStatus(i, s)
  /\ vouched' = IF s = "COMPLETED" THEN vouched \cup {i} ELSE vouched
  /\ UNCHANGED <<cps, worldVars, ticket, workerVars, call, faults, ran, owed, licensed, lost>>

ResumeStep ==
  \/ WorkerReady \/ WorkerNotSafe
  \/ AuditCheckpoint
  \/ Preflight \/ NoAuthority
  \/ \E u \in Unit : DispatchStep(u)
  \/ StepCompleted \/ SingleCompleted \/ SaveCheckpoint \/ AllStepsDone \/ StepFails

Next ==
  \/ \E i \in Item : MarkTaskResuming(i)
  \/ ResumeStep
  \/ \E status \in {"COMPLETED", "FAILED"}, f \in FileState : WorkerRuns(status, f)
  \/ CallLost \/ SupervisorDies \/ WorkerExits \/ HeadMoves
  \/ \E p \in Path : ArtifactLost(p)
  \/ \E u \in Command, s \in {"APPROVED", "REJECTED", "EXPIRED"} : Decide(u, s)
  \/ ReapLateResult
  \/ \E ambiguous \in BOOLEAN : ReconcileTeamAfterCrash(ambiguous)
  \/ \E i \in Item, s \in {"PENDING", "COMPLETED", "FAILED"} : ReconcileAmbiguousTask(i, s)

Spec == Init /\ [][Next]_vars

-----------------------------------------------------------------------------
(* Properties.                                                             *)

\* "... without assuming false execution completion" (crash_recovery.py:4).
\* An item that a resume, and no operator, completed has had every one of its
\* steps run: a checkpoint of another dispatch, of a lost resume or of an other
\* commit never stands in for the work.
CompletedMeansRun ==
  \A i \in Item : row[i].status = "COMPLETED" /\ i \notin vouched =>
    \A s \in StepOf(i) : <<i, s>> \in ran

\* "continuing the logical work without repeating completed side effects"
\* (crash_recovery.py:188).  A step that has run is run again only when there is a
\* reason: the resume ended between sending it and its checkpoint, its artifact was
\* not there, or the finished task showed no evidence at all.  Neither a moved HEAD
\* nor a checkpoint hidden behind the one of another dispatch is a reason.
ReplaysAreOwed == work # NoWork /\ answer = "none" => work \in owed

\* Every run of a command step, replays included, was approved by a human on its own.
EveryRunApproved == work \in Command /\ answer = "none" => work \in licensed

\* "Release the durable CAS resume claim": an item is RUNNING only while a resume
\* holds it, or since the one that held it died; every regular return gives it back.
ClaimsAreReleased ==
  \A i \in Item : row[i].status = "RUNNING" =>
    i \in lost \/ (call # NoCall /\ call.item = i)
=============================================================================
