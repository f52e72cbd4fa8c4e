----------------------------- MODULE MCTeamQueue -----------------------------
(* TeamQueue for TLC.                                                        *)
EXTENDS TeamQueue, TLC

AllCalls == {"dispatch_task", "steer_task", "cancel_task", "update_queue_status",
             "reconcile_ambiguous_task", "interrupt_worker", "reconcile_team_after_crash",
             "set_worker_status", "submit_worker_handoff", "resume_task_from_checkpoint"}

\* The calls that never bring failed work back.
ForwardCalls == AllCalls \ {"reconcile_ambiguous_task", "resume_task_from_checkpoint"}

\* What it takes to complete or to cancel work.
HandoffCalls == {"dispatch_task", "cancel_task", "update_queue_status", "submit_worker_handoff"}

\* What it takes to lose a worker and to recover.
RecoveryCalls == {"dispatch_task", "reconcile_team_after_crash", "reconcile_ambiguous_task",
                  "resume_task_from_checkpoint"}

\* A dispatcher hands pending items out ...
HandoutUpdates == {<<"PENDING", "DISPATCHED">>, <<"DISPATCHED", "RUNNING">>}

\* ... and records what becomes of them.
DispatcherUpdates == HandoutUpdates \cup {<<"RUNNING", "FAILED">>, <<"RUNNING", "COMPLETED">>}

CallerSymmetry == Permutations(Caller)
=============================================================================
