--------------------------- MODULE TrustedApproval ---------------------------
(***************************************************************************)
(* approval/trusted_authority.py and approval/broker.py: the in-memory     *)
(* approval authority of a worker controller.  An action is a request for  *)
(* one exact command of one task of one worker; the human resolves it, a   *)
(* deadline may pass, and an execution ticket is issued for it at most     *)
(* once.  The broker's and the authority's locks make every call atomic.   *)
(*                                                                         *)
(* An action id stands for the context it was created with: a call for     *)
(* another worker, task, command or workspace is denied and changes        *)
(* nothing, as are calls without the broker's secret.  Time is a choice:   *)
(* a deadline may have passed at any look at an action.                    *)
(***************************************************************************)
CONSTANTS
  Action,   \* action ids of the broker
  NoAction  \* no approval_action_id given

VARIABLES
  act,      \* _actions of the broker: the state of each action
  consumed  \* _consumed_actions of the authority

approvalVars == <<act, consumed>>

ActionState == {"UNKNOWN", "BLOCKED", "APPROVED", "REJECTED", "EXPIRED", "LOST"}

ApprovalTypeOK ==
  /\ act \in [Action -> ActionState]
  /\ consumed \subseteq Action

ApprovalInit ==
  /\ act = [a \in Action |-> "UNKNOWN"]
  /\ consumed = {}

RequestCommandApproval(a) ==
  /\ act[a] = "UNKNOWN"
  /\ act' = [act EXCEPT ![a] = "BLOCKED"]
  /\ UNCHANGED consumed

\* (a rejected action can be approved later)
ResolvableUnlessApproved(a) == act[a] \in {"BLOCKED", "REJECTED"}

\* An action that is resolved already, or whose deadline has passed, cannot be
\* resolved (again).
Resolvable(a) == act[a] = "BLOCKED"

ResolveByHuman(a, approved) ==
  /\ Resolvable(a)
  /\ act' = [act EXCEPT ![a] = IF approved THEN "APPROVED" ELSE "REJECTED"]
  /\ UNCHANGED consumed

\* Every look at an action past its deadline marks it, an approved one too.
ExpireIfNeeded(a) ==
  /\ act[a] \in {"BLOCKED", "APPROVED"}
  /\ act' = [act EXCEPT ![a] = "EXPIRED"]
  /\ UNCHANGED consumed

\* (the replay check is left to the worker)
VerifyWithoutConsumed(a) ==
  /\ act[a] = "APPROVED"
  /\ consumed' = consumed \cup {a}
  /\ UNCHANGED act

\* verify_and_consume, which issue_execution_ticket calls: a ticket follows
\* without another condition.
VerifyAndConsume(a) ==
  /\ a \notin consumed
  /\ act[a] = "APPROVED"
  /\ consumed' = consumed \cup {a}
  /\ UNCHANGED act

\* The supervisor that held the authority in memory is gone.  Action ids are
\* random, so no later action has the id of a lost one.
AuthorityLost ==
  /\ act' = [a \in Action |-> IF act[a] = "UNKNOWN" THEN "UNKNOWN" ELSE "LOST"]
  /\ UNCHANGED consumed

ApprovalStep ==
  \E a \in Action :
    \/ RequestCommandApproval(a)
    \/ \E approved \in BOOLEAN : ResolveByHuman(a, approved)
    \/ ExpireIfNeeded(a)
=============================================================================
