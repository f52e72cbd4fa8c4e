--------------------------- MODULE OneShotApproval ---------------------------
(***************************************************************************)
(* What the operator approval boundary promises, whatever the number of    *)
(* supervisors, their restarts and the order of their calls: an action is  *)
(* asked for once, at most one grant is given while the request is open, a *)
(* closed request stays closed, and a grant is spent at most once, for at  *)
(* most one execution ticket.                                              *)
(***************************************************************************)
CONSTANT Action

VARIABLE status   \* how far each action's approval has come

(***************************************************************************)
(* Approvals left over from before operators were authenticated have no    *)
(* value: they count as closed.                                            *)
(***************************************************************************)
Init == status \in [Action -> {"unasked", "closed"}]

Move(a, from, to) ==
  /\ status[a] \in from
  /\ status' = [status EXCEPT ![a] = to]

Ask(a) == Move(a, {"unasked"}, "open")
Grant(a) == Move(a, {"open"}, "granted")
Spend(a) == Move(a, {"granted"}, "spent")
Ticket(a) == Move(a, {"spent"}, "ticketed")

\* An authority that is lost closes all its requests at once.
Close(S) ==
  /\ \A a \in S : status[a] \in {"open", "granted"}
  /\ status' = [a \in Action |-> IF a \in S THEN "closed" ELSE status[a]]

Next ==
  \/ \E a \in Action : Ask(a) \/ Grant(a) \/ Spend(a) \/ Ticket(a)
  \/ \E S \in SUBSET Action : Close(S)

Spec == Init /\ [][Next]_status
=============================================================================
