-------------------------- MODULE MCNativeLifecycle --------------------------
(* Servers, runs and one key for the lifecycle of three chained tasks.     *)
EXTENDS NativeLifecycle

Runs == Server \X Goal
Tasks == Server \X Goal \X Role
Owner == [t \in Tasks |-> <<t[1], t[2]>>]
ChainOf == [t \in Tasks |-> {u \in Tasks : \E i \in 2 .. Len(Roles) :
                               /\ t = <<t[1], t[2], Roles[i]>>
                               /\ u = <<t[1], t[2], Roles[i - 1]>>}]
Keys == {TheKey}
Dispatches == Tasks \X Keys
OneUnit == {[tokens |-> 1, cost |-> 1]}
Maps == {{"PM"}, Role}
=============================================================================
