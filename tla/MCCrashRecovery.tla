--------------------------- MODULE MCCrashRecovery ---------------------------
(* CrashRecovery for TLC: a task dispatched twice, and an instruction.       *)
EXTENDS CrashRecovery, TLC

CONSTANTS i1, i2, i3, a, b, p1

MCTaskOf == [i \in Item |-> "build"]
MCStepsOf == (i1 :> <<a, b>>) @@ (i2 :> <<b>>) @@ (i3 :> <<a>>)
MCPathOf == [u \in Unit |-> IF u = <<i1, a>> THEN p1 ELSE NoPath]
MCCommand == {<<i1, b>>}
MCExpected == [i \in Item |-> {}]
=============================================================================
