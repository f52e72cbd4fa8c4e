----------------------------- MODULE MCWorkerIpc -----------------------------
(* WorkerIpc for TLC: one command with its approvals, one harness task.      *)
EXTENDS WorkerIpc

CONSTANTS build, ask

MCKind == [t \in Task |-> IF t = build THEN "command" ELSE "instruction"]
ClientSymmetry == Permutations(Client)
MCFor == [a \in Action |-> build]
=============================================================================
