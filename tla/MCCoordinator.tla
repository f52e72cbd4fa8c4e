---------------------------- MODULE MCCoordinator ----------------------------
(* Coordinator for TLC.                                                      *)
EXTENDS Coordinator, TLC

CONSTANTS t1, t2, r1, r2

\* One run of one task.
SoloRunOf == (t1 :> r1)
SoloDeps == (t1 :> {})

\* One run, "t2 depends on t1".
ChainRunOf == (t1 :> r1) @@ (t2 :> r1)
ChainDeps == (t1 :> {}) @@ (t2 :> {t1})

\* Two runs of one task each.
RaceRunOf == (t1 :> r1) @@ (t2 :> r2)
RaceDeps == (t1 :> {}) @@ (t2 :> {})

\* The two runs, with their tasks, are interchangeable, and so are the keys.
Swap == (t1 :> t2) @@ (t2 :> t1) @@ (r1 :> r2) @@ (r2 :> r1)
Same == (t1 :> t1) @@ (t2 :> t2) @@ (r1 :> r1) @@ (r2 :> r2)
RaceSymmetry == {runs @@ keys : runs \in {Same, Swap}, keys \in Permutations(Key)}

UnitAllowance == {[tokens |-> 1, cost |-> 1]}
MixedAllowance == {[tokens |-> 1, cost |-> 1], [tokens |-> 2, cost |-> 0]}
MCDispatchId == Task \X Key
=============================================================================
