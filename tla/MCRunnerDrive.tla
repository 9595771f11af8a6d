---------------------------- MODULE MCRunnerDrive ----------------------------
(***************************************************************************)
(* RunnerDrive with a graph that loops on its first node.                  *)
(***************************************************************************)
EXTENDS RunnerDrive, TLC

CONSTANTS d1, t1, t2, n1, n2

ThreadsDef == {t1, t2}
OneDriver == t1 :> d1 @@ t2 :> d1
Symmetry == Permutations(ThreadsDef)
EdgesDef == {<<n1, n1>>, <<n1, n2>>, <<n2, TERMINAL>>}
=============================================================================
