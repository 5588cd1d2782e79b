---------------------------- MODULE MCExecutor -----------------------------
(***************************************************************************)
(* Small instances of Executor: the shapes of task graph that tell its     *)
(* operations apart, and one run-sized choice of the other sets for each   *)
(* question.                                                               *)
(***************************************************************************)
EXTENDS Executor, TLC

CONSTANTS t1, t2, t3

None == {}
OnlyT1 == {t1}
OnlyT3 == {t3}

\* t2 waits for t1.
Chain == (t1 :> {}) @@ (t2 :> {t1})

\* t3 waits for both t1 and t2.
Join == (t1 :> {}) @@ (t2 :> {}) @@ (t3 :> {t1, t2})

WorkerSymmetry == Permutations(Workers)
============================================================================
