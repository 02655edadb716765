---------------------------- MODULE MCThreadPool ----------------------------
(***************************************************************************)
(* Small pools for TLC.  Workers, posters and tasks are interchangeable,   *)
(* so the runs that check no liveness may permute them.                    *)
(***************************************************************************)
EXTENDS ThreadPool, TLC

Symmetry == Permutations(Worker) \cup Permutations(Poster) \cup Permutations(Task)
=============================================================================
