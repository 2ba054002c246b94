--------------------- MODULE MCComputationalThreadPool ---------------------
(***************************************************************************)
(* Instances of ComputationalThreadPool for TLC.                           *)
(***************************************************************************)
EXTENDS ComputationalThreadPool, TLC

\* For a run that checks safety only.
Interchangeable == Permutations(Worker) \cup Permutations(Client)
=============================================================================
