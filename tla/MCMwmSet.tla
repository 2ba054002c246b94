------------------------------ MODULE MCMwmSet ------------------------------
(***************************************************************************)
(* Instances of MwmSet for TLC.  Infos, handles, threads and countries are *)
(* interchangeable: nothing in the registry orders them.                   *)
(***************************************************************************)
EXTENDS MwmSet, TLC

Interchangeable ==
  Permutations(Info) \cup Permutations(Handle)
    \cup Permutations(Thread) \cup Permutations(Country)
=============================================================================
