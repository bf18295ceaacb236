------------------------------ MODULE MCMutex ------------------------------
(* Symmetric processors, for the run that checks no liveness property. *)
EXTENDS Mutex, TLC

CPUSymmetry == Permutations(CPU)
=============================================================================
