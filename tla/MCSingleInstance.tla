-------------------------- MODULE MCSingleInstance --------------------------
(* Small instances of SingleInstance for TLC. *)
EXTENDS SingleInstance, TLC

Symmetric == Permutations(Procs)
=============================================================================
