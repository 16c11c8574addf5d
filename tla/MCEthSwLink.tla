---------------------------- MODULE MCEthSwLink -----------------------------
(* Small instances of EthSwLink for TLC. *)
EXTENDS EthSwLink, TLC

\* Monitor threads are interchangeable: nothing but their identity differs.
ThreadSymmetry == Permutations(Threads)
=============================================================================
