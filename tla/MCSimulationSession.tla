------------------------- MODULE MCSimulationSession -------------------------
(***************************************************************************)
(* Instances of the session server for TLC.  A connection is only ever     *)
(* compared with another one, so connections may be permuted; aircraft are *)
(* not, the releases of a closing sector follow the order of the array.    *)
(***************************************************************************)
EXTENDS SimulationSession

SocketSymmetry == Permutations(Sockets)
=============================================================================
