--------------------------- MODULE MCControlNetwork ---------------------------
(***************************************************************************)
(* Instances of the clients and the server for TLC.  Clients are only ever *)
(* compared with each other, so they may be permuted; connections are taken*)
(* in a fixed order and may not.                                           *)
(***************************************************************************)
EXTENDS ControlNetwork

ClientSymmetry == Permutations(Clients)
=============================================================================
