---------------------------- MODULE MCExpiryQueue ----------------------------
(***************************************************************************)
(* TLC instance of ExpiryQueue.                                            *)
(***************************************************************************)
EXTENDS ExpiryQueue, TLC

Symmetry == Permutations(Token)
=============================================================================
