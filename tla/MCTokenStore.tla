---------------------------- MODULE MCTokenStore ----------------------------
(***************************************************************************)
(* TLC instance of TokenStore; the cfg files give the constants.           *)
(***************************************************************************)
EXTENDS TokenStore, TLC

Symmetry == Permutations(Token) \cup Permutations(Client)
=============================================================================
