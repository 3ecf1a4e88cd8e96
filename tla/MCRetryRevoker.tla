--------------------------- MODULE MCRetryRevoker ---------------------------
(***************************************************************************)
(* TLC instance of RetryRevoker.  With BaseDelay 20 and 10% jitter one     *)
(* unit is 50ms of the production settings; the cap is lowered so that the *)
(* third pause already reaches it.                                         *)
(***************************************************************************)
EXTENDS RetryRevoker
=============================================================================
