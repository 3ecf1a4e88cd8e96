------------------------------- MODULE Limits -------------------------------
(***************************************************************************)
(* The hard limits of models/models.go, in units of time.  Configuration   *)
(* and break-glass are held to the same ones.                              *)
(***************************************************************************)
EXTENDS Integers

CONSTANTS
  MaxTTL,                 \* per grant, 60 minutes in the code
  MaxSessionDuration,     \* per session, 4 hours
  WarningBeforeExpiry     \* default warning window, 15 minutes

ASSUME LimitsAssumption ==
  /\ MaxTTL \in Nat \ {0} /\ WarningBeforeExpiry \in Nat \ {0}
  /\ MaxSessionDuration \in Nat /\ MaxTTL <= MaxSessionDuration
=============================================================================
