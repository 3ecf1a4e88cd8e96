------------------------------ MODULE Settings ------------------------------
(***************************************************************************)
(* config/config.go: what a configuration file turns into.  A duration in  *)
(* the file is absent, garbled (time.ParseDuration fails) or a number,     *)
(* which may be zero or negative.  The result is the record main.go wires  *)
(* the broker with, or Refused, on which main exits.                       *)
(*                                                                         *)
(* "addressed" says that the four strings Validate insists on are set.     *)
(* max_tokens_per_user and vault.token_ttl are read and go nowhere; the    *)
(* latter is validated all the same.                                       *)
(***************************************************************************)
EXTENDS Limits

Absent  == [given |-> "absent",  value |-> 0]
Garbled == [given |-> "garbled", value |-> 0]
Given(d) == [given |-> "value", value |-> d]

Refused == [tokenTTL |-> 0, maxSession |-> 0, warningBefore |-> 0, accepted |-> FALSE]

Durations(file) ==
  {file.shutdownTimeout, file.vaultTTL, file.tokenTTL, file.maxSession,
   file.warningBefore}

\* UnmarshalYAML: one duration that does not parse fails the whole file.
Parses(file) == Garbled \notin Durations(file)

\* Seeded fault: the default session is used only for an absent field.
DefaultIfZero(d, default) == IF d = 0 THEN default ELSE d

\* Validate's treatment of the session ceiling and the warning window.
OrDefault(d, default) == IF d <= 0 THEN default ELSE d

\* Validate, up to the defaults and with the ceiling on the session after them.
Acceptable(file) ==
  /\ file.addressed
  /\ file.tokenTTL.value \in 1..MaxTTL
  /\ file.vaultTTL.value \in 1..MaxTTL
  /\ file.maxSession.value <= MaxSessionDuration

\* Load.
Load(file) ==
  IF Parses(file) /\ Acceptable(file)
  THEN [tokenTTL      |-> file.tokenTTL.value,
        maxSession    |-> OrDefault(file.maxSession.value, MaxSessionDuration),
        warningBefore |-> OrDefault(file.warningBefore.value, WarningBeforeExpiry),
        accepted      |-> TRUE]
  ELSE Refused

\* Default, used without a file and not validated.
DefaultSettings ==
  [tokenTTL |-> MaxTTL, maxSession |-> MaxSessionDuration,
   warningBefore |-> WarningBeforeExpiry, accepted |-> TRUE]

\* What TokenStore takes for granted of its constants.
FitsTheStore(settings) ==
  /\ settings.tokenTTL \in Nat \ {0} /\ settings.maxSession \in Nat \ {0}
  /\ settings.warningBefore \in Nat \ {0}
=============================================================================
