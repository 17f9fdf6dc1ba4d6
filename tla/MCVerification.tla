--------------------------- MODULE MCVerification ---------------------------
(* Instances of Verification for TLC. *)
EXTENDS Verification, TLC

\* Every handler that reads the configuration.
AllCalls == Flows \cup Clicks
=============================================================================
