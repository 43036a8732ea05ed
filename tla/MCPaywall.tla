----------------------------- MODULE MCPaywall ------------------------------
(***************************************************************************)
(* Instances of Paywall for TLC, over those of SettlementGate.             *)
(***************************************************************************)
EXTENDS MCSettlementGate, Paywall

=============================================================================
