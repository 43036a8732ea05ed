------------------------- MODULE MCObservabilityHub -------------------------
(***************************************************************************)
(* An instance of ObservabilityHub for TLC.                                *)
(***************************************************************************)
EXTENDS ObservabilityHub, TLC

=============================================================================
