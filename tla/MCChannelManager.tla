-------------------------- MODULE MCChannelManager --------------------------
(***************************************************************************)
(* Instances of ChannelAudit, and so of ChannelManager, for TLC.           *)
(***************************************************************************)
EXTENDS ChannelAudit, TLC

\* Zero and what does not parse (-1) are inputs too.
DepositInputs == {-1, 0, 4}
AmountInputs == {-1, 0, 1, 2}

Symmetry == Permutations(Call)

=============================================================================
