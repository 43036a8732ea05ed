---------------------------- MODULE ChannelAudit ----------------------------
(***************************************************************************)
(* The channel manager under reconciliation: the drift found in a channel  *)
(* that is closed and has no call at work, from the stream the manager     *)
(* stored and the settlement on chain.                                     *)
(***************************************************************************)
EXTENDS ChannelManager, Reconciler

Quiet(c) == \A x \in Call : pc[x] \in Live => ChannelOf(x) # c
DriftOf(c) == Drift(stream[c], onChain[c], channels[c].deposit - onChain[c])

AcknowledgedOn(c) == {x \in Call : out[x] = "committed" /\ ChannelOf(x) = c}
Acknowledged(c) == AmountOf(AcknowledgedOn(c))

\* A commit whose signature is late writes its older number and total over those
\* of commits that ended before it.  What it leaves is a record that commits add
\* up to: as many acknowledged commits as the counter says, and their amounts are
\* the total.  So what is lost from the total is lost from the counter too: a
\* record that counts every acknowledged commit has the whole total.
LateCommitShows ==
  \A c \in Channel : channels[c] # NoRecord =>
    \E counted \in SUBSET AcknowledgedOn(c) :
      /\ Cardinality(counted) = channels[c].sequence + 1
      /\ AmountOf(counted) = channels[c].committed

\* However calls overlap, a closed channel that reconciles has paid what its
\* acknowledged commits add up to: a lost or repeated commitment is drift.
CleanCloseIsPaid ==
  \A c \in Channel : Has(c, "closed") /\ Quiet(c) /\ DriftOf(c) = {} =>
    onChain[c] = Acknowledged(c)

\* When calls on a channel do not overlap, a closed channel has paid what it
\* acknowledged, whatever the adapter did before, and reconciles: no alarm is
\* raised about a counterparty that settled in full.
CloseReconciles ==
  \A c \in Channel : Has(c, "closed") => onChain[c] = Acknowledged(c) /\ DriftOf(c) = {}

=============================================================================
