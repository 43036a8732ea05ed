----------------------------- MODULE MCRecords -------------------------------
(***************************************************************************)
(* Instances for TLC of what is kept and shown of payments: the receipts   *)
(* and their keys (ReceiptArchive), the metrics (SpendMetrics) and the     *)
(* receipts page (DashboardReceipts).  The three                           *)
(* share no state, so each behaviour runs one part and leaves the others   *)
(* as they start.                                                          *)
(***************************************************************************)
EXTENDS ReceiptArchive, SpendMetrics, DashboardReceipts, TLC

CONSTANTS i1, i2, a1, a2, p1, p2, r1, r2, r3

VARIABLE part   \* the part that runs

\* i1 leaves the name out, i2 uses one name for every key, as the demo does.
DemoNames == (i1 :> {NoName}) @@ (i2 :> {"tollway-demo"})

Terms(amount, anchor) ==
  [payer |-> "agent", payee |-> "service", amount |-> amount, asset |-> "usdc",
   resource |-> "quotes", model |-> "x402", network |-> "testnet",
   settlement |-> [kind |-> "transaction", anchor |-> anchor]]

ChannelTerms ==
  [Terms(1, "c1") EXCEPT !.model = "mpp-channel", !.settlement.kind = "channel-commitment"]

\* Two payments, a channel commitment, and three that throw: a reference that
\* contradicts the model, a facilitator's empty hash, a price that is no integer.
Inputs == {Terms(1, "tx1"), Terms(2, "tx2"), ChannelTerms,
           [Terms(1, "c1") EXCEPT !.model = "mpp-channel"], Terms(1, Bad), Terms(Bad, "tx1")}

MetricAmounts == {2, NotInteger}

\* What toISOString() prints, with one digit, of two times in a second; the
\* second without digits; and the same hour by a clock that is an hour ahead.
At(second, fraction, zone, offset) ==
  [second |-> second, fraction |-> fraction, zone |-> zone, offset |-> offset]
IsoStamps == {At(0, <<0>>, "Z", 0), At(0, <<5>>, "Z", 0), At(0, <<>>, "Z", 0),
              At(3600, <<0>>, "+", 3600)}

TwoMounts == 1 .. 2

partVars == <<archiveVars, metrics, vars, part>>

PartInit ==
  /\ ArchiveInit /\ MetricsInit /\ Init
  /\ part \in {"receipts", "metrics", "page"}

PartNext ==
  /\ UNCHANGED part
  /\ \/ part = "receipts" /\ ArchiveNext /\ UNCHANGED <<metrics, vars>>
     \/ part = "metrics" /\ MetricsNext /\ UNCHANGED <<archiveVars, vars>>
     \/ part = "page" /\ Next /\ UNCHANGED <<archiveVars, metrics>>

PartSpec == PartInit /\ [][PartNext]_partVars

=============================================================================
