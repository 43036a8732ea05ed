--------------------------- MODULE MCPaymentFlow -----------------------------
(***************************************************************************)
(* Instances of PaymentFlow for TLC: two agents at two replicas, which may *)
(* ask different prices.                                                   *)
(***************************************************************************)
EXTENDS PaymentFlow, TLC

CONSTANTS g1, g2, p1, p2, c1, a1, a2, n1, n2

FlowRequests == Agent \X {"challenge", "paid"}

Terms == {<<"testnet", "classic">>, <<"testnet", "testnet">>, <<"mainnet", "mainnet">>}
AllOffers == [resource : {"quote"}, amount : {1, 2}, network : Network, asset : {"classic"} \cup Network]
FlowOffers == {o \in AllOffers : <<o.network, o.asset>> \in Terms}

TwoProcesses == [g \in Gate |-> IF g = g1 THEN p1 ELSE p2]
OneCache == [g \in Gate |-> c1]
RolloutOf == [g \in Gate |-> IF g = g1 THEN {o \in Offer : o.amount = 1} ELSE Offer]
FirstModelOf == [g \in Gate |-> {Head(ServiceModels)}]
SamePath == [a \in Agent |-> "quote"]
OwnEnvelope == (a1 :> n1) @@ (a2 :> n2)
X402Only == <<"x402">>

=============================================================================
