--------------------------- MODULE MCAgentClient ----------------------------
(***************************************************************************)
(* Instances of AgentClient for TLC.                                       *)
(***************************************************************************)
EXTENDS AgentClient, TLC

CONSTANTS s1, s2, h1, h2

NoCaps == [s \in Payee |-> NoLimit]

OnlyFirstCapped == (s1 :> 2) @@ (s2 :> NoLimit)

\* -1 stands for an amount that does not parse.
OfferAmounts == {-1, 1, 2}

\* Bound: handlers are explored with two x402 payments of one instant to s1.
HandlersEarly ==
  \/ handlers = <<>>
  \/ /\ now = 0
     /\ Cardinality({x \in Pay : pc[x] # "idle"}) <= 2
     /\ \A x \in Pay : intent[x] = NoIntent \/ (intent[x].payee = s1 /\ intent[x].model = "x402")

\* Bound: s1 is paid by x402, s2 over a channel.
OneModelEach ==
  \A x \in Pay : intent[x] # NoIntent =>
    (intent[x].payee = s2 <=> intent[x].model = "mpp-channel")

Bounds == HandlersEarly /\ OneModelEach

AnyOffer == SUBSET Model

Symmetry == Permutations(Pay)

=============================================================================
