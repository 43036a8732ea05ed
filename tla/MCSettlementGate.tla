-------------------------- MODULE MCSettlementGate --------------------------
(***************************************************************************)
(* Instances of SettlementGate for TLC.  SharedCacheOf: the gates share a  *)
(* cache, in two processes (RedisProcessOf) or in one.  FirstCachesOf: g1  *)
(* has a cache and g2 none.  RefusingRoutesOf: g1 settles both models, g2  *)
(* is routed to nothing it can settle.                                     *)
(***************************************************************************)
EXTENDS SettlementGate, TLC

CONSTANTS g1, g2, p1, p2, c1, o1, o2

RedisProcessOf == (g1 :> p1) @@ (g2 :> p2)
OneProcessOf == [g \in Gate |-> p1]
SharedCacheOf == [g \in Gate |-> c1]
FirstCachesOf == (g1 :> c1) @@ (g2 :> NoCache)
SameOfferOf == [g \in Gate |-> {o1}]
AnyOfferOf == [g \in Gate |-> Offer]
X402Of == [g \in Gate |-> {"x402"}]
RefusingRoutesOf == (g1 :> SettledModel) @@ (g2 :> (Route \ {"x402"}))

Symmetry == Permutations(Request)

=============================================================================
