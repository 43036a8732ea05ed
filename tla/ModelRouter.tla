----------------------------- MODULE ModelRouter -----------------------------
(***************************************************************************)
(* The default model router of @tollway/core (router.ts).  decide() keeps  *)
(* no state; the client asks it before it pays, and a gate may ask it how  *)
(* to settle.  An override that is no model stands for one left out.       *)
(***************************************************************************)
EXTENDS Naturals

Model == {"x402", "mpp-charge", "mpp-channel"}

\* A decision; decide() throws when no model is viable.
Route == Model \cup {"no-viable-model"}

\* The router's order, whatever order the offer lists its models in.
preferenceOrder == <<"x402", "mpp-charge", "mpp-channel">>

Preferred(models) ==
  LET viable == {i \in DOMAIN preferenceOrder : preferenceOrder[i] \in models}
  IN IF viable = {} THEN "no-viable-model"
     ELSE preferenceOrder[CHOOSE i \in viable : \A j \in viable : i <= j]

\* Both callers know the offer, and neither says which models policy allows.
Decide(override, offered, allowed) ==
  IF override \in Model THEN override ELSE Preferred(offered \cap allowed)

=============================================================================
