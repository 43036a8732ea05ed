----------------------------- MODULE DemoConfig ------------------------------
(***************************************************************************)
(* The demo's configuration (apps/demo, config.ts and setUp() in demo.ts)  *)
(* and what both sides of a payment must agree on: the x402 requirements   *)
(* the agent signs, and those the gate's HTTP facilitator client sends to  *)
(* /verify and /settle (facilitator.ts).  A URL, an asset or an account is *)
(* the network it belongs to; "" is an empty variable, "bad" a malformed   *)
(* one.                                                                    *)
(***************************************************************************)
EXTENDS FiniteSets

Network == {"testnet", "mainnet"}
NETWORK_CAIP2(network) == IF network = "mainnet" THEN "stellar:pubnet" ELSE "stellar:testnet"
FACILITATOR_URLS(network) == network
USDC_ADDRESSES(network) == network

\* process.env; FACILITATOR_URL may name the service of either network.
Env == [MOCK_MODE         : {"unset", "", "true"},
        STELLAR_NETWORK   : {"unset", "", "bad"} \cup Network,
        FACILITATOR_URL   : {"unset", ""} \cup Network,
        OZ_API_KEY        : {"unset", "", "key"},
        STELLAR_RECIPIENT : {"unset", "", "bad", "account"},
        STELLAR_SECRET_KEY : {"unset", "", "bad", "seed"},
        STELLAR_RPC_URL   : {"unset", "", "url"}]

Missing(value) == value \in {"unset", ""}

\* The network setting has its default only when it is not set at all.
NetworkValue(env) ==
  IF env.STELLAR_NETWORK = "unset" THEN "testnet" ELSE env.STELLAR_NETWORK
NetworkOf(env) == IF NetworkValue(env) \in Network THEN NetworkValue(env) ELSE "testnet"

\* Every setting live mode cannot use.
Problems(env) ==
  {name \in DOMAIN env :
    \/ name = "STELLAR_NETWORK" /\ NetworkValue(env) \notin Network
    \/ name = "OZ_API_KEY" /\ Missing(env.OZ_API_KEY)
    \/ name = "STELLAR_RECIPIENT" /\ env.STELLAR_RECIPIENT # "account"
    \/ name = "STELLAR_SECRET_KEY" /\ env.STELLAR_SECRET_KEY # "seed"
    \/ name = "STELLAR_RPC_URL" /\ NetworkOf(env) = "mainnet" /\ Missing(env.STELLAR_RPC_URL)}

Mock == [mode |-> "mock", network |-> "testnet", asset |-> "classic",
         facilitator |-> "mock", override |-> FALSE]
DemoConfigError == [mode |-> "error", network |-> "none", asset |-> "none",
                    facilitator |-> "none", override |-> FALSE]
LiveConfig(network, facilitator, override) ==
  [mode |-> "live", network |-> network, asset |-> USDC_ADDRESSES(network),
   facilitator |-> IF override THEN facilitator ELSE FACILITATOR_URLS(network),
   override |-> override]

\* Mutant: the facilitator's default is the mainnet service.
resolveToMainnet(env) ==
  IF env.MOCK_MODE = "true" THEN Mock
  ELSE IF Problems(env) # {} THEN DemoConfigError
  ELSE [LiveConfig(NetworkOf(env), env.FACILITATOR_URL, ~Missing(env.FACILITATOR_URL))
          EXCEPT !.facilitator = IF Missing(env.FACILITATOR_URL) THEN "mainnet" ELSE @]

\* With what setUp() makes of it: the mock facilitator and placeholder
\* accounts, or the HTTP facilitator and the paywall of the network.
resolveDemoConfig(env) ==
  IF env.MOCK_MODE = "true" THEN Mock
  ELSE IF Problems(env) # {} THEN DemoConfigError
  ELSE LiveConfig(NetworkOf(env), env.FACILITATOR_URL, ~Missing(env.FACILITATOR_URL))

-----------------------------------------------------------------------------
MAX_TIMEOUT_SECONDS == 60
SPONSORED_FEES == {"areFeesSponsored"}

\* The price on which a mutant of toRequirements() insists.
ListPrice == 1

\* Mutant: the agent signs for the price it knows and not for the challenge's.
SignsListPrice(offer) ==
  [scheme |-> "exact", network |-> NETWORK_CAIP2(offer.network), asset |-> offer.asset,
   amount |-> ListPrice, maxTimeoutSeconds |-> MAX_TIMEOUT_SECONDS, extra |-> SPONSORED_FEES]

\* toRequirements() of the demo: what the agent signs of an offer.  The payee
\* is one throughout; the resource is no part of it.
toRequirements(offer) ==
  [scheme |-> "exact", network |-> NETWORK_CAIP2(offer.network), asset |-> offer.asset,
   amount |-> offer.amount, maxTimeoutSeconds |-> MAX_TIMEOUT_SECONDS, extra |-> SPONSORED_FEES]

\* toRequirements() of createHttpFacilitator, with the options setUp() gives it.
facilitatorRequirements(offer) ==
  [scheme |-> "exact", network |-> NETWORK_CAIP2(offer.network), asset |-> offer.asset,
   amount |-> offer.amount, maxTimeoutSeconds |-> MAX_TIMEOUT_SECONDS, extra |-> SPONSORED_FEES]

=============================================================================
