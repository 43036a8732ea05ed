---------------------------- MODULE PaymentFlow ------------------------------
(***************************************************************************)
(* A paid request end to end, as runDemo() of apps/demo runs it: an agent  *)
(* asks, reads the 402 challenge, signs what it asks for, asks again with  *)
(* the payment, and decodes the receipt of the response.  The service is   *)
(* Paywall, the configuration DemoConfig.  runDemo() makes one service for *)
(* its one agent; here agents share the replicas of a service, whose       *)
(* prices may differ while a new one is rolled out.  Verifying the receipt *)
(* is left out: it changes only the verdict that a run reports.            *)
(***************************************************************************)
EXTENDS Paywall, DemoConfig, Sequences, SequencesExt

CONSTANTS
  Agent,
  PathOf,        \* the resource each agent asks for
  EnvelopeOf,    \* the payment each agent's key signs
  MockEnvelope,  \* what the mock payer returns, whoever pays
  ServiceModels, \* PaywallConfig.models
  NoOffer

ASSUME FlowAssumption ==
  /\ Request = Agent \X {"challenge", "paid"}
  /\ \A o \in Offer : o = [f \in {"resource", "amount", "network", "asset"} |-> o[f]]
  /\ EnvelopeOf \in [Agent -> Payment] /\ MockEnvelope \in Payment
  /\ ServiceModels \in Seq(Model)
  /\ \A g \in Gate : RoutesOf[g] = {Head(ServiceModels)}   \* no deps.router
  /\ NoOffer \notin Offer

VARIABLES
  config,   \* what the environment variables came to
  step,     \* where each agent's run is
  seen,     \* the offer of the challenge
  signed,   \* the requirements the payment was signed for
  result    \* the receipt the run returns

agentVars == <<step, seen, signed, result>>
flowVars == <<paywallVars, config, agentVars>>

Over == {"returned", "threw"}
First(a) == <<a, "challenge">>
Paid(a) == <<a, "paid">>
Envelope(a) == IF config.mode = "mock" THEN MockEnvelope ELSE EnvelopeOf[a]

To(a, state) == step' = [step EXCEPT ![a] = state]

\* What a gate of this service offers for the agent's resource.
OffersFor(a) ==
  {o \in UNION {OffersOf[g] : g \in Gate} :
     o.resource = PathOf[a] /\ o.network = config.network /\ o.asset = config.asset}

-----------------------------------------------------------------------------
(* The agent. *)

\* setUp() throws before anything is called.
Misconfigured(a) ==
  /\ step[a] = "start" /\ config.mode = "error"
  /\ To(a, "threw")
  /\ UNCHANGED <<paywallVars, config, seen, signed, result>>

\* The first call has no payment and gets the challenge.
AskForChallenge(a) ==
  /\ step[a] = "start" /\ config.mode # "error"
  /\ Arrive(First(a)) /\ Adapted
  /\ out'[First(a)].status = "challenge"
  /\ \E o \in OffersFor(a) : seen' = [seen EXCEPT ![a] = o]
  /\ To(a, "challenged")
  /\ UNCHANGED <<config, signed, result>>

\* The payer signs for exactly what the challenge asks.  @x402/stellar refuses
\* requirements without sponsored fees; the mock payer signs anything.
Sign(a) ==
  /\ step[a] = "challenged"
  /\ config.mode = "live" => SPONSORED_FEES \subseteq toRequirements(seen[a]).extra
  /\ signed' = [signed EXCEPT ![a] = toRequirements(seen[a])]
  /\ To(a, "signed")
  /\ UNCHANGED <<paywallVars, config, seen, result>>

\* The second call, with the payment.
Pay(a) ==
  /\ step[a] = "signed"
  /\ Arrive(Paid(a)) /\ Adapted
  /\ out'[Paid(a)].status # "challenge"
  /\ req'[Paid(a)] # NoData =>
       req'[Paid(a)].pay = Envelope(a) /\ req'[Paid(a)].offer \in OffersFor(a)
  /\ To(a, "paying")
  /\ UNCHANGED <<config, seen, signed, result>>

\* 200: the header is decoded.  decodeHeader() throws on an empty one.
ReadReceipt(a) ==
  /\ step[a] = "paying" /\ response[Paid(a)].state = "served"
  /\ IF response[Paid(a)].header # NoReceipt
     THEN To(a, "returned") /\ result' = [result EXCEPT ![a] = response[Paid(a)].header]
     ELSE To(a, "threw") /\ UNCHANGED result
  /\ UNCHANGED <<paywallVars, config, seen, signed>>

\* Anything else than 200, and a response that never comes, ends the run.
NotServed(a) ==
  /\ step[a] = "paying"
  /\ \/ response[Paid(a)].state \in {"402", "refused", "error", "dropped"}
     \/ pc[Paid(a)] = "crashed"
  /\ To(a, "threw")
  /\ UNCHANGED <<paywallVars, config, seen, signed, result>>

\* The signing fails, or a connection breaks; the service goes on.
CallBreaks(a) ==
  /\ step[a] \in {"challenged", "paying"}
  /\ faults < MaxFaults /\ faults' = faults + 1
  /\ To(a, "threw")
  /\ UNCHANGED <<requestVars, cacheVars, charged, lost, response, config, seen, signed, result>>

AgentStep(a) ==
  Misconfigured(a) \/ AskForChallenge(a) \/ Sign(a) \/ Pay(a) \/ ReadReceipt(a) \/ NotServed(a)

-----------------------------------------------------------------------------
(* The service, with a facilitator that knows its network and the payment.  *)

PayerOf(r) == r[1]

\* What /verify compares: the envelope against the requirements it is sent.
Covered(r) ==
  LET a == PayerOf(r)
  IN \/ config.mode = "mock"
     \/ /\ config.facilitator = config.network
        /\ req[r].model = "x402"
        /\ signed[a] = facilitatorRequirements(req[r].offer)

\* A covered payment verifies; the mock facilitator neither fails nor declines.
FacilitatorAnswers(r) ==
  /\ pc[r] = "verify" => \/ out'[r].status = "threw"
                         \/ (out'[r].status = "invalid") = ~Covered(r)
  /\ config.mode = "mock" =>
       /\ pc[r] = "verify" => out'[r].status \notin {"invalid", "threw"}
       /\ pc[r] = "settle" => r \in charged'

RequestStep(r) ==
  /\ Step(r) /\ FacilitatorAnswers(r) /\ Adapted
  /\ UNCHANGED <<config, agentVars>>

LockTimesOut(c, k) == LockExpires(c, k) /\ Adapted /\ UNCHANGED <<config, agentVars>>

ServiceFails ==
  /\ \/ \E c \in Cache, k \in Key : EntryExpires(c, k) \/ LockOverrun(c, k)
     \/ \E p \in Process : Crash(p)
  /\ Adapted /\ UNCHANGED <<config, agentVars>>

RouteEnds(r) == HandlerEnds(r) /\ UNCHANGED <<config, agentVars>>

-----------------------------------------------------------------------------
FlowInit ==
  /\ PaywallInit
  /\ config \in {resolveDemoConfig(env) : env \in Env}
  /\ step = [a \in Agent |-> "start"]
  /\ seen = [a \in Agent |-> NoOffer]
  /\ signed = [a \in Agent |-> NoOffer]
  /\ result = [a \in Agent |-> NoReceipt]

\* Every agent has ended and nothing of the service is under way.
AllOver ==
  /\ \A a \in Agent : step[a] \in Over
  /\ \A r \in Request : pc[r] \notin Live /\ response[r].state # "handling"
  /\ UNCHANGED flowVars

FlowNext ==
  \/ \E a \in Agent : AgentStep(a) \/ CallBreaks(a)
  \/ \E r \in Request : RequestStep(r) \/ RouteEnds(r)
  \/ \E c \in Cache, k \in Key : LockTimesOut(c, k)
  \/ ServiceFails
  \/ AllOver

FlowSpec == FlowInit /\ [][FlowNext]_flowVars

-----------------------------------------------------------------------------
(* Properties. *)

\* Live money moves only on the terms the agent signed, whichever replica
\* answers, and a run that returns has the receipt of its own charge for the
\* very offer it was challenged with.
ReceiptMatchesChallenge ==
  \A a \in Agent : config.mode = "live" =>
    /\ Paid(a) \in charged => req[Paid(a)].offer = seen[a]
    /\ step[a] = "returned" => /\ result[a].by = Paid(a)
                               /\ result[a].pay = EnvelopeOf[a]
                               /\ result[a].offer = seen[a]

\* What an agent's run can fail of besides failures of the environment that
\* the model counts.
Excused(a) ==
  \/ config.mode = "error"
  \/ config.override /\ config.facilitator # config.network            \* FACILITATOR_URL
  \/ req[Paid(a)] # NoData /\ req[Paid(a)].offer # seen[a]              \* a new price
  \/ out[Paid(a)].status = "declined"
  \/ response[Paid(a)].state = "error" /\ out[Paid(a)].status = "settled"  \* the route handler
  \/ config.mode = "mock" /\ out[Paid(a)].status \in {"mismatch", "busy"}  \* one envelope for all

\* A correctly configured run is served: its requirements are the gate's, its
\* asset and facilitator those of its network, its receipt reaches it; no
\* interleaving with other agents and replicas makes it fail.
RunsFailForAReason ==
  \A a \in Agent : step[a] = "threw" => Excused(a) \/ faults > 0

=============================================================================
