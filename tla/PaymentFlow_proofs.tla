-------------------------- MODULE PaymentFlow_proofs --------------------------
(***************************************************************************)
(* Theorems about Paywall and PaymentFlow, for any number of agents,       *)
(* replicas, caches, offers and failures.  The adapters leave the gate's   *)
(* behaviour as it is and serve only what was paid for; what an agent's    *)
(* run returns is the receipt of its own payment for the offer it was      *)
(* shown; and a run fails for a reason.                                    *)
(***************************************************************************)
EXTENDS PaymentFlow, SettlementGate_proofs

(***************************************************************************)
(* Gate, adapters and route handlers.                                      *)
(***************************************************************************)

\* Every step of the composition is a step of the gate or leaves it alone: a
\* slow, failing or dying route handler changes nothing about settlements.
THEOREM GateUnchanged == PaywallSpec => Spec
<1>1. PaywallInit => Init
  BY DEF PaywallInit
<1>2. [PaywallNext]_paywallVars => [Next]_vars
  BY DEF PaywallNext, paywallVars, HandlerEnds, HandlerReturns, HandlerThrows
<1> QED
  BY <1>1, <1>2, PTL DEF PaywallSpec, Spec

(***************************************************************************)
(* What the adapters make of an outcome.                                   *)
(***************************************************************************)

\* A handler runs, and a header goes out, only on a settled outcome.
PaidFor(r) ==
  response[r].state \in {"handling", "served"} \/ response[r].header # NoReceipt
    => out[r].status = "settled"

PaywallInv ==
  /\ response \in [Request -> Response]
  /\ \A r \in Request : PaidFor(r)

LEMMA AdaptShape ==
  ASSUME NEW outcome \in Outcome, NEW adapter \in Adapters
  PROVE  LET answer == Adapt(adapter, outcome)
         IN /\ answer \in Response
            /\ answer.state \in {"handling", "served"} \/ answer.header # NoReceipt
                 => outcome.status = "settled"
<1>1. \A state \in {"402", "error", "refused"} :
        /\ WithoutReceipt(state) \in Response
        /\ WithoutReceipt(state).state = state /\ WithoutReceipt(state).header = NoReceipt
  BY DEF WithoutReceipt, Response, Final
<1>2. AnswerUnpaid(outcome) \in {WithoutReceipt(state) : state \in {"402", "error", "refused"}}
  BY DEF AnswerUnpaid
<1>3. /\ Handling(outcome.receipt) \in Response
      /\ Handling(NoReceipt) \in Response
  BY DEF Handling, Response, Outcome
<1>4. Adapt(adapter, outcome) \in
        IF outcome.status = "settled" THEN {Handling(outcome.receipt), Handling(NoReceipt)}
        ELSE {AnswerUnpaid(outcome)}
  BY AdapterAssumption DEF Adapt, expressPaywall, fastifyPaywall, honoPaywall, withPaywall
<1> QED
  BY <1>1, <1>2, <1>3, <1>4

LEMMA PaywallStep ==
  TypeOK /\ TypeOK' /\ PaywallInv /\ [PaywallNext]_paywallVars => PaywallInv'
<1> SUFFICES ASSUME TypeOK, TypeOK', PaywallInv, [PaywallNext]_paywallVars
             PROVE  PaywallInv'
  OBVIOUS
<1>1. CASE Next /\ Adapted
  <2>1. PICK adapter \in Adapters : response' = [r \in Request |->
          IF out'[r] # out[r] THEN Adapt(adapter, out'[r])
          ELSE IF response[r].state = "handling" /\ ProcessOf[req[r].gate] \in Crashing
          THEN WithoutReceipt("dropped")
          ELSE response[r]]
    BY <1>1 DEF Adapted
  <2>2. ASSUME NEW r \in Request
        PROVE  response'[r] \in Response /\ PaidFor(r)'
    <3>1. CASE out'[r] # out[r]
      <4>1. out'[r] \in Outcome
        BY DEF TypeOK
      <4>2. response'[r] = Adapt(adapter, out'[r])
        BY <2>1, <3>1
      <4> QED
        BY <4>1, <4>2, AdaptShape DEF PaidFor
    <3>2. CASE out'[r] = out[r] /\ response'[r] = response[r]
      BY <3>2 DEF PaywallInv, PaidFor
    <3>3. CASE response'[r] = WithoutReceipt("dropped")
      BY <3>3 DEF WithoutReceipt, Response, PaidFor
    <3> QED
      BY <2>1, <3>1, <3>2, <3>3
  <2> QED
    BY <2>1, <2>2 DEF PaywallInv
<1>2. ASSUME NEW r \in Request, HandlerEnds(r) PROVE PaywallInv'
  <2>1. out' = out /\ out[r].status = "settled" /\ out[r].receipt \in Receipt \cup {NoReceipt}
    BY <1>2 DEF HandlerEnds, HandlerReturns, HandlerThrows, PaywallInv, PaidFor, vars, TypeOK, Outcome
  <2>2. PICK state \in {"served", "error"}, header \in Receipt \cup {NoReceipt} :
          ResponseIs(r, state, header)
    BY <1>2, <2>1 DEF HandlerEnds, HandlerReturns, HandlerThrows, PaywallInv, Response
  <2> QED
    BY <2>1, <2>2 DEF ResponseIs, PaywallInv, PaidFor, Response, Final
<1>3. CASE UNCHANGED paywallVars
  BY <1>3 DEF paywallVars, vars, PaywallInv, PaidFor
<1> QED
  BY <1>1, <1>2, <1>3 DEF PaywallNext

\* Behind every adapter, a handler runs and a receipt goes out only for a
\* payment that moved money for the offer and model of this request.
THEOREM ServedIsPaidFor == PaywallSpec => []ServedIsPaid
<1>1. PaywallInit => PaywallInv
  BY DEF PaywallInit, PaywallInv, PaidFor, WithoutReceipt, Response
<1>2. TypeOK /\ TypeOK' /\ PaywallInv /\ [PaywallNext]_paywallVars => PaywallInv'
  BY PaywallStep
<1>3. PaywallInv /\ ReceiptsInv /\ HonestInv => ServedIsPaid
  <2> SUFFICES ASSUME PaywallInv, ReceiptsInv, HonestInv, NEW r \in Request,
                      out[r].status = "settled"
               PROVE  /\ out[r].receipt # NoReceipt
                      /\ LET s == out[r].receipt.by
                         IN /\ s \in charged
                            /\ req[s].pay = req[r].pay /\ req[s].model = req[r].model
                            /\ req[s].offer = req[r].offer
    BY DEF PaywallInv, PaidFor, ServedIsPaid
  <2>1. IsFor(out[r].receipt, KeyOf(r)) /\ out[r].receipt.offer = req[r].offer
    BY DEF ReceiptsInv, OutOK
  <2>2. IsHonest(out[r].receipt, pc, req)
    BY DEF HonestInv
  <2> QED
    BY <2>1, <2>2, NoneAssumption DEF IsFor, KeyOf, IsHonest
<1> QED
  BY <1>1, <1>2, <1>3, GateUnchanged, TypeCorrect, ReceiptInvariant, HonestInvariant, PTL DEF PaywallSpec

(***************************************************************************)
(* The agent behind the gate.                                              *)
(***************************************************************************)

\* Each agent signs with its own key, so no two present one payment.
OwnKeys == \A a, b \in Agent : EnvelopeOf[a] = EnvelopeOf[b] => a = b

\* The demo's service takes x402 and nothing else (demo.ts:163).
OnlyX402 == Head(ServiceModels) = "x402"

-----------------------------------------------------------------------------
(* What holds of a request, whoever made it. *)

RequestOK(r) ==
  /\ pc[r] = "idle" => req[r] = NoData /\ out[r].status = "none"
  /\ pc[r] = "done" <=> out[r].status # "none"
  /\ pc[r] \in Live \/ r \in charged \/ out[r].status \notin {"none"} \cup Early
       => req[r] \in RequestData
  /\ pc[r] \in {"resolved", "release"} => att[r].kind # "none"

\* What its response says of its outcome.
ResponseOK(r) ==
  /\ response[r].header \in {NoReceipt, out[r].receipt}
  /\ response[r].state = "served" => response[r].header = out[r].receipt
  /\ response[r].state = "402" => out[r].status = "challenge"
  /\ response[r].state = "refused" => out[r].status \notin {"none", "challenge", "threw", "settled"}
  /\ response[r].state = "error" => out[r].status \in {"threw", "settled"}

-----------------------------------------------------------------------------
(* What holds of an agent's run. *)

\* The first call only ever gets the challenge.
ChallengeOK(a) == pc[First(a)] \in {"idle", "done"} /\ First(a) \notin charged

\* What was signed is for the offer seen; the payment is made with it.
SignedOK(a) ==
  /\ step[a] \in {"start", "challenged", "signed"} => pc[Paid(a)] = "idle"
  /\ step[a] = "challenged" => seen[a] \in OffersFor(a)
  /\ step[a] = "signed" \/ pc[Paid(a)] # "idle" =>
       seen[a] \in OffersFor(a) /\ signed[a] = toRequirements(seen[a])
  /\ req[Paid(a)] # NoData =>
       req[Paid(a)].pay = Envelope(a) /\ req[Paid(a)].offer \in OffersFor(a)

\* A live payment that passed verification is for the offer seen.
CoveredOK(a) ==
  config.mode = "live" /\ (pc[Paid(a)] \in Live \ {"verify"} \/ Paid(a) \in charged)
    => req[Paid(a)].offer = seen[a]

\* A run returns the receipt of its paid call.
ReturnedOK(a) ==
  step[a] = "returned" =>
    /\ out[Paid(a)].status = "settled" /\ result[a] = out[Paid(a)].receipt

ConfigOK == config \in {resolveDemoConfig(env) : env \in Env}

RunInv ==
  /\ ConfigOK
  /\ DOMAIN step = Agent /\ DOMAIN seen = Agent /\ DOMAIN signed = Agent /\ DOMAIN result = Agent
  /\ \A r \in Request : RequestOK(r) /\ ResponseOK(r)
  /\ \A a \in Agent : ChallengeOK(a) /\ SignedOK(a) /\ CoveredOK(a) /\ ReturnedOK(a)

-----------------------------------------------------------------------------
(* What went wrong. *)

\* Whatever threw, died or was dropped did so for a counted failure; live, a
\* payment is busy only behind a lock that a failure left.
BrokenOK(r) ==
  /\ (\/ att[r].kind = "threw" \/ att[r].cacheError \/ pc[r] = "crashed"
      \/ out[r].status = "threw" \/ response[r].state = "dropped") => faults > 0
  /\ config.mode = "live" /\ "busy" \in {att[r].kind, out[r].status} => faults > 0

\* The paid call is routed, and refused at verification for a reason.
RefusedOK(a) ==
  /\ req[Paid(a)] # NoData => req[Paid(a)].model = "x402"
  /\ out[Paid(a)].status \notin {"challenge", "not-configured", "not-implemented"}
  /\ out[Paid(a)].status = "invalid" => Excused(a)

FailedOK(a) == step[a] = "threw" => Excused(a) \/ faults > 0

ReasonInv ==
  /\ \A r \in Request : BrokenOK(r)
  /\ \A a \in Agent : RefusedOK(a) /\ FailedOK(a)

-----------------------------------------------------------------------------
(* The service behind the agents: what is proved of it by itself goes on    *)
(* holding, whatever breaks on the way to it.                               *)

Base ==
  /\ TypeOK /\ AttemptsRegistered /\ ReceiptsInv /\ HonestInv /\ PaywallInv
  /\ PlacesInv /\ WaiterInv /\ LockInv /\ MismatchInv

\* A connection that breaks.
Breaks ==
  /\ faults' = faults + 1
  /\ UNCHANGED <<requestVars, cacheVars, charged, lost, response>>

LEMMA BaseInit == PaywallInit => Base
<1> SUFFICES ASSUME PaywallInit PROVE Base
  OBVIOUS
<1>1. Init /\ response = [r \in Request |-> WithoutReceipt("none")]
  BY DEF PaywallInit
<1>2. TypeOK
  BY <1>1, InitType
<1>3. PaywallInv
  BY <1>1 DEF PaywallInv, PaidFor, WithoutReceipt, Response
<1>4. AttemptsRegistered
  BY <1>1 DEF Init, AttemptsRegistered, Attempting, HoldsLock
<1>5. ReceiptsInv
  BY <1>1 DEF Init, ReceiptsInv, PlaceOK, AttOK, OutOK, EntryOK, Bare, Rejected
<1>6. HonestInv
  BY <1>1 DEF Init, HonestInv, Bare, Rejected
<1>7. PlacesInv
  BY <1>1, NoneAssumption DEF Init, PlacesInv
<1>8. WaiterInv
  BY <1>1 DEF Init, WaiterInv, WaiterOK
<1>9. LockInv
  BY <1>1 DEF Init, LockInv, PathOK, LockOK
<1>10. MismatchInv
  BY <1>1 DEF Init, MismatchInv, MismatchOK, Rejected
<1> QED
  BY <1>2, <1>3, <1>4, <1>5, <1>6, <1>7, <1>8, <1>9, <1>10 DEF Base

LEMMA BaseStep ==
  ASSUME Base, [PaywallNext]_paywallVars \/ Breaks
  PROVE  Base'
<1> USE DEF Base
<1>1. CASE [PaywallNext]_paywallVars
  <2>1. [Next]_vars
    BY <1>1 DEF PaywallNext, paywallVars, HandlerEnds, HandlerReturns, HandlerThrows
  <2>2. TypeOK'
    BY <2>1, StepType
  <2>3. AttemptsRegistered' /\ ReceiptsInv' /\ HonestInv'
    BY <2>1, <2>2, AttemptStep, ReceiptStep, HonestStep
  <2>4. PaywallInv'
    BY <1>1, <2>2, PaywallStep
  <2>5. PlacesInv' /\ WaiterInv' /\ LockInv' /\ MismatchInv'
    BY <2>1, <2>2, PlacesStep, WaiterStep, LockStep, MismatchStep
  <2> QED
    BY <2>2, <2>3, <2>4, <2>5
<1>2. CASE Breaks
  <2>1. /\ faults' = faults + 1
        /\ UNCHANGED <<pc, req, owner, att, out, inFlight, entry, lock, charged, lost, response>>
    BY <1>2 DEF Breaks, requestVars, cacheVars
  <2>2. TypeOK'
    BY <2>1 DEF TypeOK
  <2>3. AttemptsRegistered'
    BY <2>1 DEF AttemptsRegistered, KeyOf
  <2>4. ReceiptsInv'
    BY <2>1 DEF ReceiptsInv, PlaceOK, AttOK, OutOK, EntryOK, IsFor, KeyOf
  <2>5. HonestInv'
    BY <2>1 DEF HonestInv
  <2>6. PaywallInv'
    BY <2>1 DEF PaywallInv, PaidFor
  <2>7. PlacesInv'
    BY <2>1 DEF PlacesInv
  <2>8. WaiterInv'
    BY <2>1 DEF WaiterInv, WaiterOK, KeyOf, ToOutcome, BoundTo
  <2>9. LockInv'
    BY <2>1 DEF LockInv, PathOK, LockOK, Locking, CacheFor, KeyOf, Accountable, Reported
  <2>10. MismatchInv'
    BY <2>1 DEF MismatchInv, MismatchOK
  <2> QED
    BY <2>2, <2>3, <2>4, <2>5, <2>6, <2>7, <2>8, <2>9, <2>10
<1> QED
  BY <1>1, <1>2

-----------------------------------------------------------------------------
(* One request at a time. *)

LEMMA StepAlone ==
  ASSUME TypeOK, NEW r \in Request, Step(r)
  PROVE  pc[r] # "idle" /\ \A q \in Request \ {r} : Untouched(q)
<1> USE DEF TypeOK, Untouched, Go, Answer, Resolve, AttemptIs
<1>1. CASE VerifyFails(r) \/ Join(r) \/ Start(r)
  BY <1>1 DEF VerifyFails, Join, Start
<1>2. CASE FirstGet(r) \/ Acquire(r) \/ SecondGet(r)
  BY <1>2 DEF FirstGet, Acquire, SecondGet
<1>3. CASE Settle(r) \/ SettleReturns(r) \/ Store(r)
  BY <1>3 DEF Settle, SettleReturns, Store
<1>4. CASE Release(r) \/ Unwind(r)
  BY <1>4 DEF Release, Unwind
<1>5. CASE OwnerReturns(r) \/ WaiterReturns(r)
  BY <1>5 DEF OwnerReturns, WaiterReturns
<1> QED
  BY <1>1, <1>2, <1>3, <1>4, <1>5 DEF Step

LEMMA ArrivesAlone ==
  ASSUME TypeOK, NEW r \in Request, Arrive(r)
  PROVE  Arrives(r) /\ UNCHANGED charged /\ \A q \in Request \ {r} : Untouched(q)
<1>1. UNCHANGED <<owner, att, charged>>
  BY DEF Arrive
<1>2. \A q \in Request \ {r} : Untouched(q)
  BY <1>1, ArriveCases DEF TypeOK, Untouched, Go, Answer
<1> QED
  BY <1>1, <1>2, ArriveMoves

\* Only a request at the facilitator's /settle is charged; failures are counted.
LEMMA ChargedMoves ==
  ASSUME TypeOK, [Next]_vars
  PROVE  /\ \A q \in charged' : q \in charged \/ pc[q] = "settle"
         /\ faults' \in {faults, faults + 1}
<1> USE DEF Fault, NoFault
<1>1. ASSUME NEW r \in Request, Arrive(r) \/ Step(r)
      PROVE  /\ \A q \in charged' : q \in charged \/ pc[q] = "settle"
             /\ faults' \in {faults, faults + 1}
  <2>1. CASE Arrive(r)
    BY <2>1 DEF Arrive
  <2>2. CASE VerifyFails(r) \/ Join(r) \/ Start(r)
    BY <2>2 DEF VerifyFails, Join, Start
  <2>3. CASE FirstGet(r) \/ Acquire(r) \/ SecondGet(r)
    BY <2>3 DEF FirstGet, Acquire, SecondGet
  <2>4. CASE Settle(r) \/ SettleReturns(r) \/ Store(r)
    BY <2>4 DEF Settle, SettleReturns, Store
  <2>5. CASE Release(r) \/ Unwind(r)
    BY <2>5 DEF Release, Unwind
  <2>6. CASE OwnerReturns(r) \/ WaiterReturns(r)
    BY <2>6 DEF OwnerReturns, WaiterReturns
  <2> QED
    BY <1>1, <2>1, <2>2, <2>3, <2>4, <2>5, <2>6 DEF Step
<1>2. ASSUME NEW c \in Cache, NEW k \in Key,
             EntryExpires(c, k) \/ LockExpires(c, k) \/ LockOverrun(c, k)
      PROVE  UNCHANGED charged /\ faults' \in {faults, faults + 1}
  BY <1>2 DEF EntryExpires, LockExpires, LockOverrun
<1>3. ASSUME NEW p \in Process, Crash(p)
      PROVE  UNCHANGED charged /\ faults' \in {faults, faults + 1}
  BY <1>3 DEF Crash
<1>4. CASE AllAnswered \/ UNCHANGED vars
  BY <1>4 DEF AllAnswered, vars
<1> QED
  BY <1>1, <1>2, <1>3, <1>4 DEF Next

\* A step of the flow, as the service sees it.
Serves == Next /\ Adapted
FlowStep ==
  /\ config' = config
  /\ Serves \/ (\E r \in Request : HandlerEnds(r)) \/ Breaks \/ UNCHANGED paywallVars

LEMMA FlowIsStep == [FlowNext]_flowVars => FlowStep
<1> SUFFICES ASSUME [FlowNext]_flowVars PROVE FlowStep
  OBVIOUS
<1> USE DEF FlowStep, Serves
<1>0. \A a \in Agent : First(a) \in Request /\ Paid(a) \in Request
  BY FlowAssumption DEF First, Paid
<1>1. ASSUME NEW a \in Agent, AgentStep(a) PROVE FlowStep
  BY <1>0, <1>1 DEF AgentStep, Misconfigured, AskForChallenge, Sign, Pay, ReadReceipt, NotServed, Next
<1>2. ASSUME NEW a \in Agent, CallBreaks(a) PROVE FlowStep
  BY <1>2 DEF CallBreaks, Breaks
<1>3. ASSUME NEW r \in Request, RequestStep(r) PROVE FlowStep
  BY <1>3 DEF RequestStep, Next
<1>4. ASSUME NEW r \in Request, RouteEnds(r) PROVE FlowStep
  BY <1>4 DEF RouteEnds
<1>5. ASSUME NEW c \in Cache, NEW k \in Key, LockTimesOut(c, k) PROVE FlowStep
  BY <1>5 DEF LockTimesOut, Next
<1>6. CASE ServiceFails
  BY <1>6 DEF ServiceFails, Next
<1>7. CASE AllOver \/ UNCHANGED flowVars
  BY <1>7 DEF AllOver, flowVars
<1> QED
  BY <1>1, <1>2, <1>3, <1>4, <1>5, <1>6, <1>7 DEF FlowNext

LEMMA FlowMoves ==
  ASSUME Base, FlowStep
  PROVE  /\ Base'
         /\ \A q \in Request : Moves(q)
         /\ charged \subseteq charged'
         /\ \A q \in charged' : q \in charged \/ pc[q] = "settle"
         /\ faults' \in {faults, faults + 1}
<1>1. CASE Breaks
  BY <1>1, BaseStep DEF Breaks, requestVars, cacheVars, Moves, Untouched
<1>2. CASE ~Breaks
  <2>1. [PaywallNext]_paywallVars /\ [Next]_vars
    BY <1>2 DEF FlowStep, Serves, PaywallNext, paywallVars, HandlerEnds, HandlerReturns, HandlerThrows
  <2>2. TypeOK
    BY DEF Base
  <2> QED
    BY <2>1, <2>2, BaseStep, MoveStep, ChargedMoves, StepShape DEF Writes
<1> QED
  BY <1>1, <1>2

-----------------------------------------------------------------------------
(* Where the result of an attempt comes from. *)

Broke(q) == att[q].kind = "threw" \/ att[q].cacheError

\* An attempt is over with a result; it breaks by a counted failure, and is
\* busy for a lock it saw.
AttCause(q) ==
  /\ pc'[q] \in {"resolved", "release"} => att'[q].kind # "none"
  /\ att'[q].kind = "threw" \/ att'[q].cacheError \/ pc'[q] = "crashed"
       => Broke(q) \/ pc[q] = "crashed" \/ faults' = faults + 1
  /\ att'[q].kind = "busy" =>
       att[q].kind = "busy" \/ (pc[q] = "acquire" /\ Locking(q) /\ LockOf(q) # NoRequest)

LEMMA ResultKinds ==
  /\ \A kind : Bare(kind).kind = kind /\ Bare(kind).cacheError = FALSE
  /\ \A x, b : Ok(x, b).kind = "receipt" /\ Ok(x, b).cacheError = FALSE
  /\ \A a \in Result : [a EXCEPT !.cacheError = TRUE].kind = a.kind
BY DEF Bare, Ok, Result

\* The ways an attempt goes on.
GoesOn(r) ==
  /\ pc'[r] # "crashed"
  /\ \/ \E x, b : att'[r] = Ok(x, b)
     \/ att'[r] = Bare("declined")
     \/ faults' = faults + 1 /\ att'[r].kind \in {"threw", "receipt"}
     \/ att'[r] = att[r] /\ (pc'[r] \in {"resolved", "release"} => att[r].kind # "none")
     \/ att'[r] = Bare("busy") /\ pc[r] = "acquire" /\ Locking(r) /\ LockOf(r) # NoRequest

LEMMA GoesOnCause == ASSUME NEW r \in Request, GoesOn(r) PROVE AttCause(r)
BY ResultKinds DEF GoesOn, AttCause, Broke

LEMMA StepCause ==
  ASSUME TypeOK, LockInv, ReceiptsInv, NEW r \in Request, Step(r),
         pc[r] \in {"resolved", "release"} => att[r].kind # "none"
  PROVE  AttCause(r)
<1> att[r] \in Result /\ pc \in [Request -> Pc] /\ att \in [Request -> Result]
  BY DEF TypeOK
<1>0. Bare("threw").kind = "threw"
  BY ResultKinds
<1>1. CASE VerifyFails(r) \/ Join(r) \/ Start(r) \/ OwnerReturns(r) \/ WaiterReturns(r)
  BY <1>1 DEF AttCause, Broke, Go, Answer, VerifyFails, Join, Start, OwnerReturns, WaiterReturns
<1>2. CASE FirstGet(r)
  <2>1. /\ pc'[r] \in {"resolved", "acquire", "settle"}
        /\ \/ att'[r] = Ok(Cached(r), TRUE)
           \/ att'[r] = att[r] /\ pc'[r] # "resolved"
           \/ att'[r] = Bare("threw") /\ faults' = faults + 1
    BY <1>2 DEF Go, Resolve, AttemptIs, FirstGet, Fault
  <2> QED
    BY <1>0, <2>1, GoesOnCause DEF GoesOn
<1>3. CASE Acquire(r)
  <2>1. pc[r] = "acquire" /\ Locking(r)
    BY <1>3 DEF Acquire, LockInv, PathOK
  <2>2. GoesOn(r)
    BY <1>0, <1>3, <2>1 DEF GoesOn, Go, Resolve, AttemptIs, Acquire, Fault
  <2> QED
    BY <2>2, GoesOnCause
<1>4. CASE SecondGet(r)
  <2>1. /\ pc'[r] \in {"release", "unwind", "settle"}
        /\ \/ att'[r] = Ok(Cached(r), TRUE)
           \/ att'[r] = att[r] /\ pc'[r] = "settle"
           \/ att'[r] = Bare("threw") /\ faults' = faults + 1
    BY <1>4 DEF Go, AttemptIs, SecondGet, Fault
  <2> QED
    BY <1>0, <2>1, GoesOnCause DEF GoesOn
<1>5. CASE Settle(r)
  <2>1. GoesOn(r)
    BY <1>0, <1>5 DEF GoesOn, Go, AttemptIs, Settle, Released, Unwound, Fault
  <2> QED
    BY <2>1, GoesOnCause
<1>6. CASE SettleReturns(r)
  <2>1. /\ pc'[r] \in {"resolved", "store", "unwind"}
        /\ \/ att'[r] = Ok(NewReceipt(r), FALSE)
           \/ att'[r] = Bare("threw") /\ faults' = faults + 1
    BY <1>6 DEF Go, AttemptIs, SettleReturns, Unwound, Fault
  <2> QED
    BY <1>0, <2>1, GoesOnCause DEF GoesOn
<1>7. CASE Store(r)
  <2>1. att[r].kind = "receipt"
    BY <1>7 DEF Store, ReceiptsInv, PlaceOK
  <2>2. [att[r] EXCEPT !.cacheError = TRUE].kind = "receipt"
    BY <2>1, ResultKinds
  <2>3. GoesOn(r)
    BY <1>0, <1>7, <2>1, <2>2 DEF GoesOn, Go, AttemptIs, Store, Released, Fault
  <2> QED
    BY <2>3, GoesOnCause
<1>8. CASE Release(r)
  <2>1. pc[r] = "release" /\ pc'[r] = "resolved" /\ att[r].kind # "none"
    BY <1>8 DEF Release, Resolve, Go
  <2>2. \/ att'[r] = att[r]
        \/ faults' = faults + 1 /\ att'[r] \in {Bare("threw"), [att[r] EXCEPT !.cacheError = TRUE]}
    BY <1>8 DEF Release, Resolve, AttemptIs, AfterFailedRelease, Fault
  <2>3. att'[r].kind \in {att[r].kind, "threw"}
    BY <2>2, ResultKinds
  <2> QED
    BY <2>1, <2>2, <2>3 DEF AttCause, Broke
<1>9. CASE Unwind(r)
  <2>1. pc[r] = "unwind" /\ att[r].kind = "threw" /\ UNCHANGED att
    BY <1>9 DEF Unwind, LockInv, PathOK
  <2> QED
    BY <2>1 DEF AttCause, Broke
<1> QED
  BY <1>1, <1>2, <1>3, <1>4, <1>5, <1>6, <1>7, <1>8, <1>9 DEF Step

LEMMA FlowCauses ==
  ASSUME Base, FlowStep, \A q \in Request : RequestOK(q)
  PROVE  \A q \in Request : AttCause(q)
<1> TypeOK /\ LockInv /\ ReceiptsInv
  BY DEF Base
<1>1. ASSUME NEW q \in Request, Untouched(q) PROVE AttCause(q)
  BY <1>1 DEF Untouched, AttCause, Broke, RequestOK
<1>2. ASSUME NEW r \in Request, Arrive(r) PROVE \A q \in Request : AttCause(q)
  <2>1. AttCause(r)
    BY <1>2, ArrivesAlone DEF Arrives, AttCause, Broke
  <2> QED
    BY <1>1, <1>2, <2>1, ArrivesAlone
<1>3. ASSUME NEW r \in Request, Step(r) PROVE \A q \in Request : AttCause(q)
  BY <1>1, <1>3, StepCause, StepAlone DEF RequestOK
<1>4. ASSUME NEW c \in Cache, NEW k \in Key,
             EntryExpires(c, k) \/ LockExpires(c, k) \/ LockOverrun(c, k)
      PROVE  \A q \in Request : AttCause(q)
  BY <1>1, <1>4 DEF EntryExpires, LockExpires, LockOverrun, requestVars, Untouched
<1>5. ASSUME NEW p \in Process, Crash(p) PROVE \A q \in Request : AttCause(q)
  <2>1. \A q \in Request : pc'[q] \in {pc[q], "crashed"}
    BY <1>5 DEF Crash
  <2>2. UNCHANGED att /\ faults' = faults + 1
    BY <1>5 DEF Crash, Fault
  <2> QED
    BY <2>1, <2>2 DEF AttCause, Broke, RequestOK
<1>6. CASE UNCHANGED <<pc, req, owner, att, out>>
  BY <1>1, <1>6 DEF Untouched
<1> QED
  BY <1>2, <1>3, <1>4, <1>5, <1>6
  DEF FlowStep, Serves, Next, AllAnswered, vars, HandlerEnds, HandlerReturns, HandlerThrows,
      Breaks, requestVars, paywallVars

\* An outcome, once given, says what the attempt came to.
LEMMA OutcomeStatuses ==
  ASSUME NEW r, NEW a \in Result, NEW w \in BOOLEAN, a.kind # "none"
  PROVE  LET s == ToOutcome(r, a, w).status
         IN /\ s \in {"settled", "mismatch", "declined", "busy", "threw"}
            /\ s \in {"declined", "busy", "threw"} => a.kind = s
            /\ s \in {"settled", "mismatch"} => a.kind = "receipt"
BY DEF ToOutcome, Rejected, Granted, Result, ResultKind

\* The attempt an outcome is made of, and what it came to.
Came(q, w) ==
  /\ w \in Request /\ KeyOf(w) = KeyOf(q) /\ req[q] \in RequestData
  /\ att[w].kind # "none"
  /\ out'[q].status \in {"settled", "mismatch", "declined", "busy", "threw"}
  /\ out'[q].status \in {"declined", "busy", "threw"} => att[w].kind = out'[q].status

LEMMA OutcomeCame ==
  ASSUME Base, \A r \in Request : RequestOK(r), NEW q \in Request, Returns(q) \/ Hears(q)
  PROVE  \E w \in Request : Came(q, w)
<1> TypeOK /\ WaiterInv /\ ReceiptsInv
  BY DEF Base
<1>1. req[q] \in RequestData
  BY DEF Returns, Hears, TypeOK, Live, Attempting
<1>2. CASE Returns(q)
  <2>1. att[q].kind # "none" /\ att[q] \in Result /\ out'[q] = ToOutcome(q, att[q], FALSE)
    BY <1>2 DEF Returns, RequestOK, TypeOK
  <2> DEFINE s == ToOutcome(q, att[q], FALSE).status
  <2>2. /\ s \in {"settled", "mismatch", "declined", "busy", "threw"}
        /\ s \in {"declined", "busy", "threw"} => att[q].kind = s
    BY <2>1, OutcomeStatuses
  <2>3. Came(q, q)
    BY <1>1, <2>1, <2>2 DEF Came
  <2> QED
    BY <2>3
<1>3. CASE Hears(q)
  <2> DEFINE w == owner[q]
  <2>1. /\ w \in Request /\ KeyOf(w) = KeyOf(q) /\ att[w] \in Result
        /\ pc[w] \in {"resolved", "done"} /\ out'[q] = ToOutcome(q, att[w], TRUE)
    BY <1>3 DEF Hears, TypeOK, ReceiptsInv, PlaceOK
  <2>2. w # NoRequest
    BY <2>1, NoneAssumption
  <2> HIDE DEF w
  <2>3. att[w].kind # "none"
    <3>1. CASE pc[w] = "resolved"
      BY <2>1, <3>1 DEF RequestOK
    <3>2. CASE pc[w] = "done"
      <4>1. out[w] = ToOutcome(w, att[w], FALSE) /\ out[w].status # "none"
        BY <2>1, <2>2, <3>2 DEF WaiterInv, WaiterOK, RequestOK, w
      <4> QED
        BY <4>1 DEF ToOutcome, Rejected
    <3> QED
      BY <2>1, <3>1, <3>2
  <2> DEFINE s == ToOutcome(q, att[w], TRUE).status
  <2>4. /\ s \in {"settled", "mismatch", "declined", "busy", "threw"}
        /\ s \in {"declined", "busy", "threw"} => att[w].kind = s
    BY <2>1, <2>3, OutcomeStatuses
  <2>5. Came(q, w)
    BY <1>1, <2>1, <2>3, <2>4 DEF Came
  <2> QED
    BY <2>1, <2>5
<1> QED
  BY <1>2, <1>3

LEMMA RequestStepOK ==
  ASSUME Base, FlowStep, \A q \in Request : RequestOK(q)
  PROVE  \A q \in Request : RequestOK(q)'
<1> SUFFICES ASSUME NEW q \in Request PROVE RequestOK(q)'
  OBVIOUS
<1> TypeOK /\ TypeOK' /\ PlacesInv
  BY FlowMoves DEF Base
<1>1. Moves(q) /\ AttCause(q) /\ RequestOK(q)
  BY FlowMoves, FlowCauses
<1>2. q \in charged' => q \in charged \/ pc[q] = "settle"
  BY FlowMoves
<1>3. pc'[q] \in {"resolved", "release"} => att'[q].kind # "none"
  BY <1>1 DEF AttCause
<1>4. /\ {"verify", "waiting", "settle", "resolved"} \subseteq Live
      /\ {"idle", "done", "crashed"} \cap Live = {}
      /\ Attempting \subseteq Live
      /\ {"idle", "done", "crashed", "verify", "waiting"} \cap Attempting = {}
  BY DEF Live, Attempting, HoldsLock
<1>5. CASE Untouched(q)
  BY <1>1, <1>2, <1>3, <1>4, <1>5 DEF Untouched, RequestOK
<1>6. CASE Dies(q)
  BY <1>1, <1>2, <1>3, <1>4, <1>6 DEF Dies, Keeps, RequestOK
<1>7. CASE Arrives(q)
  <2>1. q \notin charged'
    BY <1>2, <1>7 DEF Arrives, PlacesInv, AfterCharge
  <2> QED
    BY <1>1, <1>3, <1>4, <1>7, <2>1 DEF Arrives, Early, RequestOK
<1>8. CASE Refused(q)
  <2>1. q \notin charged'
    BY <1>2, <1>8 DEF Refused, PlacesInv, AfterCharge
  <2> QED
    BY <1>1, <1>3, <1>4, <1>8, <2>1 DEF Refused, Keeps, Early, RequestOK
<1>9. CASE Joins(q) \/ Starts(q) \/ Works(q)
  BY <1>1, <1>2, <1>3, <1>4, <1>9 DEF Joins, Starts, Works, Keeps, RequestOK
<1>10. CASE Returns(q) \/ Hears(q)
  <2>2. out'[q].status # "none" /\ req[q] \in RequestData
    BY <1>10, OutcomeCame DEF Came
  <2> QED
    BY <1>1, <1>2, <1>3, <1>4, <1>10, <2>2 DEF Returns, Hears, Keeps, RequestOK
<1> QED
  BY <1>1, <1>5, <1>6, <1>7, <1>8, <1>9, <1>10 DEF Moves

\* A new outcome is one of the early refusals or what an attempt came to.
NewOutcome(q) ==
  \/ Arrives(q) /\ pc'[q] = "done" /\ out'[q].status \in Early
  \/ Refused(q)
  \/ Returns(q) \/ Hears(q)

LEMMA OutcomesAreNew ==
  ASSUME NEW q \in Request, Moves(q), out'[q] # out[q]
  PROVE  NewOutcome(q)
BY DEF Moves, NewOutcome, Untouched, Dies, Arrives, Refused, Joins, Starts, Works

-----------------------------------------------------------------------------
(* Responses. *)

\* An adapter answers by the outcome's status and leaves the rest to the route.
LEMMA AnswerSays ==
  ASSUME NEW outcome \in Outcome, NEW adapter \in Adapters, outcome.status # "none"
  PROVE  LET answer == Adapt(adapter, outcome)
         IN /\ answer.header \in {NoReceipt, outcome.receipt}
            /\ answer.state \notin {"none", "served", "dropped"}
            /\ answer.state = "402" => outcome.status = "challenge"
            /\ answer.state = "refused" => outcome.status \notin {"none", "challenge", "threw", "settled"}
            /\ answer.state = "error" => outcome.status \in {"threw", "settled"}
<1>1. \A state : WithoutReceipt(state).state = state /\ WithoutReceipt(state).header = NoReceipt
  BY DEF WithoutReceipt
<1>2. \A x : Handling(x).state = "handling" /\ Handling(x).header = x
  BY DEF Handling
<1>3. Adapt(adapter, outcome) \in
        IF outcome.status = "settled" THEN {Handling(outcome.receipt), Handling(NoReceipt)}
        ELSE {AnswerUnpaid(outcome)}
  BY AdapterAssumption DEF Adapt, expressPaywall, fastifyPaywall, honoPaywall, withPaywall
<1>4. CASE outcome.status = "settled"
  BY <1>2, <1>3, <1>4
<1>5. CASE outcome.status # "settled"
  BY <1>1, <1>3, <1>5 DEF AnswerUnpaid
<1> QED
  BY <1>4, <1>5

\* What becomes of a response when the gate moves: a new outcome is adapted, a
\* handler at work dies with its process, or the response stays.
LEMMA ResponseMoves ==
  ASSUME Adapted, NEW r \in Request
  PROVE  \/ out'[r] # out[r] /\ \E adapter \in Adapters : response'[r] = Adapt(adapter, out'[r])
         \/ out'[r] = out[r] /\ response'[r] = response[r]
         \/ /\ out'[r] = out[r] /\ response'[r] = WithoutReceipt("dropped")
            /\ response[r].state = "handling" /\ Crashing # {}
<1>1. PICK adapter \in Adapters : response' = [q \in Request |->
        IF out'[q] # out[q] THEN Adapt(adapter, out'[q])
        ELSE IF response[q].state = "handling" /\ ProcessOf[req[q].gate] \in Crashing
        THEN WithoutReceipt("dropped")
        ELSE response[q]]
  BY DEF Adapted
<1> QED
  BY <1>1

\* A handler that ends changes its own response and nothing else.
LEMMA HandlerMoves ==
  ASSUME PaywallInv, NEW r \in Request, HandlerEnds(r)
  PROVE  /\ UNCHANGED vars
         /\ response[r].state = "handling" /\ out[r].status = "settled"
         /\ response'[r].header \in {NoReceipt, response[r].header, out[r].receipt}
         /\ \/ response'[r].state = "served" /\ response'[r].header = out[r].receipt
            \/ response'[r].state = "error" /\ response'[r].header \in {NoReceipt, response[r].header}
         /\ \A q \in Request \ {r} : response'[q] = response[q]
BY DEF HandlerEnds, HandlerReturns, HandlerThrows, ResponseIs, PaywallInv, PaidFor

LEMMA ResponseStepOK ==
  ASSUME Base, FlowStep, \A q \in Request : RequestOK(q) /\ ResponseOK(q)
  PROVE  \A q \in Request : ResponseOK(q)'
<1> SUFFICES ASSUME NEW q \in Request PROVE ResponseOK(q)'
  OBVIOUS
<1>1. TypeOK /\ TypeOK' /\ PaywallInv
  BY FlowMoves DEF Base
<1>2. CASE out'[q] = out[q] /\ response'[q] = response[q]
  BY <1>2 DEF ResponseOK
<1>3. CASE Serves
  <2>1. ASSUME out'[q] # out[q], NEW adapter \in Adapters, response'[q] = Adapt(adapter, out'[q])
        PROVE  ResponseOK(q)'
    <3>1. pc'[q] = "done"
      BY <2>1, FlowMoves, OutcomesAreNew DEF NewOutcome, Refused, Returns, Hears
    <3>2. out'[q].status # "none" /\ out'[q] \in Outcome
      BY <3>1, <1>1, RequestStepOK DEF RequestOK, TypeOK
    <3> QED
      BY <2>1, <3>2, AnswerSays DEF ResponseOK
  <2>2. CASE out'[q] = out[q] /\ response'[q] = WithoutReceipt("dropped")
    BY <2>2 DEF WithoutReceipt, ResponseOK
  <2> QED
    BY <1>2, <1>3, <2>1, <2>2, ResponseMoves DEF Serves
<1>4. ASSUME NEW r \in Request, HandlerEnds(r) PROVE ResponseOK(q)'
  <2>1. CASE q = r
    BY <1>1, <1>4, <2>1, HandlerMoves DEF ResponseOK, vars
  <2>2. CASE q # r
    BY <1>1, <1>2, <1>4, <2>2, HandlerMoves DEF vars
  <2> QED
    BY <2>1, <2>2
<1> QED
  BY <1>2, <1>3, <1>4 DEF FlowStep, Breaks, requestVars, paywallVars, vars

-----------------------------------------------------------------------------
(* Agents. *)

LEMMA Calls ==
  ASSUME NEW a \in Agent, NEW b \in Agent
  PROVE  /\ First(a) \in Request /\ Paid(a) \in Request
         /\ First(a) # Paid(b)
         /\ a # b => First(a) # First(b) /\ Paid(a) # Paid(b)
BY FlowAssumption DEF First, Paid

AgentOK(a) == ChallengeOK(a) /\ SignedOK(a) /\ CoveredOK(a) /\ ReturnedOK(a)

\* What a step leaves of an agent that does not act: its calls do not arrive,
\* and the paid one is verified by a facilitator that knows the terms.
Unmoved(b) ==
  /\ step'[b] = step[b] /\ seen'[b] = seen[b] /\ signed'[b] = signed[b] /\ result'[b] = result[b]
  /\ \A r \in {First(b), Paid(b)} : pc[r] = "idle" => Untouched(r)
  /\ Joins(Paid(b)) \/ Starts(Paid(b)) \/ Refused(Paid(b)) => FacilitatorAnswers(Paid(b))

\* Offers for one resource with the same terms are one offer.
LEMMA SameTerms ==
  ASSUME NEW a \in Agent, NEW o \in OffersFor(a), NEW p \in OffersFor(a),
         toRequirements(o) = facilitatorRequirements(p)
  PROVE  o = p
<1>1. /\ o \in Offer /\ p \in Offer
      /\ o.resource = p.resource /\ o.network = p.network /\ o.asset = p.asset
  BY ConfigAssumption DEF OffersFor
<1>2. o.amount = p.amount
  BY DEF toRequirements, facilitatorRequirements
<1>3. \A f \in {"resource", "amount", "network", "asset"} : o[f] = p[f]
  BY <1>1, <1>2
<1>4. /\ o = [f \in {"resource", "amount", "network", "asset"} |-> o[f]]
      /\ p = [f \in {"resource", "amount", "network", "asset"} |-> p[f]]
  BY <1>1, FlowAssumption
<1> QED
  BY <1>3, <1>4

LEMMA UnmovedOK ==
  ASSUME Base, RunInv, FlowStep, NEW b \in Agent, Unmoved(b)
  PROVE  AgentOK(b)'
<1> DEFINE p == Paid(b)
           f == First(b)
<1>0. p \in Request /\ f \in Request /\ ChallengeOK(b) /\ SignedOK(b) /\ CoveredOK(b) /\ ReturnedOK(b)
  BY Calls DEF RunInv
<1>1. TypeOK /\ PlacesInv /\ Moves(p) /\ Moves(f) /\ config' = config /\ charged \subseteq charged'
  BY <1>0, FlowMoves DEF Base, FlowStep
<1>2. \A r \in {p, f} : r \in charged' => r \in charged \/ pc[r] = "settle"
  BY <1>0, FlowMoves
<1> USE DEF Unmoved
<1>3. /\ pc[p] = "idle" => pc'[p] = "idle" /\ req'[p] = req[p]
      /\ pc[p] # "idle" => pc'[p] # "idle" /\ req'[p] = req[p]
  BY <1>0, <1>1, MoveFacts DEF Untouched
<1> HIDE DEF p, f
<1>4. ChallengeOK(b)'
  <2>1. pc[f] \in {"idle", "done"} /\ f \notin charged
    BY <1>0 DEF ChallengeOK, f
  <2>2. pc'[f] \in {"idle", "done"}
    <3>1. pc[f] = "idle" => pc'[f] = "idle"
      BY DEF Untouched, f
    <3>2. pc[f] = "done" => pc'[f] = "done"
      BY <1>0, <1>1, MoveFacts
    <3> QED
      BY <2>1, <3>1, <3>2
  <2>3. f \notin charged'
    BY <1>2, <2>1
  <2> QED
    BY <2>2, <2>3 DEF ChallengeOK, f
<1>5. OffersFor(b)' = OffersFor(b) /\ Envelope(b)' = Envelope(b)
  BY <1>1 DEF OffersFor, Envelope
<1>6. SignedOK(b)'
  BY <1>0, <1>1, <1>3, <1>5 DEF SignedOK, p
<1>7. CoveredOK(b)'
  <2> SUFFICES ASSUME config.mode = "live", pc'[p] \in Live \ {"verify"} \/ p \in charged'
               PROVE  req[p].offer = seen[b]
    BY <1>1, <1>3 DEF CoveredOK, p
  <2>1. CASE pc[p] \in Live \ {"verify"} \/ p \in charged
    BY <1>0, <2>1 DEF CoveredOK, p
  <2>2. CASE pc[p] \notin Live \ {"verify"} /\ p \notin charged
    <3>1. pc[p] = "verify" /\ (Joins(p) \/ Starts(p))
      <4>1. p \notin charged'
        BY <1>2, <2>2 DEF Live, Attempting, HoldsLock
      <4>2. pc'[p] \in Live \ {"verify"}
        BY <4>1
      <4>3. pc[p] # "idle"
        BY <1>3, <4>2 DEF Live, Attempting, HoldsLock
      <4> QED
        BY <1>1, <2>2, <4>2, <4>3
        DEF Moves, Untouched, Dies, Arrives, Refused, Joins, Starts, Works, Returns, Hears,
            Live, Attempting, HoldsLock
    <3>2. FacilitatorAnswers(p) /\ out'[p] = out[p]
      BY <3>1 DEF Joins, Starts, p
    <3>3. out[p].status = "none"
      BY <1>0, <3>1 DEF RunInv, RequestOK
    <3>4. Covered(p)
      BY <3>1, <3>2, <3>3 DEF FacilitatorAnswers
    <3>5. PayerOf(p) = b
      BY DEF PayerOf, Paid, p
    <3>6. signed[b] = facilitatorRequirements(req[p].offer)
      BY <3>4, <3>5 DEF Covered
    <3>7. seen[b] \in OffersFor(b) /\ signed[b] = toRequirements(seen[b])
      BY <1>0, <3>1 DEF SignedOK, p
    <3>8. req[p].offer \in OffersFor(b)
      <4>1. req[p] \in RequestData
        BY <1>0, <3>1 DEF RunInv, RequestOK, Live
      <4> QED
        BY <1>0, <4>1, NoneAssumption DEF SignedOK, p
    <3> QED
      BY <3>6, <3>7, <3>8, SameTerms
  <2> QED
    BY <2>1, <2>2
<1>8. ReturnedOK(b)'
  <2> SUFFICES ASSUME step[b] = "returned" PROVE out'[p] = out[p]
    BY <1>0 DEF ReturnedOK, p
  <2>1. pc[p] = "done"
    BY <1>0 DEF ReturnedOK, RunInv, RequestOK, p
  <2> QED
    BY <1>0, <1>1, <2>1, MoveFacts
<1> QED
  BY <1>4, <1>6, <1>7, <1>8 DEF AgentOK

\* The steps in which no agent acts.
LEMMA QuietUnmoved ==
  ASSUME TypeOK,
         \/ \E r \in Request : RequestStep(r) \/ RouteEnds(r)
         \/ \E c \in Cache, k \in Key : LockTimesOut(c, k)
         \/ ServiceFails \/ AllOver \/ UNCHANGED flowVars
  PROVE  \A b \in Agent : Unmoved(b)
<1> SUFFICES ASSUME NEW b \in Agent PROVE Unmoved(b)
  OBVIOUS
<1>0. First(b) \in Request /\ Paid(b) \in Request
  BY Calls
<1>1. UNCHANGED <<step, seen, signed, result>>
  BY DEF RequestStep, RouteEnds, LockTimesOut, ServiceFails, AllOver, flowVars, agentVars
<1>2. CASE UNCHANGED <<pc, req, owner, att, out>>
  BY <1>1, <1>2 DEF Unmoved, Untouched, Joins, Starts, Refused
<1>3. ASSUME NEW r \in Request, RequestStep(r) PROVE Unmoved(b)
  <2>1. Step(r) /\ FacilitatorAnswers(r)
    BY <1>3 DEF RequestStep
  <2>2. pc[r] # "idle" /\ \A q \in Request \ {r} : Untouched(q)
    BY <2>1, StepAlone
  <2>3. Paid(b) # r => pc'[Paid(b)] = pc[Paid(b)]
    BY <1>0, <2>2 DEF Untouched
  <2> QED
    BY <1>0, <1>1, <2>1, <2>2, <2>3 DEF Unmoved, Joins, Starts, Refused
<1>4. ASSUME NEW r \in Request, RouteEnds(r) PROVE Unmoved(b)
  BY <1>2, <1>4 DEF RouteEnds, HandlerEnds, HandlerReturns, HandlerThrows, vars
<1>5. ASSUME NEW c \in Cache, NEW k \in Key, LockTimesOut(c, k) PROVE Unmoved(b)
  BY <1>2, <1>5 DEF LockTimesOut, LockExpires, requestVars
<1>6. CASE ServiceFails
  <2>1. ASSUME NEW c \in Cache, NEW k \in Key, EntryExpires(c, k) \/ LockOverrun(c, k) PROVE Unmoved(b)
    BY <1>2, <2>1 DEF EntryExpires, LockOverrun, requestVars
  <2>2. ASSUME NEW q \in Process, Crash(q) PROVE Unmoved(b)
    <3>1. /\ UNCHANGED <<req, owner, att, out>>
          /\ \A r \in Request : pc'[r] = pc[r] \/ (pc[r] \in Live /\ pc'[r] = "crashed")
      BY <2>2 DEF Crash
    <3>2. "idle" \notin Live
      BY DEF Live, Attempting, HoldsLock
    <3> QED
      BY <1>0, <1>1, <3>1, <3>2 DEF Unmoved, Untouched, Joins, Starts, Refused
  <2> QED
    BY <1>6, <2>1, <2>2 DEF ServiceFails
<1>7. CASE AllOver \/ UNCHANGED flowVars
  BY <1>2, <1>7 DEF AllOver, flowVars, paywallVars, vars
<1> QED
  BY <1>3, <1>4, <1>5, <1>6, <1>7

\* An agent acts for itself.
LEMMA ActsAlone ==
  ASSUME TypeOK, RunInv, NEW a \in Agent, AgentStep(a) \/ CallBreaks(a), NEW b \in Agent, b # a
  PROVE  Unmoved(b)
<1>1. step'[b] = step[b] /\ seen'[b] = seen[b] /\ signed'[b] = signed[b] /\ result'[b] = result[b]
  BY DEF RunInv, AgentStep, Misconfigured, AskForChallenge, Sign, Pay, ReadReceipt, NotServed, CallBreaks, To
<1>2. Untouched(First(b)) /\ Untouched(Paid(b))
  <2>1. CASE UNCHANGED <<pc, req, owner, att, out>>
    BY <2>1 DEF Untouched
  <2>2. CASE Arrive(First(a)) \/ Arrive(Paid(a))
    BY <2>2, Calls, ArrivesAlone
  <2> QED
    BY <2>1, <2>2 DEF AgentStep, Misconfigured, AskForChallenge, Sign, Pay, ReadReceipt, NotServed,
                      CallBreaks, paywallVars, vars, requestVars
<1> QED
  BY <1>1, <1>2 DEF Unmoved, Untouched, Joins, Starts, Refused

LEMMA AskOK ==
  ASSUME Base, RunInv, NEW a \in Agent, AskForChallenge(a)
  PROVE  AgentOK(a)'
<1> DEFINE p == Paid(a)
           f == First(a)
<1>1. /\ p \in Request /\ f \in Request /\ f # p
      /\ RequestOK(p) /\ RequestOK(f) /\ ChallengeOK(a) /\ SignedOK(a) /\ TypeOK /\ PlacesInv
  BY Calls DEF RunInv, Base
<1>2. Arrives(f) /\ UNCHANGED charged /\ Untouched(p)
  BY <1>1, ArrivesAlone DEF AskForChallenge
<1>3. /\ step[a] = "start" /\ step'[a] = "challenged" /\ config' = config
      /\ seen'[a] \in OffersFor(a) /\ out'[f].status = "challenge"
  BY DEF AskForChallenge, To, RunInv
<1>4. pc[p] = "idle" /\ p \notin charged /\ req[p] = NoData
  BY <1>1, <1>3 DEF SignedOK, PlacesInv, AfterCharge, RequestOK
<1>5. pc'[f] = "done"
  BY <1>1, <1>2, <1>3 DEF Arrives, RequestOK
<1> HIDE DEF p, f
<1>6. ChallengeOK(a)'
  BY <1>1, <1>2, <1>5 DEF ChallengeOK, f
<1>7. OffersFor(a)' = OffersFor(a)
  BY <1>3 DEF OffersFor
<1>8. SignedOK(a)'
  BY <1>2, <1>3, <1>4, <1>7 DEF SignedOK, Untouched, p
<1>9. CoveredOK(a)'
  BY <1>2, <1>4 DEF CoveredOK, Untouched, p, Live, Attempting, HoldsLock
<1>10. ReturnedOK(a)'
  BY <1>3 DEF ReturnedOK
<1> QED
  BY <1>6, <1>8, <1>9, <1>10 DEF AgentOK

LEMMA PayOK ==
  ASSUME Base, RunInv, NEW a \in Agent, Pay(a)
  PROVE  AgentOK(a)'
<1> DEFINE p == Paid(a)
           f == First(a)
<1>1. /\ p \in Request /\ f \in Request /\ f # p
      /\ RequestOK(p) /\ ChallengeOK(a) /\ SignedOK(a) /\ TypeOK /\ PlacesInv
  BY Calls DEF RunInv, Base
<1>2. Arrives(p) /\ UNCHANGED charged /\ Untouched(f)
  BY <1>1, ArrivesAlone DEF Pay
<1>3. /\ step[a] = "signed" /\ step'[a] = "paying" /\ config' = config
      /\ UNCHANGED <<seen, signed, result>>
      /\ req'[p] # NoData => req'[p].pay = Envelope(a) /\ req'[p].offer \in OffersFor(a)
  BY DEF Pay, To, RunInv
<1>4. pc[p] = "idle" /\ p \notin charged /\ pc'[p] \in {"verify", "done"}
  BY <1>1, <1>2, <1>3 DEF SignedOK, PlacesInv, AfterCharge, Arrives
<1> HIDE DEF p, f
<1>5. ChallengeOK(a)'
  BY <1>1, <1>2 DEF ChallengeOK, Untouched, f
<1>6. OffersFor(a)' = OffersFor(a) /\ Envelope(a)' = Envelope(a)
  BY <1>3 DEF OffersFor, Envelope
<1>7. seen[a] \in OffersFor(a) /\ signed[a] = toRequirements(seen[a])
  BY <1>1, <1>3 DEF SignedOK
<1>8. SignedOK(a)'
  BY <1>3, <1>6, <1>7 DEF SignedOK, p
<1>9. CoveredOK(a)'
  BY <1>2, <1>4 DEF CoveredOK, p, Live, Attempting, HoldsLock
<1>10. ReturnedOK(a)'
  BY <1>3 DEF ReturnedOK
<1> QED
  BY <1>5, <1>8, <1>9, <1>10 DEF AgentOK

\* What an agent does by itself, or what its connection does to it.
LEMMA LocalOK ==
  ASSUME Base, RunInv, NEW a \in Agent,
         Misconfigured(a) \/ Sign(a) \/ ReadReceipt(a) \/ NotServed(a) \/ CallBreaks(a)
  PROVE  AgentOK(a)'
<1> DEFINE p == Paid(a)
<1>1. p \in Request /\ AgentOK(a)
  BY Calls DEF RunInv, AgentOK
<1>2. UNCHANGED <<pc, req, owner, att, out, charged, config, seen>>
  BY DEF Misconfigured, Sign, ReadReceipt, NotServed, CallBreaks, paywallVars, vars, requestVars
<1>3. OffersFor(a)' = OffersFor(a) /\ Envelope(a)' = Envelope(a)
  BY <1>2 DEF OffersFor, Envelope
<1>4. ChallengeOK(a)' /\ CoveredOK(a)'
  BY <1>1, <1>2 DEF AgentOK, ChallengeOK, CoveredOK
<1>5. \/ step'[a] = "threw" /\ signed' = signed
      \/ /\ step[a] = "challenged" /\ step'[a] = "signed"
         /\ signed'[a] = toRequirements(seen[a])
      \/ /\ step[a] = "paying" /\ step'[a] = "returned" /\ signed' = signed
         /\ response[p].state = "served" /\ result'[a] = response[p].header
  BY DEF Misconfigured, Sign, ReadReceipt, NotServed, CallBreaks, To, RunInv
<1>6. SignedOK(a)'
  BY <1>1, <1>2, <1>3, <1>5 DEF AgentOK, SignedOK
<1>7. response[p].state = "served" => out[p].status = "settled" /\ response[p].header = out[p].receipt
  BY <1>1 DEF RunInv, ResponseOK, Base, PaywallInv, PaidFor
<1>8. ReturnedOK(a)'
  BY <1>2, <1>5, <1>7 DEF ReturnedOK
<1> QED
  BY <1>4, <1>6, <1>8 DEF AgentOK

LEMMA RunInit == FlowInit => RunInv
<1> SUFFICES ASSUME FlowInit PROVE RunInv
  OBVIOUS
<1>1. Init /\ response = [r \in Request |-> WithoutReceipt("none")]
  BY DEF FlowInit, PaywallInit
<1>2. \A r \in Request : RequestOK(r) /\ ResponseOK(r)
  BY <1>1 DEF Init, RequestOK, ResponseOK, Rejected, WithoutReceipt, Live, Attempting, HoldsLock
<1>3. \A a \in Agent : ChallengeOK(a) /\ SignedOK(a) /\ CoveredOK(a) /\ ReturnedOK(a)
  BY <1>1, Calls DEF Init, FlowInit, ChallengeOK, SignedOK, CoveredOK, ReturnedOK, Live, Attempting, HoldsLock
<1>4. ConfigOK /\ DOMAIN step = Agent /\ DOMAIN seen = Agent /\ DOMAIN signed = Agent /\ DOMAIN result = Agent
  BY DEF FlowInit, ConfigOK
<1> QED
  BY <1>2, <1>3, <1>4 DEF RunInv

LEMMA RunStep == Base /\ RunInv /\ [FlowNext]_flowVars => Base' /\ RunInv'
<1> SUFFICES ASSUME Base, RunInv, [FlowNext]_flowVars PROVE Base' /\ RunInv'
  OBVIOUS
<1>1. FlowStep /\ TypeOK
  BY FlowIsStep DEF Base
<1>2. Base' /\ \A r \in Request : RequestOK(r)' /\ ResponseOK(r)'
  BY <1>1, FlowMoves, RequestStepOK, ResponseStepOK DEF RunInv
<1>3. ConfigOK'
  BY <1>1 DEF FlowStep, RunInv, ConfigOK
<1>4. (DOMAIN step = Agent /\ DOMAIN seen = Agent /\ DOMAIN signed = Agent /\ DOMAIN result = Agent)'
  BY DEF RunInv, FlowNext, AgentStep, Misconfigured, AskForChallenge, Sign, Pay, ReadReceipt, NotServed,
         CallBreaks, To, RequestStep, RouteEnds, LockTimesOut, ServiceFails, AllOver, flowVars, agentVars
<1>5. \A b \in Agent : AgentOK(b)'
  <2>1. ASSUME NEW a \in Agent, AgentStep(a) \/ CallBreaks(a), NEW b \in Agent PROVE AgentOK(b)'
    <3>1. CASE b = a
      BY <2>1, <3>1, AskOK, PayOK, LocalOK DEF AgentStep
    <3>2. CASE b # a
      BY <1>1, <2>1, <3>2, ActsAlone, UnmovedOK
    <3> QED
      BY <3>1, <3>2
  <2>2. CASE \/ \E r \in Request : RequestStep(r) \/ RouteEnds(r)
             \/ \E c \in Cache, k \in Key : LockTimesOut(c, k)
             \/ ServiceFails \/ AllOver \/ UNCHANGED flowVars
    BY <1>1, <2>2, QuietUnmoved, UnmovedOK
  <2> QED
    BY <2>1, <2>2 DEF FlowNext
<1> QED
  BY <1>2, <1>3, <1>4, <1>5 DEF RunInv, AgentOK

LEMMA RunInvariant == FlowSpec => [](Base /\ RunInv)
<1>1. FlowInit => Base /\ RunInv
  BY BaseInit, RunInit DEF FlowInit
<1> QED
  BY <1>1, RunStep, PTL DEF FlowSpec

\* A live payment is another agent's only if the envelope is.
LEMMA OwnCharge ==
  ASSUME OwnKeys, Base, RunInv, config.mode = "live", NEW a \in Agent,
         req[Paid(a)] \in RequestData, NEW s \in charged, req[s].pay = req[Paid(a)].pay
  PROVE  s = Paid(a)
<1>1. s \in Request /\ req[s] \in RequestData
  BY DEF Base, TypeOK, RunInv, RequestOK
<1>2. PICK b \in Agent : s = First(b) \/ s = Paid(b)
  BY <1>1, FlowAssumption DEF First, Paid
<1>3. s = Paid(b)
  BY <1>2 DEF RunInv, ChallengeOK
<1>4. req[s].pay = EnvelopeOf[b] /\ req[Paid(a)].pay = EnvelopeOf[a]
  BY <1>1, <1>3, NoneAssumption DEF RunInv, SignedOK, Envelope
<1> QED
  BY <1>3, <1>4 DEF OwnKeys

\* Whatever replica answers and whatever breaks: money moves only for the offer
\* the agent was shown and signed for, and what its run returns is the receipt
\* of that very charge.
THEOREM ReceiptsMatch == ASSUME OwnKeys PROVE FlowSpec => []ReceiptMatchesChallenge
<1>1. Base /\ RunInv => ReceiptMatchesChallenge
  <2> SUFFICES ASSUME Base, RunInv, NEW a \in Agent, config.mode = "live"
               PROVE  /\ Paid(a) \in charged => req[Paid(a)].offer = seen[a]
                      /\ step[a] = "returned" => /\ result[a].by = Paid(a)
                                                 /\ result[a].pay = EnvelopeOf[a]
                                                 /\ result[a].offer = seen[a]
    BY DEF ReceiptMatchesChallenge
  <2> DEFINE p == Paid(a)
             x == out[p].receipt
  <2>1. p \in charged => req[p].offer = seen[a]
    BY DEF RunInv, CoveredOK
  <2>2. ASSUME step[a] = "returned"
        PROVE  x.by = p /\ x.pay = EnvelopeOf[a] /\ x.offer = seen[a] /\ result[a] = x
    <3>1. p \in Request /\ out[p].status = "settled" /\ result[a] = x
      BY <2>2, Calls DEF RunInv, ReturnedOK
    <3>2. req[p] \in RequestData
      BY <3>1 DEF RunInv, RequestOK, Early
    <3>3. x.pay = req[p].pay /\ x.by \in charged /\ x.offer = req[p].offer
      BY <3>1 DEF Base, ReceiptsInv, OutOK, IsFor, KeyOf
    <3>4. x.pay = req[x.by].pay
      BY <3>1 DEF Base, HonestInv, IsHonest
    <3>5. x.by = p
      BY <3>2, <3>3, <3>4, OwnCharge
    <3>6. req[p].pay = EnvelopeOf[a]
      BY <3>2, NoneAssumption DEF RunInv, SignedOK, Envelope
    <3> QED
      BY <2>1, <3>1, <3>3, <3>5, <3>6
  <2> QED
    BY <2>1, <2>2
<1> QED
  BY <1>1, RunInvariant, PTL

-----------------------------------------------------------------------------
(* Reasons.  The demo's gate takes x402 only; the environment's failures     *)
(* are counted; everything else that can refuse a run is an Excuse.          *)

\* A gate that routes to x402 alone challenges a call or verifies its payment.
LEMMA ArriveX402 ==
  ASSUME OnlyX402, TypeOK, NEW r \in Request, Arrive(r)
  PROVE  \/ out'[r].status = "challenge" /\ req' = req
         \/ out' = out /\ req'[r].model = "x402"
<1>1. \A g \in Gate : RoutesOf[g] = {"x402"}
  BY FlowAssumption DEF OnlyX402
<1>2. Rejected("challenge").status = "challenge"
  BY DEF Rejected
<1>3. PICK g \in Gate, p \in Payment \cup {NoPayment} : \E o \in OffersOf[g] :
        \/ Answer(r, Rejected("challenge")) /\ req' = req
        \/ /\ req' = [req EXCEPT ![r] = [gate |-> g, pay |-> p, offer |-> o, model |-> "x402"]]
           /\ out' = out
  BY <1>1 DEF Arrive
<1> QED
  BY <1>2, <1>3 DEF Answer, TypeOK

\* A request leaves the idle state by arriving.
LEMMA ArriveOnly ==
  ASSUME TypeOK, FlowStep, NEW q \in Request, Arrives(q)
  PROVE  Arrive(q)
<1>1. pc[q] = "idle" /\ pc'[q] \notin {"idle", "crashed"}
  BY DEF Arrives
<1>2. ASSUME NEW r \in Request, Arrive(r) PROVE r = q
  BY <1>1, <1>2, ArrivesAlone DEF Untouched
<1>3. ASSUME NEW r \in Request, Step(r) PROVE FALSE
  BY <1>1, <1>3, StepAlone DEF Untouched
<1>4. ASSUME NEW c \in Cache, NEW k \in Key,
             EntryExpires(c, k) \/ LockExpires(c, k) \/ LockOverrun(c, k)
      PROVE  FALSE
  BY <1>1, <1>4 DEF EntryExpires, LockExpires, LockOverrun, requestVars
<1>5. ASSUME NEW p \in Process, Crash(p) PROVE FALSE
  BY <1>1, <1>5 DEF Crash, TypeOK
<1>6. pc' # pc
  BY <1>1
<1> QED
  BY <1>2, <1>3, <1>4, <1>5, <1>6
  DEF FlowStep, Serves, Next, AllAnswered, vars, HandlerEnds, HandlerReturns, HandlerThrows,
      Breaks, requestVars, paywallVars

\* Verification alone refuses a request that is being verified.
LEMMA RefusedFails ==
  ASSUME TypeOK, FlowStep, NEW q \in Request, Refused(q)
  PROVE  VerifyFails(q)
<1>1. pc[q] = "verify" /\ pc'[q] = "done"
  BY DEF Refused
<1>2. ASSUME NEW r \in Request, Arrive(r) PROVE FALSE
  BY <1>1, <1>2, ArrivesAlone DEF Arrives, Untouched
<1>3. ASSUME NEW r \in Request, Step(r) PROVE VerifyFails(q)
  <2>1. r = q
    BY <1>1, <1>3, StepAlone DEF Untouched
  <2> QED
    BY <1>1, <1>3, <2>1
    DEF TypeOK, Go, Step, Join, Start, FirstGet, Acquire, SecondGet, Settle, SettleReturns, Store,
        Release, Unwind, OwnerReturns, WaiterReturns
<1>4. ASSUME NEW c \in Cache, NEW k \in Key,
             EntryExpires(c, k) \/ LockExpires(c, k) \/ LockOverrun(c, k)
      PROVE  FALSE
  BY <1>1, <1>4 DEF EntryExpires, LockExpires, LockOverrun, requestVars
<1>5. ASSUME NEW p \in Process, Crash(p) PROVE FALSE
  BY <1>1, <1>5 DEF Crash, TypeOK
<1>6. pc' # pc
  BY <1>1
<1> QED
  BY <1>2, <1>3, <1>4, <1>5, <1>6
  DEF FlowStep, Serves, Next, AllAnswered, vars, HandlerEnds, HandlerReturns, HandlerThrows,
      Breaks, requestVars, paywallVars

\* A counted failure is remembered.
LEMMA FaultsGrow ==
  ASSUME Base, FlowStep
  PROVE  /\ faults \in Nat /\ faults' \in Nat
         /\ faults > 0 => faults' > 0
         /\ faults' = faults + 1 => faults' > 0
BY FlowMoves DEF Base, TypeOK

\* Live, a lock on a payment is its own call's; anyone else meets only a lock
\* that was left behind.
LEMMA BusyBehind ==
  ASSUME OwnKeys, Base, RunInv, \A r \in Request : BrokenOK(r), config.mode = "live",
         NEW p \in Request, pc[p] = "acquire", Locking(p), LockOf(p) # NoRequest
  PROVE  faults > 0
<1> DEFINE h == LockOf(p)
<1>1. KeyOf(p) \in Key /\ CacheFor(p) \in Cache
  <2>1. TypeOK /\ pc[p] \in Live
    BY DEF Base, Live, Attempting
  <2> QED
    BY <2>1, LiveData, ConfigAssumption DEF Locking
<1>2. h \in Request /\ KeyOf(h) = KeyOf(p) /\ Accountable(h)
  BY <1>1, NoneAssumption DEF Base, TypeOK, LockInv, LockOK, LockOf
<1> HIDE DEF h
<1>3. ~(pc[h] \in HoldsLock)
  <2> SUFFICES ASSUME pc[h] \in HoldsLock PROVE FALSE
    OBVIOUS
  <2>1. PICK a \in Agent : p = Paid(a)
    BY FlowAssumption DEF First, Paid, RunInv, ChallengeOK
  <2>2. PICK b \in Agent : h = Paid(b)
    BY <1>2, FlowAssumption DEF First, Paid, RunInv, ChallengeOK, HoldsLock
  <2>3. req[p] \in RequestData /\ req[h] \in RequestData
    BY <1>2 DEF RunInv, RequestOK, Live, Attempting
  <2>4. req[p].pay = EnvelopeOf[a] /\ req[h].pay = EnvelopeOf[b]
    BY <2>1, <2>2, <2>3, NoneAssumption DEF RunInv, SignedOK, Envelope
  <2>5. a = b
    BY <1>2, <2>4 DEF KeyOf, OwnKeys
  <2> QED
    BY <2>1, <2>2, <2>5 DEF HoldsLock
<1> QED
  BY <1>2, <1>3 DEF Accountable, Reported, BrokenOK

LEMMA BrokenStep ==
  ASSUME OwnKeys, OnlyX402, Base, RunInv, ReasonInv, FlowStep
  PROVE  \A q \in Request : BrokenOK(q)'
<1> SUFFICES ASSUME NEW q \in Request PROVE BrokenOK(q)'
  OBVIOUS
<1>1. Base' /\ Moves(q) /\ \A r \in Request : AttCause(r) /\ RequestOK(r) /\ BrokenOK(r)
  BY FlowMoves, FlowCauses DEF RunInv, ReasonInv
<1>2. /\ faults > 0 => faults' > 0
      /\ faults' = faults + 1 => faults' > 0
      /\ config' = config
  BY FaultsGrow DEF FlowStep
<1>3. att'[q].kind = "threw" \/ att'[q].cacheError \/ pc'[q] = "crashed" => faults' > 0
  BY <1>1, <1>2 DEF AttCause, Broke, BrokenOK
<1>4. config.mode = "live" /\ att'[q].kind = "busy" => faults' > 0
  BY <1>1, <1>2, BusyBehind DEF AttCause, BrokenOK
<1>5. ASSUME out'[q].status = "threw" \/ (config.mode = "live" /\ out'[q].status = "busy")
      PROVE  faults' > 0
  <2>1. CASE out'[q] = out[q]
    BY <1>1, <1>2, <1>5, <2>1 DEF BrokenOK
  <2>2. CASE Returns(q) \/ Hears(q)
    <3>1. PICK w \in Request : Came(q, w)
      BY <1>1, <2>2, OutcomeCame DEF Came
    <3> QED
      BY <1>1, <1>2, <1>5, <3>1 DEF Came, BrokenOK
  <2>3. CASE Refused(q)
    <3>1. VerifyFails(q)
      BY <2>3, RefusedFails DEF Base
    <3> QED
      BY <1>2, <1>5, <3>1 DEF VerifyFails, Answer, Rejected, Fault, Base, TypeOK
  <2>4. CASE Arrives(q) /\ out'[q] # out[q]
    BY <1>5, <2>4, ArriveOnly, ArriveX402 DEF Base
  <2> QED
    BY <1>1, <2>1, <2>2, <2>3, <2>4, OutcomesAreNew DEF NewOutcome
<1>6. response'[q].state = "dropped" => faults' > 0
  <2>1. CASE Serves
    <3>1. CASE out'[q] # out[q]
      <4>1. PICK adapter \in Adapters : response'[q] = Adapt(adapter, out'[q])
        BY <2>1, <3>1, ResponseMoves DEF Serves
      <4>2. pc'[q] = "done"
        BY <1>1, <3>1, OutcomesAreNew DEF NewOutcome, Refused, Returns, Hears
      <4>3. out'[q].status # "none" /\ out'[q] \in Outcome
        BY <1>1, <4>2, RequestStepOK DEF RunInv, RequestOK, Base, TypeOK
      <4> QED
        BY <4>1, <4>3, AnswerSays
    <3>2. CASE response'[q] = response[q]
      BY <1>1, <1>2, <3>2 DEF BrokenOK
    <3>3. CASE Crashing # {}
      <4>1. PICK r \in Request : pc'[r] = "crashed" /\ pc[r] # "crashed"
        BY <3>3 DEF Crashing
      <4> QED
        BY <1>1, <1>2, <4>1 DEF AttCause, Broke, BrokenOK
    <3> QED
      BY <2>1, <3>1, <3>2, <3>3, ResponseMoves DEF Serves
  <2>2. ASSUME NEW r \in Request, HandlerEnds(r) PROVE response'[q].state = "dropped" => faults' > 0
    BY <1>1, <1>2, <2>2, HandlerMoves DEF Base, BrokenOK
  <2> QED
    BY <1>1, <1>2, <2>1, <2>2 DEF FlowStep, Breaks, paywallVars, BrokenOK
<1> QED
  BY <1>2, <1>3, <1>4, <1>5, <1>6 DEF BrokenOK

\* The modes of the demo, and whose fault it is when its facilitator serves
\* another network.
LEMMA Configs ==
  ASSUME ConfigOK
  PROVE  /\ config.mode \in {"mock", "live", "error"}
         /\ config.mode = "live" /\ config.facilitator # config.network => config.override
<1>1. PICK env \in Env : config = resolveDemoConfig(env)
  BY DEF ConfigOK
<1>2. CASE config = Mock \/ config = DemoConfigError
  BY <1>2 DEF Mock, DemoConfigError
<1>3. CASE config = LiveConfig(NetworkOf(env), env.FACILITATOR_URL, ~Missing(env.FACILITATOR_URL))
  BY <1>3 DEF LiveConfig, FACILITATOR_URLS
<1> QED
  BY <1>1, <1>2, <1>3 DEF resolveDemoConfig

\* A call whose data is known has been made, and is for what the agent saw last.
LEMMA SeenStays ==
  ASSUME TypeOK, RunInv, [FlowNext]_flowVars, NEW a \in Agent, pc[Paid(a)] # "idle"
  PROVE  seen'[a] = seen[a]
<1>1. step[a] # "start"
  BY DEF RunInv, SignedOK
<1>2. \A b \in Agent : AskForChallenge(b) => b # a
  BY <1>1 DEF AskForChallenge
<1> QED
  BY <1>2 DEF RunInv, FlowNext, AgentStep, Misconfigured, AskForChallenge, Sign, Pay, ReadReceipt,
              NotServed, CallBreaks, RequestStep, RouteEnds, LockTimesOut, ServiceFails, AllOver,
              flowVars, agentVars

\* What excuses a run goes on excusing it.
LEMMA ExcusedStays ==
  ASSUME Base, RunInv, [FlowNext]_flowVars, NEW a \in Agent, Excused(a)
  PROVE  Excused(a)'
<1> DEFINE p == Paid(a)
<1>1. p \in Request /\ FlowStep /\ config' = config /\ RequestOK(p)
  BY Calls, FlowIsStep DEF FlowStep, RunInv
<1>2. Moves(p)
  BY <1>1, FlowMoves
<1>3. pc[p] # "idle" => req'[p] = req[p] /\ seen'[a] = seen[a]
  BY <1>1, <1>2, MoveFacts, SeenStays DEF Base
<1>4. req[p] # NoData => pc[p] # "idle"
  BY <1>1 DEF RequestOK
<1>5. out[p].status # "none" => out'[p] = out[p]
  BY <1>1, <1>2, MoveFacts DEF RequestOK
<1>6. response[p].state = "error" /\ out'[p] = out[p] => response'[p].state = "error"
  <2> SUFFICES ASSUME response[p].state = "error", out'[p] = out[p] PROVE response'[p] = response[p]
    OBVIOUS
  <2>1. CASE Serves
    BY <1>1, <2>1, ResponseMoves DEF Serves
  <2>2. ASSUME NEW r \in Request, HandlerEnds(r) PROVE response'[p] = response[p]
    BY <1>1, <2>2, HandlerMoves DEF Base
  <2> QED
    BY <1>1, <2>1, <2>2 DEF FlowStep, Breaks, paywallVars
<1> HIDE DEF p
<1> QED
  BY <1>1, <1>3, <1>4, <1>5, <1>6 DEF Excused, p

\* How the paid call comes to its outcome and to its data.
LEMMA PaidOutcome ==
  ASSUME OnlyX402, Base, RunInv, [FlowNext]_flowVars, NEW a \in Agent
  PROVE  LET p == Paid(a)
         IN /\ \/ out'[p] = out[p]
               \/ VerifyFails(p) /\ FacilitatorAnswers(p)
               \/ Returns(p) \/ Hears(p)
            /\ req'[p] = req[p] \/ req'[p].model = "x402"
<1> DEFINE p == Paid(a)
<1>1. p \in Request /\ FlowStep /\ TypeOK /\ RequestOK(p) /\ SignedOK(a)
  BY Calls, FlowIsStep DEF RunInv, Base
<1>2. Moves(p)
  BY <1>1, FlowMoves
<1>3. CASE Unmoved(a)
  <2>1. pc[p] = "idle" => Untouched(p)
    BY <1>3 DEF Unmoved
  <2>2. req'[p] = req[p]
    BY <1>1, <1>2, <2>1, MoveFacts DEF Untouched
  <2>3. ~(Arrives(p) /\ out'[p] # out[p])
    BY <2>1 DEF Arrives, Untouched
  <2>4. Refused(p) => VerifyFails(p) /\ FacilitatorAnswers(p)
    BY <1>1, <1>3, RefusedFails DEF Unmoved
  <2> QED
    BY <1>1, <1>2, <2>2, <2>3, <2>4, OutcomesAreNew DEF NewOutcome
<1>4. CASE Pay(a)
  <2>1. Arrive(p) /\ out'[p].status # "challenge"
    BY <1>4 DEF Pay
  <2> QED
    BY <1>1, <2>1, ArriveX402
<1>5. CASE AskForChallenge(a)
  <2>1. Untouched(p)
    BY <1>1, <1>5, Calls, ArrivesAlone DEF AskForChallenge
  <2> QED
    BY <2>1 DEF Untouched
<1>6. CASE Misconfigured(a) \/ Sign(a) \/ ReadReceipt(a) \/ NotServed(a) \/ CallBreaks(a)
  BY <1>6 DEF Misconfigured, Sign, ReadReceipt, NotServed, CallBreaks, paywallVars, vars, requestVars
<1>7. Unmoved(a) \/ AgentStep(a) \/ CallBreaks(a)
  <2>1. \A b \in Agent : AgentStep(b) \/ CallBreaks(b) => b = a \/ Unmoved(a)
    BY <1>1, ActsAlone
  <2> QED
    BY <1>1, <2>1, QuietUnmoved DEF FlowNext
<1> QED
  BY <1>3, <1>4, <1>5, <1>6, <1>7 DEF AgentStep

\* Verification refuses a payment only if the facilitator serves another
\* network, or the gate that answers asks another price.
LEMMA InvalidExcused ==
  ASSUME Base, RunInv, NEW a \in Agent, RefusedOK(a),
         VerifyFails(Paid(a)), FacilitatorAnswers(Paid(a)), out'[Paid(a)].status = "invalid"
  PROVE  Excused(a)
<1> DEFINE p == Paid(a)
<1>1. p \in Request /\ pc[p] = "verify" /\ PayerOf(p) = a
  BY Calls DEF VerifyFails, PayerOf, Paid
<1>2. req[p] # NoData
  BY <1>1, NoneAssumption DEF Base, TypeOK, Live
<1>3. ~Covered(p)
  BY <1>1 DEF FacilitatorAnswers
<1>4. signed[a] = toRequirements(seen[a]) /\ req[p].model = "x402"
  BY <1>1, <1>2 DEF RunInv, SignedOK, RefusedOK
<1>5. \/ config.mode = "error"
      \/ config.mode = "live" /\ config.facilitator # config.network
      \/ config.mode = "live" /\ signed[a] # facilitatorRequirements(req[p].offer)
  BY <1>1, <1>3, <1>4, Configs DEF Covered, RunInv
<1>6. CASE config.mode = "live" /\ config.facilitator # config.network
  BY <1>6, Configs DEF RunInv, Excused
<1>7. CASE config.mode = "live" /\ signed[a] # facilitatorRequirements(req[p].offer)
  <2>1. toRequirements(seen[a]) = facilitatorRequirements(seen[a])
    BY DEF toRequirements, facilitatorRequirements
  <2>2. req[p].offer # seen[a]
    BY <1>4, <1>7, <2>1
  <2> QED
    BY <1>2, <2>2 DEF Excused
<1> QED
  BY <1>5, <1>6, <1>7 DEF Excused

LEMMA RefusedStep ==
  ASSUME OnlyX402, Base, RunInv, ReasonInv, [FlowNext]_flowVars, NEW a \in Agent
  PROVE  RefusedOK(a)'
<1> DEFINE p == Paid(a)
<1>1. RefusedOK(a) /\ p \in Request /\ \A r \in Request : RequestOK(r)
  BY Calls DEF ReasonInv, RunInv
<1>2. req'[p] # NoData => req'[p].model = "x402"
  BY <1>1, PaidOutcome DEF RefusedOK
<1>3. CASE out'[p] = out[p]
  BY <1>1, <1>2, <1>3, ExcusedStays DEF RefusedOK
<1>4. CASE VerifyFails(p) /\ FacilitatorAnswers(p)
  <2>1. out'[p].status \in {"invalid", "threw"}
    BY <1>1, <1>4 DEF VerifyFails, Answer, Rejected, Base, TypeOK
  <2>2. out'[p].status = "invalid" => Excused(a)'
    BY <1>1, <1>4, InvalidExcused, ExcusedStays
  <2> QED
    BY <1>2, <2>1, <2>2 DEF RefusedOK
<1>5. CASE Returns(p) \/ Hears(p)
  <2>1. out'[p].status \in {"settled", "mismatch", "declined", "busy", "threw"}
    BY <1>1, <1>5, OutcomeCame DEF Came
  <2> QED
    BY <1>2, <2>1 DEF RefusedOK
<1> QED
  BY <1>3, <1>4, <1>5, PaidOutcome

\* Live, no other agent's charge can be in the way of a payment.
LEMMA MismatchExcused ==
  ASSUME OwnKeys, Base, RunInv, NEW a \in Agent, out[Paid(a)].status = "mismatch"
  PROVE  Excused(a)
<1> DEFINE p == Paid(a)
<1>1. config.mode \in {"mock", "live", "error"} /\ p \in Request
  BY Calls, Configs DEF RunInv
<1>2. CASE config.mode = "live"
  <2>1. req[p] \in RequestData
    BY <1>1 DEF RunInv, RequestOK, Early
  <2>2. PICK s \in charged : req[s].pay = req[p].pay /\ req[s].offer # req[p].offer
    BY <1>1 DEF Base, MismatchInv, MismatchOK
  <2> QED
    BY <1>2, <2>1, <2>2, OwnCharge
<1> QED
  BY <1>1, <1>2 DEF Excused

LEMMA FailedStep ==
  ASSUME OwnKeys, Base, RunInv, ReasonInv, [FlowNext]_flowVars, NEW a \in Agent
  PROVE  FailedOK(a)'
<1> DEFINE p == Paid(a)
<1>1. /\ p \in Request /\ FailedOK(a) /\ RefusedOK(a) /\ BrokenOK(p) /\ RequestOK(p) /\ ResponseOK(p)
      /\ FlowStep /\ TypeOK /\ PaidFor(p) /\ OutOK(p)
  BY Calls, FlowIsStep DEF ReasonInv, RunInv, Base, PaywallInv, ReceiptsInv
<1>2. (faults > 0 => faults' > 0) /\ (Excused(a) => Excused(a)')
  BY <1>1, FaultsGrow, ExcusedStays
<1>3. Excused(a) \/ faults > 0 => FailedOK(a)'
  BY <1>2 DEF FailedOK
<1>4. CASE step'[a] = step[a]
  BY <1>1, <1>2, <1>4 DEF FailedOK
<1>5. CASE Misconfigured(a)
  BY <1>3, <1>5 DEF Misconfigured, Excused
<1>6. CASE ReadReceipt(a)
  <2>1. out[p].status = "settled" /\ response[p].header = out[p].receipt
    BY <1>1, <1>6 DEF ReadReceipt, PaidFor, ResponseOK
  <2>2. response[p].header # NoReceipt
    BY <1>1, <2>1, NoneAssumption DEF OutOK, IsFor
  <2>3. step'[a] = "returned"
    BY <1>6, <2>2 DEF ReadReceipt, To, RunInv
  <2> QED
    BY <2>3 DEF FailedOK
<1>7. CASE NotServed(a)
  <2>1. response[p].state \in {"402", "refused", "error", "dropped"} \/ pc[p] = "crashed"
    BY <1>7 DEF NotServed
  <2>2. CASE response[p].state = "402"
    BY <1>1, <2>2 DEF ResponseOK, RefusedOK
  <2>3. CASE response[p].state = "refused"
    <3>1. out[p].status \in {"invalid", "mismatch", "declined", "busy"}
      BY <1>1, <2>3 DEF ResponseOK, RefusedOK, TypeOK, Outcome, OutcomeStatus
    <3>2. CASE out[p].status = "busy"
      <4>1. config.mode \in {"mock", "live", "error"}
        BY Configs DEF RunInv
      <4>2. config.mode = "live" => faults > 0
        BY <1>1, <3>2 DEF BrokenOK
      <4> QED
        BY <1>3, <3>2, <4>1, <4>2 DEF Excused
    <3> QED
      BY <1>1, <1>3, <3>1, <3>2, MismatchExcused DEF RefusedOK, Excused
  <2>4. CASE response[p].state = "error"
    <3>1. out[p].status \in {"threw", "settled"}
      BY <1>1, <2>4 DEF ResponseOK
    <3> QED
      BY <1>1, <1>3, <2>4, <3>1 DEF BrokenOK, Excused
  <2>5. CASE response[p].state = "dropped" \/ pc[p] = "crashed"
    BY <1>1, <1>3, <2>5 DEF BrokenOK
  <2> QED
    BY <2>1, <2>2, <2>3, <2>4, <2>5
<1>8. CASE CallBreaks(a)
  BY <1>1, <1>8, FaultsGrow DEF CallBreaks, FailedOK
<1>9. CASE AskForChallenge(a) \/ Sign(a) \/ Pay(a)
  BY <1>9 DEF AskForChallenge, Sign, Pay, To, RunInv, FailedOK
<1>10. step'[a] = step[a] \/ AgentStep(a) \/ CallBreaks(a)
  <2>1. \A b \in Agent : AgentStep(b) \/ CallBreaks(b) => b = a \/ Unmoved(a)
    BY <1>1, ActsAlone
  <2> QED
    BY <1>1, <2>1, QuietUnmoved DEF FlowNext, Unmoved
<1> QED
  BY <1>4, <1>5, <1>6, <1>7, <1>8, <1>9, <1>10 DEF AgentStep

\* If agents have keys of their own and the service takes x402, every run that
\* fails does so for an Excuse or for a counted failure of the environment.  In
\* particular no other agent's run, and no lock or wait within the gates, makes
\* a live run fail whose facilitator and price are as the challenge said.
THEOREM RunsFailHonestly == ASSUME OwnKeys, OnlyX402 PROVE FlowSpec => []RunsFailForAReason
<1>1. FlowInit => ReasonInv
  <2> SUFFICES ASSUME FlowInit PROVE ReasonInv
    OBVIOUS
  <2>1. Init /\ response = [r \in Request |-> WithoutReceipt("none")]
    BY DEF FlowInit, PaywallInit
  <2>2. \A r \in Request : /\ att[r] = Bare("none") /\ out[r] = Rejected("none") /\ pc[r] = "idle"
                           /\ response[r] = WithoutReceipt("none") /\ req[r] = NoData
    BY <2>1 DEF Init
  <2>3. \A r \in Request : BrokenOK(r)
    BY <2>2 DEF BrokenOK, Bare, Rejected, WithoutReceipt
  <2>4. \A a \in Agent : RefusedOK(a) /\ FailedOK(a)
    BY <2>2, Calls DEF FlowInit, RefusedOK, FailedOK, Rejected
  <2> QED
    BY <2>3, <2>4 DEF ReasonInv
<1>2. Base /\ RunInv /\ ReasonInv /\ [FlowNext]_flowVars => ReasonInv'
  BY FlowIsStep, BrokenStep, RefusedStep, FailedStep DEF ReasonInv
<1>3. ReasonInv => RunsFailForAReason
  BY DEF ReasonInv, FailedOK, RunsFailForAReason
<1> QED
  BY <1>1, <1>2, <1>3, RunInvariant, PTL DEF FlowSpec

=============================================================================
