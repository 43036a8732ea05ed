------------------------------ MODULE Paywall -------------------------------
(***************************************************************************)
(* The framework adapters around the gate: what becomes of an HTTP request *)
(* once SettlementGate has an outcome for it.  An adapter answers refusals *)
(* itself and lets the route handler run when the payment has settled.     *)
(* The route handler, the service's own code, is the environment; so is    *)
(* the framework that a rejected promise is passed to.                     *)
(***************************************************************************)
EXTENDS SettlementGate

CONSTANT Adapters   \* the frameworks that gates are given to

ASSUME AdapterAssumption == Adapters \subseteq {"express", "fastify", "hono", "next"}

VARIABLE response    \* what each request is answered, and the PAYMENT-RESPONSE header on it

paywallVars == <<vars, response>>

Final == {"402", "refused", "error", "served"}
Response == [state : {"none", "handling", "dropped"} \cup Final,
             header : Receipt \cup {NoReceipt}]

WithoutReceipt(state) == [state |-> state, header |-> NoReceipt]
Handling(header) == [state |-> "handling", header |-> header]

-----------------------------------------------------------------------------
(* From outcome to response. *)

\* Every adapter answers what has not settled itself: a 402 with the challenge,
\* a refusal with its status; what gate() throws goes to the framework.
AnswerUnpaid(outcome) ==
  CASE outcome.status = "challenge" -> WithoutReceipt("402")
    [] outcome.status = "threw"     -> WithoutReceipt("error")
    [] OTHER                        -> WithoutReceipt("refused")

\* Mutant: only the challenge is answered, the rest is served.
ExpressServesRefused(outcome) ==
  IF outcome.status # "challenge" THEN Handling(outcome.receipt) ELSE AnswerUnpaid(outcome)

\* The header is set before next() runs the handler.
expressPaywall(outcome) ==
  IF outcome.status = "settled" THEN Handling(outcome.receipt) ELSE AnswerUnpaid(outcome)

\* Fastify runs the handler when the hook returns, Hono when it calls next().
fastifyPaywall(outcome) ==
  IF outcome.status = "settled" THEN Handling(outcome.receipt) ELSE AnswerUnpaid(outcome)

honoPaywall(outcome) ==
  IF outcome.status = "settled" THEN Handling(outcome.receipt) ELSE AnswerUnpaid(outcome)

\* The header is merged into the response the handler returns.
withPaywall(outcome) ==
  IF outcome.status = "settled" THEN Handling(NoReceipt) ELSE AnswerUnpaid(outcome)

Adapt(adapter, outcome) ==
  CASE adapter = "express" -> expressPaywall(outcome)
    [] adapter = "fastify" -> fastifyPaywall(outcome)
    [] adapter = "hono"    -> honoPaywall(outcome)
    [] adapter = "next"    -> withPaywall(outcome)

-----------------------------------------------------------------------------
(* The adapters run in the step that settles gate()'s promise; the handler  *)
(* takes its time.                                                          *)

Crashing == {ProcessOf[req[r].gate] : r \in {q \in Request : pc'[q] = "crashed" /\ pc[q] # "crashed"}}

\* At most one outcome is new.  A crash takes the handlers with it.
Adapted ==
  \E adapter \in Adapters :
    response' = [r \in Request |->
      IF out'[r] # out[r] THEN Adapt(adapter, out'[r])
      ELSE IF response[r].state = "handling" /\ ProcessOf[req[r].gate] \in Crashing
      THEN WithoutReceipt("dropped")
      ELSE response[r]]

ResponseIs(r, state, header) == response' = [response EXCEPT ![r] = [state |-> state, header |-> header]]

HandlerReturns(r) ==
  /\ response[r].state = "handling"
  /\ ResponseIs(r, "served", out[r].receipt)
  /\ UNCHANGED vars

\* The framework answers; it may keep the headers set so far.
HandlerThrows(r) ==
  /\ response[r].state = "handling"
  /\ \E header \in {NoReceipt, response[r].header} : ResponseIs(r, "error", header)
  /\ UNCHANGED vars

HandlerEnds(r) == HandlerReturns(r) \/ HandlerThrows(r)

PaywallInit == Init /\ response = [r \in Request |-> WithoutReceipt("none")]

PaywallNext ==
  \/ Next /\ Adapted
  \/ \E r \in Request : HandlerEnds(r)

PaywallSpec == PaywallInit /\ [][PaywallNext]_paywallVars

\* Route handlers end.
PaywallFairSpec ==
  /\ PaywallSpec /\ Fairness
  /\ \A r \in Request : WF_paywallVars(HandlerEnds(r))

-----------------------------------------------------------------------------
(* Properties. *)

\* A handler runs only for a request that presented a payment which moved
\* money, by itself or by the request it repeats, and for the offer of the
\* route it asked for; no other answer ever carries a receipt.
ServedIsPaid ==
  \A r \in Request :
    /\ response[r] \in Response
    /\ response[r].state \in {"handling", "served"} \/ response[r].header # NoReceipt =>
         /\ out[r].receipt # NoReceipt
         /\ LET s == out[r].receipt.by
            IN /\ s \in charged
               /\ req[s].pay = req[r].pay /\ req[s].model = req[r].model
               /\ req[s].offer = req[r].offer

\* Every request that reached verification gets its HTTP answer unless its
\* process dies: no waiter is stranded by the attempt it joined, and what
\* gate() throws is not left to an unhandled rejection.
EveryRequestAnswered ==
  \A r \in Request :
    pc[r] = "verify" ~> pc[r] = "crashed" \/ response[r].state \in Final \cup {"dropped"}

=============================================================================
