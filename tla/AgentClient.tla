---------------------------- MODULE AgentClient -----------------------------
(***************************************************************************)
(* The agent's side: pay() of @tollway/client (index.ts) over the policy   *)
(* engine.  A pay() call is a coroutine suspended while its settler works: *)
(* the policy is checked before that and the payment recorded after it, so *)
(* calls that overlap check the same counters.  The settler and the clock   *)
(* are the environment; so are the event handlers, which may throw and may *)
(* register other handlers while they run.                                 *)
(***************************************************************************)
EXTENDS PolicyEngine, FiniteSets, FiniteSetsExt, SequencesExt

CONSTANTS
  Pay,         \* the calls of pay()
  Amounts,     \* what an offer may ask for
  Offered,     \* the sets of models an offer may accept
  Forced,      \* request.model: models, or NoModel when it is left out
  HasRouter,   \* is the default router configured?
  MaxTime,     \* bound: ticks of the clock
  MaxFaults,   \* bound: payments whose answer is lost or does not verify
  Handler,     \* event handlers
  Throwing,    \* those that throw
  NoIntent, NoTime, NoModel

ASSUME ClientAssumption ==
  /\ Amounts \subseteq Int
  /\ Offered \subseteq SUBSET Model
  /\ Forced \subseteq Model \cup {NoModel} /\ NoModel \notin Model
  /\ HasRouter \in BOOLEAN
  /\ MaxTime \in Nat /\ MaxFaults \in Nat
  /\ NoIntent \notin Intent
  /\ NoTime \notin Int
  /\ Throwing \subseteq Handler

VARIABLES
  pc,          \* where each call is suspended
  intent,      \* its PaymentIntent
  movedAt,     \* ghost: when a call's settler moved money
  recordedAt,  \* ghost: when a call was recorded
  unseen,      \* ghost: the payments a call's check could not know of
  handlers,    \* registered, in order
  heard,       \* ghost: what each handler was told of each call
  audience     \* ghost: the handlers there were when a call began

payVars == <<pc, intent, movedAt, recordedAt, unseen>>
eventVars == <<handlers, heard, audience>>
clientVars == <<payVars, eventVars>>
vars == <<now, engineVars, clientVars>>

Pc == {"idle", "settling", "paid", "done", "blocked", "threw"}
InFlight == {x \in Pay : pc[x] \in {"settling", "paid"}}

moved == {x \in Pay : movedAt[x] # NoTime}

\* Money moved for these, but pay() threw before record().
Unrecorded == {x \in moved : pc[x] = "threw"}

Go(x, to) == pc' = [pc EXCEPT ![x] = to]

-----------------------------------------------------------------------------
(* on() and emit() *)

Payment == [type |-> "payment", code |-> "none"]
Skip == [type |-> "skip", code |-> "none"]
Error(code) == [type |-> "error", code |-> code]

Registered == ToSet(handlers)

\* What the handlers of an event may push while the loop runs over the array.
Registrations ==
  {<<>>} \cup {<<h>> : h \in {g \in Handler \ Registered : handlers # <<>>}}

\* Mutant: no try around the call of a handler.
EmitUntilThrow(x, events) ==
  \E added \in Registrations :
    /\ handlers' = handlers \o added
    /\ heard' = [h \in Handler |->
         IF \E i \in DOMAIN handlers' : /\ handlers'[i] = h
                                       /\ \A j \in 1 .. i - 1 : handlers'[j] \notin Throwing
         THEN [heard[h] EXCEPT ![x] = @ \o events] ELSE heard[h]]

\* Every handler is told, those registered by the loop itself included; one
\* that throws changes nothing.
Emit(x, events) ==
  \E added \in Registrations :
    /\ handlers' = handlers \o added
    /\ heard' = [h \in Handler |->
         IF h \in ToSet(handlers') THEN [heard[h] EXCEPT ![x] = @ \o events] ELSE heard[h]]

On(h) ==
  /\ h \notin Registered
  /\ handlers' = Append(handlers, h)
  /\ UNCHANGED <<now, engineVars, payVars, heard, audience>>

\* The call is made.
Begins(x) == pc[x] = "idle" /\ audience' = [audience EXCEPT ![x] = Registered]

-----------------------------------------------------------------------------
\* decideModel(): the request's model, else x402 without a router.  The router
\* is not told which models the policy enables.
DecideModel(forced, offered) ==
  IF HasRouter \/ forced # NoModel THEN Decide(forced, offered, Model) ELSE "x402"

DecidedModels == {DecideModel(f, o) : f \in Forced, o \in Offered}

\* An offer without a viable model.
DecideFails(x) ==
  /\ Begins(x)
  /\ "no-viable-model" \in DecidedModels
  /\ Go(x, "threw") /\ Emit(x, <<Error("no-viable-model")>>)
  /\ UNCHANGED <<now, engineVars, intent, movedAt, recordedAt, unseen>>

\* The model is decided and the policy checked.
CheckPolicy(x) ==
  /\ Begins(x)
  /\ \E i \in [payee : Payee, asset : Asset, amount : Amounts, model : DecidedModels \cap Model] :
       /\ Check(i)
       /\ \/ /\ ~Parses(i) /\ Go(x, "threw") /\ Emit(x, <<Error("invalid-amount")>>)
             /\ UNCHANGED <<intent, unseen>>
          \/ /\ Parses(i) /\ ~Allows(i)
             /\ Go(x, "blocked") /\ Emit(x, <<Skip, Error("policy-blocked")>>)
             /\ UNCHANGED <<intent, unseen>>
          \/ /\ Parses(i) /\ Allows(i)
             /\ Go(x, "settling") /\ UNCHANGED <<handlers, heard>>
             /\ intent' = [intent EXCEPT ![x] = i]
             /\ unseen' = [unseen EXCEPT ![x] = InFlight \cup Unrecorded]
  /\ UNCHANGED <<now, movedAt, recordedAt>>

\* The settler pays; or it throws without having paid.
Settle(x) ==
  /\ pc[x] = "settling"
  /\ \/ movedAt' = [movedAt EXCEPT ![x] = now] /\ Go(x, "paid") /\ UNCHANGED <<handlers, heard>>
     \/ UNCHANGED movedAt /\ Go(x, "threw") /\ Emit(x, <<Error("settler")>>)
  /\ UNCHANGED <<now, engineVars, intent, recordedAt, unseen, audience>>

\* The receipt does not arrive, is no valid one, or has a signature that makes
\* verifyReceipt() reject.
ReceiptErrors == {"settler", "receipt-verification-failed", "invalid-character"}

\* The payment stays unrecorded.
ReceiptFails(x) ==
  /\ pc[x] = "paid"
  /\ Cardinality(Unrecorded) < MaxFaults
  /\ Go(x, "threw")
  /\ \E code \in ReceiptErrors : Emit(x, <<Error(code)>>)
  /\ UNCHANGED <<now, engineVars, intent, movedAt, recordedAt, unseen, audience>>

ReceiptRecorded(x) ==
  /\ pc[x] = "paid"
  /\ Record(intent[x])
  /\ recordedAt' = [recordedAt EXCEPT ![x] = now]
  /\ Go(x, "done") /\ Emit(x, <<Payment>>)
  /\ UNCHANGED <<now, intent, movedAt, unseen, audience>>

Tick ==
  /\ now < MaxTime
  /\ now' = now + 1
  /\ UNCHANGED <<engineVars, clientVars>>

-----------------------------------------------------------------------------
Init ==
  /\ EngineInit
  /\ pc = [x \in Pay |-> "idle"]
  /\ intent = [x \in Pay |-> NoIntent]
  /\ movedAt = [x \in Pay |-> NoTime]
  /\ recordedAt = [x \in Pay |-> NoTime]
  /\ unseen = [x \in Pay |-> {}]
  /\ handlers = <<>>
  /\ heard = [h \in Handler |-> [x \in Pay |-> <<>>]]
  /\ audience = [x \in Pay |-> {}]

\* The model's calls run out; the agent makes more.
AllPaid ==
  /\ \A x \in Pay : pc[x] \in {"done", "blocked", "threw"}
  /\ UNCHANGED vars

Next ==
  \/ \E x \in Pay : \/ DecideFails(x) \/ CheckPolicy(x) \/ Settle(x)
                    \/ ReceiptFails(x) \/ ReceiptRecorded(x)
  \/ \E h \in Handler : On(h)
  \/ Tick
  \/ AllPaid

Spec == Init /\ [][Next]_vars

-----------------------------------------------------------------------------
(* Properties. *)

AmountOf(pays) == SumFunctionOnSet([x \in pays |-> intent[x].amount], pays)

\* A limit is kept by what pays used of it, except for what the policy could
\* not know of when it checked one of them: calls in flight, and payments that
\* were never recorded.
Held(limit, pays, Used(_)) ==
  limit # NoLimit /\ pays # {} =>
    \E x \in pays : Used(pays) <= limit + Used(unseen[x] \cap pays)

\* All that moved, whether its receipt verified or not; and what was recorded.
Moved(a, from, to) ==
  {x \in moved : intent[x].asset = a /\ movedAt[x] \in from .. to}
Recorded(a, from, to) ==
  {x \in Pay : /\ recordedAt[x] # NoTime
               /\ intent[x].asset = a
               /\ recordedAt[x] \in from .. to}

\* Budgets are checked before a payment and charged after its receipt verified.
\* All the money that moved beyond a budget or a service cap, over the whole
\* life of the client or on one day, is no more than what was in flight or had
\* moved without being recorded when one of the payments was checked.  So with
\* calls one at a time and receipts that verify the limits hold, also around
\* midnight; an unverified receipt takes its payment out of them for good.
BudgetsExceededOnlyByUnseen ==
  \A a \in Asset :
    /\ Held(TotalBudget, Moved(a, 0, now), AmountOf)
    /\ \A p \in Payee :
         Held(ServiceCap[p], {x \in Moved(a, 0, now) : intent[x].payee = p}, AmountOf)
    /\ \A d \in 0 .. Today : Held(DailyBudget, Moved(a, d * Day, (d + 1) * Day - 1), AmountOf)

\* In any minute, what moved passes rate limit and anomaly stop only by what was
\* in flight or had moved without being recorded when one of the minute's
\* payments was checked, although the window is kept by the time of recording.
WindowsExceededOnlyByUnseen ==
  \A t \in 0 .. now :
    /\ Held(RequestsPerMinute, UNION {Moved(a, t - Minute, t) : a \in Asset}, Cardinality)
    /\ \A a \in Asset : Held(MaxSpendPerMinute, Moved(a, t - Minute, t), AmountOf)

\* The counters are what the recorded payments add up to, and the window has
\* the payments of the last minute: no reset or pruning loses one.
CountersMatchPayments ==
  \A a \in Asset :
    /\ totalSpend[a] = AmountOf(Recorded(a, 0, now))
    /\ dailySpend[a] = AmountOf(Recorded(a, lastResetDay * Day, (lastResetDay + 1) * Day - 1))
    /\ \A p \in Payee :
         serviceSpend[<<p, a>>] = AmountOf({x \in Recorded(a, 0, now) : intent[x].payee = p})
    /\ RecentSpend(a) = AmountOf(Recorded(a, now - Minute, now))

\* A handler that was there when a call was made is told how it ended, once and
\* in order, whatever other handlers do: a block as a skip and an error, a payment
\* only when the counters have it.  That holds for handlers that come late, too.
EveryEndIsHeard ==
  /\ \A x \in Pay : \A h \in audience[x] :
       LET types == [i \in DOMAIN heard[h][x] |-> heard[h][x][i].type]
       IN types = CASE pc[x] = "done"    -> <<"payment">>
                    [] pc[x] = "blocked" -> <<"skip", "error">>
                    [] pc[x] = "threw"   -> <<"error">>
                    [] OTHER             -> <<>>
  /\ \A h \in Handler, x \in Pay :
       Payment \in ToSet(heard[h][x]) => x \in moved /\ recordedAt[x] # NoTime

=============================================================================
