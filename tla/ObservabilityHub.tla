-------------------------- MODULE ObservabilityHub --------------------------
(***************************************************************************)
(* emit() of @tollway/observability (index.ts): an event goes to all local *)
(* handlers, each with retries; when every one of them has settled, it     *)
(* goes to the webhooks, with retries and a time limit per request.        *)
(* Handlers and webhooks may be registered meanwhile, and the caller's     *)
(* onDeliveryFailure hook is told of each target that failed for good.     *)
(* The events are of one type; what handlers, subscribers and the network  *)
(* do is the environment.                                                  *)
(***************************************************************************)
EXTENDS Integers, FiniteSets

CONSTANTS
  Emit, Handler, Webhook,
  Matching,       \* the webhooks whose event filter has the type emitted
  MaxAttempts,    \* retry.maxAttempts, as the caller gave it
  TimeLimit,      \* is requestTimeoutMs above 0?
  HookThrows      \* may onDeliveryFailure throw?

ASSUME HubAssumption ==
  /\ Matching \subseteq Webhook
  /\ MaxAttempts \in Int
  /\ {TimeLimit, HookThrows} \subseteq BOOLEAN
  /\ Handler \cap Webhook = {}

Target == Handler \cup Webhook

\* A target in withRetry(): an attempt at work, a sleep between two, or over.
Delivery == [state : {"none", "trying", "sleeping", "ok", "failed"}, tries : Nat]
NotTried == [state |-> "none", tries |-> 0]

VARIABLES
  fetcher,    \* is there a fetch implementation?
  handlers, subscriptions,   \* what is registered; a name is one registration
  phase,      \* what each emit awaits
  delivery,   \* its deliveries
  failures,   \* the failures it has collected
  known,      \* ghost: targets registered when it was called
  acted,      \* ghost: how often a target acted on the event...
  unsure      \* ghost: ...and how often of these the attempt failed all the same

hub == <<fetcher, handlers, subscriptions>>
ghosts == <<known, acted, unsure>>
vars == <<fetcher, handlers, subscriptions, phase, delivery, failures, known, acted, unsure>>

-----------------------------------------------------------------------------
(* withRetry() *)

\* Mutant: one attempt too many.
AttemptsLeftOneMore(d) == d.tries <= MaxAttempts

\* At least one attempt is made, also when the policy says 0.
AttemptsLeft(d) == d.tries < MaxAttempts

DeliveryIs(e, t, d) == delivery' = [delivery EXCEPT ![e][t] = d]
Trying(e, t) == delivery[e][t].state = "trying"
Acts(e, t) == acted' = [acted EXCEPT ![e][t] = @ + 1]

AttemptFails(e, t) ==
  DeliveryIs(e, t, [delivery[e][t] EXCEPT
    !.state = IF AttemptsLeft(delivery[e][t]) THEN "sleeping" ELSE "failed"])

\* Mutant: an attempt that went well is made again.
SucceedsAgain(e, t) ==
  /\ Trying(e, t)
  /\ Acts(e, t)
  /\ DeliveryIs(e, t, [delivery[e][t] EXCEPT
       !.state = IF AttemptsLeft(delivery[e][t]) THEN "sleeping" ELSE "ok"])
  /\ UNCHANGED <<hub, phase, failures, known, unsure>>

\* The handler returns, or the subscriber's 2xx arrives in time.
Succeeds(e, t) ==
  /\ Trying(e, t)
  /\ Acts(e, t)
  /\ DeliveryIs(e, t, [delivery[e][t] EXCEPT !.state = "ok"])
  /\ UNCHANGED <<hub, phase, failures, known, unsure>>

\* The handler throws, the request fails or its answer is not a 2xx: what it
\* was for may have been done.  What is thrown is an Error, a text or something
\* JSON.stringify() can write: on anything else normalizeError() throws itself.
Throws(e, t) ==
  /\ Trying(e, t)
  /\ AttemptFails(e, t)
  /\ \/ Acts(e, t) /\ unsure' = [unsure EXCEPT ![e][t] = @ + 1]
     \/ UNCHANGED <<acted, unsure>>
  /\ UNCHANGED <<hub, phase, failures, known>>

\* Mutant: requests have no time limit.
TimesOutNever(e, w) == FALSE /\ Throws(e, w)

\* The timer aborts a request; only webhooks have one.
TimesOut(e, w) == TimeLimit /\ w \in Webhook /\ Throws(e, w)

Retries(e, t) ==
  /\ delivery[e][t].state = "sleeping"
  /\ DeliveryIs(e, t, [state |-> "trying", tries |-> delivery[e][t].tries + 1])
  /\ UNCHANGED <<hub, phase, failures, ghosts>>

-----------------------------------------------------------------------------
(* on(), addWebhook(), emit() *)

On(h) ==
  /\ h \notin handlers
  /\ handlers' = handlers \cup {h}
  /\ UNCHANGED <<fetcher, subscriptions, phase, delivery, failures, ghosts>>

AddWebhook(w) ==
  /\ w \notin subscriptions
  /\ subscriptions' = subscriptions \cup {w}
  /\ UNCHANGED <<fetcher, handlers, phase, delivery, failures, ghosts>>

Go(e, to) == phase' = [phase EXCEPT ![e] = to]
Started(e, targets) ==
  [delivery EXCEPT ![e] = [t \in Target |-> IF t \in targets THEN [state |-> "trying", tries |-> 1] ELSE @[t]]]
Settled(e, targets) == \A t \in targets : delivery[e][t].state \in {"none", "ok", "failed"}
Failed(e, targets) == {t \in targets : delivery[e][t].state = "failed"}
MatchingSubs == subscriptions \cap Matching

Emits(e) ==
  /\ phase[e] = "idle"
  /\ delivery' = Started(e, handlers)
  /\ known' = [known EXCEPT ![e] = handlers \cup MatchingSubs]
  /\ Go(e, "handlers")
  /\ UNCHANGED <<hub, failures, acted, unsure>>

\* The hook is the caller's code, called without a guard for each failure.
HookThrowsAt(e, targets) ==
  /\ HookThrows /\ targets # {}
  /\ Go(e, "rejected")
  /\ UNCHANGED <<hub, delivery, failures, ghosts>>

Collect(e, targets) == failures' = [failures EXCEPT ![e] = @ \cup targets]

\* Mutant: a failing handler ends the emit.
HandlersSettledOrStop(e) ==
  /\ phase[e] = "handlers" /\ Settled(e, Handler)
  /\ Collect(e, Failed(e, Handler))
  /\ \/ Failed(e, Handler) # {} /\ Go(e, "done") /\ UNCHANGED delivery
     \/ Failed(e, Handler) = {} /\ Go(e, "webhooks") /\ delivery' = Started(e, MatchingSubs)
  /\ UNCHANGED <<hub, ghosts>>

\* All handlers have settled; their failures are told, and the webhooks that
\* are registered by now are called.
HandlersSettled(e) ==
  /\ phase[e] = "handlers" /\ Settled(e, Handler)
  /\ \/ HookThrowsAt(e, Failed(e, Handler))
     \/ /\ fetcher
        /\ Collect(e, Failed(e, Handler))
        /\ Go(e, "webhooks")
        /\ delivery' = Started(e, MatchingSubs)
        /\ UNCHANGED <<hub, ghosts>>
     \/ /\ ~fetcher
        /\ \/ HookThrowsAt(e, MatchingSubs)
           \/ /\ Collect(e, Failed(e, Handler) \cup MatchingSubs)
              /\ Go(e, "done")
              /\ UNCHANGED <<hub, delivery, ghosts>>

WebhooksSettled(e) ==
  /\ phase[e] = "webhooks" /\ Settled(e, Webhook)
  /\ \/ HookThrowsAt(e, Failed(e, Webhook))
     \/ /\ Collect(e, Failed(e, Webhook))
        /\ Go(e, "done")
        /\ UNCHANGED <<hub, delivery, ghosts>>

-----------------------------------------------------------------------------
Init ==
  /\ fetcher \in BOOLEAN
  /\ handlers = {}
  /\ subscriptions \in SUBSET Webhook
  /\ phase = [e \in Emit |-> "idle"]
  /\ delivery = [e \in Emit |-> [t \in Target |-> NotTried]]
  /\ failures = [e \in Emit |-> {}]
  /\ known = [e \in Emit |-> {}]
  /\ acted = [e \in Emit |-> [t \in Target |-> 0]]
  /\ unsure = [e \in Emit |-> [t \in Target |-> 0]]

\* What the hub runs when a promise it awaits settles or a timer fires.
Resume(e) ==
  \/ HandlersSettled(e) \/ WebhooksSettled(e)
  \/ \E t \in Target : Retries(e, t)
  \/ \E w \in Webhook : TimesOut(e, w)

\* The model's emits run out; the hub goes on.
AllEnded ==
  /\ \A e \in Emit : phase[e] \in {"done", "rejected"}
  /\ UNCHANGED vars

Next ==
  \/ \E e \in Emit : Emits(e) \/ Resume(e) \/ \E t \in Target : Succeeds(e, t) \/ Throws(e, t)
  \/ \E h \in Handler : On(h)
  \/ \E w \in Webhook : AddWebhook(w)
  \/ AllEnded

\* Handlers settle; subscribers need not answer.
Fairness ==
  \A e \in Emit :
    /\ WF_vars(Resume(e))
    /\ WF_vars(\E h \in Handler : Succeeds(e, h) \/ Throws(e, h))

Spec == Init /\ [][Next]_vars /\ Fairness

-----------------------------------------------------------------------------
(* Properties. *)

\* emit tells what became of every target registered when it was called: the
\* target acted on the event, or it is reported as failed.  No failure of a
\* handler keeps the event from the others or from the webhooks.
NothingSwallowed ==
  \A e \in Emit : phase[e] = "done" =>
    \A t \in known[e] : acted[e][t] > 0 \/ t \in failures[e]

\* A target is reported as failed only when it was tried as often as the policy
\* says, no less and no more, or when there is nothing to call it with.
FailuresAreFinal ==
  \A e \in Emit : \A t \in failures[e] :
    \/ delivery[e][t].state = "failed" /\ delivery[e][t].tries = (IF MaxAttempts < 1 THEN 1 ELSE MaxAttempts)
    \/ t \in Webhook /\ ~fetcher

\* A target acts on an event more than once only if an attempt that reached it
\* was reported as a failure: a confirmed delivery is never repeated.
RepeatsAreUnsure ==
  \A e \in Emit, t \in Target : acted[e][t] <= unsure[e][t] + 1

\* index.ts:317 "a stalled subscriber socket cannot hang `emit`": every emit
\* ends if its handlers do, although webhooks may never answer.
EmitEnds ==
  \A e \in Emit : phase[e] = "handlers" ~> phase[e] \in {"done", "rejected"}

=============================================================================
