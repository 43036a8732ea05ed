----------------------- MODULE ObservabilityHub_proofs -----------------------
(***************************************************************************)
(* The safety properties of ObservabilityHub, for every set of events,     *)
(* handlers and webhooks, every retry policy (one that allows no attempt   *)
(* too) and every hook.  What one target's delivery has come to fixes what *)
(* the counts say of it (CountsInv); what an emit awaits fixes which of    *)
(* its deliveries are under way and which failures it has collected        *)
(* (CourseInv).                                                            *)
(***************************************************************************)
EXTENDS ObservabilityHub, TLAPS

\* How often a target is tried before it is reported.
Allowed == IF MaxAttempts < 1 THEN 1 ELSE MaxAttempts

TypeOK ==
  /\ fetcher \in BOOLEAN
  /\ handlers \subseteq Handler
  /\ subscriptions \subseteq Webhook
  /\ phase \in [Emit -> {"idle", "handlers", "webhooks", "done", "rejected"}]
  /\ delivery \in [Emit -> [Target -> Delivery]]
  /\ failures \in [Emit -> SUBSET Target]
  /\ known \in [Emit -> SUBSET Target]
  /\ acted \in [Emit -> [Target -> Nat]]
  /\ unsure \in [Emit -> [Target -> Nat]]

\* The tries made so far, by the state of the delivery.
TriesOK(d) ==
  /\ d.state = "none" => d.tries = 0
  /\ d.state = "trying" => d.tries >= 1 /\ d.tries <= Allowed
  /\ d.state = "sleeping" => d.tries >= 1 /\ d.tries < Allowed
  /\ d.state = "failed" => d.tries = Allowed

\* Until the target confirms, it acted only in attempts that failed; the
\* confirmed one is the only other.
ActsOK(d, a, u) ==
  /\ d.state = "none" => a = 0 /\ u = 0
  /\ d.state # "ok" => a = u
  /\ d.state = "ok" => a = u + 1

CountsInv ==
  \A e \in Emit, t \in Target :
    TriesOK(delivery[e][t]) /\ ActsOK(delivery[e][t], acted[e][t], unsure[e][t])

Untouched(e, targets) == \A t \in targets : delivery[e][t].state = "none"
Begun(e, targets) == \A t \in targets : delivery[e][t].state # "none"

\* What is known of an emit by what it awaits.
Course(e) ==
  /\ phase[e] = "idle" => Untouched(e, Target)
  /\ phase[e] = "handlers" =>
       /\ Untouched(e, Webhook)
       /\ Begun(e, known[e] \cap Handler)
       /\ known[e] \cap Webhook \subseteq MatchingSubs
  /\ phase[e] = "webhooks" =>
       /\ Settled(e, Handler)
       /\ Failed(e, Handler) \subseteq failures[e]
       /\ Begun(e, known[e])
  /\ phase[e] = "done" =>
       \A t \in known[e] : delivery[e][t].state = "ok" \/ t \in failures[e]

\* What it has reported, it reported for good.
Reports(e) ==
  \A t \in failures[e] : delivery[e][t].state = "failed" \/ (t \in Webhook /\ ~fetcher)

CourseInv == \A e \in Emit : Course(e) /\ Reports(e)

HubInv == TypeOK /\ CountsInv /\ CourseInv

-----------------------------------------------------------------------------
(* Lemmas. *)

\* An attempt, a retry or the end of either: one delivery goes on, the rest of
\* the emit stays.
Works(e, t) ==
  /\ delivery[e][t].state \in {"trying", "sleeping"}
  /\ delivery'[e][t] \in Delivery
  /\ delivery'[e][t].state # "none"
  /\ delivery' = [delivery EXCEPT ![e][t] = delivery'[e][t]]
  /\ UNCHANGED <<hub, phase, failures, known>>

LEMMA AllowedNat == Allowed \in Nat \ {0} /\ MaxAttempts <= Allowed
BY HubAssumption, SMT DEF Allowed

LEMMA HubInit == Init => HubInv
<1> SUFFICES ASSUME Init PROVE HubInv
  OBVIOUS
<1>1. TypeOK
  BY DEF Init, TypeOK, Delivery, NotTried
<1>2. CountsInv
  BY DEF Init, CountsInv, TriesOK, ActsOK, NotTried
<1>3. CourseInv
  BY DEF Init, CourseInv, Course, Reports, Untouched, NotTried
<1> QED
  BY <1>1, <1>2, <1>3 DEF HubInv

\* The delivery of any pair after a step that moves one.
LEMMA OneMoves ==
  ASSUME TypeOK, NEW e \in Emit, NEW t \in Target, NEW x \in Delivery,
         DeliveryIs(e, t, x)
  PROVE  /\ delivery' \in [Emit -> [Target -> Delivery]]
         /\ delivery'[e][t] = x
         /\ delivery' = [delivery EXCEPT ![e][t] = delivery'[e][t]]
         /\ \A f \in Emit, s \in Target :
              (f # e \/ s # t) => delivery'[f][s] = delivery[f][s]
BY DEF TypeOK, DeliveryIs

\* ...and after one that starts several.
LEMMA SomeStart ==
  ASSUME TypeOK, NEW e \in Emit, NEW targets \in SUBSET Target,
         delivery' = Started(e, targets)
  PROVE  /\ delivery' \in [Emit -> [Target -> Delivery]]
         /\ \A t \in targets : delivery'[e][t] = [state |-> "trying", tries |-> 1]
         /\ \A f \in Emit, s \in Target :
              (f # e \/ s \notin targets) => delivery'[f][s] = delivery[f][s]
<1>1. [state |-> "trying", tries |-> 1] \in Delivery
  BY DEF Delivery
<1> QED
  BY <1>1 DEF TypeOK, Started

\* A count that goes up by one for one pair.
LEMMA CountUp ==
  ASSUME NEW c \in [Emit -> [Target -> Nat]], NEW e \in Emit, NEW t \in Target
  PROVE  LET d == [c EXCEPT ![e][t] = @ + 1]
         IN  /\ d \in [Emit -> [Target -> Nat]]
             /\ d[e][t] = c[e][t] + 1
             /\ \A f \in Emit, s \in Target :
                  (f # e \/ s # t) => d[f][s] = c[f][s]
OBVIOUS

-----------------------------------------------------------------------------
(* withRetry(): the three moves of a delivery. *)

LEMMA SucceedsMove ==
  ASSUME HubInv, NEW e \in Emit, NEW t \in Target, Succeeds(e, t)
  PROVE  TypeOK' /\ CountsInv' /\ Works(e, t)
<1> USE DEF HubInv
<1>1. delivery[e][t] \in Delivery
  BY DEF TypeOK
<1> DEFINE x == [delivery[e][t] EXCEPT !.state = "ok"]
<1>2. x \in Delivery /\ x.state = "ok" /\ x.tries = delivery[e][t].tries
  BY <1>1 DEF Delivery
<1>3. DeliveryIs(e, t, x)
  BY DEF Succeeds
<1> HIDE DEF x
<1>4. /\ delivery' \in [Emit -> [Target -> Delivery]]
      /\ delivery'[e][t] = x
      /\ delivery' = [delivery EXCEPT ![e][t] = delivery'[e][t]]
      /\ \A f \in Emit, s \in Target : (f # e \/ s # t) => delivery'[f][s] = delivery[f][s]
  BY <1>2, <1>3, OneMoves
<1>5. /\ acted' \in [Emit -> [Target -> Nat]]
      /\ acted'[e][t] = acted[e][t] + 1
      /\ \A f \in Emit, s \in Target : (f # e \/ s # t) => acted'[f][s] = acted[f][s]
  BY CountUp DEF Succeeds, Acts, TypeOK
<1>6. TypeOK'
  BY <1>4, <1>5 DEF Succeeds, TypeOK, hub
<1>7. CountsInv'
  <2> SUFFICES ASSUME NEW f \in Emit, NEW s \in Target
               PROVE  /\ TriesOK(delivery'[f][s])
                      /\ ActsOK(delivery'[f][s], acted'[f][s], unsure'[f][s])
    BY DEF CountsInv
  <2>1. CASE f = e /\ s = t
    BY <2>1, <1>2, <1>4, <1>5 DEF Succeeds, Trying, CountsInv, TriesOK, ActsOK
  <2>2. CASE f # e \/ s # t
    BY <2>2, <1>4, <1>5 DEF Succeeds, CountsInv
  <2> QED
    BY <2>1, <2>2
<1>8. Works(e, t)
  BY <1>2, <1>4 DEF Succeeds, Trying, Works
<1> QED
  BY <1>6, <1>7, <1>8

LEMMA ThrowsMove ==
  ASSUME HubInv, NEW e \in Emit, NEW t \in Target, Throws(e, t)
  PROVE  TypeOK' /\ CountsInv' /\ Works(e, t)
<1> USE DEF HubInv
<1>1. delivery[e][t] \in Delivery /\ TriesOK(delivery[e][t]) /\ delivery[e][t].state = "trying"
  BY DEF TypeOK, CountsInv, Throws, Trying
<1> DEFINE x == [delivery[e][t] EXCEPT
                   !.state = IF AttemptsLeft(delivery[e][t]) THEN "sleeping" ELSE "failed"]
<1>2. x \in Delivery /\ x.tries = delivery[e][t].tries
  BY <1>1 DEF Delivery
<1>3. x.state \in {"sleeping", "failed"} /\ TriesOK(x)
  <2>1. CASE AttemptsLeft(delivery[e][t])
    <3>1. x.state = "sleeping" /\ x.tries = delivery[e][t].tries /\ x.tries \in Nat
      BY <2>1, <1>1 DEF Delivery
    <3> HIDE DEF x
    <3> QED
      BY <3>1, <2>1, <1>1, AllowedNat, HubAssumption DEF AttemptsLeft, TriesOK
  <2>2. CASE ~AttemptsLeft(delivery[e][t])
    <3>1. x.state = "failed" /\ x.tries = delivery[e][t].tries /\ x.tries \in Nat
      BY <2>2, <1>1 DEF Delivery
    <3> HIDE DEF x
    <3> QED
      BY <3>1, <2>2, <1>1, HubAssumption DEF AttemptsLeft, TriesOK, Allowed
  <2> QED
    BY <2>1, <2>2
<1>4. DeliveryIs(e, t, x)
  BY DEF Throws, AttemptFails
<1> HIDE DEF x
<1>5. /\ delivery' \in [Emit -> [Target -> Delivery]]
      /\ delivery'[e][t] = x
      /\ delivery' = [delivery EXCEPT ![e][t] = delivery'[e][t]]
      /\ \A f \in Emit, s \in Target : (f # e \/ s # t) => delivery'[f][s] = delivery[f][s]
  BY <1>2, <1>4, OneMoves
<1>6. \/ /\ acted' = [acted EXCEPT ![e][t] = @ + 1]
         /\ unsure' = [unsure EXCEPT ![e][t] = @ + 1]
      \/ UNCHANGED <<acted, unsure>>
  BY DEF Throws, Acts
<1>7. /\ acted' \in [Emit -> [Target -> Nat]]
      /\ unsure' \in [Emit -> [Target -> Nat]]
      /\ acted[e][t] = unsure[e][t] => acted'[e][t] = unsure'[e][t]
      /\ \A f \in Emit, s \in Target : (f # e \/ s # t) =>
           acted'[f][s] = acted[f][s] /\ unsure'[f][s] = unsure[f][s]
  <2> acted \in [Emit -> [Target -> Nat]] /\ unsure \in [Emit -> [Target -> Nat]]
    BY DEF TypeOK
  <2>1. CASE UNCHANGED <<acted, unsure>>
    BY <2>1
  <2>2. CASE /\ acted' = [acted EXCEPT ![e][t] = @ + 1]
             /\ unsure' = [unsure EXCEPT ![e][t] = @ + 1]
    BY <2>2, CountUp
  <2> QED
    BY <2>1, <2>2, <1>6
<1>8. TypeOK'
  BY <1>5, <1>7 DEF Throws, TypeOK, hub
<1>9. CountsInv'
  <2> SUFFICES ASSUME NEW f \in Emit, NEW s \in Target
               PROVE  /\ TriesOK(delivery'[f][s])
                      /\ ActsOK(delivery'[f][s], acted'[f][s], unsure'[f][s])
    BY DEF CountsInv
  <2>1. CASE f = e /\ s = t
    <3>1. acted[e][t] = unsure[e][t]
      BY <1>1 DEF CountsInv, ActsOK
    <3> QED
      BY <2>1, <3>1, <1>3, <1>5, <1>7 DEF ActsOK
  <2>2. CASE f # e \/ s # t
    BY <2>2, <1>5, <1>7 DEF CountsInv
  <2> QED
    BY <2>1, <2>2
<1>10. Works(e, t)
  BY <1>1, <1>2, <1>3, <1>5 DEF Throws, Works
<1> QED
  BY <1>8, <1>9, <1>10

LEMMA RetriesMove ==
  ASSUME HubInv, NEW e \in Emit, NEW t \in Target, Retries(e, t)
  PROVE  TypeOK' /\ CountsInv' /\ Works(e, t)
<1> USE DEF HubInv
<1>1. delivery[e][t] \in Delivery /\ TriesOK(delivery[e][t]) /\ delivery[e][t].state = "sleeping"
  BY DEF TypeOK, CountsInv, Retries
<1> DEFINE x == [state |-> "trying", tries |-> delivery[e][t].tries + 1]
<1>2. x \in Delivery /\ x.state = "trying" /\ x.tries = delivery[e][t].tries + 1
  BY <1>1 DEF Delivery
<1>3. DeliveryIs(e, t, x)
  BY DEF Retries
<1> HIDE DEF x
<1>4. TriesOK(x)
  <2>1. delivery[e][t].tries \in Nat
    BY <1>1 DEF Delivery
  <2> QED
    BY <2>1, <1>1, <1>2, AllowedNat DEF TriesOK
<1>5. /\ delivery' \in [Emit -> [Target -> Delivery]]
      /\ delivery'[e][t] = x
      /\ delivery' = [delivery EXCEPT ![e][t] = delivery'[e][t]]
      /\ \A f \in Emit, s \in Target : (f # e \/ s # t) => delivery'[f][s] = delivery[f][s]
  BY <1>2, <1>3, OneMoves
<1>6. TypeOK'
  BY <1>5 DEF Retries, TypeOK, hub, ghosts
<1>7. CountsInv'
  <2> SUFFICES ASSUME NEW f \in Emit, NEW s \in Target
               PROVE  /\ TriesOK(delivery'[f][s])
                      /\ ActsOK(delivery'[f][s], acted'[f][s], unsure'[f][s])
    BY DEF CountsInv
  <2>1. CASE f = e /\ s = t
    BY <2>1, <1>1, <1>2, <1>4, <1>5 DEF Retries, ghosts, CountsInv, ActsOK
  <2>2. CASE f # e \/ s # t
    BY <2>2, <1>5 DEF Retries, ghosts, CountsInv
  <2> QED
    BY <2>1, <2>2
<1>8. Works(e, t)
  BY <1>1, <1>2, <1>5 DEF Retries, ghosts, Works
<1> QED
  BY <1>6, <1>7, <1>8

\* A delivery at work ends no emit and unsettles none that has ended.
LEMMA WorksCourse ==
  ASSUME HubInv, TypeOK', NEW e \in Emit, NEW t \in Target, Works(e, t)
  PROVE  CourseInv'
<1> SUFFICES ASSUME NEW f \in Emit PROVE Course(f)' /\ Reports(f)'
  BY DEF CourseInv
<1>1. Course(f) /\ Reports(f)
  BY DEF HubInv, CourseInv
<1>2. UNCHANGED <<fetcher, handlers, subscriptions, phase, failures, known>>
  BY DEF Works, hub
<1>3. \A s \in Target :
        \/ delivery'[f][s] = delivery[f][s]
        \/ /\ f = e /\ s = t
           /\ delivery[f][s].state \in {"trying", "sleeping"}
           /\ delivery'[f][s].state # "none"
  BY DEF Works, HubInv, TypeOK
<1>4. \A s \in Target : delivery[f][s].state \in {"ok", "failed"} => delivery'[f][s] = delivery[f][s]
  BY <1>3
<1>5. Handler \subseteq Target /\ Webhook \subseteq Target /\ known[f] \subseteq Target /\ failures[f] \subseteq Target
  BY DEF Target, HubInv, TypeOK
<1>6. Reports(f)'
  BY <1>1, <1>2, <1>4, <1>5 DEF Reports
<1>7. \A s \in Target : delivery[f][s].state # "none" => delivery'[f][s].state # "none"
  BY <1>3
<1>8. \A s \in Target : delivery[f][s].state \in {"none", "ok", "failed"} => delivery'[f][s] = delivery[f][s]
  BY <1>3
<1>9. Course(f)'
  <2>1. (phase[f] = "idle" => Untouched(f, Target))'
    BY <1>1, <1>2, <1>8 DEF Course, Untouched
  <2>2. phase[f] = "handlers" =>
          Untouched(f, Webhook)' /\ Begun(f, known[f] \cap Handler)' /\ (known[f] \cap Webhook \subseteq MatchingSubs)'
    BY <1>1, <1>2, <1>5, <1>7, <1>8 DEF Course, Untouched, Begun, MatchingSubs
  <2>3. phase[f] = "webhooks" =>
          Settled(f, Handler)' /\ (Failed(f, Handler) \subseteq failures[f])' /\ Begun(f, known[f])'
    BY <1>1, <1>2, <1>5, <1>7, <1>8 DEF Course, Settled, Failed, Begun
  <2>4. phase[f] = "done" => \A s \in known[f] : delivery'[f][s].state = "ok" \/ s \in failures[f]
    BY <1>1, <1>2, <1>4, <1>5 DEF Course
  <2> QED
    BY <2>1, <2>2, <2>3, <2>4, <1>2 DEF Course
<1> QED
  BY <1>6, <1>9

\* Deliveries that start have done nothing yet.
LEMMA StartsCounts ==
  ASSUME HubInv, NEW e \in Emit, NEW targets \in SUBSET Target,
         delivery' = Started(e, targets), Untouched(e, targets),
         UNCHANGED <<acted, unsure>>
  PROVE  CountsInv'
<1> SUFFICES ASSUME NEW f \in Emit, NEW s \in Target
             PROVE  /\ TriesOK(delivery'[f][s])
                    /\ ActsOK(delivery'[f][s], acted[f][s], unsure[f][s])
  BY DEF CountsInv
<1>1. /\ \A t \in targets : delivery'[e][t] = [state |-> "trying", tries |-> 1]
      /\ (f # e \/ s \notin targets) => delivery'[f][s] = delivery[f][s]
  BY SomeStart DEF HubInv
<1>2. TriesOK(delivery[f][s]) /\ ActsOK(delivery[f][s], acted[f][s], unsure[f][s])
  BY DEF HubInv, CountsInv
<1>3. CASE f = e /\ s \in targets
  <2>1. acted[f][s] = 0 /\ unsure[f][s] = 0
    BY <1>2, <1>3 DEF ActsOK, Untouched
  <2> QED
    BY <2>1, <1>1, <1>3, AllowedNat DEF TriesOK, ActsOK
<1>4. CASE f # e \/ s \notin targets
  BY <1>1, <1>2, <1>4
<1> QED
  BY <1>3, <1>4

\* What an emit does leaves the others where they are.
LEMMA OthersStay ==
  ASSUME HubInv, NEW e \in Emit, NEW f \in Emit, f # e,
         UNCHANGED fetcher, subscriptions \subseteq subscriptions',
         phase'[f] = phase[f], failures'[f] = failures[f], known'[f] = known[f],
         \A s \in Target : delivery'[f][s] = delivery[f][s]
  PROVE  Course(f)' /\ Reports(f)'
<1>1. Course(f) /\ Reports(f)
  BY DEF HubInv, CourseInv
<1>2. Handler \subseteq Target /\ Webhook \subseteq Target /\ known[f] \subseteq Target /\ failures[f] \subseteq Target
  BY DEF Target, HubInv, TypeOK
<1> QED
  BY <1>1, <1>2 DEF Course, Reports, Untouched, Begun, Settled, Failed, MatchingSubs

-----------------------------------------------------------------------------
(* emit(), on() and addWebhook(). *)

LEMMA EmitsStep ==
  ASSUME HubInv, NEW e \in Emit, Emits(e)
  PROVE  HubInv'
<1> TypeOK /\ Course(e) /\ Reports(e)
  BY DEF HubInv, CourseInv
<1>1. handlers \subseteq Handler /\ handlers \subseteq Target /\ MatchingSubs \subseteq Target /\ MatchingSubs \subseteq Webhook
  BY DEF TypeOK, Target, MatchingSubs
<1>2. Untouched(e, Target) /\ Untouched(e, handlers)
  BY <1>1 DEF Emits, Course, Untouched
<1>3. /\ delivery' \in [Emit -> [Target -> Delivery]]
      /\ \A t \in handlers : delivery'[e][t] = [state |-> "trying", tries |-> 1]
      /\ \A f \in Emit, s \in Target : (f # e \/ s \notin handlers) => delivery'[f][s] = delivery[f][s]
  BY <1>1, SomeStart DEF Emits
<1>4. /\ UNCHANGED <<fetcher, handlers, subscriptions, failures, acted, unsure>>
      /\ phase' = [phase EXCEPT ![e] = "handlers"]
      /\ known' = [known EXCEPT ![e] = handlers \cup MatchingSubs]
      /\ delivery' = Started(e, handlers)
  BY DEF Emits, hub, Go
<1>5. TypeOK'
  BY <1>1, <1>3, <1>4 DEF TypeOK
<1>6. CountsInv'
  BY <1>1, <1>2, <1>4, StartsCounts
<1>7. phase'[e] = "handlers" /\ known'[e] = handlers \cup MatchingSubs
  BY <1>4 DEF TypeOK
<1>8. Course(e)'
  <2>1. Untouched(e, Webhook)'
    BY <1>1, <1>2, <1>3, HubAssumption DEF Untouched, Target
  <2>2. Begun(e, known[e] \cap Handler)'
    BY <1>1, <1>3, <1>7, HubAssumption DEF Begun
  <2>3. (known[e] \cap Webhook \subseteq MatchingSubs)'
    BY <1>1, <1>4, <1>7, HubAssumption DEF MatchingSubs
  <2> QED
    BY <2>1, <2>2, <2>3, <1>7 DEF Course
<1>9. Reports(e)'
  <2>1. failures[e] \subseteq Target
    BY DEF TypeOK
  <2>2. \A t \in failures[e] : t \in Webhook /\ ~fetcher
    BY <1>2, <2>1 DEF Reports, Untouched
  <2> QED
    BY <2>2, <1>4 DEF Reports
<1>10. ASSUME NEW f \in Emit, f # e PROVE Course(f)' /\ Reports(f)'
  <2>1. phase'[f] = phase[f] /\ known'[f] = known[f]
    BY <1>4, <1>10 DEF TypeOK
  <2> QED
    BY <2>1, <1>3, <1>4, <1>10, OthersStay
<1> QED
  BY <1>5, <1>6, <1>8, <1>9, <1>10 DEF HubInv, CourseInv

\* The failures of an emit that goes on or ends.
LEMMA Ends ==
  ASSUME HubInv, NEW e \in Emit, phase[e] # "idle",
         NEW targets \in SUBSET Target, Collect(e, targets), Go(e, "done"),
         UNCHANGED <<hub, delivery, ghosts>>,
         \A t \in targets : delivery[e][t].state = "failed" \/ (t \in Webhook /\ ~fetcher),
         \A t \in known[e] : delivery[e][t].state = "ok" \/ t \in failures[e] \cup targets
  PROVE  HubInv'
<1> TypeOK /\ CountsInv /\ Course(e) /\ Reports(e)
  BY DEF HubInv, CourseInv
<1>1. /\ UNCHANGED <<fetcher, handlers, subscriptions, delivery, known, acted, unsure>>
      /\ phase' = [phase EXCEPT ![e] = "done"]
      /\ failures' = [failures EXCEPT ![e] = @ \cup targets]
  BY DEF hub, ghosts, Go, Collect
<1>2. phase'[e] = "done" /\ failures'[e] = failures[e] \cup targets
  BY <1>1 DEF TypeOK
<1>3. TypeOK'
  BY <1>1, <1>2 DEF TypeOK
<1>4. CountsInv'
  BY <1>1 DEF CountsInv
<1>5. Course(e)' /\ Reports(e)'
  BY <1>1, <1>2 DEF Course, Reports
<1>6. ASSUME NEW f \in Emit, f # e PROVE Course(f)' /\ Reports(f)'
  <2>1. phase'[f] = phase[f] /\ failures'[f] = failures[f]
    BY <1>1, <1>6 DEF TypeOK
  <2> QED
    BY <2>1, <1>1, <1>6, OthersStay
<1> QED
  BY <1>3, <1>4, <1>5, <1>6 DEF HubInv, CourseInv

\* A hook that throws ends the emit, whose caller is told nothing more.
LEMMA Rejects ==
  ASSUME HubInv, NEW e \in Emit, NEW targets, HookThrowsAt(e, targets)
  PROVE  HubInv'
<1> TypeOK /\ CountsInv /\ Course(e) /\ Reports(e)
  BY DEF HubInv, CourseInv
<1>1. /\ UNCHANGED <<fetcher, handlers, subscriptions, delivery, failures, known, acted, unsure>>
      /\ phase' = [phase EXCEPT ![e] = "rejected"]
  BY DEF HookThrowsAt, hub, ghosts, Go
<1>2. phase'[e] = "rejected"
  BY <1>1 DEF TypeOK
<1>3. TypeOK'
  BY <1>1 DEF TypeOK
<1>4. CountsInv'
  BY <1>1 DEF CountsInv
<1>5. Course(e)' /\ Reports(e)'
  BY <1>1, <1>2 DEF Course, Reports
<1>6. ASSUME NEW f \in Emit, f # e PROVE Course(f)' /\ Reports(f)'
  <2>1. phase'[f] = phase[f]
    BY <1>1, <1>6 DEF TypeOK
  <2> QED
    BY <2>1, <1>1, <1>6, OthersStay
<1> QED
  BY <1>3, <1>4, <1>5, <1>6 DEF HubInv, CourseInv

LEMMA HandlersSettledStep ==
  ASSUME HubInv, NEW e \in Emit, HandlersSettled(e)
  PROVE  HubInv'
<1> TypeOK /\ CountsInv /\ Course(e) /\ Reports(e)
  BY DEF HubInv, CourseInv
<1>1. /\ phase[e] = "handlers" /\ Settled(e, Handler) /\ Untouched(e, Webhook)
      /\ Begun(e, known[e] \cap Handler) /\ known[e] \cap Webhook \subseteq MatchingSubs
  BY DEF HandlersSettled, Course
<1>2. /\ MatchingSubs \subseteq Webhook /\ MatchingSubs \subseteq Target
      /\ Failed(e, Handler) \subseteq Handler /\ Failed(e, Handler) \subseteq Target
      /\ known[e] \subseteq Target /\ failures[e] \subseteq Target
  BY DEF TypeOK, MatchingSubs, Target, Failed
<1>3. \A t \in known[e] \cap Handler : delivery[e][t].state = "ok" \/ t \in Failed(e, Handler)
  BY <1>1 DEF Settled, Begun, Failed
<1>4. CASE \/ HookThrowsAt(e, Failed(e, Handler))
           \/ HookThrowsAt(e, MatchingSubs)
  BY <1>4, Rejects
<1>5. CASE /\ fetcher
           /\ Collect(e, Failed(e, Handler))
           /\ Go(e, "webhooks")
           /\ delivery' = Started(e, MatchingSubs)
           /\ UNCHANGED <<hub, ghosts>>
  <2>1. /\ UNCHANGED <<fetcher, handlers, subscriptions, known, acted, unsure>>
        /\ phase' = [phase EXCEPT ![e] = "webhooks"]
        /\ failures' = [failures EXCEPT ![e] = @ \cup Failed(e, Handler)]
        /\ delivery' = Started(e, MatchingSubs)
    BY <1>5 DEF hub, ghosts, Go, Collect
  <2>2. phase'[e] = "webhooks" /\ failures'[e] = failures[e] \cup Failed(e, Handler)
    BY <2>1 DEF TypeOK
  <2>3. /\ delivery' \in [Emit -> [Target -> Delivery]]
        /\ \A t \in MatchingSubs : delivery'[e][t] = [state |-> "trying", tries |-> 1]
        /\ \A f \in Emit, s \in Target : (f # e \/ s \notin MatchingSubs) => delivery'[f][s] = delivery[f][s]
    BY <2>1, <1>2, SomeStart
  <2>4. TypeOK'
    BY <2>1, <2>2, <2>3, <1>2 DEF TypeOK
  <2>5. CountsInv'
    BY <2>1, <1>1, <1>2, StartsCounts DEF Untouched
  <2>6. \A t \in Handler : delivery'[e][t] = delivery[e][t]
    BY <2>3, <1>2, HubAssumption DEF Target
  <2>7. Settled(e, Handler)' /\ (Failed(e, Handler) \subseteq failures[e])'
    BY <2>2, <2>6, <1>1 DEF Settled, Failed
  <2>8. Begun(e, known[e])'
    <3> SUFFICES ASSUME NEW t \in known[e] PROVE delivery'[e][t].state # "none"
      BY <2>1 DEF Begun
    <3>1. CASE t \in Handler
      BY <3>1, <2>6, <1>1 DEF Begun
    <3>2. CASE t \in Webhook
      BY <3>2, <2>3, <1>1
    <3> QED
      BY <3>1, <3>2, <1>2 DEF Target
  <2>9. Course(e)'
    BY <2>2, <2>7, <2>8 DEF Course
  <2>10. Reports(e)'
    <3> SUFFICES ASSUME NEW t \in failures'[e]
                 PROVE  delivery'[e][t].state = "failed" \/ (t \in Webhook /\ ~fetcher')
      BY DEF Reports
    <3>1. CASE t \in Failed(e, Handler)
      BY <3>1, <1>2, <2>6 DEF Failed
    <3>2. CASE t \in failures[e]
      <4>1. t \in Target /\ (delivery[e][t].state = "failed" \/ (t \in Webhook /\ ~fetcher))
        BY <3>2, <1>2 DEF Reports
      <4>2. delivery[e][t].state = "failed" => t \in Handler
        BY <4>1, <1>1 DEF Untouched, Target
      <4> QED
        BY <4>1, <4>2, <2>1, <2>6
    <3> QED
      BY <3>1, <3>2, <2>2
  <2>11. ASSUME NEW f \in Emit, f # e PROVE Course(f)' /\ Reports(f)'
    <3>1. phase'[f] = phase[f] /\ failures'[f] = failures[f]
      BY <2>1, <2>11 DEF TypeOK
    <3> QED
      BY <3>1, <2>1, <2>3, <2>11, OthersStay
  <2> QED
    BY <2>4, <2>5, <2>9, <2>10, <2>11 DEF HubInv, CourseInv
<1>6. CASE /\ ~fetcher
           /\ Collect(e, Failed(e, Handler) \cup MatchingSubs)
           /\ Go(e, "done")
           /\ UNCHANGED <<hub, delivery, ghosts>>
  <2>1. \A t \in Failed(e, Handler) \cup MatchingSubs :
          delivery[e][t].state = "failed" \/ (t \in Webhook /\ ~fetcher)
    BY <1>2, <1>6 DEF Failed
  <2>2. \A t \in known[e] : delivery[e][t].state = "ok" \/ t \in failures[e] \cup (Failed(e, Handler) \cup MatchingSubs)
    BY <1>1, <1>2, <1>3 DEF Target
  <2>3. Failed(e, Handler) \cup MatchingSubs \in SUBSET Target
    BY <1>2
  <2> QED
    BY <2>1, <2>2, <2>3, <1>1, <1>6, Ends
<1> QED
  BY <1>4, <1>5, <1>6 DEF HandlersSettled

LEMMA WebhooksSettledStep ==
  ASSUME HubInv, NEW e \in Emit, WebhooksSettled(e)
  PROVE  HubInv'
<1> TypeOK /\ CountsInv /\ Course(e) /\ Reports(e)
  BY DEF HubInv, CourseInv
<1>1. CASE HookThrowsAt(e, Failed(e, Webhook))
  BY <1>1, Rejects
<1>2. CASE /\ Collect(e, Failed(e, Webhook))
           /\ Go(e, "done")
           /\ UNCHANGED <<hub, delivery, ghosts>>
  <2>1. /\ phase[e] = "webhooks" /\ Settled(e, Webhook) /\ Settled(e, Handler)
        /\ Failed(e, Handler) \subseteq failures[e] /\ Begun(e, known[e])
    BY DEF WebhooksSettled, Course
  <2>2. known[e] \subseteq Target /\ Failed(e, Webhook) \in SUBSET Target
    BY DEF TypeOK, Failed, Target
  <2>3. \A t \in known[e] : delivery[e][t].state = "ok" \/ t \in failures[e] \cup Failed(e, Webhook)
    BY <2>1, <2>2 DEF Settled, Begun, Failed, Target
  <2>4. \A t \in Failed(e, Webhook) : delivery[e][t].state = "failed" \/ (t \in Webhook /\ ~fetcher)
    BY DEF Failed
  <2> QED
    BY <2>1, <2>2, <2>3, <2>4, <1>2, Ends
<1> QED
  BY <1>1, <1>2 DEF WebhooksSettled

\* on() and addWebhook() meanwhile: nobody is dropped.
LEMMA RegistersStep ==
  ASSUME HubInv, handlers' \subseteq Handler, subscriptions' \subseteq Webhook,
         subscriptions \subseteq subscriptions',
         UNCHANGED <<fetcher, phase, delivery, failures, ghosts>>
  PROVE  HubInv'
<1>1. TypeOK'
  BY DEF HubInv, TypeOK, ghosts
<1>2. CountsInv'
  BY DEF HubInv, CountsInv, ghosts
<1>3. CourseInv'
  <2> SUFFICES ASSUME NEW f \in Emit PROVE Course(f)' /\ Reports(f)'
    BY DEF CourseInv
  <2>1. Course(f) /\ Reports(f)
    BY DEF HubInv, CourseInv
  <2> QED
    BY <2>1 DEF Course, Reports, Untouched, Begun, Settled, Failed, MatchingSubs, ghosts
<1> QED
  BY <1>1, <1>2, <1>3 DEF HubInv

LEMMA HubStep == HubInv /\ [Next]_vars => HubInv'
<1> SUFFICES ASSUME HubInv, [Next]_vars PROVE HubInv'
  OBVIOUS
<1>1. ASSUME NEW e \in Emit, NEW t \in Target, Succeeds(e, t) PROVE HubInv'
  BY <1>1, SucceedsMove, WorksCourse DEF HubInv
<1>2. ASSUME NEW e \in Emit, NEW t \in Target, Throws(e, t) PROVE HubInv'
  BY <1>2, ThrowsMove, WorksCourse DEF HubInv
<1>3. ASSUME NEW e \in Emit, NEW t \in Target, Retries(e, t) PROVE HubInv'
  BY <1>3, RetriesMove, WorksCourse DEF HubInv
<1>4. ASSUME NEW e \in Emit, NEW w \in Webhook, TimesOut(e, w) PROVE HubInv'
  BY <1>2, <1>4 DEF TimesOut, Target
<1>5. ASSUME NEW e \in Emit, Resume(e) PROVE HubInv'
  BY <1>3, <1>4, <1>5, HandlersSettledStep, WebhooksSettledStep DEF Resume
<1>6. ASSUME NEW h \in Handler, On(h) PROVE HubInv'
  BY <1>6, RegistersStep DEF On, HubInv, TypeOK
<1>7. ASSUME NEW w \in Webhook, AddWebhook(w) PROVE HubInv'
  BY <1>7, RegistersStep DEF AddWebhook, HubInv, TypeOK
<1>8. CASE UNCHANGED vars
  BY <1>8, RegistersStep DEF vars, ghosts, HubInv, TypeOK
<1> QED
  BY <1>1, <1>2, <1>5, <1>6, <1>7, <1>8, EmitsStep DEF Next, AllEnded

-----------------------------------------------------------------------------
(* Theorems. *)

\* The inductive invariant of the hub: counts, courses and reports agree in
\* every state of every emit.
THEOREM HubInvariant == Spec => []HubInv
BY HubInit, HubStep, PTL DEF Spec

\* emit() swallows nothing: when it returns, each handler and each matching
\* webhook that was registered when it was called acted on the event or is in
\* its list of failures, whatever failed before it.
THEOREM NothingIsSwallowed == Spec => []NothingSwallowed
<1>1. HubInv => NothingSwallowed
  <2> SUFFICES ASSUME HubInv, NEW e \in Emit, phase[e] = "done", NEW t \in known[e]
               PROVE  acted[e][t] > 0 \/ t \in failures[e]
    BY DEF NothingSwallowed
  <2>1. t \in Target /\ acted[e][t] \in Nat /\ unsure[e][t] \in Nat
    BY DEF HubInv, TypeOK
  <2>2. delivery[e][t].state = "ok" \/ t \in failures[e]
    BY DEF HubInv, CourseInv, Course
  <2>3. delivery[e][t].state = "ok" => acted[e][t] = unsure[e][t] + 1
    BY <2>1 DEF HubInv, CountsInv, ActsOK
  <2> QED
    BY <2>1, <2>2, <2>3
<1> QED
  BY <1>1, HubInvariant, PTL

\* withRetry() gives up on a target after exactly the attempts its policy
\* allows, and at least one; nothing else is reported but a webhook nothing
\* could call.
THEOREM FailuresFinal == Spec => []FailuresAreFinal
<1>1. HubInv => FailuresAreFinal
  <2> SUFFICES ASSUME HubInv, NEW e \in Emit, NEW t \in failures[e],
                      ~(t \in Webhook /\ ~fetcher)
               PROVE  /\ delivery[e][t].state = "failed"
                      /\ delivery[e][t].tries = (IF MaxAttempts < 1 THEN 1 ELSE MaxAttempts)
    BY DEF FailuresAreFinal
  <2>1. delivery[e][t].state = "failed"
    BY DEF HubInv, CourseInv, Reports
  <2>2. t \in Target
    BY DEF HubInv, TypeOK
  <2> QED
    BY <2>1, <2>2 DEF HubInv, CountsInv, TriesOK, Allowed
<1> QED
  BY <1>1, HubInvariant, PTL

\* withRetry() repeats what may have been done only when it was told that it
\* failed: a confirmed delivery is the target's last.
THEOREM RepeatsUnsure == Spec => []RepeatsAreUnsure
<1>1. HubInv => RepeatsAreUnsure
  <2> SUFFICES ASSUME HubInv, NEW e \in Emit, NEW t \in Target
               PROVE  acted[e][t] <= unsure[e][t] + 1
    BY DEF RepeatsAreUnsure
  <2>1. acted[e][t] \in Nat /\ unsure[e][t] \in Nat
    BY DEF HubInv, TypeOK
  <2>2. acted[e][t] = unsure[e][t] \/ acted[e][t] = unsure[e][t] + 1
    BY DEF HubInv, CountsInv, ActsOK
  <2> QED
    BY <2>1, <2>2
<1> QED
  BY <1>1, HubInvariant, PTL

=============================================================================
