-------------------------- MODULE AgentClient_proofs --------------------------
(***************************************************************************)
(* AgentClient for every set of calls, handlers and offers and for any     *)
(* limits: what the handlers are told, whichever of them throw and         *)
(* whenever they register each other; that the policy's counters are what  *)
(* is recorded; and how far overlapping calls can pass a limit.            *)
(***************************************************************************)
EXTENDS AgentClient, SequenceTheorems, Sums

Ended == {"done", "blocked", "threw"}
Codes == {"none", "no-viable-model", "invalid-amount", "policy-blocked"} \cup ReceiptErrors
Event == [type : {"payment", "skip", "error"}, code : Codes]

\* The types of the events a handler was told of.
Types(events) == [i \in DOMAIN events |-> events[i].type]

\* What the end of a call is told as.
EndOf(state) ==
  CASE state = "done"    -> <<"payment">>
    [] state = "blocked" -> <<"skip", "error">>
    [] state = "threw"   -> <<"error">>
    [] OTHER             -> <<>>

TypeOK ==
  /\ now \in Int
  /\ pc \in [Pay -> Pc]
  /\ movedAt \in [Pay -> Int \cup {NoTime}]
  /\ recordedAt \in [Pay -> Int \cup {NoTime}]
  /\ handlers \in Seq(Handler)
  /\ heard \in [Handler -> [Pay -> Seq(Event)]]
  /\ audience \in [Pay -> SUBSET Handler]

\* A call's events are told at its end, all of them at once and to everybody
\* registered by then.
Told(h, x) ==
  /\ heard[h][x] # <<>> => pc[x] \in Ended /\ Types(heard[h][x]) = EndOf(pc[x])
  /\ pc[x] \in Ended /\ h \in audience[x] => heard[h][x] # <<>>

\* A call that has begun knows its audience, and handlers are never removed.
CallOK(x) ==
  /\ audience[x] \subseteq Registered
  /\ pc[x] \in {"paid", "done"} => x \in moved
  /\ pc[x] = "done" => recordedAt[x] # NoTime

HeardInv ==
  /\ TypeOK
  /\ \A x \in Pay : CallOK(x)
  /\ \A h \in Handler, x \in Pay : Told(h, x)

-----------------------------------------------------------------------------
(* Lemmas. *)

\* Adding to the end of an array keeps what is in it.
LEMMA ToSetGrows ==
  ASSUME NEW S, NEW s \in Seq(S), NEW t \in Seq(S)
  PROVE  s \o t \in Seq(S) /\ ToSet(s) \subseteq ToSet(s \o t)
<1>1. s \o t \in Seq(S)
  OBVIOUS
<1>2. \A i \in DOMAIN s : i \in DOMAIN (s \o t) /\ (s \o t)[i] = s[i]
  OBVIOUS
<1> QED
  BY <1>1, <1>2 DEF ToSet

\* emit() tells each handler there is at the end of its loop, and removes none.
LEMMA EmitTells ==
  ASSUME TypeOK, NEW x \in Pay, NEW events \in Seq(Event), Emit(x, events)
  PROVE  /\ handlers' \in Seq(Handler)
         /\ Registered \subseteq Registered'
         /\ heard' \in [Handler -> [Pay -> Seq(Event)]]
         /\ \A h \in Handler : \A y \in Pay : heard'[h][y] =
              IF y = x /\ h \in Registered' THEN heard[h][y] \o events ELSE heard[h][y]
<1>1. PICK added \in Registrations :
        /\ handlers' = handlers \o added
        /\ heard' = [h \in Handler |->
             IF h \in ToSet(handlers') THEN [heard[h] EXCEPT ![x] = @ \o events] ELSE heard[h]]
  BY DEF Emit
<1>2. added \in Seq(Handler)
  <2>1. \A h \in Handler : <<h>> \in Seq(Handler)
    OBVIOUS
  <2>2. added = <<>> \/ \E h \in Handler : added = <<h>>
    BY DEF Registrations
  <2>3. <<>> \in Seq(Handler)
    OBVIOUS
  <2> QED
    BY <2>1, <2>2, <2>3
<1>3. handlers' \in Seq(Handler) /\ Registered \subseteq Registered'
  BY <1>1, <1>2, ToSetGrows DEF TypeOK, Registered
<1>4. \A h \in Handler : heard[h] \in [Pay -> Seq(Event)]
  BY DEF TypeOK
<1>5. \A h \in Handler : heard[h][x] \o events \in Seq(Event)
  BY <1>4
<1>6. \A h \in Handler :
        [heard[h] EXCEPT ![x] = heard[h][x] \o events] \in [Pay -> Seq(Event)]
  BY <1>4, <1>5
<1>7. heard' \in [Handler -> [Pay -> Seq(Event)]]
  BY <1>1, <1>4, <1>6
<1>8. \A h \in Handler : \A y \in Pay : heard'[h][y] =
        IF y = x /\ h \in Registered' THEN heard[h][y] \o events ELSE heard[h][y]
  BY <1>1, <1>4 DEF Registered
<1> QED
  BY <1>3, <1>7, <1>8

\* The end of a call: what it is told as is what it came to, it is told once,
\* and its audience hears it.
LEMMA EndsStep ==
  ASSUME HeardInv, NEW x \in Pay, pc[x] \notin Ended,
         NEW to \in Ended, NEW events \in Seq(Event),
         events # <<>>, Types(events) = EndOf(to),
         Go(x, to), Emit(x, events),
         now' = now, moved \subseteq moved', movedAt' \in [Pay -> Int \cup {NoTime}],
         NEW heardBy \in SUBSET Registered, audience' = [audience EXCEPT ![x] = heardBy],
         recordedAt' \in [Pay -> Int \cup {NoTime}],
         \A y \in Pay : y # x => recordedAt'[y] = recordedAt[y],
         to = "done" => x \in moved' /\ recordedAt'[x] # NoTime
  PROVE  HeardInv'
<1> TypeOK
  BY DEF HeardInv
<1>1. /\ handlers' \in Seq(Handler)
      /\ Registered \subseteq Registered'
      /\ heard' \in [Handler -> [Pay -> Seq(Event)]]
      /\ \A h \in Handler : \A y \in Pay : heard'[h][y] =
           IF y = x /\ h \in Registered' THEN heard[h][y] \o events ELSE heard[h][y]
  BY EmitTells
<1>2. /\ pc' \in [Pay -> Pc] /\ pc'[x] = to
      /\ \A y \in Pay : y # x => pc'[y] = pc[y]
  BY DEF TypeOK, Go, Pc, Ended
<1>3. Registered \subseteq Handler
  BY DEF TypeOK, Registered, ToSet
<1>4. /\ audience' \in [Pay -> SUBSET Handler] /\ audience'[x] = heardBy
      /\ \A y \in Pay : y # x => audience'[y] = audience[y]
  BY <1>3 DEF TypeOK
<1>5. TypeOK'
  BY <1>1, <1>2, <1>4 DEF TypeOK
<1>6. ASSUME NEW y \in Pay PROVE CallOK(y)'
  <2>1. CASE y = x
    BY <2>1, <1>1, <1>2, <1>4 DEF CallOK, Ended
  <2>2. CASE y # x
    BY <2>2, <1>1, <1>2, <1>4 DEF HeardInv, CallOK
  <2> QED
    BY <2>1, <2>2
<1>7. ASSUME NEW h \in Handler, NEW y \in Pay PROVE Told(h, y)'
  <2>1. CASE y # x
    <3>1. heard'[h][y] = heard[h][y] /\ pc'[y] = pc[y] /\ audience'[y] = audience[y]
      BY <2>1, <1>1, <1>2, <1>4
    <3>2. Told(h, y)
      BY DEF HeardInv
    <3> QED
      BY <3>1, <3>2 DEF Told
  <2>2. CASE y = x /\ h \in Registered'
    <3>1. heard[h][x] = <<>>
      BY DEF HeardInv, Told
    <3>2. heard'[h][x] = events
      <4>1. heard'[h][x] = heard[h][x] \o events
        BY <2>2, <1>1
      <4>2. <<>> \o events = events
        BY ConcatEmptySeq
      <4> QED
        BY <3>1, <4>1, <4>2
    <3> QED
      BY <2>2, <3>2, <1>2 DEF Told
  <2>3. CASE y = x /\ h \notin Registered'
    <3>1. heard'[h][x] = <<>>
      BY <2>3, <1>1 DEF HeardInv, Told
    <3>2. h \notin audience'[x]
      BY <2>3, <1>1, <1>4
    <3> QED
      BY <2>3, <3>1, <3>2 DEF Told
  <2> QED
    BY <2>1, <2>2, <2>3
<1> QED
  BY <1>5, <1>6, <1>7 DEF HeardInv

\* A call that goes on tells nobody anything.
LEMMA GoesOnStep ==
  ASSUME HeardInv, NEW x \in Pay, pc[x] \notin Ended,
         NEW to \in {"settling", "paid"}, Go(x, to),
         UNCHANGED <<now, handlers, heard, recordedAt>>,
         moved \subseteq moved', movedAt' \in [Pay -> Int \cup {NoTime}], to = "paid" => x \in moved',
         NEW heardBy \in SUBSET Registered, audience' = [audience EXCEPT ![x] = heardBy]
  PROVE  HeardInv'
<1> TypeOK
  BY DEF HeardInv
<1>1. /\ pc' \in [Pay -> Pc] /\ pc'[x] = to
      /\ \A y \in Pay : y # x => pc'[y] = pc[y]
  BY DEF TypeOK, Go, Pc
<1>2. Registered \subseteq Handler
  BY DEF TypeOK, Registered, ToSet
<1>3. /\ audience' \in [Pay -> SUBSET Handler] /\ audience'[x] = heardBy
      /\ \A y \in Pay : y # x => audience'[y] = audience[y]
  BY <1>2 DEF TypeOK
<1>4. TypeOK'
  BY <1>1, <1>3 DEF TypeOK
<1>5. Registered' = Registered
  BY DEF Registered
<1>6. ASSUME NEW y \in Pay PROVE CallOK(y)'
  BY <1>1, <1>3, <1>5 DEF HeardInv, CallOK
<1>7. ASSUME NEW h \in Handler, NEW y \in Pay PROVE Told(h, y)'
  BY <1>1, <1>3 DEF HeardInv, Told, Ended
<1> QED
  BY <1>4, <1>6, <1>7 DEF HeardInv

\* The events the client emits, and what they tell.
LEMMA EventsSay ==
  /\ \A code \in Codes : <<Error(code)>> \in Seq(Event) /\ Types(<<Error(code)>>) = EndOf("threw")
  /\ <<Skip, Error("policy-blocked")>> \in Seq(Event)
  /\ Types(<<Skip, Error("policy-blocked")>>) = EndOf("blocked")
  /\ <<Payment>> \in Seq(Event) /\ Types(<<Payment>>) = EndOf("done")
<1>1. ASSUME NEW code \in Codes PROVE Error(code) \in Event /\ Error(code).type = "error"
  BY DEF Error, Event
<1>2. Skip \in Event /\ Skip.type = "skip" /\ Payment \in Event /\ Payment.type = "payment"
  BY DEF Skip, Payment, Event, Codes
<1>3. ASSUME NEW a, a.type = "error" PROVE Types(<<a>>) = EndOf("threw")
  BY <1>3 DEF Types, EndOf
<1>4. ASSUME NEW a, a.type = "payment" PROVE Types(<<a>>) = EndOf("done")
  BY <1>4 DEF Types, EndOf
<1>5. ASSUME NEW a, NEW b, a.type = "skip", b.type = "error" PROVE Types(<<a, b>>) = EndOf("blocked")
  BY <1>5 DEF Types, EndOf
<1>6. Error("policy-blocked") \in Event /\ Error("policy-blocked").type = "error"
  BY <1>1 DEF Codes
<1> QED
  BY <1>1, <1>2, <1>3, <1>4, <1>5, <1>6

-----------------------------------------------------------------------------
(* The steps. *)

LEMMA DecideFailsStep ==
  ASSUME HeardInv, NEW x \in Pay, DecideFails(x)
  PROVE  HeardInv'
<1>1. /\ pc[x] \notin Ended /\ Go(x, "threw") /\ Emit(x, <<Error("no-viable-model")>>)
      /\ UNCHANGED <<now, movedAt, recordedAt>> /\ moved' = moved
      /\ audience' = [audience EXCEPT ![x] = Registered]
  BY DEF DecideFails, Begins, Ended, moved
<1>2. "no-viable-model" \in Codes /\ "threw" \in Ended
  BY DEF Codes, Ended
<1> QED
  BY <1>1, <1>2, EventsSay, EndsStep DEF HeardInv, TypeOK

LEMMA CheckPolicyStep ==
  ASSUME HeardInv, NEW x \in Pay, CheckPolicy(x)
  PROVE  HeardInv'
<1>1. /\ pc[x] \notin Ended
      /\ UNCHANGED <<now, movedAt, recordedAt>> /\ moved' = moved
      /\ audience' = [audience EXCEPT ![x] = Registered]
      /\ \/ Go(x, "threw") /\ Emit(x, <<Error("invalid-amount")>>)
         \/ Go(x, "blocked") /\ Emit(x, <<Skip, Error("policy-blocked")>>)
         \/ Go(x, "settling") /\ UNCHANGED <<handlers, heard>>
  BY DEF CheckPolicy, Begins, Ended, moved
<1>4. CASE Go(x, "threw") /\ Emit(x, <<Error("invalid-amount")>>)
  <2> "invalid-amount" \in Codes /\ "threw" \in Ended
    BY DEF Codes, Ended
  <2> QED
    BY <1>1, <1>4, EventsSay, EndsStep DEF HeardInv, TypeOK
<1>2. CASE Go(x, "blocked") /\ Emit(x, <<Skip, Error("policy-blocked")>>)
  <2> "blocked" \in Ended
    BY DEF Ended
  <2> QED
    BY <1>1, <1>2, EventsSay, EndsStep DEF HeardInv, TypeOK
<1>3. CASE Go(x, "settling") /\ UNCHANGED <<handlers, heard>>
  BY <1>1, <1>3, GoesOnStep DEF HeardInv, TypeOK
<1> QED
  BY <1>1, <1>2, <1>3, <1>4

LEMMA SettleStep ==
  ASSUME HeardInv, NEW x \in Pay, Settle(x)
  PROVE  HeardInv'
<1>1. /\ pc[x] \notin Ended
      /\ UNCHANGED <<now, recordedAt, audience>>
      /\ \/ movedAt' = [movedAt EXCEPT ![x] = now] /\ Go(x, "paid") /\ UNCHANGED <<handlers, heard>>
         \/ UNCHANGED movedAt /\ Go(x, "threw") /\ Emit(x, <<Error("settler")>>)
  BY DEF Settle, Ended
<1>2. audience' = [audience EXCEPT ![x] = audience[x]] /\ audience[x] \subseteq Registered
  BY <1>1 DEF HeardInv, TypeOK, CallOK
<1>3. CASE movedAt' = [movedAt EXCEPT ![x] = now] /\ Go(x, "paid") /\ UNCHANGED <<handlers, heard>>
  <2>1. movedAt' \in [Pay -> Int \cup {NoTime}] /\ movedAt'[x] # NoTime
        /\ \A y \in Pay : y # x => movedAt'[y] = movedAt[y]
    BY <1>3, ClientAssumption DEF HeardInv, TypeOK
  <2>2. moved \subseteq moved' /\ x \in moved'
    BY <2>1 DEF moved
  <2> QED
    BY <1>1, <1>2, <1>3, <2>1, <2>2, GoesOnStep DEF HeardInv, TypeOK
<1>4. CASE UNCHANGED movedAt /\ Go(x, "threw") /\ Emit(x, <<Error("settler")>>)
  <2> moved' = moved
    BY <1>4 DEF moved
  <2> "settler" \in Codes /\ "threw" \in Ended
    BY DEF Codes, Ended, ReceiptErrors
  <2> QED
    BY <1>1, <1>2, <1>4, EventsSay, EndsStep DEF HeardInv, TypeOK
<1> QED
  BY <1>1, <1>3, <1>4

LEMMA ReceiptFailsStep ==
  ASSUME HeardInv, NEW x \in Pay, ReceiptFails(x)
  PROVE  HeardInv'
<1>1. PICK code \in ReceiptErrors : Emit(x, <<Error(code)>>)
  BY DEF ReceiptFails
<1>2. /\ pc[x] \notin Ended /\ Go(x, "threw")
      /\ UNCHANGED <<now, movedAt, recordedAt, audience>> /\ moved' = moved
  BY DEF ReceiptFails, Ended, moved
<1>3. audience' = [audience EXCEPT ![x] = audience[x]] /\ audience[x] \subseteq Registered
  BY <1>2 DEF HeardInv, TypeOK, CallOK
<1>4. code \in Codes /\ "threw" \in Ended
  BY DEF Codes, Ended
<1> QED
  BY <1>1, <1>2, <1>3, <1>4, EventsSay, EndsStep DEF HeardInv, TypeOK

LEMMA ReceiptRecordedStep ==
  ASSUME HeardInv, NEW x \in Pay, ReceiptRecorded(x)
  PROVE  HeardInv'
<1>1. /\ pc[x] = "paid" /\ pc[x] \notin Ended
      /\ Go(x, "done") /\ Emit(x, <<Payment>>)
      /\ UNCHANGED <<now, movedAt, audience>> /\ moved' = moved
      /\ recordedAt' = [recordedAt EXCEPT ![x] = now]
  BY DEF ReceiptRecorded, Ended, moved
<1>2. /\ audience' = [audience EXCEPT ![x] = audience[x]] /\ audience[x] \subseteq Registered
      /\ x \in moved
  BY <1>1 DEF HeardInv, TypeOK, CallOK
<1>3. /\ recordedAt' \in [Pay -> Int \cup {NoTime}]
      /\ \A y \in Pay : y # x => recordedAt'[y] = recordedAt[y]
      /\ recordedAt'[x] # NoTime
  BY <1>1, ClientAssumption DEF HeardInv, TypeOK
<1>4. "done" \in Ended
  BY DEF Ended
<1> QED
  BY <1>1, <1>2, <1>3, <1>4, EventsSay, EndsStep DEF HeardInv, TypeOK

\* on() and the clock.
LEMMA OnStep ==
  ASSUME HeardInv, NEW h \in Handler, On(h)
  PROVE  HeardInv'
<1>1. handlers' = handlers \o <<h>> /\ handlers' \in Seq(Handler) /\ <<h>> \in Seq(Handler)
  BY AppendIsConcat DEF On, HeardInv, TypeOK
<1>2. Registered \subseteq Registered'
  <2> handlers \in Seq(Handler)
    BY DEF HeardInv, TypeOK
  <2>1. ToSet(handlers) \subseteq ToSet(handlers \o <<h>>)
    BY <1>1, ToSetGrows
  <2> QED
    BY <1>1, <2>1 DEF Registered
<1>3. UNCHANGED <<now, pc, movedAt, recordedAt, heard, audience>> /\ moved' = moved
  BY DEF On, payVars, moved
<1> QED
  BY <1>1, <1>2, <1>3 DEF HeardInv, TypeOK, CallOK, Told

LEMMA TickStep ==
  ASSUME HeardInv, now' \in Int, UNCHANGED clientVars
  PROVE  HeardInv'
BY DEF clientVars, payVars, eventVars, HeardInv, TypeOK, CallOK, Told, Registered, moved

LEMMA HeardInit == Init => HeardInv
BY DEF Init, EngineInit, HeardInv, TypeOK, Pc, CallOK, Told, Registered, ToSet, Ended

LEMMA HeardStep == HeardInv /\ [Next]_vars => HeardInv'
<1> SUFFICES ASSUME HeardInv, [Next]_vars PROVE HeardInv'
  OBVIOUS
<1>1. CASE Tick
  BY <1>1, TickStep DEF Tick, HeardInv, TypeOK
<1>2. CASE UNCHANGED vars
  BY <1>2, TickStep DEF vars, HeardInv, TypeOK
<1> QED
  BY <1>1, <1>2, DecideFailsStep, CheckPolicyStep, SettleStep, ReceiptFailsStep, ReceiptRecordedStep, OnStep
  DEF Next, AllPaid

-----------------------------------------------------------------------------
(* Theorems. *)

\* The inductive invariant of what is told.
THEOREM HeardInvariant == Spec => []HeardInv
BY HeardInit, HeardStep, PTL DEF Spec

\* A handler that was registered when pay() was called hears how the call
\* ended, once and in order, whatever the others throw or register; who hears
\* of a payment, early or late, hears of one that was settled and recorded.
THEOREM EndsAreHeard == Spec => []EveryEndIsHeard
<1>1. HeardInv => EveryEndIsHeard
  <2> SUFFICES ASSUME HeardInv PROVE EveryEndIsHeard
    OBVIOUS
  <2>1. ASSUME NEW x \in Pay, NEW h \in audience[x]
        PROVE  Types(heard[h][x]) = EndOf(pc[x])
    <3>1. h \in Handler /\ Told(h, x)
      BY DEF HeardInv, TypeOK
    <3>2. CASE pc[x] \in Ended
      BY <3>1, <3>2 DEF Told
    <3>3. CASE pc[x] \notin Ended
      <4>1. heard[h][x] = <<>> /\ EndOf(pc[x]) = <<>>
        BY <3>1, <3>3 DEF Told, EndOf, Ended
      <4> QED
        BY <4>1 DEF Types
    <3> QED
      BY <3>2, <3>3
  <2>2. ASSUME NEW h \in Handler, NEW x \in Pay, Payment \in ToSet(heard[h][x])
        PROVE  x \in moved /\ recordedAt[x] # NoTime
    <3>1. heard[h][x] \in Seq(Event)
      BY DEF HeardInv, TypeOK
    <3>2. PICK i \in DOMAIN heard[h][x] : heard[h][x][i] = Payment
      BY <2>2 DEF ToSet
    <3>3. heard[h][x] # <<>>
      BY <3>2
    <3>4. pc[x] \in Ended /\ Types(heard[h][x]) = EndOf(pc[x])
      BY <3>3 DEF HeardInv, Told
    <3>5. i \in DOMAIN EndOf(pc[x]) /\ EndOf(pc[x])[i] = "payment"
      BY <3>2, <3>4 DEF Types, Payment
    <3>6. pc[x] = "done"
      BY <3>4, <3>5 DEF EndOf, Ended
    <3> QED
      BY <3>6 DEF HeardInv, CallOK
  <2> QED
    BY <2>1, <2>2 DEF EveryEndIsHeard, Types, EndOf
<1> QED
  BY <1>1, HeardInvariant, PTL

(***************************************************************************)
(* Counters, budgets and windows.                                          *)
(***************************************************************************)

\* Calls the policy let pass and whose settler did not throw.
Admitted == {x \in Pay : pc[x] \in {"settling", "paid", "done"}} \cup Unrecorded

\* Calls whose payment is recorded.
Booked == {x \in Pay : pc[x] = "done"}

Worth == [x \in Admitted |-> intent[x].amount]
One == [x \in Admitted |-> 1]
With(a) == {x \in Admitted : intent[x].asset = a}
To(p) == {x \in Admitted : intent[x].payee = p}
DayOf(t) == t \div Day

CallsOK ==
  /\ now \in Nat
  /\ pc \in [Pay -> Pc]
  /\ movedAt \in [Pay -> Nat \cup {NoTime}]
  /\ unseen \in [Pay -> SUBSET Pay]
  /\ recordedAt \in [Pay -> Nat \cup {NoTime}]
  /\ intent \in [Pay -> Intent \cup {NoIntent}]
  /\ \A x \in Admitted : intent[x] \in Intent /\ intent[x].amount >= 0
  /\ \A x \in Pay : recordedAt[x] # NoTime <=> x \in Booked
  /\ \A x \in Booked : recordedAt[x] <= now /\ movedAt[x] <= recordedAt[x]
  /\ \A x \in moved : pc[x] \in {"paid", "done", "threw"} /\ movedAt[x] <= now
  /\ \A x \in Pay : pc[x] \in {"paid", "done"} => x \in moved
  /\ IsFiniteSet({x \in Pay : pc[x] # "idle"})

\* The counters are sums of what is recorded.
TotalsMatch ==
  /\ totalSpend \in [Asset -> Int]
  /\ serviceSpend \in [Payee \X Asset -> Int]
  /\ \A a \in Asset : totalSpend[a] = SumFunctionOnSet(Worth, Booked \cap With(a))
  /\ \A p \in Payee, a \in Asset :
       serviceSpend[<<p, a>>] = SumFunctionOnSet(Worth, Booked \cap With(a) \cap To(p))

\* The daily counter is that of the day it was last reset, and no payment was
\* recorded later than that.
OnDay(d) == {x \in Booked : DayOf(recordedAt[x]) = d}

DaysMatch ==
  /\ lastResetDay \in Nat /\ lastResetDay <= Today
  /\ dailySpend \in [Asset -> Int]
  /\ \A x \in Booked : DayOf(recordedAt[x]) <= lastResetDay
  /\ \A a \in Asset : dailySpend[a] = SumFunctionOnSet(Worth, OnDay(lastResetDay) \cap With(a))

Sample == [amount : Int, asset : Asset, ts : Int]

\* The samples are those of some payments, each of one, with none missing that
\* is recent enough, in the order of time.
ListedBy(samples, by, want, at, from) ==
  /\ samples \in Seq(Sample)
  /\ by \in [DOMAIN samples -> DOMAIN at]
  /\ \A i, j \in DOMAIN samples : by[i] = by[j] => i = j
  /\ \A i, j \in DOMAIN samples : i <= j => samples[i].ts <= samples[j].ts
  /\ \A i \in DOMAIN samples :
       /\ at[by[i]] # NoTime
       /\ samples[i] = [amount |-> want[by[i]].amount, asset |-> want[by[i]].asset, ts |-> at[by[i]]]
  /\ \A x \in DOMAIN at : at[x] # NoTime /\ at[x] >= from => \E i \in DOMAIN samples : by[i] = x

WindowMatches == \E by \in [DOMAIN recent -> Pay] : ListedBy(recent, by, intent, recordedAt, now - Minute)

CountInv == CallsOK /\ TotalsMatch /\ DaysMatch /\ WindowMatches

\* Of any of the calls in C, what they use is within the limit but for what the
\* check of one of them could not see.
KeptBy(limit, C, weight, before) ==
  limit # NoLimit =>
    \A S \in SUBSET C : S # {} =>
      \E x \in S : SumFunctionOnSet(weight, S) <= limit + SumFunctionOnSet(weight, before[x] \cap S)

\* What moved, or may still move, on day d or in the minute up to t.
ForDay(d) == {x \in Admitted : IF x \in moved THEN DayOf(movedAt[x]) = d ELSE d >= Today}
ForMinute(t) ==
  {x \in Admitted : IF x \in moved THEN movedAt[x] \in t - Minute .. t ELSE t >= now}

LimitsKept ==
  /\ \A a \in Asset :
       /\ KeptBy(TotalBudget, With(a), Worth, unseen)
       /\ \A p \in Payee : KeptBy(ServiceCap[p], With(a) \cap To(p), Worth, unseen)
       /\ \A d \in Nat : KeptBy(DailyBudget, With(a) \cap ForDay(d), Worth, unseen)
       /\ \A t \in Nat : KeptBy(MaxSpendPerMinute, With(a) \cap ForMinute(t), Worth, unseen)
  /\ \A t \in Nat : KeptBy(RequestsPerMinute, ForMinute(t), One, unseen)

-----------------------------------------------------------------------------
(* Lemmas about days, the window and the limits. *)

LEMMA DayBounds ==
  ASSUME NEW t \in Nat
  PROVE  DayOf(t) \in Nat /\ DayOf(t) * Day <= t /\ t < (DayOf(t) + 1) * Day
BY PolicyAssumption DEF DayOf

LEMMA Steeper ==
  ASSUME NEW d \in Nat, NEW e \in Nat, d < e
  PROVE  (d + 1) * Day <= e * Day
<1>1. Day \in Nat
  BY PolicyAssumption
<1>2. PICK k \in Nat : e = d + 1 + k
  <2>1. e - d - 1 \in Nat /\ e = d + 1 + (e - d - 1)
    OBVIOUS
  <2> QED
    BY <2>1
<1>3. (d + 1 + k) * Day = (d + 1) * Day + k * Day
  BY <1>1
<1>4. k * Day \in Nat /\ (d + 1) * Day \in Nat
  BY <1>1
<1> QED
  BY <1>2, <1>3, <1>4

\* A day is an interval of the clock.
LEMMA DayIs ==
  ASSUME NEW t \in Nat, NEW d \in Nat
  PROVE  t \in d * Day .. ((d + 1) * Day - 1) <=> DayOf(t) = d
<1>1. DayOf(t) \in Nat /\ DayOf(t) * Day <= t /\ t < (DayOf(t) + 1) * Day
  BY DayBounds
<1>2. Day \in Nat /\ d * Day \in Nat /\ (d + 1) * Day \in Nat
      /\ DayOf(t) * Day \in Nat /\ (DayOf(t) + 1) * Day \in Nat
  BY <1>1, PolicyAssumption
<1>3. CASE DayOf(t) = d
  BY <1>1, <1>2, <1>3
<1>4. CASE DayOf(t) < d
  <2>1. (DayOf(t) + 1) * Day <= d * Day
    BY <1>1, <1>4, Steeper
  <2> QED
    BY <1>1, <1>2, <1>4, <2>1
<1>5. CASE d < DayOf(t)
  <2>1. (d + 1) * Day <= DayOf(t) * Day
    BY <1>1, <1>5, Steeper
  <2> QED
    BY <1>1, <1>2, <1>5, <2>1
<1> QED
  BY <1>1, <1>3, <1>4, <1>5

LEMMA DaysPass ==
  ASSUME NEW t \in Nat, NEW u \in Nat, t <= u
  PROVE  DayOf(t) <= DayOf(u)
<1>1. DayOf(t) \in Nat /\ DayOf(t) * Day <= t /\ DayOf(u) \in Nat /\ u < (DayOf(u) + 1) * Day
  BY DayBounds
<1> SUFFICES ASSUME DayOf(u) < DayOf(t) PROVE FALSE
  BY <1>1
<1>2. (DayOf(u) + 1) * Day <= DayOf(t) * Day
  BY <1>1, Steeper
<1>3. Day \in Nat /\ (DayOf(u) + 1) * Day \in Nat /\ DayOf(t) * Day \in Nat
  BY <1>1, PolicyAssumption
<1> QED
  BY <1>1, <1>2, <1>3

\* pruneWindow() leaves exactly what is recent enough of samples in order.
LEMMA PrunedIs ==
  ASSUME now \in Nat, NEW s \in Seq(Sample),
         \A i, j \in DOMAIN s : i <= j => s[i].ts <= s[j].ts
  PROVE  \E m \in 1 .. Len(s) + 1 :
           /\ Pruned(s) \in Seq(Sample) /\ Len(Pruned(s)) = Len(s) - m + 1
           /\ \A j \in DOMAIN Pruned(s) : m + j - 1 \in DOMAIN s /\ Pruned(s)[j] = s[m + j - 1]
           /\ \A i \in DOMAIN s : s[i].ts >= now - Minute <=> i >= m
<1>1. Len(s) \in Nat /\ DOMAIN s = 1 .. Len(s)
  OBVIOUS
<1>2. Minute \in Nat /\ now - Minute \in Int
  BY PolicyAssumption
<1>3. \A i \in DOMAIN s : s[i].ts \in Int
  <2>1. \A i \in DOMAIN s : s[i] \in Sample
    BY <1>1
  <2> QED
    BY <2>1 DEF Sample
<1>4. PICK kept : kept = {i \in DOMAIN s : s[i].ts >= now - Minute}
  OBVIOUS
<1>5. CASE kept = {}
  <2>1. Pruned(s) = <<>>
    BY <1>4, <1>5 DEF Pruned
  <2>2. \A i \in DOMAIN s : ~(s[i].ts >= now - Minute)
    BY <1>4, <1>5
  <2> WITNESS Len(s) + 1 \in 1 .. Len(s) + 1
  <2> QED
    BY <1>1, <2>1, <2>2
<1>6. CASE kept # {}
  <2>1. PICK m \in kept : \A j \in kept : m <= j
    <3>1. kept \in SUBSET Nat
      BY <1>1, <1>4
    <3> QED
      BY <1>6, <3>1, LeastNumber
  <2>2. \A n \in kept : (\A j \in kept : n <= j) => n = m
    BY <1>1, <1>4, <2>1
  <2>3. (CHOOSE i \in kept : \A j \in kept : i <= j) = m
    BY <2>1, <2>2
  <2>4. Pruned(s) = SubSeq(s, m, Len(s))
    BY <1>4, <1>6, <2>3 DEF Pruned
  <2>5. m \in 1 .. Len(s) /\ s[m].ts >= now - Minute
    BY <1>1, <1>4, <2>1
  <2>6. \A i \in DOMAIN s : s[i].ts >= now - Minute <=> i >= m
    <3>1. ASSUME NEW i \in DOMAIN s, s[i].ts >= now - Minute PROVE i >= m
      BY <1>1, <1>4, <2>1, <2>5, <3>1
    <3>2. ASSUME NEW i \in DOMAIN s, i >= m PROVE s[i].ts >= now - Minute
      <4>1. s[m].ts <= s[i].ts
        BY <1>1, <2>5, <3>2
      <4> QED
        BY <1>1, <1>2, <1>3, <2>5, <4>1
    <3> QED
      BY <3>1, <3>2
  <2>7. /\ SubSeq(s, m, Len(s)) \in Seq(Sample)
        /\ Len(SubSeq(s, m, Len(s))) = Len(s) - m + 1
        /\ \A j \in 1 .. (Len(s) - m + 1) : SubSeq(s, m, Len(s))[j] = s[m + j - 1]
    BY <1>1, <2>5, SubSeqProperties
  <2>8. \A j \in DOMAIN Pruned(s) : m + j - 1 \in DOMAIN s /\ Pruned(s)[j] = s[m + j - 1]
    <3>1. DOMAIN Pruned(s) = 1 .. (Len(s) - m + 1)
      BY <2>4, <2>7
    <3> QED
      BY <1>1, <2>4, <2>5, <2>7, <3>1
  <2>9. m \in 1 .. Len(s) + 1
    BY <1>1, <2>5
  <2> QED
    BY <2>4, <2>6, <2>7, <2>8, <2>9
<1> QED
  BY <1>5, <1>6

\* A limit stays kept when calls drop out.
LEMMA FewerKeep ==
  ASSUME NEW limit, NEW C, NEW w, NEW before, KeptBy(limit, C, w, before),
         IsFiniteSet(C), NEW D \in SUBSET C, NEW v, NEW ahead,
         \A x \in D : v[x] = w[x] /\ ahead[x] = before[x]
  PROVE  KeptBy(limit, D, v, ahead)
<1> SUFFICES ASSUME limit # NoLimit, NEW S \in SUBSET D, S # {}
             PROVE  \E x \in S : SumFunctionOnSet(v, S) <= limit + SumFunctionOnSet(v, ahead[x] \cap S)
  BY DEF KeptBy
<1>1. PICK x \in S : SumFunctionOnSet(w, S) <= limit + SumFunctionOnSet(w, before[x] \cap S)
  BY DEF KeptBy
<1>2. PICK T : T = before[x] \cap S
  OBVIOUS
<1>3. IsFiniteSet(S) /\ IsFiniteSet(T)
  BY <1>2, FS_Subset
<1>4. SumFunctionOnSet(v, S) = SumFunctionOnSet(w, S)
  BY <1>3, SumSame
<1>5. SumFunctionOnSet(v, T) = SumFunctionOnSet(w, T)
  BY <1>2, <1>3, SumSame
<1>6. ahead[x] \cap S = T
  BY <1>2
<1> QED
  BY <1>1, <1>2, <1>4, <1>5, <1>6

\* A limit stays kept when a call joins that was checked: with what is used by
\* calls that were not in flight then, it is within the limit.
LEMMA CheckedKeeps ==
  ASSUME NEW limit, limit # NoLimit => limit \in Int,
         NEW C, NEW w, NEW before, KeptBy(limit, C, w, before), IsFiniteSet(C),
         NEW x, x \notin C, NEW D \in SUBSET (C \cup {x}), NEW v, NEW ahead,
         \A y \in C : v[y] = w[y] /\ v[y] \in Nat /\ ahead[y] = before[y],
         x \in D => v[x] \in Nat,
         x \in D /\ limit # NoLimit =>
           \A T \in SUBSET (C \ ahead[x]) : SumFunctionOnSet(v, T) + v[x] <= limit
  PROVE  KeptBy(limit, D, v, ahead)
<1> SUFFICES ASSUME limit # NoLimit, NEW S \in SUBSET D, S # {}
             PROVE  \E y \in S : SumFunctionOnSet(v, S) <= limit + SumFunctionOnSet(v, ahead[y] \cap S)
  BY DEF KeptBy
<1>1. CASE x \notin S
  <2>1. S \in SUBSET C
    BY <1>1
  <2>2. KeptBy(limit, S, v, ahead)
    BY <2>1, FewerKeep
  <2> QED
    BY <2>2 DEF KeptBy
<1>2. CASE x \in S
  <2>1. PICK A, B, R : A = S \ {x} /\ B = ahead[x] \cap A /\ R = A \ ahead[x]
    OBVIOUS
  <2>2. A \subseteq C /\ R \in SUBSET (C \ ahead[x]) /\ R \subseteq A /\ B \subseteq A
    BY <1>2, <2>1
  <2>3. IsFiniteSet(A) /\ IsFiniteSet(B) /\ IsFiniteSet(R) /\ \A y \in A : v[y] \in Nat
    BY <2>2, FS_Subset
  <2>0. S = A \cup {x} /\ x \notin A
    BY <1>2, <2>1
  <2>fin. IsFiniteSet(S)
    <3>1. IsFiniteSet(A \cup {x})
      BY <2>3, FS_AddElement
    <3> QED
      BY <2>0, <3>1
  <2>4. SumFunctionOnSet(v, R) + v[x] <= limit
    BY <1>2, <2>2
  <2>5. SumFunctionOnSet(v, S) = v[x] + SumFunctionOnSet(v, A)
    <3>1. v[x] \in Int /\ \A y \in A : v[y] \in Int
      BY <1>2, <2>3
    <3> QED
      BY <2>0, <2>3, <3>1, SumAdd
  <2>6. SumFunctionOnSet(v, A) = SumFunctionOnSet(v, R) + SumFunctionOnSet(v, B)
    <3>1. \A y \in A : v[y] \in Int
      BY <2>3
    <3>2. PICK K : K = ahead[x]
      OBVIOUS
    <3>3. SumFunctionOnSet(v, A) = SumFunctionOnSet(v, A \ K) + SumFunctionOnSet(v, K \cap A)
      BY <2>3, <3>1, SumSplit
    <3> QED
      BY <2>1, <3>2, <3>3
  <2>7. SumFunctionOnSet(v, B) <= SumFunctionOnSet(v, ahead[x] \cap S)
    <3>1. PICK T : T = ahead[x] \cap S
      OBVIOUS
    <3>2. IsFiniteSet(T) /\ B \in SUBSET T /\ \A y \in T : v[y] \in Nat
      <4>1. T \subseteq S
        BY <3>1
      <4>2. IsFiniteSet(T)
        BY <2>fin, <4>1, FS_Subset
      <4>3. B \in SUBSET T
        BY <2>1, <3>1
      <4>4. \A y \in S : v[y] \in Nat
        BY <1>2
      <4> QED
        BY <4>1, <4>2, <4>3, <4>4
    <3> QED
      BY <3>1, <3>2, SumGrows
  <2>8. /\ SumFunctionOnSet(v, A) \in Int /\ SumFunctionOnSet(v, R) \in Int
        /\ SumFunctionOnSet(v, B) \in Int /\ SumFunctionOnSet(v, ahead[x] \cap S) \in Int
    <3>1. \A y \in S : v[y] \in Int
      BY <1>2
    <3>2. PICK T : T = ahead[x] \cap S
      OBVIOUS
    <3>4. IsFiniteSet(T) /\ T \subseteq S
      BY <2>fin, <3>2, FS_Subset
    <3>5. \A y \in T : v[y] \in Int
      BY <3>1, <3>4
    <3>6. SumFunctionOnSet(v, T) \in Int
      BY <3>4, <3>5, SumType
    <3>7. \A y \in A : v[y] \in Int
      BY <2>3
    <3>8. SumFunctionOnSet(v, A) \in Int /\ SumFunctionOnSet(v, R) \in Int /\ SumFunctionOnSet(v, B) \in Int
      BY <2>2, <2>3, <3>7, SumType
    <3> QED
      BY <3>2, <3>6, <3>8
  <2>9. SumFunctionOnSet(v, S) <= limit + SumFunctionOnSet(v, ahead[x] \cap S)
    BY <1>2, <2>4, <2>5, <2>6, <2>7, <2>8
  <2> QED
    BY <1>2, <2>9
<1> QED
  BY <1>1, <1>2

LEMMA Sizes ==
  ASSUME CallsOK
  PROVE  /\ IsFiniteSet(Admitted) /\ Booked \subseteq Admitted
         /\ \A x \in Admitted : Worth[x] \in Nat /\ Worth[x] = intent[x].amount /\ One[x] = 1
<1>1. Admitted \subseteq {x \in Pay : pc[x] # "idle"}
  BY DEF Admitted, Unrecorded, moved
<1>2. IsFiniteSet(Admitted)
  BY <1>1, FS_Subset DEF CallsOK
<1>3. ASSUME NEW x \in Admitted PROVE Worth[x] \in Nat /\ Worth[x] = intent[x].amount /\ One[x] = 1
  <2>1. intent[x] \in Intent /\ intent[x].amount >= 0
    BY DEF CallsOK
  <2>2. intent[x].amount \in Int
    BY <2>1 DEF Intent
  <2> QED
    BY <2>1, <2>2 DEF Worth, One
<1> QED
  BY <1>2, <1>3 DEF Admitted, Booked

\* What calls cost is the sum of what they are worth.
LEMMA AmountIs ==
  ASSUME CallsOK, NEW S \in SUBSET Admitted
  PROVE  AmountOf(S) = SumFunctionOnSet(Worth, S)
<1>1. IsFiniteSet(S)
  BY Sizes, FS_Subset
<1>2. \A x \in S : [y \in S |-> intent[y].amount][x] = Worth[x]
  BY DEF Worth
<1>3. PICK f : f = [y \in S |-> intent[y].amount]
  OBVIOUS
<1>4. SumFunctionOnSet(f, S) = SumFunctionOnSet(Worth, S)
  BY <1>1, <1>2, <1>3, SumSame
<1> QED
  BY <1>3, <1>4 DEF AmountOf

\* A list of samples stays one while the clock goes on and other calls begin.
LEMMA ListedStays ==
  ASSUME NEW s, NEW by, NEW want, NEW at, NEW from \in Int, ListedBy(s, by, want, at, from),
         \A x \in DOMAIN at : at[x] # NoTime => at[x] \in Int,
         NEW want2, \A x \in DOMAIN at : at[x] # NoTime => want2[x] = want[x],
         NEW from2 \in Int, from <= from2
  PROVE  ListedBy(s, by, want2, at, from2)
BY DEF ListedBy

\* What pruneWindow() keeps of it is a list of what is recent enough.
LEMMA PrunedListed ==
  ASSUME now \in Nat, NEW s, NEW by, NEW want, NEW at, NEW from \in Int,
         from <= now - Minute, ListedBy(s, by, want, at, from),
         \A x \in DOMAIN at : at[x] # NoTime => at[x] \in Int
  PROVE  \E by2 : /\ ListedBy(Pruned(s), by2, want, at, now - Minute)
                  /\ \A i \in DOMAIN Pruned(s) : Pruned(s)[i].ts >= now - Minute
<1>1. /\ s \in Seq(Sample) /\ by \in [DOMAIN s -> DOMAIN at]
      /\ \A i, j \in DOMAIN s : i <= j => s[i].ts <= s[j].ts
      /\ \A i, j \in DOMAIN s : by[i] = by[j] => i = j
      /\ \A i \in DOMAIN s :
           /\ at[by[i]] # NoTime
           /\ s[i] = [amount |-> want[by[i]].amount, asset |-> want[by[i]].asset, ts |-> at[by[i]]]
      /\ \A x \in DOMAIN at : at[x] # NoTime /\ at[x] >= from => \E i \in DOMAIN s : by[i] = x
  BY DEF ListedBy
<1>2. PICK m \in 1 .. Len(s) + 1 :
        /\ Pruned(s) \in Seq(Sample) /\ Len(Pruned(s)) = Len(s) - m + 1
        /\ \A j \in DOMAIN Pruned(s) : m + j - 1 \in DOMAIN s /\ Pruned(s)[j] = s[m + j - 1]
        /\ \A i \in DOMAIN s : s[i].ts >= now - Minute <=> i >= m
  BY <1>1, PrunedIs
<1>3. PICK q : q = Pruned(s)
  OBVIOUS
<1>4. PICK by2 : by2 = [j \in DOMAIN q |-> by[m + j - 1]]
  OBVIOUS
<1>5. Len(s) \in Nat /\ DOMAIN s = 1 .. Len(s) /\ m \in Nat /\ m >= 1 /\ now - Minute \in Int
      /\ Len(q) \in Nat /\ DOMAIN q = 1 .. Len(q) /\ Len(q) = Len(s) - m + 1
  BY <1>1, <1>2, <1>3, PolicyAssumption
<1>6. \A j \in DOMAIN q : m + j - 1 \in DOMAIN s /\ q[j] = s[m + j - 1] /\ by2[j] = by[m + j - 1]
  BY <1>2, <1>3, <1>4
<1>7. \A j \in DOMAIN q : q[j].ts >= now - Minute
  BY <1>2, <1>5, <1>6
<1>8. ASSUME NEW x \in DOMAIN at, at[x] # NoTime, at[x] >= now - Minute
      PROVE  \E j \in DOMAIN q : by2[j] = x
  <2>1. at[x] \in Int
    BY <1>8
  <2>2. PICK i \in DOMAIN s : by[i] = x
    BY <1>1, <1>5, <1>8, <2>1
  <2>3. s[i].ts = at[x]
    BY <1>1, <2>2
  <2>4. i >= m
    BY <1>2, <1>8, <2>3
  <2>5. i - m + 1 \in DOMAIN q /\ m + (i - m + 1) - 1 = i
    BY <1>5, <2>4
  <2> QED
    BY <1>6, <2>2, <2>5
<1>9. ListedBy(q, by2, want, at, now - Minute)
  <2>1. q \in Seq(Sample)
    BY <1>2, <1>3
  <2>2. by2 \in [DOMAIN q -> DOMAIN at]
    BY <1>1, <1>4, <1>6
  <2>3. \A i, j \in DOMAIN q : by2[i] = by2[j] => i = j
    <3> SUFFICES ASSUME NEW i \in DOMAIN q, NEW j \in DOMAIN q, by2[i] = by2[j] PROVE i = j
      OBVIOUS
    <3>1. m + i - 1 = m + j - 1
      BY <1>1, <1>6
    <3> QED
      BY <1>5, <3>1
  <2>4. \A i, j \in DOMAIN q : i <= j => q[i].ts <= q[j].ts
    <3> SUFFICES ASSUME NEW i \in DOMAIN q, NEW j \in DOMAIN q, i <= j PROVE q[i].ts <= q[j].ts
      OBVIOUS
    <3>1. m + i - 1 <= m + j - 1
      BY <1>5
    <3> QED
      BY <1>1, <1>6, <3>1
  <2>5. \A i \in DOMAIN q :
          /\ at[by2[i]] # NoTime
          /\ q[i] = [amount |-> want[by2[i]].amount, asset |-> want[by2[i]].asset, ts |-> at[by2[i]]]
    BY <1>1, <1>6
  <2> QED
    BY <1>8, <2>1, <2>2, <2>3, <2>4, <2>5 DEF ListedBy
<1> QED
  BY <1>3, <1>7, <1>9

-----------------------------------------------------------------------------
(* The counters, step by step. *)

LEMMA FreshIs ==
  ASSUME CountInv
  PROVE  /\ Today \in Nat /\ lastResetDay <= Today
         /\ FreshDailySpend \in [Asset -> Int]
         /\ \A x \in Booked : DayOf(recordedAt[x]) <= Today
         /\ \A a \in Asset : FreshDailySpend[a] = SumFunctionOnSet(Worth, OnDay(Today) \cap With(a))
<1>1. Today \in Nat
  BY DayBounds DEF CountInv, CallsOK, Today, DayOf
<1>2. /\ lastResetDay \in Nat /\ lastResetDay <= Today
      /\ dailySpend \in [Asset -> Int]
      /\ \A x \in Booked : DayOf(recordedAt[x]) <= lastResetDay
      /\ \A a \in Asset : dailySpend[a] = SumFunctionOnSet(Worth, OnDay(lastResetDay) \cap With(a))
  BY DEF CountInv, DaysMatch
<1>3. \A x \in Booked : DayOf(recordedAt[x]) \in Nat
  BY DayBounds DEF CountInv, CallsOK, Booked
<1>4. CASE Today = lastResetDay
  BY <1>1, <1>2, <1>4 DEF FreshDailySpend
<1>5. CASE Today # lastResetDay
  <2>1. FreshDailySpend = [a \in Asset |-> 0]
    BY <1>5 DEF FreshDailySpend
  <2>2. \A x \in Booked : DayOf(recordedAt[x]) # Today /\ DayOf(recordedAt[x]) <= Today
    BY <1>1, <1>2, <1>3, <1>5
  <2>3. \A a \in Asset : OnDay(Today) \cap With(a) = {}
    BY <2>2 DEF OnDay
  <2>4. \A a \in Asset : SumFunctionOnSet(Worth, OnDay(Today) \cap With(a)) = 0
    BY <2>3, SumEmpty
  <2> QED
    BY <1>1, <1>2, <2>1, <2>2, <2>4
<1> QED
  BY <1>4, <1>5

\* A call goes from one state to another.
LEMMA CallsGo ==
  ASSUME CallsOK, NEW x \in Pay, pc[x] # "done", NEW to \in Pc \ {"idle"}, Go(x, to), now' = now,
         movedAt' = movedAt \/ (to = "paid" /\ movedAt' = [movedAt EXCEPT ![x] = now]),
         x \in moved' => to \in {"paid", "done", "threw"},
         to \in {"paid", "done"} => x \in moved',
         unseen' \in [Pay -> SUBSET Pay],
         to = "done" => recordedAt' = [recordedAt EXCEPT ![x] = now],
         to # "done" => recordedAt' = recordedAt,
         intent' \in [Pay -> Intent \cup {NoIntent}],
         \A y \in Pay : y # x => intent'[y] = intent[y],
         x \in Admitted' => intent'[x] \in Intent /\ intent'[x].amount >= 0
  PROVE  /\ CallsOK'
         /\ Booked' = IF to = "done" THEN Booked \cup {x} ELSE Booked
         /\ movedAt' \in [Pay -> Nat \cup {NoTime}]
         /\ \A y \in Pay : y # x => movedAt'[y] = movedAt[y]
         /\ moved \subseteq moved' /\ moved' \subseteq moved \cup {x}
<1>1. /\ pc' \in [Pay -> Pc] /\ pc'[x] = to
      /\ \A y \in Pay : y # x => pc'[y] = pc[y]
  BY DEF CallsOK, Go
<1>2. Booked' = IF to = "done" THEN Booked \cup {x} ELSE Booked
  BY <1>1 DEF Booked
<1>3. /\ now' \in Nat /\ movedAt' \in [Pay -> Nat \cup {NoTime}]
      /\ \A y \in Pay : y # x => movedAt'[y] = movedAt[y]
  BY DEF CallsOK
<1>10. moved \subseteq moved' /\ moved' \subseteq moved \cup {x}
  <2>1. now # NoTime
    BY ClientAssumption DEF CallsOK
  <2>2. x \in moved => x \in moved'
    <3>1. CASE movedAt' = movedAt
      BY <3>1 DEF moved
    <3>2. CASE movedAt' = [movedAt EXCEPT ![x] = now]
      <4>1. movedAt'[x] = now
        BY <3>2 DEF CallsOK
      <4> QED
        BY <2>1, <4>1 DEF moved
    <3> QED
      BY <3>1, <3>2
  <2> QED
    BY <1>3, <2>2 DEF moved
<1>4. recordedAt' \in [Pay -> Nat \cup {NoTime}]
  BY DEF CallsOK
<1>5. ASSUME NEW y \in Admitted' PROVE intent'[y] \in Intent /\ intent'[y].amount >= 0
  <2>1. CASE y = x
    BY <1>5, <2>1
  <2>2. CASE y # x
    <3>1. y \in Admitted /\ intent'[y] = intent[y]
      BY <1>1, <1>5, <1>10, <2>2 DEF Admitted, Unrecorded, moved
    <3> QED
      BY <3>1 DEF CallsOK
  <2> QED
    BY <2>1, <2>2
<1>6. ASSUME NEW y \in Pay PROVE recordedAt'[y] # NoTime <=> y \in Booked'
  <2>1. CASE to = "done"
    <3>1. now # NoTime
      BY ClientAssumption DEF CallsOK
    <3>2. recordedAt'[y] = IF y = x THEN now ELSE recordedAt[y]
      BY <2>1 DEF CallsOK
    <3>3. recordedAt[y] # NoTime <=> y \in Booked
      BY DEF CallsOK
    <3> QED
      BY <1>2, <2>1, <3>1, <3>2, <3>3
  <2>2. CASE to # "done"
    BY <1>2, <2>2 DEF CallsOK
  <2> QED
    BY <2>1, <2>2
<1>11. ASSUME NEW y \in moved' PROVE pc'[y] \in {"paid", "done", "threw"} /\ movedAt'[y] <= now'
  <2>0. y \in Pay
    BY DEF moved
  <2>1. CASE y # x
    <3>1. y \in moved /\ movedAt'[y] = movedAt[y] /\ pc'[y] = pc[y]
      BY <1>1, <1>3, <1>10, <2>0, <2>1
    <3> QED
      BY <3>1 DEF CallsOK
  <2>2. CASE y = x
    <3>1. CASE movedAt' = movedAt
      BY <1>1, <2>2, <3>1 DEF CallsOK, moved
    <3>2. CASE movedAt' = [movedAt EXCEPT ![x] = now]
      BY <1>1, <2>2, <3>2 DEF CallsOK
    <3> QED
      BY <3>1, <3>2
  <2> QED
    BY <2>1, <2>2
<1>7. ASSUME NEW y \in Booked' PROVE recordedAt'[y] <= now' /\ movedAt'[y] <= recordedAt'[y]
  <2>1. CASE to = "done" /\ y = x
    <3>1. y \in moved' /\ recordedAt'[y] = now
      BY <2>1 DEF CallsOK
    <3>2. movedAt'[y] <= now
      BY <1>11, <3>1
    <3> QED
      BY <3>1, <3>2 DEF CallsOK
  <2>2. CASE ~(to = "done" /\ y = x)
    <3>1. y \in Booked /\ recordedAt'[y] = recordedAt[y] /\ y \in Pay /\ y # x
      BY <1>2, <1>7, <2>2 DEF CallsOK, Booked
    <3> QED
      BY <1>3, <3>1 DEF CallsOK
  <2> QED
    BY <2>1, <2>2
<1>12. \A y \in Pay : pc'[y] \in {"paid", "done"} => y \in moved'
  BY <1>1, <1>10 DEF CallsOK
<1>9. IsFiniteSet({y \in Pay : pc'[y] # "idle"})
  <2>1. PICK F : F = {y \in Pay : pc[y] # "idle"}
    OBVIOUS
  <2>2. IsFiniteSet(F \cup {x})
    BY <2>1, FS_AddElement DEF CallsOK
  <2>3. {y \in Pay : pc'[y] # "idle"} \subseteq F \cup {x}
    BY <1>1, <2>1
  <2> QED
    BY <2>2, <2>3, FS_Subset
<1> QED
  BY <1>1, <1>2, <1>3, <1>4, <1>5, <1>6, <1>7, <1>9, <1>10, <1>11, <1>12 DEF CallsOK

\* While nothing is recorded, the counters stay right: also when the day's is
\* reset and the window pruned.
LEMMA CountersStay ==
  ASSUME CountInv, CallsOK', Booked' = Booked, UNCHANGED <<recordedAt, totalSpend, serviceSpend>>,
         \A y \in Booked : intent'[y] = intent[y], now <= now',
         \/ dailySpend' = dailySpend /\ lastResetDay' = lastResetDay
         \/ dailySpend' = FreshDailySpend /\ lastResetDay' = Today /\ now' = now,
         recent' = recent \/ recent' = Pruned(recent)
  PROVE  CountInv'
<1>ok. CallsOK
  BY DEF CountInv
<1>1. /\ IsFiniteSet(Booked) /\ Booked \subseteq Admitted /\ Booked \subseteq Admitted'
      /\ \A y \in Booked : Worth'[y] = Worth[y]
  <2>1. Booked \subseteq Admitted' /\ Booked \subseteq Admitted
    <3>1. Booked' \subseteq Admitted'
      BY DEF Booked, Admitted
    <3> QED
      BY <3>1 DEF Booked, Admitted
  <2>2. \A y \in Booked : Worth'[y] = intent'[y].amount /\ Worth[y] = intent[y].amount
    BY <2>1 DEF Worth
  <2>3. IsFiniteSet(Booked)
    BY <1>ok, Sizes, FS_Subset
  <2> QED
    BY <2>1, <2>2, <2>3
<1>2. ASSUME NEW a PROVE Booked \cap With(a)' = Booked \cap With(a)
  BY <1>1 DEF With
<1>3. ASSUME NEW p PROVE Booked \cap To(p)' = Booked \cap To(p)
  BY <1>1 DEF To
<1>4. ASSUME NEW S \in SUBSET Booked
      PROVE  SumFunctionOnSet(Worth', S) = SumFunctionOnSet(Worth, S)
  <2>1. IsFiniteSet(S)
    BY <1>1, FS_Subset
  <2>2. PICK v, w : v = Worth' /\ w = Worth
    OBVIOUS
  <2>3. \A y \in S : v[y] = w[y]
    BY <1>1, <2>2
  <2> QED
    BY <2>1, <2>2, <2>3, SumSame
<1>5. TotalsMatch'
  <2>1. \A a \in Asset : totalSpend[a] = SumFunctionOnSet(Worth, Booked \cap With(a))
    BY DEF CountInv, TotalsMatch
  <2>2. \A a \in Asset : totalSpend'[a] = SumFunctionOnSet(Worth', Booked' \cap With(a)')
    BY <1>2, <1>4, <2>1
  <2>3. \A p \in Payee, a \in Asset :
          serviceSpend[<<p, a>>] = SumFunctionOnSet(Worth, Booked \cap With(a) \cap To(p))
    BY DEF CountInv, TotalsMatch
  <2>4. ASSUME NEW p \in Payee, NEW a \in Asset
        PROVE  serviceSpend'[<<p, a>>] = SumFunctionOnSet(Worth', Booked' \cap With(a)' \cap To(p)')
    <3>1. PICK S : S = Booked \cap With(a) \cap To(p)
      OBVIOUS
    <3>2. Booked' \cap With(a)' \cap To(p)' = S
      BY <1>2, <1>3, <3>1
    <3>3. S \in SUBSET Booked
      BY <3>1
    <3> QED
      BY <1>4, <2>3, <3>1, <3>2, <3>3
  <2>5. totalSpend' \in [Asset -> Int] /\ serviceSpend' \in [Payee \X Asset -> Int]
    BY DEF CountInv, TotalsMatch
  <2> QED
    BY <2>2, <2>4, <2>5 DEF TotalsMatch
<1>6. DaysMatch'
  <2>0. now \in Nat /\ now' \in Nat /\ Today <= Today' /\ Today' \in Nat /\ Today \in Nat
    <3>1. now \in Nat /\ now' \in Nat
      BY <1>ok DEF CallsOK
    <3>2. PICK t, u : t = now /\ u = now'
      OBVIOUS
    <3>3. t \div Day <= u \div Day /\ t \div Day \in Nat /\ u \div Day \in Nat
      BY <3>1, <3>2, DaysPass, DayBounds DEF DayOf
    <3> QED
      BY <3>1, <3>2, <3>3 DEF Today
  <2>1. ASSUME NEW d PROVE OnDay(d)' = OnDay(d) /\ OnDay(d) \in SUBSET Booked
    BY DEF OnDay
  <2>2. ASSUME NEW d, NEW a
        PROVE  SumFunctionOnSet(Worth', OnDay(d)' \cap With(a)') = SumFunctionOnSet(Worth, OnDay(d) \cap With(a))
    <3>1. PICK S : S = OnDay(d) \cap With(a)
      OBVIOUS
    <3>2. OnDay(d)' \cap With(a)' = S /\ S \in SUBSET Booked
      BY <1>2, <2>1, <3>1
    <3> QED
      BY <1>4, <3>1, <3>2
  <2>3. CASE dailySpend' = dailySpend /\ lastResetDay' = lastResetDay
    <3>1. /\ lastResetDay \in Nat /\ lastResetDay <= Today
          /\ dailySpend \in [Asset -> Int]
          /\ \A x \in Booked : DayOf(recordedAt[x]) <= lastResetDay
          /\ \A a \in Asset : dailySpend[a] = SumFunctionOnSet(Worth, OnDay(lastResetDay) \cap With(a))
      BY DEF CountInv, DaysMatch
    <3>2. PICK d : d = lastResetDay
      OBVIOUS
    <3>3. \A a \in Asset : dailySpend'[a] = SumFunctionOnSet(Worth', OnDay(d)' \cap With(a)')
      BY <2>2, <2>3, <3>1, <3>2
    <3>4. OnDay(lastResetDay)' = OnDay(d)'
      BY <2>3, <3>2 DEF OnDay
    <3>5. lastResetDay' \in Nat /\ lastResetDay' <= Today'
      BY <2>0, <2>3, <3>1
    <3>6. \A x \in Booked' : DayOf(recordedAt'[x]) <= lastResetDay'
      BY <2>3, <3>1
    <3> QED
      BY <2>3, <3>1, <3>3, <3>4, <3>5, <3>6 DEF DaysMatch, DayOf
  <2>4. CASE dailySpend' = FreshDailySpend /\ lastResetDay' = Today /\ now' = now
    <3>1. PICK d, f : d = Today /\ f = FreshDailySpend
      OBVIOUS
    <3>2. /\ d \in Nat /\ f \in [Asset -> Int]
          /\ \A x \in Booked : DayOf(recordedAt[x]) <= d
          /\ \A a \in Asset : f[a] = SumFunctionOnSet(Worth, OnDay(d) \cap With(a))
      BY <3>1, FreshIs
    <3>3. \A a \in Asset : dailySpend'[a] = SumFunctionOnSet(Worth', OnDay(d)' \cap With(a)')
      BY <2>2, <2>4, <3>1, <3>2
    <3>4. OnDay(lastResetDay)' = OnDay(d)'
      BY <2>4, <3>1 DEF OnDay
    <3>5. lastResetDay' \in Nat /\ lastResetDay' <= Today'
      BY <2>0, <2>4
    <3>6. \A x \in Booked' : DayOf(recordedAt'[x]) <= lastResetDay'
      BY <2>4, <3>1, <3>2
    <3> QED
      BY <2>4, <3>1, <3>2, <3>3, <3>4, <3>5, <3>6 DEF DaysMatch, DayOf
  <2> QED
    BY <2>3, <2>4
<1>7. WindowMatches'
  <2>1. PICK by \in [DOMAIN recent -> Pay] : ListedBy(recent, by, intent, recordedAt, now - Minute)
    BY DEF CountInv, WindowMatches
  <2>2. /\ now \in Nat /\ now' \in Nat /\ now - Minute \in Int /\ now' - Minute \in Int
        /\ now - Minute <= now' - Minute /\ DOMAIN recordedAt = Pay
        /\ \A x \in Pay : recordedAt[x] # NoTime => recordedAt[x] \in Int /\ x \in Booked
    <3>1. now \in Nat /\ now' \in Nat /\ Minute \in Nat
      BY <1>ok, PolicyAssumption DEF CallsOK
    <3>2. \A t, u \in Nat : t <= u => t - Minute \in Int /\ u - Minute \in Int /\ t - Minute <= u - Minute
      BY <3>1
    <3>3. now <= now'
      OBVIOUS
    <3>4. now - Minute \in Int /\ now' - Minute \in Int /\ now - Minute <= now' - Minute
      BY <3>1, <3>2, <3>3
    <3>5. recordedAt \in [Pay -> Nat \cup {NoTime}] /\ \A x \in Pay : recordedAt[x] # NoTime => x \in Booked
      BY <1>ok DEF CallsOK
    <3>6. \A x \in Pay : recordedAt[x] # NoTime => recordedAt[x] \in Int
      BY <3>5
    <3> QED
      BY <3>1, <3>4, <3>5, <3>6
  <2>3. PICK s2, by2 : s2 = recent' /\ ListedBy(s2, by2, intent, recordedAt, now - Minute)
    <3>1. CASE recent' = recent
      BY <2>1, <3>1
    <3>2. CASE recent' = Pruned(recent)
      <4>1. PICK by2 : ListedBy(Pruned(recent), by2, intent, recordedAt, now - Minute)
        BY <2>1, <2>2, PrunedListed
      <4> QED
        BY <3>2, <4>1
    <3> QED
      BY <3>1, <3>2
  <2>4. PICK want2, at, from2 : want2 = intent' /\ at = recordedAt' /\ from2 = now' - Minute
    OBVIOUS
  <2>5. \A x \in DOMAIN at : at[x] # NoTime => at[x] \in Int /\ want2[x] = intent[x]
    BY <2>2, <2>4
  <2>6. ListedBy(s2, by2, want2, at, from2)
    <3>1. at = recordedAt
      BY <2>4
    <3> QED
      BY <2>2, <2>3, <2>4, <2>5, <3>1, ListedStays
  <2>7. by2 \in [DOMAIN s2 -> Pay]
    BY <2>2, <2>3 DEF ListedBy
  <2> QED
    BY <2>3, <2>4, <2>6, <2>7 DEF WindowMatches
<1> QED
  BY <1>5, <1>6, <1>7 DEF CountInv

\* What a sum over some of the calls becomes when one more is recorded.
LEMMA SumJoins ==
  ASSUME NEW B, IsFiniteSet(B), NEW f, \A y \in B : f[y] \in Int, NEW x, x \notin B, f[x] \in Int, NEW K
  PROVE  SumFunctionOnSet(f, (B \cup {x}) \cap K) =
           IF x \in K THEN SumFunctionOnSet(f, B \cap K) + f[x] ELSE SumFunctionOnSet(f, B \cap K)
<1>1. PICK S : S = B \cap K
  OBVIOUS
<1>2. IsFiniteSet(S) /\ x \notin S /\ \A y \in S : f[y] \in Int
  BY <1>1, FS_Subset
<1>3. CASE x \in K
  <2>1. (B \cup {x}) \cap K = S \cup {x}
    BY <1>1, <1>3
  <2>2. SumFunctionOnSet(f, S \cup {x}) = f[x] + SumFunctionOnSet(f, S)
    BY <1>2, SumAdd
  <2>3. SumFunctionOnSet(f, S) \in Int
    BY <1>2, SumType
  <2>4. PICK a, b : a = SumFunctionOnSet(f, S \cup {x}) /\ b = SumFunctionOnSet(f, S)
    OBVIOUS
  <2>5. a = b + f[x]
    BY <2>2, <2>3, <2>4
  <2>6. SumFunctionOnSet(f, (B \cup {x}) \cap K) = a /\ SumFunctionOnSet(f, B \cap K) = b
    BY <1>1, <2>1, <2>4
  <2> QED
    BY <1>3, <2>5, <2>6
<1>4. CASE x \notin K
  <2>1. (B \cup {x}) \cap K = S
    BY <1>1, <1>4
  <2> QED
    BY <1>1, <1>4, <2>1
<1> QED
  BY <1>3, <1>4

\* The list of samples with the one record() adds.
LEMMA AppendListed ==
  ASSUME NEW s, NEW by, NEW want, NEW at, NEW from \in Int, ListedBy(s, by, want, at, from),
         NEW x \in DOMAIN at, at[x] = NoTime, NEW t \in Int,
         want[x].amount \in Int, want[x].asset \in Asset,
         \A y \in DOMAIN at : at[y] # NoTime => at[y] \in Int /\ at[y] <= t
  PROVE  \E by2 : ListedBy(Append(s, [amount |-> want[x].amount, asset |-> want[x].asset, ts |-> t]),
                           by2, want, [at EXCEPT ![x] = t], from)
<1>1. /\ s \in Seq(Sample) /\ by \in [DOMAIN s -> DOMAIN at]
      /\ \A i, j \in DOMAIN s : i <= j => s[i].ts <= s[j].ts
      /\ \A i, j \in DOMAIN s : by[i] = by[j] => i = j
      /\ \A i \in DOMAIN s :
           /\ at[by[i]] # NoTime
           /\ s[i] = [amount |-> want[by[i]].amount, asset |-> want[by[i]].asset, ts |-> at[by[i]]]
      /\ \A y \in DOMAIN at : at[y] # NoTime /\ at[y] >= from => \E i \in DOMAIN s : by[i] = y
  BY DEF ListedBy
<1>2. PICK e : e = [amount |-> want[x].amount, asset |-> want[x].asset, ts |-> t]
  OBVIOUS
<1>3. PICK q : q = Append(s, e)
  OBVIOUS
<1>4. PICK at2 : at2 = [at EXCEPT ![x] = t]
  OBVIOUS
<1>5. PICK by2 : by2 = [i \in DOMAIN q |-> IF i \in DOMAIN s THEN by[i] ELSE x]
  OBVIOUS
<1>6. e \in Sample /\ e.ts = t
  BY <1>2 DEF Sample
<1>7. Len(s) \in Nat /\ DOMAIN s = 1 .. Len(s)
  BY <1>1
<1>8. /\ q \in Seq(Sample) /\ DOMAIN q = 1 .. (Len(s) + 1) /\ q[Len(s) + 1] = e
      /\ \A i \in DOMAIN s : q[i] = s[i]
  BY <1>1, <1>3, <1>6, <1>7
<1>9. /\ \A i \in DOMAIN s : i \in DOMAIN q /\ by2[i] = by[i] /\ q[i] = s[i] /\ at2[by[i]] = at[by[i]]
      /\ \A i \in DOMAIN s : by[i] # x /\ at[by[i]] \in Int /\ at[by[i]] <= t /\ s[i].ts = at[by[i]]
      /\ Len(s) + 1 \in DOMAIN q /\ by2[Len(s) + 1] = x /\ at2[x] = t
      /\ \A i \in DOMAIN q : i \in DOMAIN s \/ i = Len(s) + 1
  <2>1. \A i \in DOMAIN s : by[i] \in DOMAIN at /\ at[by[i]] # NoTime
    BY <1>1
  <2>2. \A i \in DOMAIN s : by[i] # x /\ at[by[i]] \in Int /\ at[by[i]] <= t
    BY <2>1
  <2>3. \A i \in DOMAIN s : s[i].ts = at[by[i]]
    BY <1>1
  <2>4. \A i \in DOMAIN s : i \in DOMAIN q /\ by2[i] = by[i]
    BY <1>5, <1>7, <1>8
  <2>5. \A i \in DOMAIN s : at2[by[i]] = at[by[i]]
    BY <1>4, <2>1, <2>2
  <2>6. Len(s) + 1 \in DOMAIN q /\ Len(s) + 1 \notin DOMAIN s
    BY <1>7, <1>8
  <2> QED
    BY <1>4, <1>5, <1>7, <1>8, <2>2, <2>3, <2>4, <2>5, <2>6
<1>10. by2 \in [DOMAIN q -> DOMAIN at2]
  BY <1>1, <1>4, <1>5
<1>11. \A i, j \in DOMAIN q : by2[i] = by2[j] => i = j
  BY <1>1, <1>9
<1>12. \A i, j \in DOMAIN q : i <= j => q[i].ts <= q[j].ts
  <2> SUFFICES ASSUME NEW i \in DOMAIN q, NEW j \in DOMAIN q, i <= j PROVE q[i].ts <= q[j].ts
    OBVIOUS
  <2>1. CASE j \in DOMAIN s
    <3>1. i \in DOMAIN s
      BY <1>7, <1>8, <2>1
    <3> QED
      BY <1>1, <1>9, <2>1, <3>1
  <2>2. CASE j = Len(s) + 1
    BY <1>6, <1>8, <1>9, <2>2
  <2> QED
    BY <1>9, <2>1, <2>2
<1>13. ASSUME NEW i \in DOMAIN q
       PROVE  /\ at2[by2[i]] # NoTime
              /\ q[i] = [amount |-> want[by2[i]].amount, asset |-> want[by2[i]].asset, ts |-> at2[by2[i]]]
  <2>1. CASE i \in DOMAIN s
    BY <1>1, <1>9, <2>1
  <2>2. CASE i = Len(s) + 1
    BY <1>2, <1>8, <1>9, <2>2, ClientAssumption
  <2> QED
    BY <1>9, <2>1, <2>2
<1>14. ASSUME NEW y \in DOMAIN at2, at2[y] # NoTime, at2[y] >= from
       PROVE  \E i \in DOMAIN q : by2[i] = y
  <2>1. CASE y = x
    BY <1>9, <2>1
  <2>2. CASE y # x
    <3>1. y \in DOMAIN at /\ at2[y] = at[y]
      BY <1>4, <2>2
    <3> QED
      BY <1>1, <1>9, <1>14, <3>1
  <2> QED
    BY <2>1, <2>2
<1>15. ListedBy(q, by2, want, at2, from)
  BY <1>8, <1>10, <1>11, <1>12, <1>13, <1>14 DEF ListedBy
<1> QED
  BY <1>2, <1>3, <1>4, <1>15

\* record() brings every counter up to date with the payment.
LEMMA CountersRecorded ==
  ASSUME CountInv, NEW x \in Pay, ReceiptRecorded(x)
  PROVE  /\ CountInv'
         /\ Booked' = Booked \cup {x} /\ Admitted' = Admitted /\ x \in Admitted
         /\ x \notin Booked /\ Worth' = Worth
<1>ok. CallsOK
  BY DEF CountInv
<1>1. /\ pc[x] = "paid" /\ Go(x, "done")
      /\ UNCHANGED <<now, intent, movedAt, unseen>> /\ moved' = moved
      /\ recordedAt' = [recordedAt EXCEPT ![x] = now]
      /\ Record(intent[x])
  BY DEF ReceiptRecorded, moved
<1>2. x \in Admitted /\ x \notin Booked /\ pc \in [Pay -> Pc]
  BY <1>1, <1>ok DEF Admitted, Booked, CallsOK
<1>3. PICK i : i = intent[x]
  OBVIOUS
<1>4. i \in Intent /\ i.amount >= 0
  BY <1>2, <1>3, <1>ok DEF CallsOK
<1>5. i.payee \in Payee /\ i.asset \in Asset /\ i.amount \in Int
  BY <1>4 DEF Intent
<1>6. CallsOK' /\ Booked' = Booked \cup {x}
  <2>1. pc[x] # "done" /\ "done" \in Pc \ {"idle"} /\ now' = now
    BY <1>1 DEF Pc
  <2>2. x \in moved' /\ unseen' \in [Pay -> SUBSET Pay] /\ intent' \in [Pay -> Intent \cup {NoIntent}]
    BY <1>1, <1>ok DEF CallsOK
  <2>3. intent'[x] \in Intent /\ intent'[x].amount >= 0 /\ \A y \in Pay : intent'[y] = intent[y]
    BY <1>1, <1>3, <1>4
  <2> QED
    BY <1>1, <1>ok, <2>1, <2>2, <2>3, CallsGo
<1>7. Admitted' = Admitted
  <2>1. \A y \in Pay : pc'[y] = IF y = x THEN "done" ELSE pc[y]
    BY <1>1, <1>2 DEF Go
  <2>2. \A y \in moved : y \in Pay
    BY DEF moved
  <2>3. Unrecorded' = Unrecorded
    BY <1>1, <2>1, <2>2 DEF Unrecorded
  <2> QED
    BY <1>1, <2>1, <2>3 DEF Admitted
<1>8. Worth' = Worth /\ \A a : With(a)' = With(a) /\ \A p : To(p)' = To(p)
  BY <1>1, <1>7 DEF Worth, With, To
<1>9. /\ IsFiniteSet(Booked) /\ x \notin Booked /\ Worth[x] \in Int /\ Worth[x] = i.amount
      /\ \A y \in Booked : Worth[y] \in Int
  <2>1. IsFiniteSet(Booked) /\ Booked \subseteq Admitted
    BY <1>ok, Sizes, FS_Subset
  <2>2. \A y \in Admitted : Worth[y] \in Int /\ Worth[y] = intent[y].amount
    BY <1>ok, Sizes
  <2> QED
    BY <1>2, <1>3, <2>1, <2>2
<1>10. \A a : x \in With(a) <=> i.asset = a
  BY <1>2, <1>3 DEF With
<1>11. \A p : x \in To(p) <=> i.payee = p
  BY <1>2, <1>3 DEF To
<1>12. TotalsMatch'
  <2>1. /\ totalSpend \in [Asset -> Int] /\ serviceSpend \in [Payee \X Asset -> Int]
        /\ \A a \in Asset : totalSpend[a] = SumFunctionOnSet(Worth, Booked \cap With(a))
        /\ \A p \in Payee, a \in Asset :
             serviceSpend[<<p, a>>] = SumFunctionOnSet(Worth, Booked \cap With(a) \cap To(p))
    BY DEF CountInv, TotalsMatch
  <2>2. /\ totalSpend' = [totalSpend EXCEPT ![i.asset] = @ + i.amount]
        /\ serviceSpend' = [serviceSpend EXCEPT ![<<i.payee, i.asset>>] = @ + i.amount]
    BY <1>1, <1>3 DEF Record
  <2>3. totalSpend' \in [Asset -> Int] /\ serviceSpend' \in [Payee \X Asset -> Int]
    BY <1>5, <2>1, <2>2
  <2>4. ASSUME NEW a \in Asset
        PROVE  totalSpend'[a] = SumFunctionOnSet(Worth', Booked' \cap With(a)')
    <3>1. PICK K : K = With(a)
      OBVIOUS
    <3>2. SumFunctionOnSet(Worth, (Booked \cup {x}) \cap K) =
            IF x \in K THEN SumFunctionOnSet(Worth, Booked \cap K) + Worth[x]
                       ELSE SumFunctionOnSet(Worth, Booked \cap K)
      BY <1>9, SumJoins
    <3>3. totalSpend'[a] = IF a = i.asset THEN totalSpend[a] + i.amount ELSE totalSpend[a]
      BY <1>5, <2>1, <2>2
    <3>4. totalSpend'[a] = SumFunctionOnSet(Worth, (Booked \cup {x}) \cap K)
      BY <1>9, <1>10, <2>1, <3>1, <3>2, <3>3
    <3> QED
      BY <1>6, <1>8, <3>1, <3>4
  <2>5. ASSUME NEW p \in Payee, NEW a \in Asset
        PROVE  serviceSpend'[<<p, a>>] = SumFunctionOnSet(Worth', Booked' \cap With(a)' \cap To(p)')
    <3>1. PICK K : K = With(a) \cap To(p)
      OBVIOUS
    <3>2. SumFunctionOnSet(Worth, (Booked \cup {x}) \cap K) =
            IF x \in K THEN SumFunctionOnSet(Worth, Booked \cap K) + Worth[x]
                       ELSE SumFunctionOnSet(Worth, Booked \cap K)
      BY <1>9, SumJoins
    <3>3. serviceSpend'[<<p, a>>] =
            IF p = i.payee /\ a = i.asset THEN serviceSpend[<<p, a>>] + i.amount ELSE serviceSpend[<<p, a>>]
      BY <1>5, <2>1, <2>2
    <3>4. x \in K <=> p = i.payee /\ a = i.asset
      BY <1>10, <1>11, <3>1
    <3>5. Booked \cap With(a) \cap To(p) = Booked \cap K
      BY <3>1
    <3>6. serviceSpend'[<<p, a>>] = SumFunctionOnSet(Worth, (Booked \cup {x}) \cap K)
      BY <1>9, <2>1, <3>2, <3>3, <3>4, <3>5
    <3>7. Booked' \cap With(a)' \cap To(p)' = (Booked \cup {x}) \cap K
      BY <1>6, <1>8, <3>1
    <3> QED
      BY <1>8, <3>6, <3>7
  <2> QED
    BY <2>3, <2>4, <2>5 DEF TotalsMatch
<1>13. DaysMatch'
  <2>1. PICK d, f : d = Today /\ f = FreshDailySpend
    OBVIOUS
  <2>2. /\ d \in Nat /\ f \in [Asset -> Int]
        /\ \A y \in Booked : DayOf(recordedAt[y]) <= d
        /\ \A a \in Asset : f[a] = SumFunctionOnSet(Worth, OnDay(d) \cap With(a))
    BY <2>1, FreshIs
  <2>3. lastResetDay' = d /\ Today' = d /\ dailySpend' = [f EXCEPT ![i.asset] = @ + i.amount]
    BY <1>1, <1>3, <2>1 DEF Record, Today
  <2>4. /\ recordedAt'[x] = now /\ DayOf(now) = d
        /\ \A y \in Booked : recordedAt'[y] = recordedAt[y]
    BY <1>1, <1>2, <1>ok, <2>1 DEF CallsOK, DayOf, Today, Booked
  <2>5. \A y \in Booked' : DayOf(recordedAt'[y]) <= d
    BY <1>6, <2>2, <2>4
  <2>6. PICK B : B = OnDay(d)
    OBVIOUS
  <2>7. /\ IsFiniteSet(B) /\ x \notin B /\ \A y \in B : Worth[y] \in Int
        /\ OnDay(d)' = B \cup {x}
    <3>1. B \subseteq Booked
      BY <2>6 DEF OnDay
    <3>2. OnDay(d)' = B \cup {x}
      BY <1>6, <2>4, <2>6 DEF OnDay, DayOf
    <3> QED
      BY <1>9, <3>1, <3>2, FS_Subset
  <2>8. ASSUME NEW a \in Asset
        PROVE  dailySpend'[a] = SumFunctionOnSet(Worth', OnDay(d)' \cap With(a)')
    <3>1. PICK K : K = With(a)
      OBVIOUS
    <3>2. SumFunctionOnSet(Worth, (B \cup {x}) \cap K) =
            IF x \in K THEN SumFunctionOnSet(Worth, B \cap K) + Worth[x]
                       ELSE SumFunctionOnSet(Worth, B \cap K)
      BY <1>9, <2>7, SumJoins
    <3>3. dailySpend'[a] = IF a = i.asset THEN f[a] + i.amount ELSE f[a]
      BY <1>5, <2>2, <2>3
    <3>4. f[a] = SumFunctionOnSet(Worth, B \cap K)
      BY <2>2, <2>6, <3>1
    <3>5. dailySpend'[a] = SumFunctionOnSet(Worth, (B \cup {x}) \cap K)
      BY <1>9, <1>10, <3>1, <3>2, <3>3, <3>4
    <3> QED
      BY <1>8, <2>7, <3>1, <3>5
  <2>9. dailySpend' \in [Asset -> Int]
    BY <1>5, <2>2, <2>3
  <2>10. OnDay(lastResetDay)' = OnDay(d)'
    BY <2>3 DEF OnDay
  <2> QED
    BY <2>2, <2>3, <2>5, <2>8, <2>9, <2>10 DEF DaysMatch, DayOf
<1>14. WindowMatches'
  <2>1. PICK by \in [DOMAIN recent -> Pay] : ListedBy(recent, by, intent, recordedAt, now - Minute)
    BY DEF CountInv, WindowMatches
  <2>2. PICK from, t, at : from = now - Minute /\ t = now /\ at = recordedAt
    OBVIOUS
  <2>3. /\ from \in Int /\ t \in Int /\ DOMAIN at = Pay /\ at[x] = NoTime
        /\ \A y \in Pay : at[y] # NoTime => at[y] \in Int /\ at[y] <= t
    BY <1>2, <1>ok, <2>2, PolicyAssumption DEF CallsOK
  <2>4. PICK q : q = Append(recent, [amount |-> i.amount, asset |-> i.asset, ts |-> t])
    OBVIOUS
  <2>5. PICK at2 : at2 = [at EXCEPT ![x] = t]
    OBVIOUS
  <2>6. PICK by2 : ListedBy(q, by2, intent, at2, from)
    <3>1. intent[x].amount \in Int /\ intent[x].asset \in Asset
      BY <1>3, <1>5
    <3>2. ListedBy(recent, by, intent, at, from)
      BY <2>1, <2>2
    <3>3. \E b : ListedBy(Append(recent, [amount |-> intent[x].amount, asset |-> intent[x].asset, ts |-> t]),
                          b, intent, [at EXCEPT ![x] = t], from)
      BY <2>3, <3>1, <3>2, AppendListed
    <3> QED
      BY <1>3, <2>4, <2>5, <3>3
  <2>7. \A y \in DOMAIN at2 : at2[y] # NoTime => at2[y] \in Int
    BY <2>3, <2>5
  <2>8. PICK by3 : ListedBy(Pruned(q), by3, intent, at2, now - Minute)
    <3>1. now \in Nat /\ from <= now - Minute
      BY <1>ok, <2>2, <2>3 DEF CallsOK
    <3> QED
      BY <2>3, <2>6, <2>7, <3>1, PrunedListed
  <2>9. PICK s : s = Pruned(q)
    OBVIOUS
  <2>10. recent' = s /\ recordedAt' = at2 /\ (now - Minute)' = from
    BY <1>1, <1>3, <2>2, <2>4, <2>5, <2>9 DEF Record
  <2>11. ListedBy(s, by3, intent, at2, from) /\ by3 \in [DOMAIN s -> Pay]
    <3>1. DOMAIN at2 = Pay
      BY <2>3, <2>5
    <3> QED
      BY <2>2, <2>8, <2>9, <3>1 DEF ListedBy
  <2>12. PICK want : want = intent
    OBVIOUS
  <2>13. intent' = want
    BY <1>1, <2>12
  <2> QED
    BY <2>10, <2>11, <2>12, <2>13 DEF WindowMatches
<1> QED
  BY <1>2, <1>6, <1>7, <1>8, <1>12, <1>13, <1>14 DEF CountInv

\* What a call does to the counters when it records nothing.
LEMMA CallCounts ==
  ASSUME CountInv, NEW x \in Pay,
         DecideFails(x) \/ CheckPolicy(x) \/ Settle(x) \/ ReceiptFails(x)
  PROVE  /\ CountInv' /\ Booked' = Booked /\ pc[x] # "done"
         /\ now' = now /\ recordedAt' = recordedAt
         /\ \A y \in Pay : y # x => /\ pc'[y] = pc[y] /\ intent'[y] = intent[y]
                                    /\ unseen'[y] = unseen[y] /\ movedAt'[y] = movedAt[y]
         /\ moved \subseteq moved' /\ moved' \subseteq moved \cup {x}
         /\ \A y \in moved' \ moved : movedAt'[y] = now
<1>ok. CallsOK
  BY DEF CountInv
<1>typ. pc \in [Pay -> Pc] /\ unseen \in [Pay -> SUBSET Pay] /\ intent \in [Pay -> Intent \cup {NoIntent}]
  BY <1>ok DEF CallsOK
<1>go. \A to : Go(x, to) => \A y \in Pay : y # x => pc'[y] = pc[y]
  BY <1>typ DEF Go
<1>1. ASSUME UNCHANGED <<now, engineVars, intent, recordedAt, unseen>>, pc[x] # "done",
             NEW to \in {"threw", "paid"}, Go(x, to),
             to = "paid" => pc[x] = "settling" /\ movedAt' = [movedAt EXCEPT ![x] = now],
             to = "threw" => movedAt' = movedAt
      PROVE  /\ CountInv' /\ Booked' = Booked
             /\ \A y \in Pay : y # x => movedAt'[y] = movedAt[y]
             /\ moved \subseteq moved' /\ moved' \subseteq moved \cup {x}
             /\ \A y \in moved' \ moved : movedAt'[y] = now
  <2>1. to \in Pc \ {"idle"} /\ to # "done"
    BY DEF Pc
  <2>2. to = "paid" => movedAt'[x] = now /\ x \in moved'
    <3>1. to = "paid" => movedAt'[x] = now
      BY <1>1, <1>ok DEF CallsOK
    <3>2. now # NoTime
      BY <1>ok, ClientAssumption DEF CallsOK
    <3> QED
      BY <3>1, <3>2 DEF moved
  <2>3. x \in Admitted' => intent'[x] \in Intent /\ intent'[x].amount >= 0
    <3>1. x \in Admitted' => x \in Admitted
      <4>1. CASE to = "paid"
        BY <1>1, <4>1 DEF Admitted
      <4>2. CASE to = "threw"
        <5>1. pc'[x] = "threw" /\ moved' = moved
          BY <1>1, <1>typ, <4>2 DEF Go, moved
        <5>2. x \in Admitted' => x \in moved
          BY <5>1 DEF Admitted, Unrecorded
        <5>3. x \in moved => pc[x] \in {"paid", "done", "threw"}
          BY <1>ok DEF CallsOK
        <5> QED
          BY <5>2, <5>3 DEF Admitted, Unrecorded
      <4> QED
        BY <4>1, <4>2
    <3> QED
      BY <1>1, <1>ok, <3>1 DEF CallsOK
  <2>4. /\ CallsOK' /\ Booked' = Booked
        /\ \A y \in Pay : y # x => movedAt'[y] = movedAt[y]
        /\ moved \subseteq moved' /\ moved' \subseteq moved \cup {x}
    BY <1>1, <1>ok, <1>typ, <2>1, <2>2, <2>3, CallsGo
  <2>7. \A y \in moved' \ moved : movedAt'[y] = now
    <3>1. to = "threw" => moved' = moved
      BY <1>1 DEF moved
    <3> QED
      BY <2>2, <2>4, <3>1
  <2>5. UNCHANGED <<totalSpend, serviceSpend, dailySpend, lastResetDay, recent>>
    BY <1>1 DEF engineVars, spendVars
  <2>6. now <= now'
    BY <1>1, <1>ok DEF CallsOK
  <2>8. CountInv'
    BY <1>1, <2>4, <2>5, <2>6, CountersStay
  <2> QED
    BY <2>4, <2>7, <2>8
<1>2. CASE DecideFails(x)
  <2>1. UNCHANGED <<now, engineVars, intent, recordedAt, unseen>> /\ movedAt' = movedAt /\ Go(x, "threw") /\ pc[x] = "idle"
    BY <1>2 DEF DecideFails, Begins
  <2> QED
    BY <1>1, <1>go, <2>1
<1>3. CASE Settle(x)
  <2>1. UNCHANGED <<now, engineVars, intent, recordedAt, unseen>> /\ pc[x] = "settling"
        /\ \/ movedAt' = [movedAt EXCEPT ![x] = now] /\ Go(x, "paid")
           \/ movedAt' = movedAt /\ Go(x, "threw")
    BY <1>3 DEF Settle
  <2> QED
    BY <1>1, <1>go, <2>1
<1>4. CASE ReceiptFails(x)
  <2>1. UNCHANGED <<now, engineVars, intent, recordedAt, unseen>> /\ movedAt' = movedAt /\ Go(x, "threw") /\ pc[x] = "paid"
    BY <1>4 DEF ReceiptFails
  <2> QED
    BY <1>1, <1>go, <2>1
<1>5. CASE CheckPolicy(x)
  <2>1. PICK i \in [payee : Payee, asset : Asset, amount : Amounts, model : DecidedModels \cap Model] :
          /\ Check(i)
          /\ \/ Go(x, "threw") /\ UNCHANGED <<intent, unseen>>
             \/ Go(x, "blocked") /\ UNCHANGED <<intent, unseen>>
             \/ /\ Parses(i) /\ Go(x, "settling")
                /\ intent' = [intent EXCEPT ![x] = i]
                /\ unseen' = [unseen EXCEPT ![x] = InFlight \cup Unrecorded]
    BY <1>5 DEF CheckPolicy
  <2>2. pc[x] = "idle" /\ UNCHANGED <<now, movedAt, recordedAt>> /\ moved' = moved
    BY <1>5 DEF CheckPolicy, Begins, moved
  <2>3. i \in Intent
    BY ClientAssumption DEF Intent
  <2>4. InFlight \cup Unrecorded \subseteq Pay
    BY DEF InFlight, Unrecorded, moved
  <2>5. PICK to \in {"threw", "blocked", "settling"} :
          /\ Go(x, to) /\ intent' \in [Pay -> Intent \cup {NoIntent}] /\ unseen' \in [Pay -> SUBSET Pay]
          /\ \A y \in Pay : y # x => intent'[y] = intent[y] /\ unseen'[y] = unseen[y]
          /\ to = "settling" => intent'[x] \in Intent /\ intent'[x].amount >= 0
    <3>1. CASE (Go(x, "blocked") \/ Go(x, "threw")) /\ UNCHANGED <<intent, unseen>>
      BY <1>typ, <3>1
    <3>2. CASE /\ Parses(i) /\ Go(x, "settling")
               /\ intent' = [intent EXCEPT ![x] = i]
               /\ unseen' = [unseen EXCEPT ![x] = InFlight \cup Unrecorded]
      <4>1. i.amount >= 0
        BY <3>2 DEF Parses
      <4>2. /\ intent' \in [Pay -> Intent \cup {NoIntent}] /\ intent'[x] = i
            /\ \A y \in Pay : y # x => intent'[y] = intent[y]
        BY <1>typ, <2>3, <3>2
      <4>3. unseen' \in [Pay -> SUBSET Pay] /\ \A y \in Pay : y # x => unseen'[y] = unseen[y]
        BY <1>typ, <2>4, <3>2
      <4> QED
        BY <2>3, <3>2, <4>1, <4>2, <4>3
    <3> QED
      BY <2>1, <3>1, <3>2
  <2>6. to \in Pc \ {"idle"} /\ to # "done" /\ x \notin moved /\ x \notin Booked
    BY <1>ok, <2>2 DEF CallsOK, Pc, Booked
  <2>11. x \in Admitted' => to = "settling"
    <3>1. pc'[x] = to /\ x \notin moved'
      BY <1>typ, <2>2, <2>5, <2>6 DEF Go
    <3> QED
      BY <3>1 DEF Admitted, Unrecorded
  <2>7. CallsOK' /\ Booked' = Booked
    <3>1. x \notin moved' /\ to \notin {"paid", "done"}
      BY <2>2, <2>6
    <3> QED
      BY <1>ok, <2>2, <2>5, <2>6, <2>11, <3>1, CallsGo
  <2>8. /\ dailySpend' = FreshDailySpend /\ lastResetDay' = Today /\ UNCHANGED <<totalSpend, serviceSpend>>
        /\ recent' = recent \/ recent' = Pruned(recent)
    BY <2>1 DEF Check, spendVars
  <2>9. now <= now' /\ \A y \in Booked : intent'[y] = intent[y]
    BY <1>ok, <2>2, <2>5, <2>6 DEF CallsOK, Booked
  <2>10. CountInv'
    BY <2>2, <2>7, <2>8, <2>9, CountersStay
  <2> QED
    BY <1>go, <2>2, <2>5, <2>6, <2>7, <2>10
<1> QED
  BY <1>2, <1>3, <1>4, <1>5

LEMMA TickCounts ==
  ASSUME CountInv, now' \in Nat, now <= now', UNCHANGED <<engineVars, payVars>>
  PROVE  CountInv'
<1>1. CallsOK'
  <2>1. Admitted' = Admitted /\ Booked' = Booked
    BY DEF Admitted, Booked, payVars, Unrecorded, moved
  <2>2. UNCHANGED <<pc, movedAt, unseen, recordedAt, intent>> /\ moved' = moved /\ CallsOK
    BY DEF payVars, CountInv, moved
  <2>3. \A x \in Booked : recordedAt[x] <= now'
    <3>1. \A x \in Booked : recordedAt[x] \in Nat /\ recordedAt[x] <= now /\ now \in Nat
      BY <2>2 DEF CallsOK, Booked
    <3> QED
      BY <3>1
  <2>4. \A x \in moved : movedAt[x] <= now'
    <3>1. \A x \in moved : movedAt[x] \in Nat /\ movedAt[x] <= now /\ now \in Nat
      BY <2>2 DEF CallsOK, moved
    <3> QED
      BY <3>1
  <2> QED
    BY <2>1, <2>2, <2>3, <2>4 DEF CallsOK
<1>2. Booked' = Booked /\ UNCHANGED <<recordedAt, intent, totalSpend, serviceSpend, dailySpend, lastResetDay, recent>>
  BY DEF Booked, payVars, engineVars, spendVars
<1> QED
  BY <1>1, <1>2, CountersStay

LEMMA CountInit == Init => CountInv
<1> SUFFICES ASSUME Init PROVE CountInv
  OBVIOUS
<1>1. /\ Admitted = {} /\ Booked = {} /\ {x \in Pay : pc[x] # "idle"} = {} /\ IsFiniteSet({})
      /\ moved = {}
  BY FS_EmptySet DEF Init, Admitted, Booked, Unrecorded, moved
<1>2. CallsOK
  BY <1>1 DEF Init, EngineInit, CallsOK, Pc
<1>3. TotalsMatch
  <2>1. \A a : Booked \cap With(a) = {} /\ \A p : Booked \cap With(a) \cap To(p) = {}
    BY <1>1
  <2>2. SumFunctionOnSet(Worth, {}) = 0
    BY SumEmpty
  <2>3. \A a \in Asset : totalSpend[a] = 0 /\ \A p \in Payee : serviceSpend[<<p, a>>] = 0
    BY DEF Init, EngineInit
  <2>4. totalSpend \in [Asset -> Int] /\ serviceSpend \in [Payee \X Asset -> Int]
    BY DEF Init, EngineInit
  <2>5. \A a \in Asset : totalSpend[a] = SumFunctionOnSet(Worth, Booked \cap With(a))
    BY <2>1, <2>2, <2>3
  <2>6. ASSUME NEW p \in Payee, NEW a \in Asset
        PROVE  serviceSpend[<<p, a>>] = SumFunctionOnSet(Worth, Booked \cap With(a) \cap To(p))
    <3>1. Booked \cap With(a) \cap To(p) = {}
      BY <2>1
    <3> QED
      BY <2>2, <2>3, <3>1
  <2> QED
    BY <2>4, <2>5, <2>6 DEF TotalsMatch
<1>4. DaysMatch
  <2>1. lastResetDay = 0 /\ Today \in Nat
    BY <1>2, DayBounds DEF Init, EngineInit, CallsOK, Today, DayOf
  <2>2. \A a : OnDay(lastResetDay) \cap With(a) = {}
    BY <1>1 DEF OnDay
  <2>3. SumFunctionOnSet(Worth, {}) = 0
    BY SumEmpty
  <2>4. dailySpend \in [Asset -> Int] /\ \A a \in Asset : dailySpend[a] = 0
    BY DEF Init, EngineInit
  <2>5. \A a \in Asset : dailySpend[a] = SumFunctionOnSet(Worth, OnDay(lastResetDay) \cap With(a))
    BY <2>2, <2>3, <2>4
  <2> QED
    BY <1>1, <2>1, <2>4, <2>5 DEF DaysMatch
<1>5. WindowMatches
  <2>1. recent = <<>> /\ DOMAIN recent = {} /\ recent \in Seq(Sample)
    BY DEF Init, EngineInit
  <2>2. [i \in {} |-> now] \in [DOMAIN recent -> Pay]
    BY <2>1
  <2>3. DOMAIN recordedAt = Pay /\ \A x \in Pay : recordedAt[x] = NoTime
    BY DEF Init
  <2> QED
    BY <2>1, <2>2, <2>3 DEF WindowMatches, ListedBy
<1> QED
  BY <1>2, <1>3, <1>4, <1>5 DEF CountInv

LEMMA CountStep == CountInv /\ [Next]_vars => CountInv'
<1> SUFFICES ASSUME CountInv, [Next]_vars PROVE CountInv'
  OBVIOUS
<1>1. now \in Nat
  BY DEF CountInv, CallsOK
<1>2. CASE Tick
  BY <1>1, <1>2, TickCounts DEF Tick, clientVars
<1>3. CASE UNCHANGED vars
  BY <1>1, <1>3, TickCounts DEF vars, clientVars
<1>4. CASE \E h \in Handler : On(h)
  BY <1>1, <1>4, TickCounts DEF On
<1> QED
  BY <1>2, <1>3, <1>4, CallCounts, CountersRecorded DEF Next, AllPaid

\* The counters, the window and the calls agree.
THEOREM CountInvariant == Spec => []CountInv
BY CountInit, CountStep, PTL DEF Spec

-----------------------------------------------------------------------------
(* What the counters say of the recorded payments. *)

LastMinute == {x \in Booked : recordedAt[x] >= now - Minute}

\* The window has the payments of the last minute, each once.
LEMMA WindowIs ==
  ASSUME CountInv
  PROVE  /\ Len(Pruned(recent)) = SumFunctionOnSet(One, LastMinute)
         /\ \A a \in Asset : RecentSpend(a) = SumFunctionOnSet(Worth, LastMinute \cap With(a))
<1>ok. CallsOK
  BY DEF CountInv
<1>1. PICK by \in [DOMAIN recent -> Pay] : ListedBy(recent, by, intent, recordedAt, now - Minute)
  BY DEF CountInv, WindowMatches
<1>2. /\ now \in Nat /\ now - Minute \in Int /\ DOMAIN recordedAt = Pay
      /\ \A x \in Pay : recordedAt[x] # NoTime => recordedAt[x] \in Int /\ x \in Booked
      /\ \A x \in Booked : recordedAt[x] # NoTime /\ x \in Pay
  <2>1. now \in Nat /\ recordedAt \in [Pay -> Nat \cup {NoTime}]
    BY <1>ok DEF CallsOK
  <2>2. \A x \in Pay : recordedAt[x] # NoTime <=> x \in Booked
    BY <1>ok DEF CallsOK
  <2> QED
    BY <2>1, <2>2, PolicyAssumption DEF Booked
<1>3. PICK b : /\ ListedBy(Pruned(recent), b, intent, recordedAt, now - Minute)
               /\ \A i \in DOMAIN Pruned(recent) : Pruned(recent)[i].ts >= now - Minute
  BY <1>1, <1>2, PrunedListed
<1>4. PICK q : q = Pruned(recent)
  OBVIOUS
<1>5. /\ q \in Seq(Sample) /\ b \in [DOMAIN q -> Pay]
      /\ \A i, j \in DOMAIN q : b[i] = b[j] => i = j
      /\ \A i \in DOMAIN q : recordedAt[b[i]] # NoTime /\ q[i].ts = recordedAt[b[i]]
      /\ \A i \in DOMAIN q : q[i].amount = intent[b[i]].amount /\ q[i].asset = intent[b[i]].asset
      /\ \A x \in Pay : recordedAt[x] # NoTime /\ recordedAt[x] >= now - Minute => \E i \in DOMAIN q : b[i] = x
  BY <1>2, <1>3, <1>4 DEF ListedBy
<1>6. \A i \in DOMAIN q : b[i] \in LastMinute /\ b[i] \in Admitted
  <2>1. Booked \subseteq Admitted
    BY DEF Booked, Admitted
  <2>2. \A i \in DOMAIN q : b[i] \in Booked /\ recordedAt[b[i]] >= now - Minute
    BY <1>2, <1>3, <1>4, <1>5
  <2> QED
    BY <2>1, <2>2 DEF LastMinute
<1>7. \A x \in LastMinute : \E i \in DOMAIN q : b[i] = x
  BY <1>2, <1>5 DEF LastMinute
<1>8. /\ Len(q) \in Nat /\ DOMAIN q = 1 .. Len(q)
      /\ IsFiniteSet(DOMAIN q) /\ Cardinality(DOMAIN q) = Len(q)
  <2>1. Len(q) \in Nat /\ DOMAIN q = 1 .. Len(q)
    BY <1>5
  <2>2. IsFiniteSet(1 .. Len(q)) /\ Cardinality(1 .. Len(q)) = Len(q)
    BY <2>1, UpToN
  <2> QED
    BY <2>1, <2>2
<1>9. Len(q) = SumFunctionOnSet(One, LastMinute)
  <2>1. PICK f : f = [i \in DOMAIN q |-> 1]
    OBVIOUS
  <2>2. \A i \in DOMAIN q : f[i] = 1
    BY <2>1
  <2>3. SumFunctionOnSet(f, DOMAIN q) = Len(q)
    BY <1>8, <2>2, SumOfOnes
  <2>4. \A i \in DOMAIN q : f[i] \in Int /\ One[b[i]] = f[i]
    BY <1>6, <2>2 DEF One
  <2>5. SumFunctionOnSet(f, DOMAIN q) = SumFunctionOnSet(One, {b[i] : i \in DOMAIN q})
    <3>1. PICK S : S = DOMAIN q
      OBVIOUS
    <3>2. IsFiniteSet(S) /\ \A i \in S : f[i] \in Int /\ One[b[i]] = f[i]
      BY <1>8, <2>4, <3>1
    <3>3. \A i, j \in S : b[i] = b[j] => i = j
      BY <1>5, <3>1
    <3>4. SumFunctionOnSet(f, S) = SumFunctionOnSet(One, {b[i] : i \in S})
      BY <3>2, <3>3, SumRenamed
    <3> QED
      BY <3>1, <3>4
  <2>6. {b[i] : i \in DOMAIN q} = LastMinute
    BY <1>6, <1>7
  <2> QED
    BY <2>3, <2>5, <2>6
<1>10. ASSUME NEW a \in Asset PROVE RecentSpend(a) = SumFunctionOnSet(Worth, LastMinute \cap With(a))
  <2>1. PICK f : f = [i \in DOMAIN q |-> q[i].amount]
    OBVIOUS
  <2>2. PICK S : S = {i \in DOMAIN q : q[i].asset = a}
    OBVIOUS
  <2>3. IsFiniteSet(S) /\ \A i \in S : i \in DOMAIN q
    BY <1>8, <2>2, FS_Subset
  <2>4. \A i \in S : f[i] \in Int /\ Worth[b[i]] = f[i]
    <3>1. \A i \in S : b[i] \in Admitted /\ f[i] = intent[b[i]].amount
      BY <1>5, <1>6, <2>1, <2>3
    <3>2. \A i \in S : Worth[b[i]] \in Nat /\ Worth[b[i]] = intent[b[i]].amount
      BY <1>ok, <3>1, Sizes
    <3> QED
      BY <3>1, <3>2
  <2>5. \A i, j \in S : b[i] = b[j] => i = j
    BY <1>5, <2>3
  <2>6. SumFunctionOnSet(f, S) = SumFunctionOnSet(Worth, {b[i] : i \in S})
    BY <2>3, <2>4, <2>5, SumRenamed
  <2>7. {b[i] : i \in S} = LastMinute \cap With(a)
    <3>1. ASSUME NEW i \in S PROVE b[i] \in LastMinute \cap With(a)
      BY <1>5, <1>6, <2>2 DEF With
    <3>2. ASSUME NEW x \in LastMinute \cap With(a) PROVE \E i \in S : b[i] = x
      <4>1. PICK i \in DOMAIN q : b[i] = x
        BY <1>7
      <4>2. i \in S
        BY <1>5, <2>2, <4>1 DEF With
      <4> QED
        BY <4>1, <4>2
    <3> QED
      BY <3>1, <3>2
  <2>8. RecentSpend(a) = SumFunctionOnSet(f, S)
    BY <1>4, <2>1, <2>2 DEF RecentSpend
  <2> QED
    BY <2>6, <2>7, <2>8
<1> QED
  BY <1>4, <1>9, <1>10

\* The payments of an asset recorded in some time.
LEMMA RecordedIs ==
  ASSUME CallsOK, NEW a, NEW from \in Int, NEW to \in Int
  PROVE  /\ Recorded(a, from, to) = {x \in Booked : recordedAt[x] \in from .. to} \cap With(a)
         /\ Recorded(a, from, to) \subseteq Booked /\ Recorded(a, from, to) \subseteq Admitted
<1>1. Booked \subseteq Admitted /\ Booked \subseteq Pay
  BY DEF Booked, Admitted
<1>2. \A x \in Pay : recordedAt[x] # NoTime <=> x \in Booked
  BY DEF CallsOK
<1> QED
  BY <1>1, <1>2 DEF Recorded, With

\* Whatever overlaps, and whenever the day's counter was reset and the window
\* pruned, each counter is the sum of exactly the payments it is about.
THEOREM CountersMatch == Spec => []CountersMatchPayments
<1>1. CountInv => CountersMatchPayments
  <2> SUFFICES ASSUME CountInv, NEW a \in Asset
               PROVE  /\ totalSpend[a] = AmountOf(Recorded(a, 0, now))
                      /\ dailySpend[a] = AmountOf(Recorded(a, lastResetDay * Day, (lastResetDay + 1) * Day - 1))
                      /\ \A p \in Payee :
                           serviceSpend[<<p, a>>] = AmountOf({x \in Recorded(a, 0, now) : intent[x].payee = p})
                      /\ RecentSpend(a) = AmountOf(Recorded(a, now - Minute, now))
    BY DEF CountersMatchPayments
  <2>ok. CallsOK
    BY DEF CountInv
  <2>1. /\ Booked \subseteq Admitted /\ now \in Nat /\ lastResetDay \in Nat /\ Day \in Nat /\ Minute \in Nat
        /\ \A x \in Booked : recordedAt[x] \in Nat /\ recordedAt[x] <= now
    <3>1. \A x \in Booked : recordedAt[x] # NoTime /\ recordedAt[x] \in Nat \cup {NoTime} /\ recordedAt[x] <= now
      BY <2>ok DEF CallsOK, Booked
    <3> QED
      BY <2>ok, <3>1, PolicyAssumption DEF Booked, Admitted, CountInv, CallsOK, DaysMatch
  <2>2. Recorded(a, 0, now) = Booked \cap With(a)
    <3>1. Recorded(a, 0, now) = {x \in Booked : recordedAt[x] \in 0 .. now} \cap With(a)
      BY <2>ok, <2>1, RecordedIs
    <3> QED
      BY <2>1, <3>1
  <2>3. totalSpend[a] = AmountOf(Recorded(a, 0, now))
    <3>1. Booked \cap With(a) \in SUBSET Admitted
      BY <2>1
    <3>2. AmountOf(Booked \cap With(a)) = SumFunctionOnSet(Worth, Booked \cap With(a))
      BY <2>ok, <3>1, AmountIs
    <3> QED
      BY <2>2, <3>2 DEF CountInv, TotalsMatch
  <2>4. dailySpend[a] = AmountOf(Recorded(a, lastResetDay * Day, (lastResetDay + 1) * Day - 1))
    <3>1. PICK d : d = lastResetDay
      OBVIOUS
    <3>2. d \in Nat /\ d * Day \in Int /\ (d + 1) * Day - 1 \in Int
      BY <2>1, <3>1
    <3>3. Recorded(a, d * Day, (d + 1) * Day - 1) =
            {x \in Booked : recordedAt[x] \in d * Day .. ((d + 1) * Day - 1)} \cap With(a)
      BY <2>ok, <3>2, RecordedIs
    <3>4. \A x \in Booked : recordedAt[x] \in d * Day .. ((d + 1) * Day - 1) <=> DayOf(recordedAt[x]) = d
      BY <2>1, <3>2, DayIs
    <3>5. Recorded(a, d * Day, (d + 1) * Day - 1) = OnDay(d) \cap With(a)
      BY <3>3, <3>4 DEF OnDay
    <3>6. OnDay(d) \cap With(a) \in SUBSET Admitted
      BY DEF With
    <3>7. AmountOf(OnDay(d) \cap With(a)) = SumFunctionOnSet(Worth, OnDay(d) \cap With(a))
      BY <2>ok, <3>6, AmountIs
    <3> QED
      BY <3>1, <3>5, <3>7 DEF CountInv, DaysMatch
  <2>5. ASSUME NEW p \in Payee
        PROVE  serviceSpend[<<p, a>>] = AmountOf({x \in Recorded(a, 0, now) : intent[x].payee = p})
    <3>1. {x \in Recorded(a, 0, now) : intent[x].payee = p} = Booked \cap With(a) \cap To(p)
      BY <2>1, <2>2 DEF To
    <3>2. Booked \cap With(a) \cap To(p) \in SUBSET Admitted
      BY <2>1
    <3>3. AmountOf(Booked \cap With(a) \cap To(p)) = SumFunctionOnSet(Worth, Booked \cap With(a) \cap To(p))
      BY <2>ok, <3>2, AmountIs
    <3> QED
      BY <3>1, <3>3 DEF CountInv, TotalsMatch
  <2>6. RecentSpend(a) = AmountOf(Recorded(a, now - Minute, now))
    <3>1. now - Minute \in Int /\ now \in Int
      BY <2>1
    <3>2. Recorded(a, now - Minute, now) = {x \in Booked : recordedAt[x] \in now - Minute .. now} \cap With(a)
      BY <2>ok, <3>1, RecordedIs
    <3>3. \A x \in Booked : recordedAt[x] \in now - Minute .. now <=> recordedAt[x] >= now - Minute
      BY <2>1, <3>1
    <3>4. Recorded(a, now - Minute, now) = LastMinute \cap With(a)
      BY <3>2, <3>3 DEF LastMinute
    <3>5. LastMinute \cap With(a) \in SUBSET Admitted
      BY DEF With
    <3>6. AmountOf(LastMinute \cap With(a)) = SumFunctionOnSet(Worth, LastMinute \cap With(a))
      BY <2>ok, <3>5, AmountIs
    <3> QED
      BY <3>4, <3>6, WindowIs
  <2> QED
    BY <2>3, <2>4, <2>5, <2>6
<1> QED
  BY <1>1, CountInvariant, PTL

-----------------------------------------------------------------------------
(* The limits, step by step. *)

LEMMA LimitsAreNumbers ==
  \A limit \in {TotalBudget, DailyBudget, MaxSpendPerMinute, RequestsPerMinute}
                 \cup {ServiceCap[p] : p \in Payee} :
    limit # NoLimit => limit \in Int
<1>1. \A p \in Payee : ServiceCap[p] \in Limit
  BY PolicyAssumption
<1>2. {TotalBudget, DailyBudget, MaxSpendPerMinute, RequestsPerMinute} \subseteq Limit
  BY PolicyAssumption
<1> QED
  BY <1>1, <1>2 DEF Limit

\* What an earlier sum leaves room for, a part of it does.
LEMMA RoomLeft ==
  ASSUME NEW G, IsFiniteSet(G), NEW w, NEW v, \A y \in G : w[y] \in Nat /\ v[y] = w[y],
         NEW b \in Nat, NEW limit \in Int, SumFunctionOnSet(w, G) + b <= limit,
         NEW T \in SUBSET G
  PROVE  SumFunctionOnSet(v, T) + b <= limit
<1>1. IsFiniteSet(T) /\ \A y \in T : w[y] \in Nat /\ v[y] = w[y]
  BY FS_Subset
<1>2. SumFunctionOnSet(v, T) = SumFunctionOnSet(w, T)
  BY <1>1, SumSame
<1>3. SumFunctionOnSet(w, T) <= SumFunctionOnSet(w, G)
  BY SumGrows
<1>4. SumFunctionOnSet(w, T) \in Int /\ SumFunctionOnSet(w, G) \in Int
  <2>1. (\A y \in T : w[y] \in Int) /\ (\A y \in G : w[y] \in Int)
    BY <1>1
  <2> QED
    BY <1>1, <2>1, SumType
<1> QED
  BY <1>2, <1>3, <1>4

\* No call is let in: what may count on a day or in a minute only gets less.
LEMMA LimitsStay ==
  ASSUME CountInv, CountInv', LimitsKept, Admitted' \subseteq Admitted,
         \A y \in Admitted' : intent'[y] = intent[y] /\ unseen'[y] = unseen[y],
         now <= now', moved \cap Admitted' \subseteq moved',
         \A y \in moved \cap Admitted' : movedAt'[y] = movedAt[y],
         \A y \in moved' \ moved : movedAt'[y] = now
  PROVE  LimitsKept'
<1>ok. CallsOK /\ CallsOK'
  BY DEF CountInv
<1>1. /\ IsFiniteSet(Admitted)
      /\ \A y \in Admitted' : Worth'[y] = Worth[y] /\ One'[y] = One[y] /\ unseen'[y] = unseen[y]
  <2>1. \A y \in Admitted' : Worth'[y] = intent'[y].amount /\ One'[y] = 1
    BY DEF Worth, One
  <2>2. \A y \in Admitted' : Worth[y] = intent[y].amount /\ One[y] = 1
    BY DEF Worth, One
  <2> QED
    BY <1>ok, <2>1, <2>2, Sizes
<1>2. \A a : With(a)' \subseteq With(a) /\ With(a)' \subseteq Admitted'
  BY DEF With
<1>3. \A p : To(p)' \subseteq To(p)
  BY DEF To
<1>4. now \in Nat /\ now' \in Nat /\ Today \in Nat /\ Today' \in Nat /\ Today <= Today' /\ DayOf(now) = Today
  <2>1. now \in Nat /\ now' \in Nat
    BY <1>ok DEF CallsOK
  <2>2. PICK t, u : t = now /\ u = now'
    OBVIOUS
  <2>3. t \div Day <= u \div Day /\ t \div Day \in Nat /\ u \div Day \in Nat
    BY <2>1, <2>2, DaysPass, DayBounds DEF DayOf
  <2> QED
    BY <2>1, <2>2, <2>3 DEF Today, DayOf
<1>5. ASSUME NEW d \in Nat PROVE ForDay(d)' \subseteq ForDay(d)
  <2> SUFFICES ASSUME NEW y \in ForDay(d)' PROVE y \in ForDay(d)
    OBVIOUS
  <2>1. y \in Admitted' /\ y \in Admitted
    BY DEF ForDay
  <2>2. CASE y \in moved
    <3>1. y \in moved' /\ DayOf(movedAt'[y]) = d /\ movedAt'[y] = movedAt[y]
      BY <2>1, <2>2 DEF ForDay, DayOf
    <3> QED
      BY <2>1, <2>2, <3>1 DEF ForDay
  <2>3. CASE y \notin moved /\ y \in moved'
    <3>1. DayOf(movedAt'[y]) = d /\ movedAt'[y] = now
      BY <2>3 DEF ForDay, DayOf
    <3> QED
      BY <1>4, <2>1, <2>3, <3>1 DEF ForDay
  <2>4. CASE y \notin moved /\ y \notin moved'
    <3>1. d >= Today'
      BY <2>4 DEF ForDay
    <3> QED
      BY <1>4, <2>1, <2>4, <3>1 DEF ForDay
  <2> QED
    BY <2>2, <2>3, <2>4
<1>6. ASSUME NEW t \in Nat PROVE ForMinute(t)' \subseteq ForMinute(t) /\ ForMinute(t)' \subseteq Admitted'
  <2>0. ForMinute(t)' \subseteq Admitted'
    BY DEF ForMinute
  <2> SUFFICES ASSUME NEW y \in ForMinute(t)' PROVE y \in ForMinute(t)
    BY <2>0
  <2>1. y \in Admitted' /\ y \in Admitted
    BY DEF ForMinute
  <2>2. CASE y \in moved
    <3>1. y \in moved' /\ movedAt'[y] \in t - Minute .. t /\ movedAt'[y] = movedAt[y]
      BY <2>1, <2>2 DEF ForMinute
    <3> QED
      BY <2>1, <2>2, <3>1 DEF ForMinute
  <2>3. CASE y \notin moved /\ y \in moved'
    <3>1. movedAt'[y] \in t - Minute .. t /\ movedAt'[y] = now
      BY <2>3 DEF ForMinute
    <3>2. t >= now
      BY <1>4, <3>1, PolicyAssumption
    <3> QED
      BY <2>1, <2>3, <3>2 DEF ForMinute
  <2>4. CASE y \notin moved /\ y \notin moved'
    <3>1. t >= now'
      BY <2>4 DEF ForMinute
    <3>2. t >= now
      BY <1>4, <3>1
    <3> QED
      BY <2>1, <2>4, <3>2 DEF ForMinute
  <2> QED
    BY <2>2, <2>3, <2>4
<1>7. ASSUME NEW limit, NEW C \in SUBSET Admitted, KeptBy(limit, C, Worth, unseen),
             NEW D \in SUBSET C, D \subseteq Admitted'
      PROVE  KeptBy(limit, D, Worth', unseen')
  <2>1. PICK w, v, before, ahead : w = Worth /\ v = Worth' /\ before = unseen /\ ahead = unseen'
    OBVIOUS
  <2>2. IsFiniteSet(C) /\ \A y \in D : v[y] = w[y] /\ ahead[y] = before[y]
    BY <1>1, <1>7, <2>1, FS_Subset
  <2>3. KeptBy(limit, C, w, before)
    BY <1>7, <2>1
  <2>4. KeptBy(limit, D, v, ahead)
    BY <1>7, <2>2, <2>3, FewerKeep
  <2> QED
    BY <2>1, <2>4
<1>8. ASSUME NEW a \in Asset
      PROVE  /\ KeptBy(TotalBudget, With(a)', Worth', unseen')
             /\ \A p \in Payee : KeptBy(ServiceCap[p], With(a)' \cap To(p)', Worth', unseen')
             /\ \A d \in Nat : KeptBy(DailyBudget, With(a)' \cap ForDay(d)', Worth', unseen')
             /\ \A t \in Nat : KeptBy(MaxSpendPerMinute, With(a)' \cap ForMinute(t)', Worth', unseen')
  <2>1. /\ KeptBy(TotalBudget, With(a), Worth, unseen)
        /\ \A p \in Payee : KeptBy(ServiceCap[p], With(a) \cap To(p), Worth, unseen)
        /\ \A d \in Nat : KeptBy(DailyBudget, With(a) \cap ForDay(d), Worth, unseen)
        /\ \A t \in Nat : KeptBy(MaxSpendPerMinute, With(a) \cap ForMinute(t), Worth, unseen)
    BY DEF LimitsKept
  <2>2. With(a) \subseteq Admitted
    BY DEF With
  <2>3. ASSUME NEW limit, NEW K, KeptBy(limit, With(a) \cap K, Worth, unseen), NEW K2 \in SUBSET K
        PROVE  KeptBy(limit, With(a)' \cap K2, Worth', unseen')
    <3>1. PICK C, D : C = With(a) \cap K /\ D = With(a)' \cap K2
      OBVIOUS
    <3>2. C \in SUBSET Admitted /\ D \in SUBSET C /\ D \subseteq Admitted'
      BY <1>2, <2>2, <3>1
    <3>3. KeptBy(limit, C, Worth, unseen)
      BY <2>3, <3>1
    <3>4. KeptBy(limit, D, Worth', unseen')
      BY <1>7, <3>2, <3>3
    <3> QED
      BY <3>1, <3>4
  <2>4. KeptBy(TotalBudget, With(a)', Worth', unseen')
    BY <1>2, <1>7, <2>1, <2>2
  <2>5. ASSUME NEW p \in Payee PROVE KeptBy(ServiceCap[p], With(a)' \cap To(p)', Worth', unseen')
    <3>1. PICK K, K2 : K = To(p) /\ K2 = To(p)'
      OBVIOUS
    <3>2. K2 \in SUBSET K /\ KeptBy(ServiceCap[p], With(a) \cap K, Worth, unseen)
      BY <1>3, <2>1, <3>1
    <3>3. KeptBy(ServiceCap[p], With(a)' \cap K2, Worth', unseen')
      BY <2>3, <3>2
    <3> QED
      BY <3>1, <3>3
  <2>6. ASSUME NEW d \in Nat PROVE KeptBy(DailyBudget, With(a)' \cap ForDay(d)', Worth', unseen')
    <3>1. PICK K, K2 : K = ForDay(d) /\ K2 = ForDay(d)'
      OBVIOUS
    <3>2. K2 \in SUBSET K /\ KeptBy(DailyBudget, With(a) \cap K, Worth, unseen)
      BY <1>5, <2>1, <3>1
    <3>3. KeptBy(DailyBudget, With(a)' \cap K2, Worth', unseen')
      BY <2>3, <3>2
    <3> QED
      BY <3>1, <3>3
  <2>7. ASSUME NEW t \in Nat PROVE KeptBy(MaxSpendPerMinute, With(a)' \cap ForMinute(t)', Worth', unseen')
    <3>1. PICK K, K2 : K = ForMinute(t) /\ K2 = ForMinute(t)'
      OBVIOUS
    <3>2. K2 \in SUBSET K /\ KeptBy(MaxSpendPerMinute, With(a) \cap K, Worth, unseen)
      BY <1>6, <2>1, <3>1
    <3>3. KeptBy(MaxSpendPerMinute, With(a)' \cap K2, Worth', unseen')
      BY <2>3, <3>2
    <3> QED
      BY <3>1, <3>3
  <2> QED
    BY <2>4, <2>5, <2>6, <2>7
<1>9. ASSUME NEW t \in Nat PROVE KeptBy(RequestsPerMinute, ForMinute(t)', One', unseen')
  <2>1. PICK C, D, w, v, before, ahead :
          /\ C = ForMinute(t) /\ D = ForMinute(t)' /\ w = One /\ v = One'
          /\ before = unseen /\ ahead = unseen'
    OBVIOUS
  <2>2. C \subseteq Admitted /\ D \in SUBSET C /\ D \subseteq Admitted'
    BY <1>6, <2>1 DEF ForMinute
  <2>3. IsFiniteSet(C) /\ \A y \in D : v[y] = w[y] /\ ahead[y] = before[y]
    BY <1>1, <2>1, <2>2, FS_Subset
  <2>4. KeptBy(RequestsPerMinute, C, w, before)
    BY <2>1 DEF LimitsKept
  <2>5. KeptBy(RequestsPerMinute, D, v, ahead)
    BY <2>2, <2>3, <2>4, FewerKeep
  <2> QED
    BY <2>1, <2>5
<1> QED
  BY <1>8, <1>9 DEF LimitsKept

\* A call the policy allows joins: with all that is recorded, it is within the
\* limits; what is not recorded, its check could not see.
LEMMA LimitsChecked ==
  ASSUME CountInv, LimitsKept, NEW x \in Pay, NEW i \in Intent, pc[x] = "idle",
         Parses(i), Allows(i), Go(x, "settling"), intent' = [intent EXCEPT ![x] = i],
         unseen' = [unseen EXCEPT ![x] = InFlight \cup Unrecorded],
         now' = now, recordedAt' = recordedAt, movedAt' = movedAt
  PROVE  LimitsKept'
<1>ok. CallsOK
  BY DEF CountInv
<1>1. i.payee \in Payee /\ i.asset \in Asset /\ i.amount \in Nat
  <2>1. i.payee \in Payee /\ i.asset \in Asset /\ i.amount \in Int
    BY DEF Intent
  <2>2. i.amount >= 0
    BY DEF Parses
  <2> QED
    BY <2>1, <2>2
<1>2. /\ Within(DailyBudget, FreshDailySpend[i.asset] + i.amount)
      /\ Within(TotalBudget, totalSpend[i.asset] + i.amount)
      /\ Within(ServiceCap[i.payee], serviceSpend[<<i.payee, i.asset>>] + i.amount)
      /\ RequestsPerMinute # NoLimit => Len(Pruned(recent)) < RequestsPerMinute
      /\ Within(MaxSpendPerMinute, RecentSpend(i.asset) + i.amount)
  BY DEF Allows, BudgetsAllow, WindowsAllow
<1>3. /\ \A y \in Pay : pc'[y] = IF y = x THEN "settling" ELSE pc[y]
      /\ \A y \in Pay : intent'[y] = IF y = x THEN i ELSE intent[y]
      /\ \A y \in Pay : unseen'[y] = IF y = x THEN InFlight \cup Unrecorded ELSE unseen[y]
  <2>1. InFlight \cup Unrecorded \subseteq Pay
    BY DEF InFlight, Unrecorded, moved
  <2> QED
    BY <1>ok, <2>1 DEF CallsOK, Go
<1>4. /\ Admitted' = Admitted \cup {x} /\ x \notin Admitted /\ Admitted \subseteq Pay
      /\ moved' = moved /\ x \notin moved /\ Booked \subseteq moved
      /\ x \notin Booked /\ Booked \subseteq Admitted
      /\ \A y \in Admitted : y \notin InFlight \cup Unrecorded => y \in Booked
  <2>1. moved' = moved
    BY DEF moved
  <2>2. x \notin moved /\ Booked \subseteq moved
    BY <1>ok DEF CallsOK, Booked
  <2>3. Unrecorded' = Unrecorded /\ Unrecorded \subseteq Pay
    BY <1>3, <2>1, <2>2 DEF Unrecorded, moved
  <2>4. Admitted' = Admitted \cup {x}
    BY <1>3, <2>3 DEF Admitted
  <2> QED
    BY <2>1, <2>2, <2>3, <2>4 DEF Admitted, Booked, InFlight, Unrecorded
<1>5. IsFiniteSet(Admitted) /\ \A y \in Admitted : Worth[y] \in Nat /\ One[y] = 1
  BY <1>ok, Sizes
<1>6. /\ \A y \in Admitted : Worth'[y] = Worth[y] /\ One'[y] = One[y] /\ unseen'[y] = unseen[y]
      /\ Worth'[x] = i.amount /\ One'[x] = 1 /\ unseen'[x] = InFlight \cup Unrecorded
  <2>1. \A y \in Admitted' : Worth'[y] = intent'[y].amount /\ One'[y] = 1
    BY DEF Worth, One
  <2>2. \A y \in Admitted : Worth[y] = intent[y].amount
    BY DEF Worth
  <2> QED
    BY <1>3, <1>4, <1>5, <2>1, <2>2
<1>7. /\ \A a : With(a)' \subseteq With(a) \cup {x} /\ (x \in With(a)' => a = i.asset)
      /\ \A p : To(p)' \subseteq To(p) \cup {x} /\ (x \in To(p)' => p = i.payee)
  BY <1>3, <1>4 DEF With, To
<1>8. Today \in Nat /\ Today' = Today /\ now \in Nat /\ Minute \in Nat
  BY <1>ok, FreshIs, PolicyAssumption DEF CallsOK, Today
<1>9. ASSUME NEW d \in Nat
      PROVE  ForDay(d)' \subseteq ForDay(d) \cup {x} /\ (x \in ForDay(d)' => d >= Today)
  <2>1. ASSUME NEW y \in ForDay(d)', y # x PROVE y \in ForDay(d)
    <3>1. y \in Admitted
      BY <1>4, <2>1 DEF ForDay
    <3>2. IF y \in moved THEN DayOf(movedAt[y]) = d ELSE d >= Today
      BY <1>4, <1>8 DEF ForDay, DayOf
    <3> QED
      BY <3>1, <3>2 DEF ForDay
  <2>2. x \in ForDay(d)' => d >= Today
    BY <1>4, <1>8 DEF ForDay
  <2> QED
    BY <2>1, <2>2
<1>10. ASSUME NEW t \in Nat
       PROVE  ForMinute(t)' \subseteq ForMinute(t) \cup {x} /\ (x \in ForMinute(t)' => t >= now)
  <2>1. ASSUME NEW y \in ForMinute(t)', y # x PROVE y \in ForMinute(t)
    <3>1. y \in Admitted
      BY <1>4, <2>1 DEF ForMinute
    <3>2. IF y \in moved THEN movedAt[y] \in t - Minute .. t ELSE t >= now
      BY <1>4 DEF ForMinute
    <3> QED
      BY <3>1, <3>2 DEF ForMinute
  <2>2. x \in ForMinute(t)' => t >= now
    BY <1>4 DEF ForMinute
  <2> QED
    BY <2>1, <2>2
<1>11. \A y \in Booked : /\ recordedAt[y] \in Nat /\ recordedAt[y] <= now
                         /\ movedAt[y] \in Nat /\ movedAt[y] <= recordedAt[y]
  <2>1. \A y \in Booked : recordedAt[y] # NoTime /\ recordedAt[y] \in Nat \cup {NoTime} /\ recordedAt[y] <= now
    BY <1>ok DEF CallsOK, Booked
  <2>2. \A y \in Booked : movedAt[y] # NoTime /\ movedAt[y] \in Nat \cup {NoTime} /\ movedAt[y] <= recordedAt[y]
    BY <1>4, <1>ok DEF CallsOK, moved
  <2> QED
    BY <2>1, <2>2
\* The amounts: what the check found of it in G leaves room for the call.
<1>12. ASSUME NEW limit, limit # NoLimit => limit \in Int,
              NEW C \in SUBSET Admitted, KeptBy(limit, C, Worth, unseen),
              NEW D \in SUBSET (C \cup {x}), NEW G \in SUBSET Booked,
              x \in D => C \cap Booked \subseteq G /\ Within(limit, SumFunctionOnSet(Worth, G) + i.amount)
       PROVE  KeptBy(limit, D, Worth', unseen')
  <2>1. PICK w, v, before, ahead : w = Worth /\ v = Worth' /\ before = unseen /\ ahead = unseen'
    OBVIOUS
  <2>2. /\ IsFiniteSet(C) /\ IsFiniteSet(G) /\ x \notin C /\ v[x] \in Nat /\ v[x] = i.amount
        /\ ahead[x] = InFlight \cup Unrecorded
        /\ \A y \in C : v[y] = w[y] /\ v[y] \in Nat /\ ahead[y] = before[y]
        /\ \A y \in G : w[y] \in Nat /\ v[y] = w[y]
    BY <1>1, <1>4, <1>5, <1>6, <2>1, FS_Subset
  <2>3. ASSUME x \in D, limit # NoLimit, NEW T \in SUBSET (C \ ahead[x])
        PROVE  SumFunctionOnSet(v, T) + v[x] <= limit
    <3>1. T \in SUBSET G
      <4>1. \A y \in T : y \in C /\ y \in Admitted /\ y \notin InFlight \cup Unrecorded
        BY <2>2
      <4> QED
        BY <1>4, <1>12, <2>3, <4>1
    <3>2. SumFunctionOnSet(w, G) + v[x] <= limit /\ limit \in Int
      BY <1>12, <2>1, <2>2, <2>3 DEF Within
    <3> QED
      BY <2>2, <3>1, <3>2, RoomLeft
  <2>4. KeptBy(limit, C, w, before)
    BY <1>12, <2>1
  <2>5. KeptBy(limit, D, v, ahead)
    BY <1>12, <2>2, <2>3, <2>4, CheckedKeeps
  <2> QED
    BY <2>1, <2>5
<1>13. ASSUME NEW a \in Asset PROVE KeptBy(TotalBudget, With(a)', Worth', unseen')
  <2>1. PICK C, D, G : C = With(a) /\ D = With(a)' /\ G = Booked \cap With(a)
    OBVIOUS
  <2>2. C \in SUBSET Admitted /\ D \in SUBSET (C \cup {x}) /\ G \in SUBSET Booked /\ C \cap Booked \subseteq G
    BY <1>7, <2>1 DEF With
  <2>3. KeptBy(TotalBudget, C, Worth, unseen)
    BY <2>1 DEF LimitsKept
  <2>4. totalSpend[a] = SumFunctionOnSet(Worth, G)
    BY <2>1 DEF CountInv, TotalsMatch
  <2>5. x \in D => Within(TotalBudget, SumFunctionOnSet(Worth, G) + i.amount)
    BY <1>2, <1>7, <2>1, <2>4
  <2>6. KeptBy(TotalBudget, D, Worth', unseen')
    BY <1>12, <2>2, <2>3, <2>5, LimitsAreNumbers
  <2> QED
    BY <2>1, <2>6
<1>14. ASSUME NEW a \in Asset, NEW p \in Payee PROVE KeptBy(ServiceCap[p], With(a)' \cap To(p)', Worth', unseen')
  <2>1. PICK C, D, G : /\ C = With(a) \cap To(p) /\ D = With(a)' \cap To(p)'
                       /\ G = Booked \cap With(a) \cap To(p)
    OBVIOUS
  <2>2. C \in SUBSET Admitted /\ D \in SUBSET (C \cup {x}) /\ G \in SUBSET Booked /\ C \cap Booked \subseteq G
    BY <1>7, <2>1 DEF With
  <2>3. KeptBy(ServiceCap[p], C, Worth, unseen)
    BY <2>1 DEF LimitsKept
  <2>4. serviceSpend[<<p, a>>] = SumFunctionOnSet(Worth, G)
    BY <2>1 DEF CountInv, TotalsMatch
  <2>5. x \in D => Within(ServiceCap[p], SumFunctionOnSet(Worth, G) + i.amount)
    <3>1. x \in D => a = i.asset /\ p = i.payee
      BY <1>7, <2>1
    <3> QED
      BY <1>2, <2>4, <3>1
  <2>6. KeptBy(ServiceCap[p], D, Worth', unseen')
    BY <1>12, <2>2, <2>3, <2>5, LimitsAreNumbers
  <2> QED
    BY <2>1, <2>6
<1>15. ASSUME NEW a \in Asset, NEW d \in Nat PROVE KeptBy(DailyBudget, With(a)' \cap ForDay(d)', Worth', unseen')
  <2>1. PICK C, D, G : /\ C = With(a) \cap ForDay(d) /\ D = With(a)' \cap ForDay(d)'
                       /\ G = OnDay(Today) \cap With(a)
    OBVIOUS
  <2>2. C \in SUBSET Admitted /\ D \in SUBSET (C \cup {x}) /\ G \in SUBSET Booked
    BY <1>7, <1>9, <2>1 DEF With, OnDay
  <2>3. KeptBy(DailyBudget, C, Worth, unseen)
    BY <2>1 DEF LimitsKept
  <2>4. FreshDailySpend[a] = SumFunctionOnSet(Worth, G)
    BY <2>1, FreshIs
  <2>5. ASSUME x \in D
        PROVE  C \cap Booked \subseteq G /\ Within(DailyBudget, SumFunctionOnSet(Worth, G) + i.amount)
    <3>1. a = i.asset /\ d >= Today
      BY <1>7, <1>9, <2>1, <2>5
    <3>2. ASSUME NEW y \in C \cap Booked PROVE y \in G
      <4>1. DayOf(movedAt[y]) = d /\ y \in With(a) /\ y \in Booked
        BY <1>4, <2>1 DEF ForDay
      <4>2. DayOf(recordedAt[y]) <= Today
        BY <4>1, FreshIs
      <4>3. PICK m, r : m = movedAt[y] /\ r = recordedAt[y]
        OBVIOUS
      <4>4. m \div Day <= r \div Day /\ r \div Day \in Nat
        BY <1>11, <4>1, <4>3, DaysPass, DayBounds DEF DayOf
      <4>5. DayOf(recordedAt[y]) = Today
        BY <1>8, <3>1, <4>1, <4>2, <4>3, <4>4 DEF DayOf
      <4> QED
        BY <2>1, <4>1, <4>5 DEF OnDay
    <3> QED
      BY <1>2, <2>4, <3>1, <3>2
  <2>6. KeptBy(DailyBudget, D, Worth', unseen')
    BY <1>12, <2>2, <2>3, <2>5, LimitsAreNumbers
  <2> QED
    BY <2>1, <2>6
<1>16. ASSUME NEW t \in Nat, t >= now, NEW y \in ForMinute(t) \cap Booked PROVE y \in LastMinute
  <2>1. movedAt[y] \in t - Minute .. t /\ y \in Booked
    BY <1>4 DEF ForMinute
  <2>2. recordedAt[y] >= now - Minute
    BY <1>8, <1>11, <1>16, <2>1
  <2> QED
    BY <2>2 DEF LastMinute
<1>17. ASSUME NEW a \in Asset, NEW t \in Nat
       PROVE  KeptBy(MaxSpendPerMinute, With(a)' \cap ForMinute(t)', Worth', unseen')
  <2>1. PICK C, D, G : /\ C = With(a) \cap ForMinute(t) /\ D = With(a)' \cap ForMinute(t)'
                       /\ G = LastMinute \cap With(a)
    OBVIOUS
  <2>2. C \in SUBSET Admitted /\ D \in SUBSET (C \cup {x}) /\ G \in SUBSET Booked
    BY <1>7, <1>10, <2>1 DEF With, LastMinute
  <2>3. KeptBy(MaxSpendPerMinute, C, Worth, unseen)
    BY <2>1 DEF LimitsKept
  <2>4. RecentSpend(a) = SumFunctionOnSet(Worth, G)
    BY <2>1, WindowIs
  <2>5. ASSUME x \in D
        PROVE  C \cap Booked \subseteq G /\ Within(MaxSpendPerMinute, SumFunctionOnSet(Worth, G) + i.amount)
    <3>1. a = i.asset /\ t >= now
      BY <1>7, <1>10, <2>1, <2>5
    <3>2. C \cap Booked \subseteq G
      BY <1>16, <2>1, <3>1
    <3> QED
      BY <1>2, <2>4, <3>1, <3>2
  <2>6. KeptBy(MaxSpendPerMinute, D, Worth', unseen')
    BY <1>12, <2>2, <2>3, <2>5, LimitsAreNumbers
  <2> QED
    BY <2>1, <2>6
<1>18. ASSUME NEW t \in Nat PROVE KeptBy(RequestsPerMinute, ForMinute(t)', One', unseen')
  <2>1. PICK limit, C, D, G, w, v, before, ahead :
          /\ limit = RequestsPerMinute /\ C = ForMinute(t) /\ D = ForMinute(t)' /\ G = LastMinute
          /\ w = One /\ v = One' /\ before = unseen /\ ahead = unseen'
    OBVIOUS
  <2>2. C \in SUBSET Admitted /\ D \in SUBSET (C \cup {x}) /\ G \in SUBSET Booked
    BY <1>10, <2>1 DEF ForMinute, LastMinute
  <2>3. /\ IsFiniteSet(C) /\ IsFiniteSet(G) /\ x \notin C /\ v[x] = 1
        /\ ahead[x] = InFlight \cup Unrecorded
        /\ \A y \in C : v[y] = w[y] /\ v[y] \in Nat /\ ahead[y] = before[y]
        /\ \A y \in G : w[y] \in Nat /\ v[y] = w[y]
    BY <1>4, <1>5, <1>6, <2>1, <2>2, FS_Subset
  <2>4. KeptBy(limit, C, w, before)
    BY <2>1 DEF LimitsKept
  <2>5. limit # NoLimit => limit \in Int
    BY <2>1, LimitsAreNumbers
  <2>6. ASSUME x \in D, limit # NoLimit, NEW T \in SUBSET (C \ ahead[x])
        PROVE  SumFunctionOnSet(v, T) + v[x] <= limit
    <3>1. T \in SUBSET G
      <4>1. \A y \in T : y \in ForMinute(t) /\ y \in Admitted /\ y \notin InFlight \cup Unrecorded
        BY <2>1, <2>2, <2>3
      <4>2. t >= now
        BY <1>10, <2>1, <2>6
      <4> QED
        BY <1>4, <1>16, <2>1, <4>1, <4>2
    <3>2. SumFunctionOnSet(w, G) < limit /\ SumFunctionOnSet(w, G) \in Int
      <4>1. SumFunctionOnSet(w, G) = Len(Pruned(recent)) /\ Len(Pruned(recent)) < limit
        BY <1>2, <2>1, <2>6, WindowIs
      <4>2. \A y \in G : w[y] \in Int
        BY <2>3
      <4> QED
        BY <2>3, <4>1, <4>2, SumType
    <3>3. PICK s : s = SumFunctionOnSet(w, G)
      OBVIOUS
    <3>4. s + v[x] <= limit /\ limit \in Int /\ v[x] \in Nat
      BY <2>3, <2>5, <2>6, <3>2, <3>3
    <3> QED
      BY <2>3, <3>1, <3>3, <3>4, RoomLeft
  <2>7. v[x] \in Nat
    BY <2>3
  <2>8. KeptBy(limit, D, v, ahead)
    BY <2>2, <2>3, <2>4, <2>5, <2>6, <2>7, CheckedKeeps
  <2> QED
    BY <2>1, <2>8
<1> QED
  BY <1>13, <1>14, <1>15, <1>17, <1>18 DEF LimitsKept

LimitsInv == CountInv /\ LimitsKept

LEMMA LimitsInit == Init => LimitsInv
<1> SUFFICES ASSUME Init PROVE LimitsInv
  OBVIOUS
<1>1. Admitted = {}
  BY DEF Init, Admitted, Unrecorded, moved
<1>2. \A limit, w, before : KeptBy(limit, {}, w, before)
  BY DEF KeptBy
<1>3. \A a : With(a) = {} /\ \A K : With(a) \cap K = {}
  BY <1>1 DEF With
<1>4. \A t : ForMinute(t) = {}
  BY <1>1 DEF ForMinute
<1>5. LimitsKept
  <2>1. \A a, p, limit : KeptBy(limit, With(a), Worth, unseen) /\ KeptBy(limit, With(a) \cap To(p), Worth, unseen)
    BY <1>2, <1>3
  <2>2. \A a, d, limit : KeptBy(limit, With(a) \cap ForDay(d), Worth, unseen)
    BY <1>2, <1>3
  <2>3. \A a, t, limit : KeptBy(limit, With(a) \cap ForMinute(t), Worth, unseen)
    BY <1>2, <1>3
  <2>4. \A t, limit : KeptBy(limit, ForMinute(t), One, unseen)
    BY <1>2, <1>4
  <2> QED
    BY <2>1, <2>2, <2>3, <2>4 DEF LimitsKept
<1> QED
  BY <1>5, CountInit DEF LimitsInv

LEMMA LimitsStep == LimitsInv /\ [Next]_vars => LimitsInv'
<1> SUFFICES ASSUME LimitsInv, [Next]_vars PROVE LimitsInv'
  OBVIOUS
<1>ok. CountInv /\ LimitsKept /\ CountInv' /\ CallsOK
  BY CountStep DEF LimitsInv, CountInv
<1>0. Booked \subseteq Pay /\ now \in Nat
  BY <1>ok DEF Booked, CallsOK
<1>1. ASSUME UNCHANGED payVars, now <= now' PROVE LimitsKept'
  <2>1. Admitted' = Admitted /\ moved' = moved /\ UNCHANGED <<intent, unseen, movedAt>>
    BY <1>1 DEF payVars, Admitted, Unrecorded, moved
  <2> QED
    BY <1>1, <1>ok, <2>1, LimitsStay
<1>2. CASE Tick \/ UNCHANGED vars \/ \E h \in Handler : On(h)
  <2>1. UNCHANGED payVars /\ now <= now'
    BY <1>0, <1>2 DEF Tick, vars, clientVars, On
  <2> QED
    BY <1>1, <2>1, <1>ok DEF LimitsInv
<1>3. ASSUME NEW x \in Pay, ReceiptRecorded(x) PROVE LimitsKept'
  <2>1. Admitted' = Admitted
    BY <1>3, <1>ok, CountersRecorded
  <2>2. UNCHANGED <<now, intent, unseen, movedAt>> /\ moved' = moved
    BY <1>3 DEF ReceiptRecorded, moved
  <2>5. now <= now'
    BY <1>0, <2>2
  <2> QED
    BY <1>ok, <2>1, <2>2, <2>5, LimitsStay
<1>4. ASSUME NEW x \in Pay, DecideFails(x) \/ CheckPolicy(x) \/ Settle(x) \/ ReceiptFails(x),
             UNCHANGED <<intent, unseen>>, x \in Admitted' => x \in Admitted,
             x \in moved => movedAt' = movedAt
      PROVE  LimitsKept'
  <2>1. /\ now' = now
        /\ \A y \in Pay : y # x => pc'[y] = pc[y] /\ movedAt'[y] = movedAt[y]
        /\ moved \subseteq moved' /\ moved' \subseteq moved \cup {x}
        /\ \A y \in moved' \ moved : movedAt'[y] = now
    BY <1>4, <1>ok, CallCounts
  <2>2. Admitted' \subseteq Admitted
    <3>1. \A y \in Pay : y # x /\ y \in Admitted' => y \in Admitted
      BY <2>1 DEF Admitted, Unrecorded
    <3>2. Admitted' \subseteq Pay
      BY DEF Admitted, Unrecorded, moved
    <3> QED
      BY <1>4, <3>1, <3>2
  <2>3. now <= now'
    BY <1>0, <2>1
  <2>4. \A y \in moved : y \in Pay /\ movedAt'[y] = movedAt[y]
    BY <1>4, <2>1 DEF moved
  <2> QED
    BY <1>4, <1>ok, <2>1, <2>2, <2>3, <2>4, LimitsStay
<1>5. ASSUME NEW x \in Pay, DecideFails(x) \/ Settle(x) \/ ReceiptFails(x) PROVE LimitsKept'
  <2>1. UNCHANGED <<intent, unseen>>
    BY <1>5 DEF DecideFails, Settle, ReceiptFails
  <2>2. \/ Go(x, "threw") /\ movedAt' = movedAt
        \/ Go(x, "paid") /\ pc[x] = "settling"
    BY <1>5 DEF DecideFails, Settle, ReceiptFails
  <2>3. (x \in Admitted' => x \in Admitted) /\ (x \in moved => movedAt' = movedAt)
    <3>1. CASE Go(x, "threw") /\ movedAt' = movedAt
      <4>1. pc'[x] = "threw" /\ moved' = moved
        BY <1>ok, <3>1 DEF Go, CallsOK, moved
      <4>2. x \in Admitted' => x \in moved
        BY <4>1 DEF Admitted, Unrecorded
      <4>3. x \in moved => pc[x] \in {"paid", "done", "threw"}
        BY <1>ok DEF CallsOK
      <4> QED
        BY <3>1, <4>2, <4>3 DEF Admitted, Unrecorded
    <3>2. CASE Go(x, "paid") /\ pc[x] = "settling"
      <4>1. x \in Admitted /\ x \notin moved
        BY <1>ok, <3>2 DEF Admitted, CallsOK
      <4> QED
        BY <4>1
    <3> QED
      BY <2>2, <3>1, <3>2
  <2> QED
    BY <1>4, <1>5, <2>1, <2>3
<1>6. ASSUME NEW x \in Pay, CheckPolicy(x) PROVE LimitsKept'
  <2>1. PICK i \in [payee : Payee, asset : Asset, amount : Amounts, model : DecidedModels \cap Model] :
          \/ (Go(x, "blocked") \/ Go(x, "threw")) /\ UNCHANGED <<intent, unseen>>
          \/ /\ Parses(i) /\ Allows(i) /\ Go(x, "settling")
             /\ intent' = [intent EXCEPT ![x] = i]
             /\ unseen' = [unseen EXCEPT ![x] = InFlight \cup Unrecorded]
    BY <1>6 DEF CheckPolicy
  <2>4. pc[x] = "idle" /\ now' = now /\ recordedAt' = recordedAt /\ movedAt' = movedAt
    BY <1>6 DEF CheckPolicy, Begins
  <2>2. CASE (Go(x, "blocked") \/ Go(x, "threw")) /\ UNCHANGED <<intent, unseen>>
    <3>1. pc'[x] \in {"blocked", "threw"} /\ moved' = moved
      BY <1>ok, <2>2, <2>4 DEF Go, CallsOK, moved
    <3>2. x \notin moved
      BY <1>ok, <2>4 DEF CallsOK
    <3>3. x \notin Admitted'
      BY <3>1, <3>2 DEF Admitted, Unrecorded
    <3> QED
      BY <1>4, <1>6, <2>2, <3>2, <3>3
  <2>3. CASE /\ Parses(i) /\ Allows(i) /\ Go(x, "settling")
             /\ intent' = [intent EXCEPT ![x] = i]
             /\ unseen' = [unseen EXCEPT ![x] = InFlight \cup Unrecorded]
    <3>1. i \in Intent
      BY ClientAssumption DEF Intent
    <3>2. pc[x] = "idle" /\ now' = now /\ recordedAt' = recordedAt /\ movedAt' = movedAt
      BY <2>4
    <3> QED
      BY <1>ok, <2>3, <3>1, <3>2, LimitsChecked
  <2> QED
    BY <2>1, <2>2, <2>3
<1>7. LimitsKept'
  BY <1>2, <1>3, <1>5, <1>6 DEF Next, AllPaid, LimitsInv
<1> QED
  BY <1>7, <1>ok DEF LimitsInv

\* Limits are kept but for what a check could not see, by any of the calls they
\* are about.
THEOREM LimitsInvariant == Spec => []LimitsInv
BY LimitsInit, LimitsStep, PTL DEF Spec

LEMMA HeldBy ==
  ASSUME CallsOK, NEW limit, NEW C \in SUBSET Admitted, KeptBy(limit, C, Worth, unseen), NEW S \in SUBSET C
  PROVE  Held(limit, S, AmountOf)
<1> SUFFICES ASSUME limit # NoLimit, S # {}
             PROVE  \E x \in S : AmountOf(S) <= limit + AmountOf(unseen[x] \cap S)
  BY DEF Held
<1>1. PICK x \in S : SumFunctionOnSet(Worth, S) <= limit + SumFunctionOnSet(Worth, unseen[x] \cap S)
  BY DEF KeptBy
<1>2. PICK T : T = unseen[x] \cap S
  OBVIOUS
<1>3. S \in SUBSET Admitted /\ T \in SUBSET Admitted
  BY <1>2
<1>4. AmountOf(S) = SumFunctionOnSet(Worth, S) /\ AmountOf(T) = SumFunctionOnSet(Worth, T)
  BY <1>3, AmountIs
<1>5. AmountOf(S) <= limit + AmountOf(T)
  BY <1>1, <1>2, <1>4
<1> QED
  BY <1>2, <1>5

\* The payments of an asset that moved in some time.
LEMMA MovedIs ==
  ASSUME CallsOK, NEW a, NEW from, NEW to
  PROVE  Moved(a, from, to) = {x \in moved : movedAt[x] \in from .. to} \cap With(a)
<1>1. moved \subseteq Admitted
  BY DEF CallsOK, Admitted, Unrecorded, moved
<1> QED
  BY <1>1 DEF Moved, With

\* For any budgets and amounts, however calls overlap, whichever receipts fail
\* and wherever midnight falls: all that moved beyond a budget is no more than
\* what was in flight, or had moved unrecorded, at the check of one of the
\* payments.
THEOREM BudgetsHold == Spec => []BudgetsExceededOnlyByUnseen
<1>1. LimitsInv => BudgetsExceededOnlyByUnseen
  <2> SUFFICES ASSUME LimitsInv, NEW a \in Asset
               PROVE  /\ Held(TotalBudget, Moved(a, 0, now), AmountOf)
                      /\ \A p \in Payee :
                           Held(ServiceCap[p], {x \in Moved(a, 0, now) : intent[x].payee = p}, AmountOf)
                      /\ \A d \in 0 .. Today :
                           Held(DailyBudget, Moved(a, d * Day, (d + 1) * Day - 1), AmountOf)
    BY DEF BudgetsExceededOnlyByUnseen
  <2>ok. CallsOK
    BY DEF LimitsInv, CountInv
  <2>1. With(a) \in SUBSET Admitted
    BY DEF With
  <2>2. Moved(a, 0, now) \subseteq With(a)
    BY <2>ok, MovedIs
  <2>3. Held(TotalBudget, Moved(a, 0, now), AmountOf)
    <3>1. KeptBy(TotalBudget, With(a), Worth, unseen)
      BY DEF LimitsInv, LimitsKept
    <3> QED
      BY <2>ok, <2>1, <2>2, <3>1, HeldBy
  <2>4. ASSUME NEW p \in Payee
        PROVE  Held(ServiceCap[p], {x \in Moved(a, 0, now) : intent[x].payee = p}, AmountOf)
    <3>1. PICK C, S : C = With(a) \cap To(p) /\ S = {x \in Moved(a, 0, now) : intent[x].payee = p}
      OBVIOUS
    <3>2. C \in SUBSET Admitted /\ S \in SUBSET C
      BY <2>1, <2>2, <3>1 DEF To
    <3>3. KeptBy(ServiceCap[p], C, Worth, unseen)
      BY <3>1 DEF LimitsInv, LimitsKept
    <3>4. Held(ServiceCap[p], S, AmountOf)
      BY <2>ok, <3>2, <3>3, HeldBy
    <3> QED
      BY <3>1, <3>4
  <2>5. ASSUME NEW d \in 0 .. Today
        PROVE  Held(DailyBudget, Moved(a, d * Day, (d + 1) * Day - 1), AmountOf)
    <3>1. d \in Nat /\ d * Day \in Int /\ (d + 1) * Day - 1 \in Int
      <4>1. d \in Nat /\ Day \in Nat
        BY PolicyAssumption
      <4> QED
        BY <4>1
    <3>2. PICK C, S : C = With(a) \cap ForDay(d) /\ S = Moved(a, d * Day, (d + 1) * Day - 1)
      OBVIOUS
    <3>3. S = {x \in moved : movedAt[x] \in d * Day .. ((d + 1) * Day - 1)} \cap With(a)
      BY <2>ok, <3>1, <3>2, MovedIs
    <3>4. ASSUME NEW x \in S PROVE x \in C
      <4>1. x \in moved /\ x \in With(a) /\ x \in Admitted /\ movedAt[x] \in d * Day .. ((d + 1) * Day - 1)
        BY <3>3 DEF With
      <4>2. movedAt[x] \in Nat
        BY <2>ok, <4>1 DEF CallsOK, moved
      <4>3. DayOf(movedAt[x]) = d
        BY <3>1, <4>1, <4>2, DayIs
      <4> QED
        BY <3>2, <4>1, <4>3 DEF ForDay
    <3>5. C \in SUBSET Admitted /\ S \in SUBSET C
      BY <2>1, <3>2, <3>4
    <3>6. KeptBy(DailyBudget, C, Worth, unseen)
      BY <3>1, <3>2 DEF LimitsInv, LimitsKept
    <3>7. Held(DailyBudget, S, AmountOf)
      BY <2>ok, <3>5, <3>6, HeldBy
    <3> QED
      BY <3>2, <3>7
  <2> QED
    BY <2>3, <2>4, <2>5
<1> QED
  BY <1>1, LimitsInvariant, PTL

\* The rate limit and the anomaly stop, likewise, in every minute.
THEOREM WindowsHold == Spec => []WindowsExceededOnlyByUnseen
<1>1. LimitsInv => WindowsExceededOnlyByUnseen
  <2> SUFFICES ASSUME LimitsInv, NEW t \in 0 .. now
               PROVE  /\ Held(RequestsPerMinute, UNION {Moved(a, t - Minute, t) : a \in Asset}, Cardinality)
                      /\ \A a \in Asset : Held(MaxSpendPerMinute, Moved(a, t - Minute, t), AmountOf)
    BY DEF WindowsExceededOnlyByUnseen
  <2>ok. CallsOK
    BY DEF LimitsInv, CountInv
  <2>1. t \in Nat /\ t - Minute \in Int /\ t \in Int
    <3>1. t \in Nat /\ Minute \in Nat
      BY PolicyAssumption
    <3> QED
      BY <3>1
  <2>2. ASSUME NEW a \in Asset PROVE Moved(a, t - Minute, t) \subseteq With(a) \cap ForMinute(t)
    <3>1. Moved(a, t - Minute, t) = {x \in moved : movedAt[x] \in t - Minute .. t} \cap With(a)
      BY <2>ok, <2>1, MovedIs
    <3> QED
      BY <3>1 DEF ForMinute, With
  <2>3. ASSUME NEW a \in Asset PROVE Held(MaxSpendPerMinute, Moved(a, t - Minute, t), AmountOf)
    <3>1. PICK C, S : C = With(a) \cap ForMinute(t) /\ S = Moved(a, t - Minute, t)
      OBVIOUS
    <3>2. C \in SUBSET Admitted /\ S \in SUBSET C
      BY <2>2, <3>1 DEF With
    <3>3. KeptBy(MaxSpendPerMinute, C, Worth, unseen)
      BY <2>1, <3>1 DEF LimitsInv, LimitsKept
    <3>4. Held(MaxSpendPerMinute, S, AmountOf)
      BY <2>ok, <3>2, <3>3, HeldBy
    <3> QED
      BY <3>1, <3>4
  <2>4. Held(RequestsPerMinute, UNION {Moved(a, t - Minute, t) : a \in Asset}, Cardinality)
    <3>1. PICK S : S = UNION {Moved(a, t - Minute, t) : a \in Asset}
      OBVIOUS
    <3>2. S \in SUBSET ForMinute(t) /\ S \subseteq Admitted
      BY <2>2, <3>1 DEF ForMinute
    <3> SUFFICES ASSUME RequestsPerMinute # NoLimit, S # {}
                 PROVE  \E x \in S : Cardinality(S) <= RequestsPerMinute + Cardinality(unseen[x] \cap S)
      BY <3>1 DEF Held
    <3>3. KeptBy(RequestsPerMinute, ForMinute(t), One, unseen)
      BY <2>1 DEF LimitsInv, LimitsKept
    <3>4. PICK x \in S : SumFunctionOnSet(One, S) <= RequestsPerMinute + SumFunctionOnSet(One, unseen[x] \cap S)
      BY <3>2, <3>3 DEF KeptBy
    <3>5. PICK T : T = unseen[x] \cap S
      OBVIOUS
    <3>6. IsFiniteSet(S) /\ IsFiniteSet(T) /\ (\A y \in S : One[y] = 1) /\ (\A y \in T : One[y] = 1)
      <4>1. IsFiniteSet(Admitted) /\ \A y \in Admitted : One[y] = 1
        BY <2>ok, Sizes
      <4>2. S \subseteq Admitted /\ T \subseteq Admitted
        BY <3>2, <3>5
      <4> QED
        BY <4>1, <4>2, FS_Subset
    <3>7. SumFunctionOnSet(One, S) = Cardinality(S) /\ SumFunctionOnSet(One, T) = Cardinality(T)
      BY <3>6, SumOfOnes
    <3>8. Cardinality(S) <= RequestsPerMinute + Cardinality(T)
      BY <3>4, <3>5, <3>7
    <3> QED
      BY <3>5, <3>8
  <2> QED
    BY <2>3, <2>4
<1> QED
  BY <1>1, LimitsInvariant, PTL

=============================================================================
