------------------------ MODULE SettlementGate_proofs ------------------------
(***************************************************************************)
(* Theorems about SettlementGate, for any number of requests, gates,       *)
(* processes and caches and any bound on the failures: its types, its own  *)
(* order of things, what its requests tell each other (waiters and owners  *)
(* agree, a mismatch names a real payment, an abandoned lock was           *)
(* reported), how often a payment is charged, and that the gates keep the  *)
(* promises of ChargeLedger.                                               *)
(***************************************************************************)
EXTENDS SettlementGate, FiniteSetTheorems, TLAPS

(***************************************************************************)
(* Type correctness.                                                       *)
(***************************************************************************)

\* A request past routing has a key, a gate and perhaps a cache.
LEMMA LiveData ==
  ASSUME TypeOK, NEW r \in Request, pc[r] \in Live
  PROVE  /\ req[r] \in RequestData
         /\ KeyOf(r) \in Key
         /\ req[r].gate \in Gate
         /\ CacheFor(r) \in Cache \cup {NoCache}
BY ConfigAssumption DEF TypeOK, KeyOf, Key, RequestData, CacheFor

\* What a cache lookup returns.
LEMMA CachedType ==
  ASSUME TypeOK, NEW r \in Request, pc[r] \in Live
  PROVE  Cached(r) \in Receipt \cup {NoReceipt}
BY LiveData DEF TypeOK, Cached

\* Results and outcomes are closed under the constructors.
LEMMA ResultType ==
  /\ \A kind \in ResultKind : Bare(kind) \in Result
  /\ \A x \in Receipt \cup {NoReceipt}, b \in BOOLEAN : Ok(x, b) \in Result
  /\ \A a \in Result : [a EXCEPT !.cacheError = TRUE] \in Result
  /\ \A status \in OutcomeStatus : Rejected(status) \in Outcome
BY DEF Bare, Ok, Rejected, Result, Outcome, ResultKind

LEMMA BareType == {Bare("threw"), Bare("busy"), Bare("declined")} \subseteq Result
BY ResultType DEF ResultKind

\* A step that writes a result to one attempt, or to none, keeps them typed.
LEMMA AttType ==
  ASSUME TypeOK, NEW r \in Request, UNCHANGED att \/ \E a \in Result : AttemptIs(r, a)
  PROVE  att' \in [Request -> Result]
BY DEF TypeOK, AttemptIs

\* The lock that is taken is one of the cache's.
LEMMA TakeType ==
  ASSUME TypeOK, NEW r \in Request, UNCHANGED lock \/ TakeLock(r)
  PROVE  lock' \in [Cache -> [Key -> Request \cup {NoRequest}]]
<1>1. [lock[CacheFor(r)] EXCEPT ![KeyOf(r)] = r] \in [Key -> Request \cup {NoRequest}]
        \/ CacheFor(r) \notin Cache
  BY DEF TypeOK
<1>2. lock \in [Cache -> [Key -> Request \cup {NoRequest}]]
  BY DEF TypeOK
<1> QED
  BY <1>1, <1>2 DEF TakeLock

LEMMA GrantedFields ==
  \A x, b, e : Granted(x, b, e).receipt = x /\ Granted(x, b, e).replayed = b
BY DEF Granted

LEMMA OutcomeType ==
  ASSUME NEW r, NEW a \in Result, NEW w \in BOOLEAN
  PROVE  ToOutcome(r, a, w) \in Outcome
BY ResultType DEF ToOutcome, BoundTo, Granted, Result, Outcome, ResultKind, OutcomeStatus, Rejected

LEMMA InitType == Init => TypeOK
BY ResultType DEF Init, TypeOK, Pc, Live, Attempting, HoldsLock, ResultKind, OutcomeStatus

\* The part of TypeOK about where requests are.
PcOK ==
  /\ pc \in [Request -> Pc]
  /\ \A r \in Request : pc[r] \in Live => req[r] \in RequestData
  /\ \A r \in Request : pc[r] = "waiting" => owner[r] \in Request

\* A live request that goes on stays well placed, unless it starts to wait.
LEMMA GoType ==
  ASSUME TypeOK, NEW r \in Request, pc[r] \in Live, NEW to \in Pc \ {"waiting"},
         Go(r, to), UNCHANGED <<req, owner>>
  PROVE  PcOK'
BY DEF TypeOK, PcOK, Go

LEMMA PcNames ==
  /\ {"settle", "charged", "store", "release", "unwind", "get1", "get2",
      "acquire", "resolved", "done", "crashed", "verify"} \subseteq Pc \ {"waiting"}
  /\ {"waiting", "settle", "charged", "store", "release", "unwind", "get1", "get2",
      "acquire", "resolved", "verify"} \subseteq Live
  /\ Live \subseteq Pc
BY DEF Pc, Live, Attempting, HoldsLock

\* An arrival is refused on the spot or goes on to verification.
LEMMA ArriveCases ==
  ASSUME NEW r \in Request, Arrive(r)
  PROVE  \/ \E status \in OutcomeStatus : Answer(r, Rejected(status)) /\ UNCHANGED req
         \/ \E d \in RequestData : req' = [req EXCEPT ![r] = d] /\ Go(r, "verify") /\ UNCHANGED out
<1>1. PICK g \in Gate, p \in Payment \cup {NoPayment} : \E o \in OffersOf[g], m \in RoutesOf[g] :
        \/ \E status \in OutcomeStatus : Answer(r, Rejected(status)) /\ UNCHANGED req
        \/ /\ p # NoPayment /\ m \in SettledModel
           /\ req' = [req EXCEPT ![r] = [gate |-> g, pay |-> p, offer |-> o, model |-> m]]
           /\ Go(r, "verify") /\ UNCHANGED out
  BY DEF Arrive, OutcomeStatus, SettledModel
<1>2. \A o \in OffersOf[g] : o \in Offer
  BY ConfigAssumption
<1> QED
  BY <1>1, <1>2 DEF RequestData

\* The counters, the locks and the cache keep their shapes.
LEMMA FaultType ==
  ASSUME TypeOK, Fault \/ NoFault
  PROVE  faults' \in Nat
BY DEF TypeOK, Fault, NoFault

LEMMA LostType ==
  ASSUME TypeOK, NEW k \in Key, Lose(k) \/ UNCHANGED lost
  PROVE  lost' \in [Key -> Nat]
<1>1. CASE Lose(k)
  BY <1>1 DEF TypeOK, Lose
<1>2. CASE UNCHANGED lost
  BY <1>2 DEF TypeOK
<1> QED
  BY <1>1, <1>2

LEMMA DropType ==
  ASSUME TypeOK, NEW r \in Request, pc[r] \in Live, DropLock(r) \/ KeepLock
  PROVE  lock' \in [Cache -> [Key -> Request \cup {NoRequest}]] /\ lost' \in [Key -> Nat]
<1>1. KeyOf(r) \in Key /\ CacheFor(r) \in Cache \cup {NoCache}
  BY LiveData
<1>2. lock' = [lock EXCEPT ![CacheFor(r)][KeyOf(r)] = NoRequest] \/ UNCHANGED lock
  BY DEF DropLock, KeepLock
<1>3. Lose(KeyOf(r)) \/ UNCHANGED lost
  BY DEF DropLock, KeepLock
<1>4. lock' \in [Cache -> [Key -> Request \cup {NoRequest}]]
  <2>1. CASE lock' = [lock EXCEPT ![CacheFor(r)][KeyOf(r)] = NoRequest]
    <3> DEFINE other == [lock[CacheFor(r)] EXCEPT ![KeyOf(r)] = NoRequest]
    <3>1. CacheFor(r) \in Cache => other \in [Key -> Request \cup {NoRequest}]
      BY <1>1 DEF TypeOK
    <3>2. lock' = [lock EXCEPT ![CacheFor(r)] = other]
      BY <2>1
    <3> HIDE DEF other
    <3> QED
      BY <3>1, <3>2 DEF TypeOK
  <2>2. CASE UNCHANGED lock
    BY <2>2 DEF TypeOK
  <2> QED
    BY <1>2, <2>1, <2>2
<1> QED
  BY <1>1, <1>3, <1>4, LostType

LEMMA PutType ==
  ASSUME TypeOK, NEW r \in Request, pc[r] \in Live, NEW x \in Receipt \cup {NoReceipt},
         Put(r, x) \/ UNCHANGED entry
  PROVE  entry' \in [Cache -> [Key -> Receipt \cup {NoReceipt}]]
<1>1. KeyOf(r) \in Key /\ CacheFor(r) \in Cache \cup {NoCache}
  BY LiveData
<1>2. CASE Put(r, x)
  BY <1>1, <1>2 DEF TypeOK, Put
<1>3. CASE UNCHANGED entry
  BY <1>3 DEF TypeOK
<1> QED
  BY <1>2, <1>3

LEMMA StepType == TypeOK /\ [Next]_vars => TypeOK'
<1> SUFFICES ASSUME TypeOK, [Next]_vars PROVE TypeOK'
  OBVIOUS
<1> USE PcNames
<1>1. ASSUME NEW r \in Request, Arrive(r) PROVE TypeOK'
  <2>1. CASE \E status \in OutcomeStatus : Answer(r, Rejected(status)) /\ UNCHANGED req
    <3>1. out' \in [Request -> Outcome]
      BY <2>1, ResultType DEF Answer, TypeOK
    <3>2. PcOK'
      BY <1>1, <2>1 DEF Arrive, Answer, PcOK, TypeOK, Go, Pc, Live, Attempting, HoldsLock
    <3> QED
      BY <1>1, <2>1, <3>1, <3>2 DEF Arrive, TypeOK, PcOK, cacheVars
  <2>2. CASE \E d \in RequestData : req' = [req EXCEPT ![r] = d] /\ Go(r, "verify") /\ UNCHANGED out
    <3>1. PICK d \in RequestData : req' = [req EXCEPT ![r] = d] /\ Go(r, "verify") /\ UNCHANGED out
      BY <2>2
    <3>2. \A q \in Request \ {r} : req'[q] = req[q] /\ pc'[q] = pc[q]
      BY <3>1 DEF TypeOK, Go
    <3>3. pc' \in [Request -> Pc] /\ pc'[r] = "verify" /\ req'[r] \in RequestData
      BY <3>1 DEF TypeOK, Go
    <3>4. UNCHANGED owner
      BY <1>1 DEF Arrive
    <3>5. PcOK'
      BY <3>2, <3>3, <3>4 DEF PcOK, TypeOK
    <3>6. req' \in [Request -> RequestData \cup {NoData}]
      BY <3>1 DEF TypeOK
    <3> QED
      BY <1>1, <3>1, <3>5, <3>6 DEF Arrive, TypeOK, PcOK, cacheVars
  <2> QED
    BY <1>1, <2>1, <2>2, ArriveCases
<1>2. ASSUME NEW r \in Request, VerifyFails(r) PROVE TypeOK'
  <2>1. PcOK'
    BY <1>2, GoType DEF VerifyFails, Answer
  <2>2. out' \in [Request -> Outcome]
    BY <1>2, ResultType DEF VerifyFails, Answer, TypeOK, OutcomeStatus
  <2> QED
    BY <1>2, <2>1, <2>2 DEF TypeOK, PcOK, VerifyFails, Fault, NoFault, cacheVars
<1>3. ASSUME NEW r \in Request, Join(r) PROVE TypeOK'
  <2>1. Pending(r) \in Request
    BY <1>3, LiveData DEF Join, Pending, TypeOK
  <2>2. PcOK'
    BY <1>3, <2>1 DEF Join, Go, PcOK, TypeOK
  <2> QED
    BY <1>3, <2>1, <2>2 DEF Join, TypeOK, PcOK, cacheVars
<1>4. ASSUME NEW r \in Request, Start(r) PROVE TypeOK'
  <2>1. PcOK'
    BY <1>4, GoType DEF Start
  <2>2. inFlight' \in [Gate -> [Key -> Request \cup {NoRequest}]]
    BY <1>4, LiveData DEF Start, TypeOK
  <2> QED
    BY <1>4, <2>1, <2>2 DEF TypeOK, PcOK, Start, cacheVars
<1>5. ASSUME NEW r \in Request, FirstGet(r) PROVE TypeOK'
  <2>1. PcOK'
    BY <1>5, GoType DEF FirstGet, Resolve
  <2>2. att' \in [Request -> Result]
    <3>1. pc[r] \in Live
      BY <1>5, PcNames DEF FirstGet
    <3>2. Ok(Cached(r), TRUE) \in Result
      BY <3>1, CachedType, ResultType
    <3> QED
      BY <1>5, <3>2, BareType, AttType DEF FirstGet, Resolve
  <2>3. faults' \in Nat
    BY <1>5, FaultType DEF FirstGet
  <2> QED
    BY <1>5, <2>1, <2>2, <2>3 DEF TypeOK, PcOK, FirstGet, cacheVars
<1>6. ASSUME NEW r \in Request, Acquire(r) PROVE TypeOK'
  <2>1. PcOK'
    BY <1>6, GoType DEF Acquire, Resolve
  <2>2. att' \in [Request -> Result]
    BY <1>6, BareType, AttType DEF Acquire, Resolve
  <2>3. lock' \in [Cache -> [Key -> Request \cup {NoRequest}]]
    BY <1>6, TakeType DEF Acquire
  <2>4. faults' \in Nat
    BY <1>6, FaultType DEF Acquire
  <2> QED
    BY <1>6, <2>1, <2>2, <2>3, <2>4 DEF TypeOK, PcOK, Acquire
<1>7. ASSUME NEW r \in Request, SecondGet(r) PROVE TypeOK'
  <2>1. PcOK'
    BY <1>7, GoType DEF SecondGet
  <2>2. att' \in [Request -> Result]
    <3>1. pc[r] \in Live
      BY <1>7, PcNames DEF SecondGet
    <3>2. Ok(Cached(r), TRUE) \in Result
      BY <3>1, CachedType, ResultType
    <3> QED
      BY <1>7, <3>2, BareType, AttType DEF SecondGet
  <2>3. faults' \in Nat
    BY <1>7, FaultType DEF SecondGet
  <2> QED
    BY <1>7, <2>1, <2>2, <2>3 DEF TypeOK, PcOK, SecondGet, cacheVars
<1>8. ASSUME NEW r \in Request, Settle(r) PROVE TypeOK'
  <2>1. PcOK'
    BY <1>8, GoType DEF Settle, Released, Unwound
  <2>2. att' \in [Request -> Result]
    BY <1>8, BareType, AttType DEF Settle
  <2>3. faults' \in Nat
    BY <1>8, FaultType DEF Settle
  <2> QED
    BY <1>8, <2>1, <2>2, <2>3 DEF TypeOK, PcOK, Settle, cacheVars
<1>9. ASSUME NEW r \in Request, SettleReturns(r) PROVE TypeOK'
  <2>1. PcOK'
    BY <1>9, GoType DEF SettleReturns, Unwound
  <2>2. NewReceipt(r) \in Receipt /\ KeyOf(r) \in Key
    BY <1>9, LiveData DEF SettleReturns, NewReceipt, Receipt, RequestData
  <2>3. Ok(NewReceipt(r), FALSE) \in Result /\ Bare("threw") \in Result
    BY <2>2, ResultType DEF ResultKind
  <2>4. att' \in [Request -> Result]
    BY <1>9, <2>3, AttType DEF SettleReturns
  <2>5. faults' \in Nat /\ lost' \in [Key -> Nat]
    BY <1>9, <2>2, FaultType, LostType DEF SettleReturns
  <2> QED
    BY <1>9, <2>1, <2>4, <2>5 DEF TypeOK, PcOK, SettleReturns, cacheVars
<1>10. ASSUME NEW r \in Request, Store(r) PROVE TypeOK'
  <2>1. PcOK'
    BY <1>10, GoType DEF Store, Released
  <2>2. att[r] \in Result /\ att[r].receipt \in Receipt \cup {NoReceipt} /\ KeyOf(r) \in Key
    BY <1>10, LiveData DEF TypeOK, Result, Store
  <2>6. Bare("threw") \in Result /\ [att[r] EXCEPT !.cacheError = TRUE] \in Result
    BY <2>2, ResultType DEF ResultKind
  <2>3. att' \in [Request -> Result]
    BY <1>10, <2>6, AttType DEF Store
  <2>4. faults' \in Nat /\ lost' \in [Key -> Nat]
    BY <1>10, <2>2, FaultType, LostType DEF Store
  <2>5. entry' \in [Cache -> [Key -> Receipt \cup {NoReceipt}]]
    BY <1>10, <2>2, PutType DEF Store
  <2> QED
    BY <1>10, <2>1, <2>3, <2>4, <2>5 DEF TypeOK, PcOK, Store
<1>11. ASSUME NEW r \in Request, Release(r) PROVE TypeOK'
  <2>1. PcOK'
    BY <1>11, GoType DEF Release, Resolve
  <2>2. att[r] \in Result /\ [att[r] EXCEPT !.cacheError = TRUE] \in Result /\ Bare("threw") \in Result
    BY ResultType DEF TypeOK, ResultKind
  <2>6. \A result \in AfterFailedRelease(att[r]) : result \in Result
    BY <2>2 DEF AfterFailedRelease
  <2>3. att' \in [Request -> Result]
    BY <1>11, <2>2, <2>6, AttType DEF Release, Resolve
  <2>4. faults' \in Nat /\ lost' \in [Key -> Nat] /\ lock' \in [Cache -> [Key -> Request \cup {NoRequest}]]
    BY <1>11, FaultType, DropType DEF Release
  <2> QED
    BY <1>11, <2>1, <2>3, <2>4 DEF TypeOK, PcOK, Release
<1>12. ASSUME NEW r \in Request, Unwind(r) PROVE TypeOK'
  <2>1. PcOK'
    BY <1>12, GoType DEF Unwind
  <2>2. faults' \in Nat /\ lost' \in [Key -> Nat] /\ lock' \in [Cache -> [Key -> Request \cup {NoRequest}]]
    BY <1>12, FaultType, DropType DEF Unwind
  <2> QED
    BY <1>12, <2>1, <2>2 DEF TypeOK, PcOK, Unwind
<1>13. ASSUME NEW r \in Request, OwnerReturns(r) PROVE TypeOK'
  <2>1. PcOK'
    BY <1>13, GoType DEF OwnerReturns, Answer
  <2>2. out' \in [Request -> Outcome]
    BY <1>13, OutcomeType DEF OwnerReturns, Answer, TypeOK
  <2>3. inFlight' \in [Gate -> [Key -> Request \cup {NoRequest}]]
    BY <1>13, LiveData DEF OwnerReturns, TypeOK
  <2> QED
    BY <1>13, <2>1, <2>2, <2>3 DEF TypeOK, PcOK, OwnerReturns, cacheVars
<1>14. ASSUME NEW r \in Request, WaiterReturns(r) PROVE TypeOK'
  <2>1. PcOK'
    BY <1>14, GoType DEF WaiterReturns, Answer
  <2>2. out' \in [Request -> Outcome]
    BY <1>14, OutcomeType DEF WaiterReturns, Answer, TypeOK
  <2> QED
    BY <1>14, <2>1, <2>2 DEF TypeOK, PcOK, WaiterReturns, cacheVars
<1>15. ASSUME NEW c \in Cache, NEW k \in Key, EntryExpires(c, k) PROVE TypeOK'
  BY <1>15 DEF TypeOK, EntryExpires, Fault, Lose, requestVars
<1>16. ASSUME NEW c \in Cache, NEW k \in Key, LockExpires(c, k) PROVE TypeOK'
  BY <1>16 DEF TypeOK, LockExpires, requestVars
<1>17. ASSUME NEW c \in Cache, NEW k \in Key, LockOverrun(c, k) PROVE TypeOK'
  BY <1>17 DEF TypeOK, LockOverrun, Fault, Lose, requestVars
<1>18. ASSUME NEW p \in Process, Crash(p) PROVE TypeOK'
  <2> DEFINE dying == {r \in Request : pc[r] \in Live /\ req[r].gate \in GatesOf(p)}
             unwritten(k) == {r \in dying : pc[r] \in {"charged", "store"} /\ KeyOf(r) = k}
             forgotten(k) == {c \in MemoryOf(p) : entry[c][k] # NoReceipt}
  <2>1. \A k \in Key : Cardinality(unwritten(k)) \in Nat
    <3> SUFFICES ASSUME NEW k \in Key PROVE Cardinality(unwritten(k)) \in Nat
      OBVIOUS
    <3>1. unwritten(k) \subseteq Request
      OBVIOUS
    <3> QED
      BY <3>1, FiniteAssumption, FS_Subset, FS_CardinalityType
  <2>2. \A k \in Key : Cardinality(forgotten(k)) \in Nat
    <3> SUFFICES ASSUME NEW k \in Key PROVE Cardinality(forgotten(k)) \in Nat
      OBVIOUS
    <3>1. forgotten(k) \subseteq Cache
      BY DEF MemoryOf
    <3> QED
      BY <3>1, FiniteAssumption, FS_Subset, FS_CardinalityType
  <2>3. lost' = [k \in Key |-> lost[k] + Cardinality(unwritten(k)) + Cardinality(forgotten(k))]
    BY <1>18 DEF Crash
  <2>4. lost' \in [Key -> Nat]
    <3> HIDE DEF unwritten, forgotten
    <3> QED
      BY <2>1, <2>2, <2>3 DEF TypeOK
  <2>5. PcOK'
    <3>1. \A r \in Request : pc'[r] = "crashed" \/ pc'[r] = pc[r]
      BY <1>18 DEF Crash
    <3>2. pc' \in [Request -> Pc]
      BY <1>18 DEF Crash, TypeOK, Pc
    <3>3. UNCHANGED <<req, owner>>
      BY <1>18 DEF Crash
    <3>4. "crashed" \notin Live /\ "crashed" # "waiting"
      BY DEF Live, Attempting, HoldsLock
    <3> QED
      BY <3>1, <3>2, <3>3, <3>4 DEF PcOK, TypeOK
  <2>6. inFlight' \in [Gate -> [Key -> Request \cup {NoRequest}]]
    BY <1>18 DEF Crash, TypeOK
  <2>7. entry' \in [Cache -> [Key -> Receipt \cup {NoReceipt}]]
    BY <1>18 DEF Crash, TypeOK
  <2>8. faults' \in Nat
    BY <1>18, FaultType DEF Crash
  <2> QED
    BY <1>18, <2>4, <2>5, <2>6, <2>7, <2>8 DEF Crash, TypeOK, PcOK
<1>19. CASE AllAnswered
  BY <1>19 DEF AllAnswered, vars, TypeOK
<1>20. CASE UNCHANGED vars
  BY <1>20 DEF vars, TypeOK
<1> QED
  BY <1>1, <1>2, <1>3, <1>4, <1>5, <1>6, <1>7, <1>8, <1>9, <1>10, <1>11, <1>12, <1>13,
     <1>14, <1>15, <1>16, <1>17, <1>18, <1>19, <1>20 DEF Next, Step

\* The variables keep their shapes and every live request keeps its data.
THEOREM TypeCorrect == Spec => []TypeOK
<1>1. Init => TypeOK
  BY InitType
<1>2. TypeOK /\ [Next]_vars => TypeOK'
  BY StepType
<1> QED
  BY <1>1, <1>2, PTL DEF Spec

(***************************************************************************)
(* One attempt per gate and payment.  The in-flight map is exactly the set *)
(* of attempts under way: it names every one of them, under its own gate   *)
(* and key, and nothing else.                                              *)
(***************************************************************************)
AttemptsRegistered ==
  /\ \A r \in Request : pc[r] \in Attempting => inFlight[req[r].gate][KeyOf(r)] = r
  /\ \A g \in Gate, k \in Key :
       inFlight[g][k] # NoRequest => /\ pc[inFlight[g][k]] \in Attempting
                                     /\ req[inFlight[g][k]].gate = g
                                     /\ KeyOf(inFlight[g][k]) = k

\* An attempt, and whatever is in flight, stays so while its request only moves
\* from one await of the attempt to the next.
LEMMA AttemptMoves ==
  ASSUME TypeOK, AttemptsRegistered, NEW r \in Request, UNCHANGED <<req, inFlight>>,
         pc' \in [Request -> Pc], \A q \in Request \ {r} : pc'[q] = pc[q],
         pc[r] \in Attempting <=> pc'[r] \in Attempting
  PROVE  AttemptsRegistered'
<1>1. \A q \in Request : pc[q] \in Attempting <=> pc'[q] \in Attempting
  OBVIOUS
<1>2. \A q \in Request : KeyOf(q)' = KeyOf(q)
  BY DEF KeyOf
<1>3. \A g \in Gate, k \in Key : inFlight[g][k] \in Request \cup {NoRequest}
  BY DEF TypeOK
<1> QED
  BY <1>1, <1>2, <1>3 DEF AttemptsRegistered

LEMMA AttemptStep == TypeOK /\ TypeOK' /\ AttemptsRegistered /\ [Next]_vars => AttemptsRegistered'
<1> SUFFICES ASSUME TypeOK, TypeOK', AttemptsRegistered, [Next]_vars
             PROVE  AttemptsRegistered'
  OBVIOUS
<1>0. pc' \in [Request -> Pc]
  BY DEF TypeOK
<1>1. ASSUME NEW r \in Request, Arrive(r) PROVE AttemptsRegistered'
  <2>1. pc[r] = "idle" /\ UNCHANGED inFlight
    BY <1>1 DEF Arrive
  <2>2. \A q \in Request \ {r} : pc'[q] = pc[q] /\ req'[q] = req[q]
    BY <1>1, ArriveCases DEF Answer, Go, TypeOK
  <2>3. pc'[r] \notin Attempting /\ pc[r] \notin Attempting
    BY <1>1, <2>1, ArriveCases DEF Answer, Go, TypeOK, Attempting, HoldsLock
  <2>4. \A g \in Gate, k \in Key : inFlight[g][k] \in Request \cup {NoRequest}
    BY DEF TypeOK
  <2>5. \A q \in Request \ {r} : KeyOf(q)' = KeyOf(q)
    BY <2>2 DEF KeyOf
  <2> QED
    BY <2>1, <2>2, <2>3, <2>4, <2>5 DEF AttemptsRegistered
<1>2. ASSUME NEW r \in Request, VerifyFails(r) PROVE AttemptsRegistered'
  BY <1>0, <1>2, AttemptMoves DEF VerifyFails, Answer, Go, TypeOK, Attempting, HoldsLock
<1>3. ASSUME NEW r \in Request, Join(r) PROVE AttemptsRegistered'
  <2>1. pc' = [pc EXCEPT ![r] = "waiting"] /\ pc[r] = "verify" /\ UNCHANGED <<req, inFlight>>
    BY <1>3 DEF Join, Go
  <2>2. "waiting" \notin Attempting /\ "verify" \notin Attempting
    BY DEF Attempting, HoldsLock
  <2> QED
    BY <1>0, <2>1, <2>2, AttemptMoves DEF TypeOK
<1>4. ASSUME NEW r \in Request, Start(r) PROVE AttemptsRegistered'
  <2>1. /\ req[r].gate \in Gate /\ KeyOf(r) \in Key
        /\ pc[r] = "verify" /\ inFlight[req[r].gate][KeyOf(r)] = NoRequest
        /\ UNCHANGED req
    BY <1>4, LiveData DEF Start, Pending, Live
  <2>2. \A q \in Request : KeyOf(q)' = KeyOf(q)
    BY <2>1 DEF KeyOf
  <2>3. \A q \in Request \ {r} : pc'[q] = pc[q]
    BY <1>4 DEF Start, Go, TypeOK
  <2>4. pc'[r] = "get1" /\ pc'[r] \in Attempting /\ pc[r] \notin Attempting
    BY <1>4 DEF Start, Go, TypeOK, Attempting, HoldsLock
  <2>5. \A g \in Gate, k \in Key :
          inFlight'[g][k] = IF g = req[r].gate /\ k = KeyOf(r) THEN r ELSE inFlight[g][k]
    BY <1>4, <2>1 DEF Start, TypeOK
  <2>6. \A q \in Request \ {r} : pc[q] \in Attempting =>
          req[q].gate \in Gate /\ KeyOf(q) \in Key /\ inFlight[req[q].gate][KeyOf(q)] = q
    BY LiveData DEF AttemptsRegistered, Live
  <2>7. \A g \in Gate, k \in Key : inFlight[g][k] \in (Request \ {r}) \cup {NoRequest}
    BY <2>4 DEF AttemptsRegistered, TypeOK
  <2> QED
    BY <2>1, <2>2, <2>3, <2>4, <2>5, <2>6, <2>7, NoneAssumption DEF AttemptsRegistered
<1>5. ASSUME NEW r \in Request, FirstGet(r) PROVE AttemptsRegistered'
  BY <1>0, <1>5, AttemptMoves DEF FirstGet, Resolve, Go, TypeOK, Attempting, HoldsLock
<1>6. ASSUME NEW r \in Request, Acquire(r) PROVE AttemptsRegistered'
  BY <1>0, <1>6, AttemptMoves DEF Acquire, Resolve, Go, TypeOK, Attempting, HoldsLock
<1>7. ASSUME NEW r \in Request, SecondGet(r) PROVE AttemptsRegistered'
  BY <1>0, <1>7, AttemptMoves DEF SecondGet, Go, TypeOK, Attempting, HoldsLock
<1>8. ASSUME NEW r \in Request, Settle(r) PROVE AttemptsRegistered'
  BY <1>0, <1>8, AttemptMoves DEF Settle, Released, Unwound, Go, TypeOK, Attempting, HoldsLock
<1>9. ASSUME NEW r \in Request, SettleReturns(r) PROVE AttemptsRegistered'
  BY <1>0, <1>9, AttemptMoves DEF SettleReturns, Unwound, Go, TypeOK, Attempting, HoldsLock
<1>10. ASSUME NEW r \in Request, Store(r) PROVE AttemptsRegistered'
  BY <1>0, <1>10, AttemptMoves DEF Store, Released, Go, TypeOK, Attempting, HoldsLock
<1>11. ASSUME NEW r \in Request, Release(r) PROVE AttemptsRegistered'
  BY <1>0, <1>11, AttemptMoves DEF Release, Resolve, Go, TypeOK, Attempting, HoldsLock
<1>12. ASSUME NEW r \in Request, Unwind(r) PROVE AttemptsRegistered'
  BY <1>0, <1>12, AttemptMoves DEF Unwind, Go, TypeOK, Attempting, HoldsLock
<1>13. ASSUME NEW r \in Request, OwnerReturns(r) PROVE AttemptsRegistered'
  <2>1. /\ req[r].gate \in Gate /\ KeyOf(r) \in Key
        /\ pc[r] \in Attempting /\ inFlight[req[r].gate][KeyOf(r)] = r
        /\ UNCHANGED req
    BY <1>13, LiveData DEF OwnerReturns, AttemptsRegistered, Attempting, Live
  <2>2. \A q \in Request : KeyOf(q)' = KeyOf(q)
    BY <2>1 DEF KeyOf
  <2>3. \A q \in Request \ {r} : pc'[q] = pc[q]
    BY <1>13 DEF OwnerReturns, Answer, Go, TypeOK
  <2>4. pc'[r] \notin Attempting
    BY <1>13 DEF OwnerReturns, Answer, Go, TypeOK, Attempting, HoldsLock
  <2>5. \A g \in Gate, k \in Key :
          inFlight'[g][k] = IF g = req[r].gate /\ k = KeyOf(r) THEN NoRequest ELSE inFlight[g][k]
    BY <1>13, <2>1 DEF OwnerReturns, TypeOK
  <2>6. \A q \in Request \ {r} : pc[q] \in Attempting =>
          req[q].gate \in Gate /\ KeyOf(q) \in Key /\ inFlight[req[q].gate][KeyOf(q)] = q
    BY LiveData DEF AttemptsRegistered, Live
  <2>7. \A g \in Gate, k \in Key : inFlight[g][k] \in Request \cup {NoRequest}
    BY DEF TypeOK
  <2> QED
    BY <2>1, <2>2, <2>3, <2>4, <2>5, <2>6, <2>7, NoneAssumption DEF AttemptsRegistered
<1>14. ASSUME NEW r \in Request, WaiterReturns(r) PROVE AttemptsRegistered'
  BY <1>0, <1>14, AttemptMoves DEF WaiterReturns, Answer, Go, TypeOK, Attempting, HoldsLock
<1>15. ASSUME NEW c \in Cache, NEW k \in Key, EntryExpires(c, k) PROVE AttemptsRegistered'
  BY <1>15 DEF AttemptsRegistered, EntryExpires, requestVars, KeyOf
<1>16. ASSUME NEW c \in Cache, NEW k \in Key, LockExpires(c, k) PROVE AttemptsRegistered'
  BY <1>16 DEF AttemptsRegistered, LockExpires, requestVars, KeyOf
<1>17. ASSUME NEW c \in Cache, NEW k \in Key, LockOverrun(c, k) PROVE AttemptsRegistered'
  BY <1>17 DEF AttemptsRegistered, LockOverrun, requestVars, KeyOf
<1>18. ASSUME NEW p \in Process, Crash(p) PROVE AttemptsRegistered'
  <2>1. UNCHANGED req
    BY <1>18 DEF Crash
  <2>2. \A q \in Request : KeyOf(q)' = KeyOf(q)
    BY <2>1 DEF KeyOf
  <2>3. \A q \in Request :
          pc'[q] = IF pc[q] \in Live /\ req[q].gate \in GatesOf(p) THEN "crashed" ELSE pc[q]
    BY <1>18 DEF Crash
  <2>4. \A g \in Gate, k \in Key :
          inFlight'[g][k] = IF g \in GatesOf(p) THEN NoRequest ELSE inFlight[g][k]
    BY <1>18 DEF Crash, TypeOK
  <2>5. Attempting \subseteq Live /\ "crashed" \notin Attempting
    BY DEF Attempting, HoldsLock, Live
  <2>6. \A q \in Request : pc[q] \in Attempting => req[q].gate \in Gate /\ KeyOf(q) \in Key
    BY <2>5, LiveData
  <2>7. \A g \in Gate, k \in Key : inFlight[g][k] \in Request \cup {NoRequest}
    BY DEF TypeOK
  <2> QED
    BY <2>1, <2>2, <2>3, <2>4, <2>5, <2>6, <2>7 DEF AttemptsRegistered
<1>19. CASE AllAnswered
  BY <1>19 DEF AllAnswered, vars, AttemptsRegistered, KeyOf
<1>20. CASE UNCHANGED vars
  BY <1>20 DEF vars, AttemptsRegistered, KeyOf
<1> QED
  BY <1>1, <1>2, <1>3, <1>4, <1>5, <1>6, <1>7, <1>8, <1>9, <1>10, <1>11, <1>12, <1>13,
     <1>14, <1>15, <1>16, <1>17, <1>18, <1>19, <1>20 DEF Next, Step

LEMMA AttemptInv == Spec => []AttemptsRegistered
<1>1. Init => AttemptsRegistered
  BY DEF Init, AttemptsRegistered, Attempting, HoldsLock
<1>2. TypeOK /\ TypeOK' /\ AttemptsRegistered /\ [Next]_vars => AttemptsRegistered'
  BY AttemptStep
<1> QED
  BY <1>1, <1>2, TypeCorrect, PTL DEF Spec

\* A gate never runs two attempts for one payment: both would be the request
\* the in-flight map names.
THEOREM OneAttempt == Spec => []OneAttemptPerGate
<1>1. AttemptsRegistered => OneAttemptPerGate
  BY DEF AttemptsRegistered, OneAttemptPerGate
<1> QED
  BY <1>1, AttemptInv, PTL

(***************************************************************************)
(* Receipts.  Shape(q) is what a step may do to request q, and Writes what *)
(* it may do to the cache; the invariant follows from the shapes alone.    *)
(***************************************************************************)
Untouched(q) ==
  /\ pc'[q] = pc[q] /\ req'[q] = req[q] /\ owner'[q] = owner[q]
  /\ att'[q] = att[q] /\ out'[q] = out[q]

\* A result is kept, is not a receipt, is read from the cache, is the receipt
\* of this request's own charge, or gets the error flag of a failed write.
AttShape(q) ==
  \/ att'[q] = att[q]
  \/ pc[q] \in Live /\ att'[q].kind # "receipt"
  \/ pc[q] \in Live /\ Cached(q) # NoReceipt /\ att'[q] = Ok(Cached(q), TRUE)
  \/ pc[q] = "charged" /\ att'[q] = Ok(NewReceipt(q), FALSE)
  \/ pc[q] \in Live /\ att'[q] = [att[q] EXCEPT !.cacheError = TRUE]

\* An outcome is kept, grants nothing, or comes from the attempt awaited.
OutShape(q) ==
  \/ out'[q] = out[q]
  \/ pc'[q] # "idle" /\ out'[q].status # "settled"
  \/ pc[q] = "resolved" /\ pc'[q] # "idle" /\ out'[q] = ToOutcome(q, att[q], FALSE)
  \/ pc[q] = "waiting" /\ pc'[q] # "idle" /\ out'[q] = ToOutcome(q, att[owner[q]], TRUE)

PcShape(q) ==
  /\ pc[q] # "idle" => pc'[q] # "idle" /\ req'[q] = req[q]
  /\ pc'[q] = "charged" => pc[q] = "charged" \/ q \in charged'
  /\ pc'[q] = "store" => (pc[q] = "store" /\ att'[q] = att[q]) \/ att'[q].kind = "receipt"
  /\ pc'[q] = "waiting" =>
       \/ pc[q] = "waiting" /\ owner'[q] = owner[q]
       \/ pc[q] = "verify" /\ Pending(q) # NoRequest /\ owner'[q] = Pending(q)

Shape(q) == AttShape(q) /\ OutShape(q) /\ PcShape(q)

Writes ==
  /\ charged \subseteq charged'
  /\ \A c \in Cache, k \in Key :
       \/ entry'[c][k] \in {entry[c][k], NoReceipt}
       \/ \E q \in Request : /\ pc[q] = "store" /\ KeyOf(q) = k
                             /\ entry'[c][k] = att[q].receipt

LEMMA BareKind ==
  \A kind : Bare(kind).kind = kind
BY DEF Bare

LEMMA UntouchedShape == ASSUME NEW q \in Request, Untouched(q) PROVE Shape(q)
BY DEF Untouched, Shape, AttShape, OutShape, PcShape

LEMMA StepShape == TypeOK /\ [Next]_vars => Writes /\ \A q \in Request : Shape(q)
<1> SUFFICES ASSUME TypeOK, [Next]_vars PROVE Writes /\ \A q \in Request : Shape(q)
  OBVIOUS
<1> DEFINE Goal == Writes /\ \A q \in Request : Shape(q)
<1>0. ASSUME NEW r \in Request, \A q \in Request \ {r} : Untouched(q), Shape(r), Writes
      PROVE  Goal
  BY <1>0, UntouchedShape
<1>1. ASSUME NEW r \in Request, Arrive(r) PROVE Goal
  <2>1. UNCHANGED <<owner, att, entry, charged>> /\ pc[r] = "idle"
    BY <1>1 DEF Arrive, cacheVars
  <2>2. \A q \in Request \ {r} : Untouched(q)
    BY <1>1, <2>1, ArriveCases DEF TypeOK, Untouched, Go, Answer
  <2>3. \/ pc'[r] = "done" /\ out'[r].status # "settled"
        \/ pc'[r] = "verify" /\ UNCHANGED out
    BY <1>1 DEF Arrive, TypeOK, Go, Answer, Rejected
  <2>4. Shape(r)
    BY <2>1, <2>3 DEF Shape, AttShape, OutShape, PcShape
  <2> QED
    BY <1>0, <2>1, <2>2, <2>4 DEF Writes
<1>2. ASSUME NEW r \in Request, VerifyFails(r) PROVE Goal
  <2>1. \A q \in Request \ {r} : Untouched(q)
    BY <1>2 DEF TypeOK, Untouched, Go, VerifyFails, Answer
  <2>2. AttShape(r) /\ OutShape(r)
    BY <1>2 DEF AttShape, OutShape, TypeOK, Go, Bare, Rejected, Live, Attempting, HoldsLock, VerifyFails, Answer
  <2>3. PcShape(r)
    BY <1>2 DEF PcShape, TypeOK, Go, Ok, VerifyFails, Answer
  <2>4. Writes
    BY <1>2 DEF Writes, TypeOK, cacheVars, VerifyFails, Answer
  <2> QED
    BY <1>0, <2>1, <2>2, <2>3, <2>4 DEF Shape
<1>3. ASSUME NEW r \in Request, Join(r) PROVE Goal
  <2>1. \A q \in Request \ {r} : Untouched(q)
    BY <1>3 DEF TypeOK, Untouched, Go, Join
  <2>2. AttShape(r) /\ OutShape(r)
    BY <1>3 DEF AttShape, OutShape, TypeOK, Go, Bare, Rejected, Live, Attempting, HoldsLock, Join
  <2>3. PcShape(r)
    BY <1>3 DEF PcShape, TypeOK, Go, Ok, Join
  <2>4. Writes
    BY <1>3 DEF Writes, TypeOK, cacheVars, Join
  <2> QED
    BY <1>0, <2>1, <2>2, <2>3, <2>4 DEF Shape
<1>4. ASSUME NEW r \in Request, Start(r) PROVE Goal
  <2>1. \A q \in Request \ {r} : Untouched(q)
    BY <1>4 DEF TypeOK, Untouched, Go, Start
  <2>2. AttShape(r) /\ OutShape(r)
    BY <1>4 DEF AttShape, OutShape, TypeOK, Go, Bare, Rejected, Live, Attempting, HoldsLock, Start
  <2>3. PcShape(r)
    BY <1>4 DEF PcShape, TypeOK, Go, Ok, Start
  <2>4. Writes
    BY <1>4 DEF Writes, TypeOK, cacheVars, Start
  <2> QED
    BY <1>0, <2>1, <2>2, <2>3, <2>4 DEF Shape
<1>5. ASSUME NEW r \in Request, FirstGet(r) PROVE Goal
  <2>1. \A q \in Request \ {r} : Untouched(q)
    BY <1>5 DEF TypeOK, Untouched, Go, FirstGet, Resolve, AttemptIs
  <2>5. \/ att'[r] = att[r]
        \/ att'[r] \in {Bare("threw"), Bare("busy"), Bare("declined")}
        \/ Cached(r) # NoReceipt /\ att'[r] = Ok(Cached(r), TRUE)
    BY <1>5 DEF TypeOK, Go, FirstGet, Resolve, AttemptIs
  <2>6. pc[r] \in Live /\ UNCHANGED out
    BY <1>5 DEF FirstGet, Live, Attempting, HoldsLock
  <2>2. AttShape(r) /\ OutShape(r)
    BY <2>5, <2>6, BareKind DEF AttShape, OutShape
  <2>3. PcShape(r)
    BY <1>5 DEF PcShape, TypeOK, Go, Ok, FirstGet, Resolve, AttemptIs
  <2>4. Writes
    BY <1>5 DEF Writes, TypeOK, cacheVars, FirstGet, Resolve, AttemptIs
  <2> QED
    BY <1>0, <2>1, <2>2, <2>3, <2>4 DEF Shape
<1>6. ASSUME NEW r \in Request, Acquire(r) PROVE Goal
  <2>1. \A q \in Request \ {r} : Untouched(q)
    BY <1>6 DEF TypeOK, Untouched, Go, Acquire, Resolve, AttemptIs
  <2>5. \/ att'[r] = att[r]
        \/ att'[r] \in {Bare("threw"), Bare("busy"), Bare("declined")}
    BY <1>6 DEF TypeOK, Go, Acquire, Resolve, AttemptIs
  <2>6. pc[r] \in Live /\ UNCHANGED out
    BY <1>6 DEF Acquire, Live, Attempting, HoldsLock
  <2>2. AttShape(r) /\ OutShape(r)
    BY <2>5, <2>6, BareKind DEF AttShape, OutShape
  <2>3. PcShape(r)
    BY <1>6 DEF PcShape, TypeOK, Go, Ok, Acquire, Resolve, AttemptIs
  <2>4. Writes
    BY <1>6 DEF Writes, TypeOK, cacheVars, Acquire, Resolve, AttemptIs
  <2> QED
    BY <1>0, <2>1, <2>2, <2>3, <2>4 DEF Shape
<1>7. ASSUME NEW r \in Request, SecondGet(r) PROVE Goal
  <2>1. \A q \in Request \ {r} : Untouched(q)
    BY <1>7 DEF TypeOK, Untouched, Go, SecondGet, AttemptIs
  <2>5. \/ att'[r] = att[r]
        \/ att'[r] \in {Bare("threw"), Bare("busy"), Bare("declined")}
        \/ Cached(r) # NoReceipt /\ att'[r] = Ok(Cached(r), TRUE)
    BY <1>7 DEF TypeOK, Go, SecondGet, AttemptIs
  <2>6. pc[r] \in Live /\ UNCHANGED out
    BY <1>7 DEF SecondGet, Live, Attempting, HoldsLock
  <2>2. AttShape(r) /\ OutShape(r)
    BY <2>5, <2>6, BareKind DEF AttShape, OutShape
  <2>3. PcShape(r)
    BY <1>7 DEF PcShape, TypeOK, Go, Ok, SecondGet, AttemptIs
  <2>4. Writes
    BY <1>7 DEF Writes, TypeOK, cacheVars, SecondGet, AttemptIs
  <2> QED
    BY <1>0, <2>1, <2>2, <2>3, <2>4 DEF Shape
<1>8. ASSUME NEW r \in Request, Settle(r) PROVE Goal
  <2>1. \A q \in Request \ {r} : Untouched(q)
    BY <1>8 DEF TypeOK, Untouched, Go, Settle, AttemptIs, Released, Unwound
  <2>5. \/ att'[r] = att[r]
        \/ att'[r] \in {Bare("threw"), Bare("busy"), Bare("declined")}
    BY <1>8 DEF TypeOK, Go, Settle, AttemptIs, Released, Unwound
  <2>6. pc[r] \in Live /\ UNCHANGED out
    BY <1>8 DEF Settle, Live, Attempting, HoldsLock
  <2>2. AttShape(r) /\ OutShape(r)
    BY <2>5, <2>6, BareKind DEF AttShape, OutShape
  <2>3. PcShape(r)
    BY <1>8 DEF PcShape, TypeOK, Go, Ok, Settle, AttemptIs, Released, Unwound
  <2>4. Writes
    BY <1>8 DEF Writes, TypeOK, cacheVars, Settle, AttemptIs, Released, Unwound
  <2> QED
    BY <1>0, <2>1, <2>2, <2>3, <2>4 DEF Shape
<1>9. ASSUME NEW r \in Request, SettleReturns(r) PROVE Goal
  <2>1. \A q \in Request \ {r} : Untouched(q)
    BY <1>9 DEF TypeOK, Untouched, Go, SettleReturns, AttemptIs, Unwound
  <2>5. \/ att'[r] = att[r]
        \/ att'[r] \in {Bare("threw"), Bare("busy"), Bare("declined")}
        \/ att'[r] = Ok(NewReceipt(r), FALSE)
    BY <1>9 DEF TypeOK, Go, SettleReturns, AttemptIs, Unwound
  <2>6. pc[r] \in Live /\ UNCHANGED out
    BY <1>9 DEF SettleReturns, Live, Attempting, HoldsLock
  <2>2. AttShape(r) /\ OutShape(r)
    BY <1>9, <2>5, <2>6, BareKind DEF AttShape, OutShape, SettleReturns
  <2>3. PcShape(r)
    BY <1>9 DEF PcShape, TypeOK, Go, Ok, SettleReturns, AttemptIs, Unwound
  <2>4. Writes
    BY <1>9 DEF Writes, TypeOK, cacheVars, SettleReturns, AttemptIs, Unwound
  <2> QED
    BY <1>0, <2>1, <2>2, <2>3, <2>4 DEF Shape
<1>10. ASSUME NEW r \in Request, Store(r) PROVE Goal
  <2>1. \A q \in Request \ {r} : Untouched(q)
    BY <1>10 DEF TypeOK, Untouched, Go, Store, AttemptIs, Released, Put
  <2>5. \/ att'[r] = att[r]
        \/ att'[r] \in {Bare("threw"), Bare("busy"), Bare("declined")}
        \/ att'[r] = [att[r] EXCEPT !.cacheError = TRUE]
    BY <1>10 DEF TypeOK, Go, Store, AttemptIs, Released, Put
  <2>6. pc[r] \in Live /\ UNCHANGED out
    BY <1>10 DEF Store, Live, Attempting, HoldsLock
  <2>2. AttShape(r) /\ OutShape(r)
    BY <2>5, <2>6, BareKind DEF AttShape, OutShape
  <2>3. PcShape(r)
    BY <1>10 DEF PcShape, TypeOK, Go, Ok, Store, AttemptIs, Released, Put
  <2>7. pc[r] = "store" /\ UNCHANGED charged
    BY <1>10 DEF Store
  <2>8. entry' = entry \/ entry' = [entry EXCEPT ![CacheFor(r)][KeyOf(r)] = att[r].receipt]
    BY <1>10 DEF Store, Put
  <2>9. \A c \in Cache, k \in Key :
          entry'[c][k] = entry[c][k] \/ (k = KeyOf(r) /\ entry'[c][k] = att[r].receipt)
    BY <2>8 DEF TypeOK
  <2>4. Writes
    BY <2>7, <2>9 DEF Writes
  <2> QED
    BY <1>0, <2>1, <2>2, <2>3, <2>4 DEF Shape
<1>11. ASSUME NEW r \in Request, Release(r) PROVE Goal
  <2>1. \A q \in Request \ {r} : Untouched(q)
    BY <1>11 DEF TypeOK, Untouched, Go, Release, Resolve, AttemptIs
  <2>5. \/ att'[r] = att[r]
        \/ att'[r] \in {Bare("threw"), Bare("busy"), Bare("declined")}
        \/ att'[r] = [att[r] EXCEPT !.cacheError = TRUE]
    BY <1>11 DEF TypeOK, Go, Release, AfterFailedRelease, Resolve, AttemptIs
  <2>6. pc[r] \in Live /\ UNCHANGED out
    BY <1>11 DEF Release, Live, Attempting, HoldsLock
  <2>2. AttShape(r) /\ OutShape(r)
    BY <2>5, <2>6, BareKind DEF AttShape, OutShape
  <2>3. PcShape(r)
    BY <1>11 DEF PcShape, TypeOK, Go, Ok, Release, Resolve, AttemptIs
  <2>4. Writes
    BY <1>11 DEF Writes, TypeOK, cacheVars, Release, Resolve, AttemptIs
  <2> QED
    BY <1>0, <2>1, <2>2, <2>3, <2>4 DEF Shape
<1>12. ASSUME NEW r \in Request, Unwind(r) PROVE Goal
  <2>1. \A q \in Request \ {r} : Untouched(q)
    BY <1>12 DEF TypeOK, Untouched, Go, Unwind
  <2>2. AttShape(r) /\ OutShape(r)
    BY <1>12 DEF AttShape, OutShape, TypeOK, Go, Bare, Rejected, Live, Attempting, HoldsLock, Unwind
  <2>3. PcShape(r)
    BY <1>12 DEF PcShape, TypeOK, Go, Ok, Unwind
  <2>4. Writes
    BY <1>12 DEF Writes, TypeOK, cacheVars, Unwind
  <2> QED
    BY <1>0, <2>1, <2>2, <2>3, <2>4 DEF Shape
<1>13. ASSUME NEW r \in Request, OwnerReturns(r) PROVE Goal
  <2>1. \A q \in Request \ {r} : Untouched(q)
    BY <1>13 DEF TypeOK, Untouched, Go, OwnerReturns, Answer
  <2>2. AttShape(r) /\ OutShape(r)
    BY <1>13 DEF AttShape, OutShape, TypeOK, Go, Bare, Rejected, Live, Attempting, HoldsLock, OwnerReturns, Answer
  <2>3. PcShape(r)
    BY <1>13 DEF PcShape, TypeOK, Go, Ok, OwnerReturns, Answer
  <2>4. Writes
    BY <1>13 DEF Writes, TypeOK, cacheVars, OwnerReturns, Answer
  <2> QED
    BY <1>0, <2>1, <2>2, <2>3, <2>4 DEF Shape
<1>14. ASSUME NEW r \in Request, WaiterReturns(r) PROVE Goal
  <2>1. \A q \in Request \ {r} : Untouched(q)
    BY <1>14 DEF TypeOK, Untouched, Go, WaiterReturns, Answer
  <2>2. AttShape(r) /\ OutShape(r)
    BY <1>14 DEF AttShape, OutShape, TypeOK, Go, Bare, Rejected, Live, Attempting, HoldsLock, WaiterReturns, Answer
  <2>3. PcShape(r)
    BY <1>14 DEF PcShape, TypeOK, Go, Ok, WaiterReturns, Answer
  <2>4. Writes
    BY <1>14 DEF Writes, TypeOK, cacheVars, WaiterReturns, Answer
  <2> QED
    BY <1>0, <2>1, <2>2, <2>3, <2>4 DEF Shape
<1>15. ASSUME NEW c \in Cache, NEW k \in Key, EntryExpires(c, k) PROVE Goal
  <2>1. \A q \in Request : Untouched(q)
    BY <1>15 DEF EntryExpires, Untouched, requestVars
  <2>2. Writes
    BY <1>15 DEF EntryExpires, Writes, TypeOK
  <2> QED
    BY <2>1, <2>2, UntouchedShape
<1>16. ASSUME NEW c \in Cache, NEW k \in Key, LockExpires(c, k) PROVE Goal
  <2>1. \A q \in Request : Untouched(q)
    BY <1>16 DEF LockExpires, Untouched, requestVars
  <2>2. Writes
    BY <1>16 DEF LockExpires, Writes, TypeOK
  <2> QED
    BY <2>1, <2>2, UntouchedShape
<1>17. ASSUME NEW c \in Cache, NEW k \in Key, LockOverrun(c, k) PROVE Goal
  <2>1. \A q \in Request : Untouched(q)
    BY <1>17 DEF LockOverrun, Untouched, requestVars
  <2>2. Writes
    BY <1>17 DEF LockOverrun, Writes, TypeOK
  <2> QED
    BY <2>1, <2>2, UntouchedShape
<1>18. ASSUME NEW p \in Process, Crash(p) PROVE Goal
  <2>1. \A q \in Request : pc'[q] = pc[q] \/ (pc'[q] = "crashed" /\ pc[q] \in Live)
    BY <1>18 DEF Crash
  <2>2. \A q \in Request : Shape(q)
    BY <1>18, <2>1 DEF Crash, Shape, AttShape, OutShape, PcShape
  <2>3. Writes
    BY <1>18 DEF Crash, Writes, TypeOK
  <2> QED
    BY <2>2, <2>3
<1>19. CASE UNCHANGED vars
  <2>1. \A q \in Request : Untouched(q)
    BY <1>19 DEF vars, Untouched
  <2>2. Writes
    BY <1>19 DEF vars, Writes
  <2> QED
    BY <2>1, <2>2, UntouchedShape
<1>20. CASE AllAnswered
  BY <1>19, <1>20 DEF AllAnswered
<1> QED
  BY <1>1, <1>2, <1>3, <1>4, <1>5, <1>6, <1>7, <1>8, <1>9, <1>10, <1>11, <1>12, <1>13,
     <1>14, <1>15, <1>16, <1>17, <1>18, <1>19, <1>20 DEF Next, Step

IsFor(x, k) == x \in Receipt /\ <<x.model, x.pay>> = k /\ x.by \in charged

AttOK(r) == att[r].kind = "receipt" =>
  IsFor(att[r].receipt, KeyOf(r)) /\ (~att[r].replayed => att[r].receipt.by = r)

OutOK(r) == out[r].status = "settled" =>
  /\ IsFor(out[r].receipt, KeyOf(r))
  /\ out[r].receipt.offer = req[r].offer
  /\ ~out[r].replayed => out[r].receipt.by = r

EntryOK(c, k) == entry[c][k] # NoReceipt => IsFor(entry[c][k], k)

PlaceOK(r) ==
  /\ pc[r] = "idle" => att[r].kind # "receipt" /\ out[r].status # "settled"
  /\ pc[r] = "charged" => r \in charged
  /\ pc[r] = "store" => att[r].kind = "receipt"
  /\ pc[r] = "waiting" => pc[owner[r]] # "idle" /\ KeyOf(owner[r]) = KeyOf(r)

\* Every receipt anywhere in the system is for the payment it is filed under
\* and stands for a charge; a waiter waits for its own payment.
ReceiptsInv ==
  /\ \A r \in Request : PlaceOK(r) /\ AttOK(r) /\ OutOK(r)
  /\ \A c \in Cache, k \in Key : EntryOK(c, k)

LEMMA ReceiptStep ==
  TypeOK /\ TypeOK' /\ AttemptsRegistered /\ ReceiptsInv /\ [Next]_vars => ReceiptsInv'
<1> SUFFICES ASSUME TypeOK, TypeOK', AttemptsRegistered, ReceiptsInv, [Next]_vars
             PROVE  ReceiptsInv'
  OBVIOUS
<1>1. Writes /\ \A q \in Request : AttShape(q) /\ OutShape(q) /\ PcShape(q)
  BY StepShape DEF Shape
<1>2. \A x, k : IsFor(x, k) => IsFor(x, k)'
  BY <1>1 DEF IsFor, Writes
<1>3. \A q \in Request : pc[q] # "idle" => /\ pc'[q] # "idle" /\ req'[q] = req[q]
                                           /\ KeyOf(q)' = KeyOf(q)
  BY <1>1 DEF PcShape, KeyOf
<1>4. "idle" \notin Live /\ {"charged", "store", "waiting", "resolved", "verify"} \subseteq Live
  BY DEF Live, Attempting, HoldsLock
<1>5. \A c \in Cache, k \in Key : EntryOK(c, k)'
  <2> SUFFICES ASSUME NEW c \in Cache, NEW k \in Key PROVE EntryOK(c, k)'
    OBVIOUS
  <2>1. CASE entry'[c][k] \in {entry[c][k], NoReceipt}
    BY <2>1, <1>2 DEF ReceiptsInv, EntryOK
  <2>2. CASE \E q \in Request : pc[q] = "store" /\ KeyOf(q) = k /\ entry'[c][k] = att[q].receipt
    BY <2>2, <1>2 DEF ReceiptsInv, EntryOK, PlaceOK, AttOK
  <2> QED
    BY <1>1, <2>1, <2>2 DEF Writes
<1>6. ASSUME NEW q \in Request PROVE AttOK(q)'
  <2>1. CASE att'[q] = att[q]
    BY <2>1, <1>2, <1>3 DEF ReceiptsInv, AttOK, PlaceOK
  <2>2. CASE att'[q].kind # "receipt"
    BY <2>2 DEF AttOK
  <2>3. CASE pc[q] \in Live /\ Cached(q) # NoReceipt /\ att'[q] = Ok(Cached(q), TRUE)
    <3>1. IsFor(Cached(q), KeyOf(q))
      BY <2>3, LiveData DEF Cached, ReceiptsInv, EntryOK
    <3>2. att'[q].receipt = Cached(q) /\ att'[q].replayed
      BY <2>3 DEF Ok
    <3> QED
      BY <2>3, <3>1, <3>2, <1>2, <1>3, <1>4 DEF AttOK
  <2>4. CASE pc[q] = "charged" /\ att'[q] = Ok(NewReceipt(q), FALSE)
    <3>1. q \in charged /\ req[q] \in RequestData
      BY <2>4, <1>4, LiveData DEF ReceiptsInv, PlaceOK
    <3>2. IsFor(NewReceipt(q), KeyOf(q)) /\ NewReceipt(q).by = q
      BY <3>1 DEF IsFor, NewReceipt, KeyOf, Receipt, RequestData
    <3>3. att'[q].receipt = NewReceipt(q)
      BY <2>4 DEF Ok
    <3> QED
      BY <2>4, <3>2, <3>3, <1>2, <1>3 DEF AttOK
  <2>5. CASE pc[q] \in Live /\ att'[q] = [att[q] EXCEPT !.cacheError = TRUE]
    <3>1. att[q] \in Result
      BY DEF TypeOK
    <3>2. /\ att'[q].kind = att[q].kind /\ att'[q].receipt = att[q].receipt
          /\ att'[q].replayed = att[q].replayed
      BY <2>5, <3>1 DEF Result
    <3> QED
      BY <2>5, <3>2, <1>2, <1>3, <1>4 DEF ReceiptsInv, AttOK
  <2> QED
    BY <1>1, <2>1, <2>2, <2>3, <2>4, <2>5 DEF AttShape
<1>7. ASSUME NEW q \in Request, NEW a \in Result, NEW k, NEW w \in BOOLEAN,
             a.kind = "receipt" => IsFor(a.receipt, KeyOf(q)),
             ~w /\ ~a.replayed => (a.kind = "receipt" => a.receipt.by = q),
             pc[q] # "idle", out'[q] = ToOutcome(q, a, w)
      PROVE  OutOK(q)'
  <2>1. CASE out'[q].status = "settled"
    <3>1. a.kind = "receipt" /\ a.receipt.offer = req[q].offer
      BY <1>7, <2>1 DEF ToOutcome, BoundTo, Rejected, Result, ResultKind
    <3>3. out'[q] = Granted(a.receipt, w \/ a.replayed, ~w /\ a.cacheError)
      <4>1. Rejected("mismatch").status # "settled"
        BY DEF Rejected
      <4> QED
        BY <1>7, <2>1, <3>1, <4>1, Zenon DEF ToOutcome, BoundTo
    <3>4. out'[q].receipt = a.receipt
      BY <3>3, GrantedFields
    <3> DEFINE b == w \/ a.replayed
               e == ~w /\ a.cacheError
    <3>5. out'[q] = Granted(a.receipt, b, e)
      BY <3>3
    <3>6. ~b => ~w /\ ~a.replayed
      OBVIOUS
    <3>2. ~out'[q].replayed => ~w /\ ~a.replayed
      <4> HIDE DEF b, e
      <4>1. out'[q].replayed = b
        BY <3>5, GrantedFields
      <4> QED
        BY <4>1, <3>6
    <3> QED
      BY <1>7, <3>1, <3>2, <3>4, <1>2, <1>3 DEF OutOK
  <2> QED
    BY <2>1 DEF OutOK
<1>8. ASSUME NEW q \in Request PROVE OutOK(q)'
  <2>1. CASE out'[q] = out[q]
    BY <2>1, <1>2, <1>3 DEF ReceiptsInv, OutOK, PlaceOK
  <2>2. CASE out'[q].status # "settled"
    BY <2>2 DEF OutOK
  <2>3. CASE pc[q] = "resolved" /\ out'[q] = ToOutcome(q, att[q], FALSE)
    BY <2>3, <1>7 DEF ReceiptsInv, AttOK, TypeOK
  <2>4. CASE pc[q] = "waiting" /\ out'[q] = ToOutcome(q, att[owner[q]], TRUE)
    <3>1. owner[q] \in Request /\ KeyOf(owner[q]) = KeyOf(q)
      BY <2>4 DEF TypeOK, ReceiptsInv, PlaceOK
    <3>2. att[owner[q]] \in Result /\ AttOK(owner[q])
      BY <3>1 DEF TypeOK, ReceiptsInv
    <3> QED
      BY <2>4, <3>1, <3>2, <1>7 DEF AttOK
  <2> QED
    BY <1>1, <2>1, <2>2, <2>3, <2>4 DEF OutShape
<1>9. ASSUME NEW q \in Request PROVE PlaceOK(q)'
  <2>1. pc'[q] = "idle" => att'[q].kind # "receipt" /\ out'[q].status # "settled"
    BY <1>1, <1>3, <1>4 DEF ReceiptsInv, PlaceOK, AttShape, OutShape
  <2>2. pc'[q] = "charged" => q \in charged'
    BY <1>1 DEF ReceiptsInv, PlaceOK, PcShape, Writes
  <2>3. pc'[q] = "store" => att'[q].kind = "receipt"
    BY <1>1 DEF ReceiptsInv, PlaceOK, PcShape
  <2>4. ASSUME pc'[q] = "waiting"
        PROVE  pc'[owner'[q]] # "idle" /\ KeyOf(owner[q])' = KeyOf(q)'
    <3>1. CASE pc[q] = "waiting" /\ owner'[q] = owner[q]
      <4>1. owner[q] \in Request /\ pc[owner[q]] # "idle" /\ KeyOf(owner[q]) = KeyOf(q)
        BY <3>1 DEF TypeOK, ReceiptsInv, PlaceOK
      <4>2. req'[owner[q]] = req[owner[q]] /\ req'[q] = req[q] /\ pc'[owner[q]] # "idle"
        BY <3>1, <4>1, <1>3
      <4> QED
        BY <3>1, <4>1, <4>2 DEF KeyOf
    <3>2. CASE pc[q] = "verify" /\ Pending(q) # NoRequest /\ owner'[q] = Pending(q)
      <4>1. req[q].gate \in Gate /\ KeyOf(q) \in Key
        BY <3>2, <1>4, LiveData
      <4>2. Pending(q) \in Request /\ pc[Pending(q)] \in Attempting /\ KeyOf(Pending(q)) = KeyOf(q)
        BY <3>2, <4>1 DEF Pending, TypeOK, AttemptsRegistered
      <4>3. pc[Pending(q)] # "idle"
        BY <4>2 DEF Attempting, HoldsLock
      <4>4. req'[owner'[q]] = req[Pending(q)] /\ req'[q] = req[q] /\ pc'[owner'[q]] # "idle"
        BY <3>2, <4>2, <4>3, <1>3
      <4> QED
        BY <3>2, <4>2, <4>4 DEF KeyOf
    <3> QED
      BY <1>1, <2>4, <3>1, <3>2 DEF PcShape
  <2> QED
    BY <2>1, <2>2, <2>3, <2>4 DEF PlaceOK
<1> QED
  BY <1>5, <1>6, <1>8, <1>9 DEF ReceiptsInv

LEMMA ReceiptInvariant == Spec => []ReceiptsInv
<1>1. Init => ReceiptsInv
  BY DEF Init, ReceiptsInv, PlaceOK, AttOK, OutOK, EntryOK, Bare, Rejected
<1>2. TypeOK /\ TypeOK' /\ AttemptsRegistered /\ ReceiptsInv /\ [Next]_vars => ReceiptsInv'
  BY ReceiptStep
<1> QED
  BY <1>1, <1>2, TypeCorrect, AttemptInv, PTL DEF Spec

\* A receipt is served only for the payment and the offer at hand, and only for
\* money that moved, whether it is fresh, cached or shared with a waiter.
THEOREM ServedReceipt == Spec => []ServedReceiptIsBound
<1>1. ReceiptsInv => ServedReceiptIsBound
  <2> SUFFICES ASSUME ReceiptsInv, NEW r \in Request, out[r].status = "settled"
               PROVE  /\ out[r].receipt \in Receipt
                      /\ out[r].receipt.pay = req[r].pay
                      /\ out[r].receipt.model = req[r].model
                      /\ out[r].receipt.offer = req[r].offer
                      /\ out[r].receipt.by \in charged
    BY NoneAssumption DEF ServedReceiptIsBound
  <2> QED
    BY DEF ReceiptsInv, OutOK, IsFor, KeyOf
<1> QED
  BY <1>1, ReceiptInvariant, PTL

\* No two requests present one charge as a settlement of their own.
THEOREM FreshReceipt == Spec => []FreshReceiptIsOwn
<1>1. ReceiptsInv => FreshReceiptIsOwn
  BY DEF ReceiptsInv, OutOK, FreshReceiptIsOwn
<1> QED
  BY <1>1, ReceiptInvariant, PTL

(***************************************************************************)
(* Receipts are honest: each is the one its settling request issued for    *)
(* the payment, model and offer it presented.                              *)
(***************************************************************************)
IsHonest(x, at, data) ==
  /\ x \in Receipt
  /\ at[x.by] # "idle"
  /\ x.pay = data[x.by].pay /\ x.model = data[x.by].model /\ x.offer = data[x.by].offer

HonestInv ==
  /\ \A r \in Request : att[r].kind = "receipt" => IsHonest(att[r].receipt, pc, req)
  /\ \A r \in Request : out[r].status = "settled" => IsHonest(out[r].receipt, pc, req)
  /\ \A c \in Cache, k \in Key : entry[c][k] # NoReceipt => IsHonest(entry[c][k], pc, req)

\* A request past routing keeps its data, so its receipts stay honest.
LEMMA HonestKept ==
  ASSUME NEW x, IsHonest(x, pc, req), \A r \in Request : PcShape(r)
  PROVE  IsHonest(x, pc', req')
<1>1. x.by \in Request
  BY DEF IsHonest, Receipt
<1>2. req'[x.by] = req[x.by] /\ pc'[x.by] # "idle"
  BY <1>1 DEF IsHonest, PcShape
<1> QED
  BY <1>2 DEF IsHonest

LEMMA HonestStep ==
  TypeOK /\ TypeOK' /\ ReceiptsInv /\ HonestInv /\ [Next]_vars => HonestInv'
<1> SUFFICES ASSUME TypeOK, TypeOK', ReceiptsInv, HonestInv, [Next]_vars
             PROVE  HonestInv'
  OBVIOUS
<1>1. Writes /\ \A r \in Request : Shape(r)
  BY StepShape
<1>2. \A r \in Request : AttShape(r) /\ OutShape(r) /\ PcShape(r)
  BY <1>1 DEF Shape
<1>3. ASSUME NEW c \in Cache, NEW k \in Key, entry'[c][k] # NoReceipt
      PROVE  IsHonest(entry'[c][k], pc', req')
  <2>1. IsHonest(entry'[c][k], pc, req)
    <3>1. CASE entry'[c][k] = entry[c][k]
      BY <1>3, <3>1 DEF HonestInv
    <3>2. ASSUME NEW q \in Request, pc[q] = "store", entry'[c][k] = att[q].receipt
          PROVE  IsHonest(entry'[c][k], pc, req)
      BY <3>2 DEF HonestInv, ReceiptsInv, PlaceOK
    <3> QED
      BY <1>1, <1>3, <3>1, <3>2 DEF Writes
  <2> QED
    BY <1>2, <2>1, HonestKept
<1>4. ASSUME NEW q \in Request, pc[q] \in Live, Cached(q) # NoReceipt
      PROVE  IsHonest(Cached(q), pc, req)
  BY <1>4, LiveData DEF Cached, HonestInv
<1>5. ASSUME NEW q \in Request, att'[q].kind = "receipt"
      PROVE  IsHonest(att'[q].receipt, pc', req')
  <2>1. CASE pc[q] = "charged" /\ att'[q] = Ok(NewReceipt(q), FALSE)
    <3>1. pc[q] \in Live
      BY <2>1 DEF Live, Attempting, HoldsLock
    <3>2. req[q] \in RequestData
      BY <3>1, LiveData
    <3>3. NewReceipt(q) \in Receipt /\ NewReceipt(q).by = q
      BY <3>2 DEF NewReceipt, RequestData, Receipt
    <3>4. IsHonest(NewReceipt(q), pc, req)
      BY <2>1, <3>2, <3>3 DEF IsHonest, NewReceipt
    <3>5. att'[q].receipt = NewReceipt(q)
      BY <2>1 DEF Ok
    <3> QED
      BY <1>2, <3>4, <3>5, HonestKept
  <2>2. CASE pc[q] \in Live /\ Cached(q) # NoReceipt /\ att'[q] = Ok(Cached(q), TRUE)
    <3>1. att'[q].receipt = Cached(q)
      BY <2>2 DEF Ok
    <3> QED
      BY <1>2, <1>4, <2>2, <3>1, HonestKept
  <2>3. CASE att'[q] = att[q] \/ att'[q] = [att[q] EXCEPT !.cacheError = TRUE]
    <3>1. att'[q].receipt = att[q].receipt /\ att[q].kind = "receipt"
      BY <1>5, <2>3 DEF TypeOK, Result
    <3>2. IsHonest(att[q].receipt, pc, req)
      BY <3>1 DEF HonestInv
    <3> QED
      BY <1>2, <3>1, <3>2, HonestKept
  <2> QED
    BY <1>2, <1>5, <2>1, <2>2, <2>3 DEF AttShape
<1>6. ASSUME NEW q \in Request, NEW w \in Request, NEW b \in BOOLEAN,
             out'[q] = ToOutcome(q, att[w], b), out'[q].status = "settled"
      PROVE  IsHonest(out'[q].receipt, pc, req)
  <2>1. att[w].kind = "receipt" /\ BoundTo(att[w].receipt, q)
    <3>1. \A status \in {"mismatch", att[w].kind} : Rejected(status).status = status
      BY DEF Rejected
    <3>2. att[w].kind # "settled"
      BY DEF TypeOK, Result, ResultKind
    <3> QED
      BY <1>6, <3>1, <3>2 DEF ToOutcome
  <2>2. out'[q].receipt = att[w].receipt
    BY <1>6, <2>1 DEF ToOutcome, Granted
  <2> QED
    BY <2>1, <2>2 DEF HonestInv
<1>7. ASSUME NEW q \in Request, out'[q].status = "settled"
      PROVE  IsHonest(out'[q].receipt, pc', req')
  <2>1. IsHonest(out'[q].receipt, pc, req)
    <3>1. CASE out'[q] = out[q]
      BY <1>7, <3>1 DEF HonestInv
    <3>2. CASE pc[q] = "resolved" /\ out'[q] = ToOutcome(q, att[q], FALSE)
      BY <1>6, <1>7, <3>2
    <3>3. CASE pc[q] = "waiting" /\ out'[q] = ToOutcome(q, att[owner[q]], TRUE)
      BY <1>6, <1>7, <3>3 DEF TypeOK
    <3> QED
      BY <1>2, <1>7, <3>1, <3>2, <3>3 DEF OutShape
  <2> QED
    BY <1>2, <2>1, HonestKept
<1> QED
  BY <1>3, <1>5, <1>7 DEF HonestInv

LEMMA HonestInvariant == Spec => []HonestInv
<1>1. Init => HonestInv
  BY DEF Init, HonestInv, Bare, Rejected
<1>2. TypeOK /\ TypeOK' /\ ReceiptsInv /\ HonestInv /\ [Next]_vars => HonestInv'
  BY HonestStep
<1> QED
  BY <1>1, <1>2, TypeCorrect, ReceiptInvariant, PTL DEF Spec

-----------------------------------------------------------------------------
(***************************************************************************)
(* What one step does to one request: at most one of these, or nothing.    *)
(***************************************************************************)
Early == {"challenge", "invalid", "not-configured", "not-implemented", "threw"}

Keeps(q) == req'[q] = req[q] /\ owner'[q] = owner[q] /\ att'[q] = att[q]

Dies(q) == pc[q] \in Live /\ pc'[q] = "crashed" /\ Keeps(q) /\ out'[q] = out[q]

Arrives(q) ==
  /\ pc[q] = "idle" /\ owner'[q] = owner[q] /\ att'[q] = att[q]
  /\ \/ pc'[q] = "verify" /\ req'[q] \in RequestData /\ out'[q] = out[q]
     \/ pc'[q] = "done" /\ req'[q] = req[q] /\ out'[q].status \in Early

Refused(q) ==
  pc[q] = "verify" /\ pc'[q] = "done" /\ Keeps(q) /\ out'[q].status \in Early

Joins(q) ==
  /\ pc[q] = "verify" /\ pc'[q] = "waiting"
  /\ Pending(q) # NoRequest /\ owner'[q] = Pending(q)
  /\ req'[q] = req[q] /\ att'[q] = att[q] /\ out'[q] = out[q]

Starts(q) ==
  pc[q] = "verify" /\ pc'[q] = "get1" /\ Keeps(q) /\ out'[q] = out[q]

Works(q) ==
  /\ pc[q] \in Attempting \ {"resolved"} /\ pc'[q] \in Attempting
  /\ req'[q] = req[q] /\ owner'[q] = owner[q] /\ out'[q] = out[q]

Returns(q) ==
  /\ pc[q] = "resolved" /\ pc'[q] = "done" /\ Keeps(q)
  /\ out'[q] = ToOutcome(q, att[q], FALSE)

Hears(q) ==
  /\ pc[q] = "waiting" /\ pc'[q] = "done" /\ Keeps(q)
  /\ pc[owner[q]] \in {"resolved", "done"}
  /\ out'[q] = ToOutcome(q, att[owner[q]], TRUE)

Moves(q) ==
  \/ Untouched(q) \/ Dies(q) \/ Arrives(q) \/ Refused(q) \/ Joins(q)
  \/ Starts(q) \/ Works(q) \/ Returns(q) \/ Hears(q)

LEMMA EarlyStatus == \A status \in Early : Rejected(status).status \in Early
BY DEF Rejected

\* An arrival is refused with one of the early statuses or goes on.
LEMMA ArriveMoves == ASSUME TypeOK, NEW r \in Request, Arrive(r) PROVE Arrives(r)
<1>1. \/ \E status \in Early : Answer(r, Rejected(status)) /\ UNCHANGED req
      \/ Go(r, "verify") /\ UNCHANGED out /\ \E d \in RequestData : req' = [req EXCEPT ![r] = d]
  <2>1. ASSUME Go(r, "verify"), UNCHANGED out
        PROVE  \E d \in RequestData : req' = [req EXCEPT ![r] = d]
    <3>1. pc'[r] # "done"
      BY <2>1 DEF Go, TypeOK
    <3> QED
      BY <3>1, ArriveCases DEF Answer, Go, TypeOK
  <2> QED
    BY <2>1 DEF Arrive, Early
<1>2. pc[r] = "idle" /\ UNCHANGED <<owner, att>>
  BY DEF Arrive
<1> QED
  BY <1>1, <1>2, EarlyStatus DEF TypeOK, Answer, Go, Arrives

LEMMA MoveStep == TypeOK /\ [Next]_vars => \A q \in Request : Moves(q)
<1> SUFFICES ASSUME TypeOK, [Next]_vars PROVE \A q \in Request : Moves(q)
  OBVIOUS
<1> DEFINE Goal == \A q \in Request : Moves(q)
<1>0. ASSUME NEW r \in Request, \A q \in Request \ {r} : Untouched(q), Moves(r) PROVE Goal
  BY <1>0 DEF Moves
<1>1. ASSUME NEW r \in Request, Arrive(r) PROVE Goal
  <2>1. \A q \in Request \ {r} : Untouched(q)
    <3>1. UNCHANGED <<owner, att>>
      BY <1>1 DEF Arrive
    <3> QED
      BY <1>1, <3>1, ArriveCases DEF TypeOK, Untouched, Go, Answer
  <2>2. Moves(r)
    BY <1>1, ArriveMoves DEF Moves
  <2> QED
    BY <1>0, <2>1, <2>2
<1>2. ASSUME NEW r \in Request, VerifyFails(r) PROVE Goal
  <2>1. \A q \in Request \ {r} : Untouched(q)
    BY <1>2 DEF TypeOK, Untouched, Go, VerifyFails, Answer
  <2>2. Refused(r)
    BY <1>2, EarlyStatus DEF TypeOK, Refused, Keeps, Go, VerifyFails, Answer, Early
  <2> QED
    BY <1>0, <2>1, <2>2 DEF Moves
<1>3. ASSUME NEW r \in Request, Join(r) PROVE Goal
  <2>1. \A q \in Request \ {r} : Untouched(q)
    BY <1>3 DEF TypeOK, Untouched, Go, Join
  <2>2. Joins(r)
    BY <1>3 DEF TypeOK, Joins, Go, Join
  <2> QED
    BY <1>0, <2>1, <2>2 DEF Moves
<1>4. ASSUME NEW r \in Request, Start(r) PROVE Goal
  <2>1. \A q \in Request \ {r} : Untouched(q)
    BY <1>4 DEF TypeOK, Untouched, Go, Start
  <2>2. Starts(r)
    BY <1>4 DEF TypeOK, Starts, Keeps, Go, Start
  <2> QED
    BY <1>0, <2>1, <2>2 DEF Moves
<1>5. ASSUME NEW r \in Request, FirstGet(r) PROVE Goal
  <2>1. \A q \in Request \ {r} : Untouched(q)
    BY <1>5 DEF TypeOK, Untouched, Go, FirstGet, Resolve, AttemptIs
  <2>2. Works(r)
    BY <1>5 DEF TypeOK, Works, Go, Attempting, HoldsLock, FirstGet, Resolve, AttemptIs
  <2> QED
    BY <1>0, <2>1, <2>2 DEF Moves
<1>6. ASSUME NEW r \in Request, Acquire(r) PROVE Goal
  <2>1. \A q \in Request \ {r} : Untouched(q)
    BY <1>6 DEF TypeOK, Untouched, Go, Acquire, Resolve, AttemptIs
  <2>2. Works(r)
    BY <1>6 DEF TypeOK, Works, Go, Attempting, HoldsLock, Acquire, Resolve, AttemptIs
  <2> QED
    BY <1>0, <2>1, <2>2 DEF Moves
<1>7. ASSUME NEW r \in Request, SecondGet(r) PROVE Goal
  <2>1. \A q \in Request \ {r} : Untouched(q)
    BY <1>7 DEF TypeOK, Untouched, Go, SecondGet, AttemptIs
  <2>2. Works(r)
    BY <1>7 DEF TypeOK, Works, Go, Attempting, HoldsLock, SecondGet, AttemptIs
  <2> QED
    BY <1>0, <2>1, <2>2 DEF Moves
<1>8. ASSUME NEW r \in Request, Settle(r) PROVE Goal
  <2>1. \A q \in Request \ {r} : Untouched(q)
    BY <1>8 DEF TypeOK, Untouched, Go, Settle, AttemptIs, Released, Unwound
  <2>2. Works(r)
    BY <1>8 DEF TypeOK, Works, Go, Attempting, HoldsLock, Settle, AttemptIs, Released, Unwound
  <2> QED
    BY <1>0, <2>1, <2>2 DEF Moves
<1>9. ASSUME NEW r \in Request, SettleReturns(r) PROVE Goal
  <2>1. \A q \in Request \ {r} : Untouched(q)
    BY <1>9 DEF TypeOK, Untouched, Go, SettleReturns, AttemptIs, Unwound
  <2>2. Works(r)
    BY <1>9 DEF TypeOK, Works, Go, Attempting, HoldsLock, SettleReturns, AttemptIs, Unwound
  <2> QED
    BY <1>0, <2>1, <2>2 DEF Moves
<1>10. ASSUME NEW r \in Request, Store(r) PROVE Goal
  <2>1. \A q \in Request \ {r} : Untouched(q)
    BY <1>10 DEF TypeOK, Untouched, Go, Store, AttemptIs, Released
  <2>2. Works(r)
    BY <1>10 DEF TypeOK, Works, Go, Attempting, HoldsLock, Store, AttemptIs, Released
  <2> QED
    BY <1>0, <2>1, <2>2 DEF Moves
<1>11. ASSUME NEW r \in Request, Release(r) PROVE Goal
  <2>1. \A q \in Request \ {r} : Untouched(q)
    BY <1>11 DEF TypeOK, Untouched, Go, Release, Resolve, AttemptIs
  <2>2. Works(r)
    BY <1>11 DEF TypeOK, Works, Go, Attempting, HoldsLock, Release, Resolve, AttemptIs
  <2> QED
    BY <1>0, <2>1, <2>2 DEF Moves
<1>12. ASSUME NEW r \in Request, Unwind(r) PROVE Goal
  <2>1. \A q \in Request \ {r} : Untouched(q)
    BY <1>12 DEF TypeOK, Untouched, Go, Unwind
  <2>2. Works(r)
    BY <1>12 DEF TypeOK, Works, Go, Attempting, HoldsLock, Unwind
  <2> QED
    BY <1>0, <2>1, <2>2 DEF Moves
<1>13. ASSUME NEW r \in Request, OwnerReturns(r) PROVE Goal
  <2>1. \A q \in Request \ {r} : Untouched(q)
    BY <1>13 DEF TypeOK, Untouched, Go, Answer, OwnerReturns
  <2>2. Returns(r)
    BY <1>13 DEF TypeOK, Returns, Keeps, Go, Answer, OwnerReturns
  <2> QED
    BY <1>0, <2>1, <2>2 DEF Moves
<1>14. ASSUME NEW r \in Request, WaiterReturns(r) PROVE Goal
  <2>1. \A q \in Request \ {r} : Untouched(q)
    BY <1>14 DEF TypeOK, Untouched, Go, Answer, WaiterReturns
  <2>2. Hears(r)
    BY <1>14 DEF TypeOK, Hears, Keeps, Go, Answer, WaiterReturns
  <2> QED
    BY <1>0, <2>1, <2>2 DEF Moves
<1>15. ASSUME NEW c \in Cache, NEW k \in Key, EntryExpires(c, k) PROVE Goal
  BY <1>15 DEF EntryExpires, requestVars, Moves, Untouched
<1>16. ASSUME NEW c \in Cache, NEW k \in Key, LockExpires(c, k) PROVE Goal
  BY <1>16 DEF LockExpires, requestVars, Moves, Untouched
<1>17. ASSUME NEW c \in Cache, NEW k \in Key, LockOverrun(c, k) PROVE Goal
  BY <1>17 DEF LockOverrun, requestVars, Moves, Untouched
<1>18. ASSUME NEW p \in Process, Crash(p) PROVE Goal
  <2>1. \A q \in Request : pc'[q] = pc[q] \/ (pc'[q] = "crashed" /\ pc[q] \in Live)
    BY <1>18 DEF Crash
  <2>2. UNCHANGED <<req, owner, att, out>>
    BY <1>18 DEF Crash
  <2> QED
    BY <2>1, <2>2 DEF Moves, Untouched, Dies, Keeps
<1>19. CASE UNCHANGED vars
  BY <1>19 DEF vars, Moves, Untouched
<1>20. CASE AllAnswered
  BY <1>19, <1>20 DEF AllAnswered
<1> QED
  BY <1>1, <1>2, <1>3, <1>4, <1>5, <1>6, <1>7, <1>8, <1>9, <1>10, <1>11, <1>12, <1>13,
     <1>14, <1>15, <1>16, <1>17, <1>18, <1>19, <1>20 DEF Next, Step

(***************************************************************************)
(* Waiters.  A request that joined an attempt stays tied to it: the        *)
(* attempt's result is fixed before the first of them is answered, and     *)
(* both answers are made from it.                                          *)
(***************************************************************************)
WaiterOK(r) ==
  LET o == owner[r]
  IN o # NoRequest =>
       /\ pc[r] \in {"waiting", "done", "crashed"}
       /\ pc[o] \in Attempting \cup {"done", "crashed"}
       /\ KeyOf(o) = KeyOf(r)
       /\ pc[o] = "done" => out[o] = ToOutcome(o, att[o], FALSE)
       /\ pc[r] = "done" => /\ pc[o] \in {"resolved", "done", "crashed"}
                            /\ out[r] = ToOutcome(r, att[o], TRUE)

WaiterInv == \A r \in Request : WaiterOK(r)

\* A request keeps its data, its result once the attempt is over, its answer,
\* and the attempt it joined.
LEMMA MoveFacts ==
  ASSUME NEW q \in Request, Moves(q)
  PROVE  /\ pc[q] # "idle" => req'[q] = req[q] /\ pc'[q] # "idle"
         /\ pc[q] \in {"resolved", "done", "crashed"} => att'[q] = att[q]
         /\ pc[q] = "done" => pc'[q] = "done" /\ out'[q] = out[q]
         /\ pc[q] = "crashed" => pc'[q] = "crashed" /\ out'[q] = out[q]
         /\ pc[q] = "resolved" => \/ pc'[q] \in {"resolved", "crashed"}
                                  \/ pc'[q] = "done" /\ out'[q] = ToOutcome(q, att[q], FALSE)
         /\ pc[q] \in Attempting => pc'[q] \in Attempting \cup {"done", "crashed"}
         /\ pc[q] \in Attempting \ {"resolved"} => pc'[q] # "done"
         /\ pc[q] = "waiting" => \/ pc'[q] \in {"waiting", "crashed"}
                                 \/ /\ pc'[q] = "done"
                                    /\ pc[owner[q]] \in {"resolved", "done"}
                                    /\ out'[q] = ToOutcome(q, att[owner[q]], TRUE)
         /\ owner'[q] # owner[q] => Joins(q)
BY DEF Moves, Untouched, Keeps, Dies, Arrives, Refused, Joins, Starts, Works, Returns, Hears,
       Live, Attempting, HoldsLock

LEMMA WaiterStep ==
  TypeOK /\ TypeOK' /\ AttemptsRegistered /\ WaiterInv /\ [Next]_vars => WaiterInv'
<1> SUFFICES ASSUME TypeOK, TypeOK', AttemptsRegistered, WaiterInv, [Next]_vars,
                    NEW r \in Request, owner'[r] # NoRequest
             PROVE  WaiterOK(r)'
  BY DEF WaiterInv, WaiterOK
<1>1. \A q \in Request : Moves(q)
  BY MoveStep
<1>2. {"waiting", "done", "crashed", "verify", "idle"} \cap Attempting = {} /\ "resolved" \in Attempting
  BY DEF Attempting, HoldsLock
<1>3. CASE owner'[r] = owner[r]
  <2> DEFINE o == owner[r]
  <2>1. o \in Request /\ WaiterOK(r) /\ o = owner'[r] /\ o # NoRequest
    BY <1>3 DEF TypeOK, WaiterInv
  <2>2. Moves(o) /\ Moves(r)
    BY <1>1, <2>1
  <2>3. req'[o] = req[o] /\ req'[r] = req[r]
    BY <1>2, <2>1, <2>2, MoveFacts DEF WaiterOK
  <2>4. KeyOf(o)' = KeyOf(o) /\ KeyOf(r)' = KeyOf(r)
    BY <2>1, <2>3 DEF KeyOf
  <2>5. pc'[r] \in {"waiting", "done", "crashed"}
    BY <2>1, <2>2, MoveFacts DEF WaiterOK
  <2>6. pc'[o] \in Attempting \cup {"done", "crashed"}
    BY <1>2, <2>1, <2>2, MoveFacts DEF WaiterOK
  <2>7. ASSUME pc'[o] = "done"
        PROVE  out'[o] = ToOutcome(o, att[o], FALSE)'
    <3>1. att'[o] = att[o] /\ out'[o] = ToOutcome(o, att[o], FALSE)
      BY <1>2, <2>1, <2>2, <2>7, MoveFacts DEF WaiterOK
    <3> QED
      BY <2>1, <2>3, <3>1 DEF ToOutcome, BoundTo
  <2>8. ASSUME pc'[r] = "done"
        PROVE  /\ pc'[o] \in {"resolved", "done", "crashed"}
               /\ out'[r] = ToOutcome(r, att[o], TRUE)'
    <3>1. pc[o] \in {"resolved", "done", "crashed"} /\ out'[r] = ToOutcome(r, att[o], TRUE)
      BY <1>2, <2>1, <2>2, <2>8, MoveFacts DEF WaiterOK
    <3>2. att'[o] = att[o] /\ pc'[o] \in {"resolved", "done", "crashed"}
      BY <1>2, <2>1, <2>2, <3>1, MoveFacts
    <3> QED
      BY <2>1, <2>3, <3>1, <3>2 DEF ToOutcome, BoundTo
  <2> QED
    BY <2>1, <2>4, <2>5, <2>6, <2>7, <2>8 DEF WaiterOK
<1>4. CASE owner'[r] # owner[r]
  <2>1. Joins(r)
    BY <1>1, <1>4, MoveFacts
  <2>2. req[r].gate \in Gate /\ KeyOf(r) \in Key
    BY <2>1, LiveData DEF Joins, Live
  <2>3. PICK o \in Request : pc[o] \in Attempting /\ KeyOf(o) = KeyOf(r) /\ owner'[r] = o
    BY <2>1, <2>2 DEF Joins, Pending, TypeOK, AttemptsRegistered
  <2>4. Moves(o)
    BY <1>1, <2>3
  <2>5. pc'[o] \in Attempting \cup {"done", "crashed"} /\ req'[o] = req[o]
    BY <1>2, <2>3, <2>4, MoveFacts
  <2>6. KeyOf(o)' = KeyOf(r)'
    <3>1. req'[r] = req[r]
      BY <2>1 DEF Joins
    <3> QED
      BY <2>3, <2>5, <3>1 DEF KeyOf
  <2>7. ASSUME pc'[o] = "done"
        PROVE  out'[o] = ToOutcome(o, att[o], FALSE)'
    <3>1. pc[o] = "resolved"
      BY <2>3, <2>4, <2>7, MoveFacts
    <3>2. att'[o] = att[o] /\ out'[o] = ToOutcome(o, att[o], FALSE)
      BY <2>3, <2>4, <2>7, <3>1, MoveFacts
    <3> QED
      BY <2>5, <3>2 DEF ToOutcome, BoundTo
  <2>8. pc'[r] = "waiting"
    BY <2>1 DEF Joins
  <2> QED
    BY <2>3, <2>5, <2>6, <2>7, <2>8 DEF WaiterOK
<1> QED
  BY <1>3, <1>4

LEMMA WaiterInvariant == Spec => []WaiterInv
<1>1. Init => WaiterInv
  BY DEF Init, WaiterInv, WaiterOK
<1>2. TypeOK /\ TypeOK' /\ AttemptsRegistered /\ WaiterInv /\ [Next]_vars => WaiterInv'
  BY WaiterStep
<1> QED
  BY <1>1, <1>2, TypeCorrect, AttemptInv, PTL DEF Spec

\* A waiter's answer is its owner's, judged for the waiter's own offer: the
\* same receipt marked as a replay, or the same refusal.
THEOREM WaiterAgrees == Spec => []WaiterAgreesWithOwner
<1>1. TypeOK /\ WaiterInv => WaiterAgreesWithOwner
  <2> SUFFICES ASSUME TypeOK, WaiterInv, NEW r \in Request,
                      pc[r] = "done", owner[r] # NoRequest, pc[owner[r]] = "done"
               PROVE  LET o == owner[r]
                      IN /\ out[o].status = "settled" /\ req[r].offer = req[o].offer
                              => /\ out[r].status = "settled" /\ out[r].replayed
                                 /\ out[r].receipt = out[o].receipt
                         /\ out[o].status \notin {"settled", "mismatch"}
                              => out[r].status = out[o].status
                         /\ ~out[r].cacheError
    BY DEF WaiterAgreesWithOwner
  <2> DEFINE o == owner[r]
             a == att[o]
  <2>1. /\ o \in Request /\ a \in Result /\ KeyOf(o) = KeyOf(r)
        /\ out[o] = ToOutcome(o, a, FALSE) /\ out[r] = ToOutcome(r, a, TRUE)
    BY DEF TypeOK, WaiterInv, WaiterOK
  <2> HIDE DEF o, a
  <2>2. CASE a.kind # "receipt"
    <3>1. out[o] = Rejected(a.kind) /\ out[r] = Rejected(a.kind) /\ a.kind # "settled"
      BY <2>1, <2>2 DEF ToOutcome, Result, ResultKind
    <3> QED
      BY <3>1 DEF Rejected, o
  <2>3. CASE a.kind = "receipt"
    <3>1. out[r] = (IF BoundTo(a.receipt, r) THEN Granted(a.receipt, TRUE, FALSE)
                    ELSE Rejected("mismatch"))
      BY <2>1, <2>3 DEF ToOutcome
    <3>2. out[o] = (IF BoundTo(a.receipt, o) THEN Granted(a.receipt, a.replayed, a.cacheError)
                    ELSE Rejected("mismatch"))
      BY <2>1, <2>3 DEF ToOutcome, Result
    <3>3. req[r].offer = req[o].offer => (BoundTo(a.receipt, o) <=> BoundTo(a.receipt, r))
      BY <2>1 DEF BoundTo, KeyOf
    <3> QED
      BY <3>1, <3>2, <3>3 DEF Granted, Rejected, o
  <2> QED
    BY <2>2, <2>3
<1> QED
  BY <1>1, WaiterInvariant, TypeCorrect, PTL

(***************************************************************************)
(* Mismatches.                                                             *)
(***************************************************************************)
MismatchOK(r) ==
  out[r].status = "mismatch" =>
    /\ pc[r] # "idle"
    /\ \E s \in charged : /\ pc[s] # "idle"
                          /\ req[s].pay = req[r].pay /\ req[s].model = req[r].model
                          /\ req[s].offer # req[r].offer

MismatchInv == \A r \in Request : MismatchOK(r)

\* A receipt found for a request's key but not for its offer is another
\* request's, for the same payment under a different offer.
LEMMA OtherOffer ==
  ASSUME TypeOK, ReceiptsInv, HonestInv, NEW r \in Request, NEW w \in Request, NEW b \in BOOLEAN,
         KeyOf(w) = KeyOf(r), ToOutcome(r, att[w], b).status = "mismatch"
  PROVE  \E s \in charged : /\ pc[s] # "idle"
                            /\ req[s].pay = req[r].pay /\ req[s].model = req[r].model
                            /\ req[s].offer # req[r].offer
<1> DEFINE x == att[w].receipt
<1>1. att[w].kind = "receipt" /\ ~BoundTo(x, r)
  BY DEF ToOutcome, Rejected, Granted, TypeOK, Result, ResultKind
<1>2. IsFor(x, KeyOf(r)) /\ IsHonest(x, pc, req)
  BY <1>1 DEF ReceiptsInv, AttOK, HonestInv
<1>3. x.by \in charged /\ x.model = req[r].model /\ x.pay = req[r].pay
  BY <1>2 DEF IsFor, KeyOf
<1>4. x.offer # req[r].offer
  BY <1>1, <1>3 DEF BoundTo
<1> QED
  BY <1>2, <1>3, <1>4 DEF IsHonest

LEMMA MismatchStep ==
  TypeOK /\ TypeOK' /\ ReceiptsInv /\ HonestInv /\ MismatchInv /\ [Next]_vars => MismatchInv'
<1> SUFFICES ASSUME TypeOK, TypeOK', ReceiptsInv, HonestInv, MismatchInv, [Next]_vars,
                    NEW r \in Request, out'[r].status = "mismatch"
             PROVE  MismatchOK(r)'
  BY DEF MismatchInv, MismatchOK
<1>1. \A q \in Request : Moves(q)
  BY MoveStep
<1>2. charged \subseteq charged' /\ charged \subseteq Request
  BY StepShape DEF Writes, TypeOK
<1>3. \A q \in Request : pc[q] # "idle" => req'[q] = req[q] /\ pc'[q] # "idle"
  BY <1>1, MoveFacts
<1>4. pc[r] # "idle" /\ \E s \in charged : /\ pc[s] # "idle"
                            /\ req[s].pay = req[r].pay /\ req[s].model = req[r].model
                            /\ req[s].offer # req[r].offer
  <2>1. CASE out'[r] = out[r]
    BY <2>1 DEF MismatchInv, MismatchOK
  <2>2. CASE out'[r] # out[r]
    <3>1. Returns(r) \/ Hears(r)
      BY <1>1, <2>2 DEF Moves, Untouched, Dies, Arrives, Refused, Joins, Starts, Works, Early
    <3>2. CASE Returns(r)
      BY <3>2, OtherOffer DEF Returns
    <3>3. CASE Hears(r)
      <4>1. owner[r] \in Request /\ KeyOf(owner[r]) = KeyOf(r)
        BY <3>3 DEF Hears, TypeOK, ReceiptsInv, PlaceOK
      <4> QED
        BY <3>3, <4>1, OtherOffer DEF Hears
    <3> QED
      BY <3>1, <3>2, <3>3
  <2> QED
    BY <2>1, <2>2
<1> QED
  BY <1>2, <1>3, <1>4 DEF MismatchOK

\* Only a payment that really was charged for another offer is refused with
\* "settled for a different offer".
THEOREM MismatchReal == Spec => []MismatchIsReal
<1>1. Init => MismatchInv
  BY DEF Init, MismatchInv, MismatchOK, Rejected
<1>2. TypeOK /\ TypeOK' /\ ReceiptsInv /\ HonestInv /\ MismatchInv /\ [Next]_vars => MismatchInv'
  BY MismatchStep
<1>3. MismatchInv => MismatchIsReal
  BY DEF MismatchInv, MismatchOK, MismatchIsReal
<1> QED
  BY <1>1, <1>2, <1>3, TypeCorrect, ReceiptInvariant, HonestInvariant, PTL DEF Spec

(***************************************************************************)
(* Locks.  A lock names an attempt at work on its key, one that died, or   *)
(* one that is over and whose outcome says that something went wrong.      *)
(***************************************************************************)
Reported(r) == att[r].kind = "threw" \/ att[r].cacheError

Accountable(r) ==
  \/ pc[r] \in HoldsLock \cup {"crashed"}
  \/ pc[r] \in {"resolved", "done"} /\ Reported(r)

LockOK(c, k) ==
  LET h == lock[c][k]
  IN h # NoRequest => c \in Redis /\ KeyOf(h) = k /\ CacheFor(h) = c /\ Accountable(h)

\* Only a gate with a locking cache takes the path through the lock, and only
\* an attempt that threw unwinds.
PathOK(r) ==
  /\ pc[r] \in {"acquire", "get2"} => Locking(r)
  /\ pc[r] = "unwind" => att[r].kind = "threw"

LockInv ==
  /\ \A r \in Request : PathOK(r)
  /\ \A c \in Cache, k \in Key : LockOK(c, k)

\* The lock of request r, and of no other, may change hands when r moves.
LEMMA LockFrame ==
  ASSUME TypeOK, TypeOK', LockInv, NEW r \in Request, \A q \in Request \ {r} : Untouched(q),
         pc[r] # "idle" => req'[r] = req[r],
         PathOK(r)',
         \A c \in Cache, k \in Key : lock'[c][k] \in {lock[c][k], NoRequest},
         \A c \in Cache, k \in Key : lock'[c][k] = r => Accountable(r)'
  PROVE  LockInv'
<1>1. \A q \in Request \ {r} : PathOK(q)'
  BY DEF LockInv, PathOK, Untouched, Locking, CacheFor
<1>2. ASSUME NEW c \in Cache, NEW k \in Key, lock'[c][k] # NoRequest PROVE LockOK(c, k)'
  <2> DEFINE h == lock[c][k]
  <2>1. h \in Request /\ lock'[c][k] = h /\ h # NoRequest
    BY <1>2 DEF TypeOK
  <2>2. c \in Redis /\ KeyOf(h) = k /\ CacheFor(h) = c /\ Accountable(h)
    BY <2>1 DEF LockInv, LockOK
  <2>3. pc[h] # "idle"
    BY <2>2 DEF Accountable, HoldsLock
  <2>4. req'[h] = req[h]
    BY <2>1, <2>3 DEF Untouched
  <2>5. Accountable(h)'
    <3>1. CASE h = r
      BY <2>1, <3>1
    <3>2. CASE h # r
      BY <2>1, <2>2, <3>2 DEF Accountable, Reported, Untouched
    <3> QED
      BY <3>1, <3>2
  <2> QED
    BY <2>1, <2>2, <2>4, <2>5 DEF LockOK, KeyOf, CacheFor
<1> QED
  BY <1>1, <1>2 DEF LockInv, LockOK

\* A request that has not got to the lock, or is past it, holds none it must
\* account for anew.
LEMMA LockHolder ==
  ASSUME TypeOK, LockInv, NEW r \in Request, NEW c \in Cache, NEW k \in Key, lock[c][k] = r
  PROVE  Accountable(r) /\ Locking(r) /\ CacheFor(r) = c /\ KeyOf(r) = k
BY NoneAssumption DEF LockInv, LockOK, Locking

\* Dropping its lock, a request accounts for itself, whoever held it.
LEMMA LockDropped ==
  ASSUME TypeOK, TypeOK', LockInv, NEW r \in Request, \A q \in Request \ {r} : Untouched(q),
         pc[r] \in Live, req'[r] = req[r], PathOK(r)', DropLock(r)
  PROVE  LockInv'
<1>1. KeyOf(r) \in Key /\ CacheFor(r) \in Cache \cup {NoCache}
  BY LiveData
<1>2. \A c \in Cache, k \in Key :
        lock'[c][k] = IF c = CacheFor(r) /\ k = KeyOf(r) THEN NoRequest ELSE lock[c][k]
  BY <1>1 DEF DropLock, TypeOK
<1>3. \A c \in Cache, k \in Key : lock'[c][k] # r
  BY <1>2, LockHolder, NoneAssumption
<1> QED
  BY <1>2, <1>3, LockFrame

LEMMA LockStep == TypeOK /\ TypeOK' /\ LockInv /\ [Next]_vars => LockInv'
<1> SUFFICES ASSUME TypeOK, TypeOK', LockInv, [Next]_vars PROVE LockInv'
  OBVIOUS
<1>1. ASSUME NEW r \in Request, Arrive(r) PROVE LockInv'
  <2>1. pc[r] = "idle" /\ UNCHANGED <<owner, att, lock>>
    BY <1>1 DEF Arrive, cacheVars
  <2>2. \A q \in Request \ {r} : Untouched(q)
    BY <1>1, <2>1, ArriveCases DEF TypeOK, Untouched, Go, Answer
  <2>3. PathOK(r)'
    BY <1>1, ArriveMoves DEF Arrives, PathOK
  <2>4. ~Accountable(r)
    BY <2>1 DEF Accountable, HoldsLock
  <2> QED
    BY <2>1, <2>2, <2>3, <2>4, LockFrame, LockHolder
<1>2. ASSUME NEW r \in Request, VerifyFails(r) PROVE LockInv'
  <2>1. \A q \in Request \ {r} : Untouched(q)
    BY <1>2 DEF TypeOK, Untouched, Go, VerifyFails, Answer
  <2>2. UNCHANGED <<req, lock>>
    BY <1>2 DEF VerifyFails, cacheVars
  <2>3. PathOK(r)'
    BY <1>2, <2>2 DEF PathOK, TypeOK, Go, VerifyFails, Answer
  <2>4. Accountable(r) /\ Locking(r) => Accountable(r)'
    BY <1>2 DEF Accountable, Reported, TypeOK, Go, HoldsLock, VerifyFails, Answer
  <2> QED
    BY <2>1, <2>2, <2>3, <2>4, LockFrame, LockHolder
<1>3. ASSUME NEW r \in Request, Join(r) PROVE LockInv'
  <2>1. \A q \in Request \ {r} : Untouched(q)
    BY <1>3 DEF TypeOK, Untouched, Go, Join
  <2>2. UNCHANGED <<req, lock>>
    BY <1>3 DEF Join, cacheVars
  <2>3. PathOK(r)'
    BY <1>3, <2>2 DEF PathOK, TypeOK, Go, Join
  <2>4. Accountable(r) /\ Locking(r) => Accountable(r)'
    BY <1>3 DEF Accountable, Reported, TypeOK, Go, HoldsLock, Join
  <2> QED
    BY <2>1, <2>2, <2>3, <2>4, LockFrame, LockHolder
<1>4. ASSUME NEW r \in Request, Start(r) PROVE LockInv'
  <2>1. \A q \in Request \ {r} : Untouched(q)
    BY <1>4 DEF TypeOK, Untouched, Go, Start
  <2>2. UNCHANGED <<req, lock>>
    BY <1>4 DEF Start, cacheVars
  <2>3. PathOK(r)'
    BY <1>4, <2>2 DEF PathOK, TypeOK, Go, Start
  <2>4. Accountable(r) /\ Locking(r) => Accountable(r)'
    BY <1>4 DEF Accountable, Reported, TypeOK, Go, HoldsLock, Start
  <2> QED
    BY <2>1, <2>2, <2>3, <2>4, LockFrame, LockHolder
<1>5. ASSUME NEW r \in Request, FirstGet(r) PROVE LockInv'
  <2>1. \A q \in Request \ {r} : Untouched(q)
    BY <1>5 DEF TypeOK, Untouched, Go, FirstGet, Resolve, AttemptIs
  <2>2. UNCHANGED <<req, lock>>
    BY <1>5 DEF FirstGet, cacheVars
  <2>3. PathOK(r)'
    BY <1>5, <2>2 DEF PathOK, TypeOK, Go, FirstGet, Resolve, Locking, CacheFor
  <2>4. Accountable(r) /\ Locking(r) => Accountable(r)'
    BY <1>5 DEF Accountable, Reported, TypeOK, Go, HoldsLock, FirstGet, Resolve
  <2> QED
    BY <2>1, <2>2, <2>3, <2>4, LockFrame, LockHolder
<1>6. ASSUME NEW r \in Request, Acquire(r) PROVE LockInv'
  <2>1. \A q \in Request \ {r} : Untouched(q)
    BY <1>6 DEF TypeOK, Untouched, Go, Acquire, Resolve, AttemptIs
  <2>2. pc[r] = "acquire" /\ UNCHANGED req /\ Locking(r) /\ Locking(r)'
    BY <1>6 DEF Acquire, LockInv, PathOK, Locking, CacheFor
  <2>3. PathOK(r)'
    BY <1>6, <2>2 DEF Acquire, PathOK, Resolve, TypeOK, Go
  <2>4. ~Accountable(r)
    BY <2>2 DEF Accountable, HoldsLock
  <2>5. CASE UNCHANGED lock
    BY <2>1, <2>2, <2>3, <2>4, <2>5, LockFrame, LockHolder
  <2>6. CASE TakeLock(r) /\ LockOf(r) = NoRequest
    <3>1. CacheFor(r) \in Redis /\ CacheFor(r) \in Cache /\ KeyOf(r) \in Key
      BY <2>2, LiveData, ConfigAssumption, PcNames DEF Locking
    <3>2. \A c \in Cache, k \in Key :
            lock'[c][k] = IF c = CacheFor(r) /\ k = KeyOf(r) THEN r ELSE lock[c][k]
      BY <2>6, <3>1 DEF TakeLock, TypeOK
    <3>3. Accountable(r)'
      <4>1. Bare("threw").kind = "threw"
        BY DEF Bare
      <4> QED
        BY <1>6, <2>6, <3>1, <3>2, <4>1, NoneAssumption
           DEF Acquire, TypeOK, Accountable, Reported, Resolve, AttemptIs, Go, HoldsLock
    <3>4. ASSUME NEW c \in Cache, NEW k \in Key PROVE LockOK(c, k)'
      <4>1. CASE lock'[c][k] = r
        <5>1. c = CacheFor(r) /\ k = KeyOf(r)
          BY <2>4, <3>2, <4>1, LockHolder
        <5> QED
          BY <2>2, <3>1, <3>3, <4>1, <5>1 DEF LockOK, KeyOf, CacheFor
      <4>2. CASE lock'[c][k] # r
        <5>1. lock'[c][k] = lock[c][k] /\ LockOK(c, k) /\ lock[c][k] \in Request \cup {NoRequest}
          BY <3>2, <4>2 DEF LockInv, TypeOK
        <5> QED
          BY <2>1, <4>2, <5>1 DEF LockOK, KeyOf, CacheFor, Accountable, Reported, Untouched
      <4> QED
        BY <4>1, <4>2
    <3>5. \A q \in Request \ {r} : PathOK(q)'
      BY <2>1 DEF LockInv, PathOK, Untouched, Locking, CacheFor
    <3> QED
      BY <2>3, <3>4, <3>5 DEF LockInv
  <2> QED
    BY <1>6, <2>5, <2>6 DEF Acquire
<1>7. ASSUME NEW r \in Request, SecondGet(r) PROVE LockInv'
  <2>1. \A q \in Request \ {r} : Untouched(q)
    BY <1>7 DEF TypeOK, Untouched, Go, SecondGet, AttemptIs
  <2>2. UNCHANGED <<req, lock>>
    BY <1>7 DEF SecondGet, cacheVars
  <2>3. PathOK(r)'
    BY <1>7, <2>2, BareKind DEF PathOK, TypeOK, Go, SecondGet, AttemptIs
  <2>4. Accountable(r) /\ Locking(r) => Accountable(r)'
    BY <1>7 DEF Accountable, Reported, TypeOK, Go, HoldsLock, SecondGet
  <2> QED
    BY <2>1, <2>2, <2>3, <2>4, LockFrame, LockHolder
<1>8. ASSUME NEW r \in Request, Settle(r) PROVE LockInv'
  <2>1. \A q \in Request \ {r} : Untouched(q)
    BY <1>8 DEF TypeOK, Untouched, Go, Settle, AttemptIs, Released, Unwound
  <2>2. UNCHANGED <<req, lock>>
    BY <1>8 DEF Settle, cacheVars
  <2>3. PathOK(r)'
    BY <1>8, <2>2 DEF PathOK, TypeOK, Go, Settle, AttemptIs, Released, Unwound, Bare
  <2>4. Accountable(r) /\ Locking(r) => Accountable(r)'
    BY <1>8 DEF Accountable, Reported, TypeOK, Go, HoldsLock, Settle, Released, Unwound
  <2> QED
    BY <2>1, <2>2, <2>3, <2>4, LockFrame, LockHolder
<1>9. ASSUME NEW r \in Request, SettleReturns(r) PROVE LockInv'
  <2>1. \A q \in Request \ {r} : Untouched(q)
    BY <1>9 DEF TypeOK, Untouched, Go, SettleReturns, AttemptIs, Unwound
  <2>2. UNCHANGED <<req, lock>>
    BY <1>9 DEF SettleReturns, cacheVars
  <2>3. PathOK(r)'
    BY <1>9, <2>2, BareKind DEF PathOK, TypeOK, Go, SettleReturns, AttemptIs, Unwound
  <2>4. Accountable(r) /\ Locking(r) => Accountable(r)'
    <3>1. Locking(r) => CacheFor(r) # NoCache
      BY ConfigAssumption, NoneAssumption DEF Locking
    <3> QED
      BY <1>9, <3>1 DEF Accountable, TypeOK, Go, HoldsLock, SettleReturns, Unwound
  <2> QED
    BY <2>1, <2>2, <2>3, <2>4, LockFrame, LockHolder
<1>10. ASSUME NEW r \in Request, Store(r) PROVE LockInv'
  <2>1. \A q \in Request \ {r} : Untouched(q)
    BY <1>10 DEF TypeOK, Untouched, Go, Store, AttemptIs, Released
  <2>2. UNCHANGED <<req, lock>>
    BY <1>10 DEF Store, cacheVars
  <2>3. PathOK(r)'
    BY <1>10, <2>2 DEF PathOK, TypeOK, Go, Store, AttemptIs, Released, Bare
  <2>4. Accountable(r) /\ Locking(r) => Accountable(r)'
    BY <1>10 DEF Accountable, Reported, TypeOK, Go, HoldsLock, Store, Released
  <2> QED
    BY <2>1, <2>2, <2>3, <2>4, LockFrame, LockHolder
<1>11. ASSUME NEW r \in Request, Release(r) PROVE LockInv'
  <2>1. \A q \in Request \ {r} : Untouched(q)
    BY <1>11 DEF TypeOK, Untouched, Go, Release, Resolve, AttemptIs
  <2>2. UNCHANGED req /\ pc'[r] = "resolved"
    BY <1>11 DEF Release, Resolve, Go, TypeOK
  <2>3. PathOK(r)'
    BY <2>2 DEF PathOK
  <2>4. CASE DropLock(r)
    BY <1>11, <2>1, <2>2, <2>3, <2>4, LockDropped DEF Release, Live, Attempting, HoldsLock
  <2>5. CASE KeepLock /\ \E result \in AfterFailedRelease(att[r]) : Resolve(r, result)
    <3>1. \A result \in AfterFailedRelease(att[r]) : result.kind = "threw" \/ result.cacheError
      BY DEF AfterFailedRelease, Bare, TypeOK, Result
    <3>2. Accountable(r)'
      BY <2>2, <2>5, <3>1 DEF Accountable, Reported, Resolve, AttemptIs, TypeOK
    <3> QED
      BY <2>1, <2>2, <2>3, <2>5, <3>2, LockFrame DEF KeepLock
  <2> QED
    BY <1>11, <2>4, <2>5 DEF Release
<1>12. ASSUME NEW r \in Request, Unwind(r) PROVE LockInv'
  <2>1. \A q \in Request \ {r} : Untouched(q)
    BY <1>12 DEF TypeOK, Untouched, Go, Unwind
  <2>2. UNCHANGED <<req, att>> /\ pc'[r] = "resolved"
    BY <1>12 DEF Unwind, Go, TypeOK
  <2>3. PathOK(r)'
    BY <2>2 DEF PathOK
  <2>4. CASE DropLock(r)
    BY <1>12, <2>1, <2>2, <2>3, <2>4, LockDropped DEF Unwind, Live, Attempting, HoldsLock
  <2>5. CASE KeepLock
    <3>1. Accountable(r)'
      BY <1>12, <2>2 DEF Accountable, Reported, Unwind, LockInv, PathOK
    <3> QED
      BY <2>1, <2>2, <2>3, <2>5, <3>1, LockFrame DEF KeepLock
  <2> QED
    BY <1>12, <2>4, <2>5 DEF Unwind
<1>13. ASSUME NEW r \in Request, OwnerReturns(r) PROVE LockInv'
  <2>1. \A q \in Request \ {r} : Untouched(q)
    BY <1>13 DEF TypeOK, Untouched, Go, OwnerReturns, Answer
  <2>2. UNCHANGED <<req, lock>>
    BY <1>13 DEF OwnerReturns, cacheVars
  <2>3. PathOK(r)'
    BY <1>13, <2>2 DEF PathOK, TypeOK, Go, OwnerReturns, Answer
  <2>4. Accountable(r) /\ Locking(r) => Accountable(r)'
    BY <1>13 DEF Accountable, Reported, TypeOK, Go, HoldsLock, OwnerReturns, Answer
  <2> QED
    BY <2>1, <2>2, <2>3, <2>4, LockFrame, LockHolder
<1>14. ASSUME NEW r \in Request, WaiterReturns(r) PROVE LockInv'
  <2>1. \A q \in Request \ {r} : Untouched(q)
    BY <1>14 DEF TypeOK, Untouched, Go, WaiterReturns, Answer
  <2>2. UNCHANGED <<req, lock>>
    BY <1>14 DEF WaiterReturns, cacheVars
  <2>3. PathOK(r)'
    BY <1>14, <2>2 DEF PathOK, TypeOK, Go, WaiterReturns, Answer
  <2>4. Accountable(r) /\ Locking(r) => Accountable(r)'
    BY <1>14 DEF Accountable, Reported, TypeOK, Go, HoldsLock, WaiterReturns, Answer
  <2> QED
    BY <2>1, <2>2, <2>3, <2>4, LockFrame, LockHolder
<1>15. ASSUME NEW c \in Cache, NEW k \in Key, EntryExpires(c, k) PROVE LockInv'
  BY <1>15 DEF EntryExpires, requestVars, LockInv, LockOK, PathOK, Accountable, Reported, KeyOf,
               CacheFor, Locking
<1>16. ASSUME NEW c \in Cache, NEW k \in Key, LockExpires(c, k) \/ LockOverrun(c, k) PROVE LockInv'
  <2>1. UNCHANGED requestVars /\ lock' = [lock EXCEPT ![c][k] = NoRequest]
    BY <1>16 DEF LockExpires, LockOverrun
  <2>2. \A d \in Cache, j \in Key : lock'[d][j] \in {lock[d][j], NoRequest}
    BY <2>1 DEF TypeOK
  <2> QED
    BY <2>1, <2>2 DEF requestVars, LockInv, LockOK, PathOK, Accountable, Reported, KeyOf, CacheFor, Locking
<1>18. ASSUME NEW p \in Process, Crash(p) PROVE LockInv'
  <2>1. \A q \in Request : pc'[q] = pc[q] \/ pc'[q] = "crashed"
    BY <1>18 DEF Crash
  <2>2. UNCHANGED <<req, att, lock>>
    BY <1>18 DEF Crash
  <2>3. \A q \in Request : PathOK(q)'
    BY <2>1, <2>2 DEF LockInv, PathOK, Locking, CacheFor
  <2>4. \A c \in Cache, k \in Key : lock[c][k] # NoRequest => Accountable(lock[c][k])'
    BY <2>1, <2>2 DEF LockInv, LockOK, Accountable, Reported, TypeOK
  <2> QED
    BY <2>2, <2>3, <2>4 DEF LockInv, LockOK, KeyOf, CacheFor
<1>19. CASE UNCHANGED vars
  BY <1>19 DEF vars, LockInv, LockOK, PathOK, Accountable, Reported, KeyOf, CacheFor, Locking
<1>20. CASE AllAnswered
  BY <1>19, <1>20 DEF AllAnswered
<1> QED
  BY <1>1, <1>2, <1>3, <1>4, <1>5, <1>6, <1>7, <1>8, <1>9, <1>10, <1>11, <1>12, <1>13,
     <1>14, <1>15, <1>16, <1>18, <1>19, <1>20 DEF Next, Step

LEMMA LockInvariant == Spec => []LockInv
<1>1. Init => LockInv
  BY DEF Init, LockInv, LockOK, PathOK
<1>2. TypeOK /\ TypeOK' /\ LockInv /\ [Next]_vars => LockInv'
  BY LockStep
<1> QED
  BY <1>1, <1>2, TypeCorrect, PTL DEF Spec

\* A lock outlives its attempt only when the attempt threw or its receipt says
\* that the cache failed.
THEOREM LockLeaksAreReported == Spec => []NoSilentLockLeak
<1>1. LockInv => NoSilentLockLeak
  BY DEF LockInv, LockOK, Accountable, Reported, NoSilentLockLeak, HoldsLock
<1> QED
  BY <1>1, LockInvariant, PTL

(***************************************************************************)
(* Charges.  One memory of payments: every gate that can settle keeps its  *)
(* receipts in cache c, which locks, or is the cache of a single gate,     *)
(* whose in-flight map does for a lock.                                    *)
(***************************************************************************)
Settling ==
  {g \in Gate : RoutesOf[g] \cap (IF g \in ChargeGates THEN SettledModel ELSE {"x402"}) # {}}

OneMemory(c) ==
  /\ c \in Cache
  /\ \A g \in Settling : CacheOf[g] = c
  /\ c \in Redis \/ \A g, h \in Settling : g = h

\* Where a charged request can be; the others are never charged.
AfterCharge == {"charged", "store", "release", "unwind", "resolved", "done", "crashed"}

PlacesInv ==
  /\ \A r \in charged : pc[r] \in AfterCharge
  /\ \A r \in Request : req[r] \in RequestData => req[r].gate \in Settling

(***************************************************************************)
(* A request has a claim on its payment when it charged it, is about to,   *)
(* or still believes in a lock it lost.  No other may start to settle      *)
(* while a receipt is kept or a request that has the right to is at work.  *)
(***************************************************************************)
Guarded(c, r) == c \in Redis => lock[c][KeyOf(r)] = r

AtWork(c, k, r) == KeyOf(r) = k /\ pc[r] \in {"settle", "charged", "store"} /\ Guarded(c, r)

Claims(c, k, r) ==
  /\ KeyOf(r) = k
  /\ r \in charged \/ pc[r] = "settle" \/ (pc[r] = "get2" /\ ~Guarded(c, r))

Claimants(c, k) == {r \in Request : Claims(c, k, r)}

Blocked(c, k) == entry[c][k] # NoReceipt \/ \E r \in Request : AtWork(c, k, r)

\* Every claim but one is paid for by a loss, and all are when the way is free.
AccountOK(c, k) == Cardinality(Claimants(c, k)) <= lost[k] + (IF Blocked(c, k) THEN 1 ELSE 0)

AccountInv(c) == PlacesInv /\ \A k \in Key : AccountOK(c, k)

LEMMA Counted ==
  ASSUME NEW S \in SUBSET Request
  PROVE  /\ Cardinality(S) \in Nat
         /\ \A T \in SUBSET S : Cardinality(T) <= Cardinality(S)
         /\ \A x : Cardinality(S \cup {x}) <= Cardinality(S) + 1
         /\ \A x \in S : Cardinality(S \ {x}) = Cardinality(S) - 1
<1>1. IsFiniteSet(S)
  BY FiniteAssumption, FS_Subset
<1> QED
  BY <1>1, FS_CardinalityType, FS_Subset, FS_AddElement, FS_RemoveElement

\* The ways in which a step keeps the accounts of a payment.
Balanced(c, k) ==
  LET before == Claimants(c, k)
      after == Claimants(c, k)'
  IN /\ lost'[k] >= lost[k]
     /\ \/ after \subseteq before /\ (Blocked(c, k) => Blocked(c, k)')
        \/ after \subseteq before /\ lost'[k] > lost[k]
        \/ /\ \E r \in Request : after \subseteq before \cup {r}
           /\ lost'[k] > lost[k] /\ (Blocked(c, k) => Blocked(c, k)')
        \/ \E r \in before : after \subseteq before \ {r}
        \/ /\ \E r \in Request : after \subseteq before \cup {r}
           /\ ~Blocked(c, k) /\ Blocked(c, k)'

LEMMA AccountKept ==
  ASSUME TypeOK, TypeOK', NEW c \in Cache, NEW k \in Key, AccountOK(c, k), Balanced(c, k)
  PROVE  AccountOK(c, k)'
<1> DEFINE before == Claimants(c, k)
           after == Claimants(c, k)'
<1>1. before \in SUBSET Request /\ after \in SUBSET Request
  BY DEF Claimants
<1>2. lost[k] \in Nat /\ lost'[k] \in Nat
  BY DEF TypeOK
<1>3. /\ lost'[k] >= lost[k]
      /\ \/ after \subseteq before /\ (Blocked(c, k) => Blocked(c, k)')
         \/ after \subseteq before /\ lost'[k] > lost[k]
         \/ /\ \E r \in Request : after \subseteq before \cup {r}
            /\ lost'[k] > lost[k] /\ (Blocked(c, k) => Blocked(c, k)')
         \/ \E r \in before : after \subseteq before \ {r}
         \/ /\ \E r \in Request : after \subseteq before \cup {r}
            /\ ~Blocked(c, k) /\ Blocked(c, k)'
  BY DEF Balanced
<1> HIDE DEF before, after
<1>4. Cardinality(before) \in Nat /\ Cardinality(after) \in Nat
  BY <1>1, Counted
<1>5. after \subseteq before => Cardinality(after) <= Cardinality(before)
  BY <1>1, Counted
<1>6. ASSUME NEW r \in Request, after \subseteq before \cup {r}
      PROVE  Cardinality(after) <= Cardinality(before) + 1
  <2>1. before \cup {r} \in SUBSET Request
    BY <1>1
  <2>2. Cardinality(after) <= Cardinality(before \cup {r})
    BY <1>6, <2>1, Counted
  <2>3. Cardinality(before \cup {r}) \in Nat
    BY <2>1, Counted
  <2> QED
    BY <1>1, <1>4, <2>2, <2>3, Counted
<1>7. ASSUME NEW r \in before, after \subseteq before \ {r}
      PROVE  Cardinality(after) + 1 <= Cardinality(before)
  <2>1. before \ {r} \in SUBSET Request
    BY <1>1
  <2>2. Cardinality(after) <= Cardinality(before \ {r})
    BY <1>7, <2>1, Counted
  <2>3. Cardinality(before \ {r}) = Cardinality(before) - 1
    BY <1>1, Counted
  <2> QED
    BY <1>4, <2>2, <2>3
<1>8. Cardinality(before) <= lost[k] + (IF Blocked(c, k) THEN 1 ELSE 0)
  BY DEF AccountOK, before
<1>9. Cardinality(after) <= lost'[k] + (IF Blocked(c, k)' THEN 1 ELSE 0)
  <2> DEFINE b == Blocked(c, k)
             b2 == Blocked(c, k)'
             m == Cardinality(before)
             n == Cardinality(after)
  <2>1. \/ n <= m /\ (b => b2)
        \/ n <= m /\ lost'[k] > lost[k]
        \/ n <= m + 1 /\ lost'[k] > lost[k] /\ (b => b2)
        \/ n + 1 <= m
        \/ n <= m + 1 /\ ~b /\ b2
    BY <1>3, <1>5, <1>6, <1>7
  <2>2. m \in Nat /\ n \in Nat /\ m <= lost[k] + (IF b THEN 1 ELSE 0) /\ lost'[k] >= lost[k]
    BY <1>3, <1>4, <1>8
  <2> HIDE DEF b, b2, m, n
  <2>3. n <= lost'[k] + (IF b2 THEN 1 ELSE 0)
    BY <1>2, <2>1, <2>2
  <2> QED
    BY <2>3 DEF n, b2
<1> QED
  BY <1>9 DEF AccountOK, after

\* A request whose part in the accounts does not change.
Still(q) ==
  LET Busy == {"get2", "settle", "charged", "store"}
  IN \/ /\ KeyOf(q)' = KeyOf(q) /\ (q \in charged' <=> q \in charged)
        /\ pc'[q] = pc[q] \/ (pc[q] \notin Busy /\ pc'[q] \notin Busy)
     \/ pc[q] \notin Busy /\ pc'[q] \notin Busy /\ q \notin charged /\ q \notin charged'

\* All are still, and a lock may go: if its holder was at work that is a loss.
LEMMA StillBalance ==
  ASSUME TypeOK, LockInv, NEW c \in Cache, NEW k \in Key,
         \A q \in Request : Still(q),
         entry'[c][k] = entry[c][k], lost[k] \in Nat, lost'[k] \in Nat, lost'[k] >= lost[k],
         \/ lock'[c][k] = lock[c][k]
         \/ /\ lock'[c][k] = NoRequest
            /\ pc[lock[c][k]] \in {"get2", "settle", "charged", "store"} => lost'[k] > lost[k]
  PROVE  Balanced(c, k)
<1>1. PICK h : h = lock[c][k]
  OBVIOUS
<1>2. CASE lock'[c][k] = lock[c][k]
  <2>1. \A q \in Request : KeyOf(q) = k /\ KeyOf(q)' = k => (Guarded(c, q)' <=> Guarded(c, q))
    BY <1>2 DEF Guarded
  <2>2. \A q \in Request : Claims(c, k, q)' <=> Claims(c, k, q)
    BY <2>1 DEF Still, Claims
  <2>3. \A q \in Request : AtWork(c, k, q)' <=> AtWork(c, k, q)
    BY <2>1 DEF Still, AtWork
  <2> QED
    BY <2>2, <2>3 DEF Balanced, Claimants, Blocked
<1>3. CASE lock'[c][k] = NoRequest /\ h # NoRequest
  <2>1. h \in Request /\ KeyOf(h) = k /\ c \in Redis
    BY <1>1, <1>3 DEF TypeOK, LockInv, LockOK
  <2>2. \A q \in Request : KeyOf(q) = k => (Guarded(c, q) <=> q = h)
    BY <1>1, <2>1 DEF Guarded
  <2>3. \A q \in Request : KeyOf(q)' = k => ~Guarded(c, q)'
    BY <1>3, <2>1, NoneAssumption DEF Guarded
  <2>4. CASE pc[h] \in {"get2", "settle", "charged", "store"}
    <3>1. lost'[k] > lost[k]
      BY <1>1, <1>3, <2>4
    <3>2. \A q \in Request \ {h} : Claims(c, k, q)' => Claims(c, k, q)
      BY <2>2, <2>3 DEF Still, Claims
    <3>3. CASE pc[h] = "get2"
      <4>1. \A q \in Request : ~AtWork(c, k, q)
        BY <2>2, <3>3 DEF AtWork
      <4>2. Blocked(c, k) => Blocked(c, k)'
        BY <4>1 DEF Blocked
      <4>3. Claimants(c, k)' \subseteq Claimants(c, k) \cup {h}
        BY <3>2 DEF Claimants
      <4> QED
        BY <2>1, <3>1, <4>2, <4>3 DEF Balanced
    <3>4. CASE pc[h] # "get2"
      <4>1. Claims(c, k, h)' => Claims(c, k, h)
        BY <2>1, <2>4, <3>4 DEF Still, Claims
      <4>2. Claimants(c, k)' \subseteq Claimants(c, k)
        BY <3>2, <4>1 DEF Claimants
      <4> QED
        BY <3>1, <4>2 DEF Balanced
    <3> QED
      BY <3>3, <3>4
  <2>5. CASE pc[h] \notin {"get2", "settle", "charged", "store"}
    <3>1. \A q \in Request : Claims(c, k, q)' => Claims(c, k, q)
      BY <2>1, <2>2, <2>3, <2>5 DEF Still, Claims
    <3>2. \A q \in Request : ~AtWork(c, k, q)
      BY <2>2, <2>5 DEF AtWork
    <3> QED
      BY <3>1, <3>2 DEF Balanced, Claimants, Blocked
  <2> QED
    BY <2>4, <2>5
<1> QED
  BY <1>1, <1>2, <1>3

\* Request r moves and no lock does.
LEMMA MoverBalance ==
  ASSUME TypeOK, NEW c \in Cache, NEW k \in Key, NEW r \in Request,
         \A q \in Request \ {r} : Untouched(q),
         req'[r] = req[r], lock'[c][k] = lock[c][k],
         charged \subseteq charged', charged' \subseteq charged \cup {r},
         entry'[c][k] = entry[c][k] \/ entry'[c][k] # NoReceipt,
         lost[k] \in Nat, lost'[k] \in Nat, lost'[k] >= lost[k],
         \/ KeyOf(r) # k
         \/ /\ Claims(c, k, r)' => Claims(c, k, r)
            /\ AtWork(c, k, r) => AtWork(c, k, r)' \/ entry'[c][k] # NoReceipt
         \/ (Claims(c, k, r)' => Claims(c, k, r)) /\ lost'[k] > lost[k]
         \/ Claims(c, k, r) /\ ~Claims(c, k, r)'
         \/ ~Blocked(c, k) /\ AtWork(c, k, r)'
  PROVE  Balanced(c, k)
<1>1. \A q \in Request : KeyOf(q)' = KeyOf(q)
  BY DEF Untouched, KeyOf
<1>2. \A q \in Request : KeyOf(q) = k => (Guarded(c, q)' <=> Guarded(c, q))
  BY <1>1 DEF Guarded
<1>3. \A q \in Request \ {r} : /\ Claims(c, k, q)' <=> Claims(c, k, q)
                               /\ AtWork(c, k, q)' <=> AtWork(c, k, q)
  BY <1>1, <1>2 DEF Claims, AtWork, Untouched
<1>4. KeyOf(r) # k => ~Claims(c, k, r) /\ ~Claims(c, k, r)' /\ ~AtWork(c, k, r)
  BY <1>1 DEF Claims, AtWork
<1>5. \/ /\ Claims(c, k, r)' => Claims(c, k, r)
         /\ AtWork(c, k, r) => AtWork(c, k, r)' \/ entry'[c][k] # NoReceipt
      \/ (Claims(c, k, r)' => Claims(c, k, r)) /\ lost'[k] > lost[k]
      \/ Claims(c, k, r) /\ ~Claims(c, k, r)'
      \/ ~Blocked(c, k) /\ AtWork(c, k, r)'
  BY <1>4
<1>6. CASE /\ Claims(c, k, r)' => Claims(c, k, r)
           /\ AtWork(c, k, r) => AtWork(c, k, r)' \/ entry'[c][k] # NoReceipt
  <2>1. Claimants(c, k)' \subseteq Claimants(c, k)
    BY <1>3, <1>6 DEF Claimants
  <2>2. Blocked(c, k) => Blocked(c, k)'
    BY <1>3, <1>6 DEF Blocked
  <2> QED
    BY <2>1, <2>2 DEF Balanced
<1>7. CASE (Claims(c, k, r)' => Claims(c, k, r)) /\ lost'[k] > lost[k]
  <2>1. Claimants(c, k)' \subseteq Claimants(c, k)
    BY <1>3, <1>7 DEF Claimants
  <2> QED
    BY <1>7, <2>1 DEF Balanced
<1>8. CASE Claims(c, k, r) /\ ~Claims(c, k, r)'
  <2>1. r \in Claimants(c, k) /\ Claimants(c, k)' \subseteq Claimants(c, k) \ {r}
    BY <1>3, <1>8 DEF Claimants
  <2> QED
    BY <2>1 DEF Balanced
<1>9. CASE ~Blocked(c, k) /\ AtWork(c, k, r)'
  <2>1. Claimants(c, k)' \subseteq Claimants(c, k) \cup {r} /\ Blocked(c, k)'
    BY <1>3, <1>9 DEF Claimants, Blocked
  <2> QED
    BY <1>9, <2>1 DEF Balanced
<1> QED
  BY <1>5, <1>6, <1>7, <1>8, <1>9

LEMMA PlacesStep == TypeOK /\ TypeOK' /\ PlacesInv /\ [Next]_vars => PlacesInv'
<1> SUFFICES ASSUME TypeOK, TypeOK', PlacesInv, [Next]_vars PROVE PlacesInv'
  OBVIOUS
<1> DEFINE Placed(q) == /\ pc[q] \in AfterCharge => pc'[q] \in AfterCharge
                        /\ q \in charged' => q \in charged \/ pc'[q] \in AfterCharge
                        /\ req'[q] = req[q]
<1>0. ASSUME \A q \in Request : Placed(q) PROVE PlacesInv'
  BY <1>0 DEF PlacesInv, TypeOK
<1>a. ASSUME NEW r \in Request, \A q \in Request \ {r} : Untouched(q), Placed(r),
             charged' \subseteq charged \cup {r}
      PROVE  PlacesInv'
  BY <1>0, <1>a DEF Untouched
<1>1. ASSUME NEW r \in Request, Arrive(r) PROVE PlacesInv'
  <2>1. pc[r] = "idle" /\ pc'[r] # "idle" /\ UNCHANGED charged
    BY <1>1, ArriveMoves DEF Arrive, Arrives
  <2>2. \A q \in Request \ {r} : pc'[q] = pc[q] /\ req'[q] = req[q]
    BY <1>1, ArriveCases DEF TypeOK, Go, Answer
  <2>3. r \notin charged
    BY <2>1 DEF PlacesInv, AfterCharge
  <2>4. req'[r] = req[r] \/ req'[r].gate \in Settling
    <3>1. \A g \in Gate : \A p, o, m :
            m \in RoutesOf[g] /\ m \in (IF g \in ChargeGates THEN SettledModel ELSE {"x402"})
              => [gate |-> g, pay |-> p, offer |-> o, model |-> m].gate \in Settling
      BY DEF Settling
    <3>2. req \in [Request -> RequestData \cup {NoData}]
      BY DEF TypeOK
    <3> QED
      BY <1>1, <3>1, <3>2 DEF Arrive
  <2> QED
    BY <2>1, <2>2, <2>3, <2>4 DEF PlacesInv, TypeOK
<1>2. ASSUME NEW r \in Request, VerifyFails(r) PROVE PlacesInv'
  <2>1. \A q \in Request \ {r} : Untouched(q)
    BY <1>2 DEF TypeOK, Untouched, Go, VerifyFails, Answer
  <2>2. Placed(r) /\ charged' \subseteq charged \cup {r}
    BY <1>2 DEF TypeOK, Go, AfterCharge, VerifyFails, Answer
  <2> QED
    BY <2>1, <2>2, <1>a
<1>3. ASSUME NEW r \in Request, Join(r) PROVE PlacesInv'
  <2>1. \A q \in Request \ {r} : Untouched(q)
    BY <1>3 DEF TypeOK, Untouched, Go, Join
  <2>2. Placed(r) /\ charged' \subseteq charged \cup {r}
    BY <1>3 DEF TypeOK, Go, AfterCharge, Join
  <2> QED
    BY <2>1, <2>2, <1>a
<1>4. ASSUME NEW r \in Request, Start(r) PROVE PlacesInv'
  <2>1. \A q \in Request \ {r} : Untouched(q)
    BY <1>4 DEF TypeOK, Untouched, Go, Start
  <2>2. Placed(r) /\ charged' \subseteq charged \cup {r}
    BY <1>4 DEF TypeOK, Go, AfterCharge, Start
  <2> QED
    BY <2>1, <2>2, <1>a
<1>5. ASSUME NEW r \in Request, FirstGet(r) PROVE PlacesInv'
  <2>1. \A q \in Request \ {r} : Untouched(q)
    BY <1>5 DEF TypeOK, Untouched, Go, FirstGet, Resolve, AttemptIs
  <2>2. Placed(r) /\ charged' \subseteq charged \cup {r}
    BY <1>5 DEF TypeOK, Go, AfterCharge, FirstGet, Resolve, AttemptIs
  <2> QED
    BY <2>1, <2>2, <1>a
<1>6. ASSUME NEW r \in Request, Acquire(r) PROVE PlacesInv'
  <2>1. \A q \in Request \ {r} : Untouched(q)
    BY <1>6 DEF TypeOK, Untouched, Go, Acquire, Resolve, AttemptIs
  <2>2. Placed(r) /\ charged' \subseteq charged \cup {r}
    BY <1>6 DEF TypeOK, Go, AfterCharge, Acquire, Resolve, AttemptIs
  <2> QED
    BY <2>1, <2>2, <1>a
<1>7. ASSUME NEW r \in Request, SecondGet(r) PROVE PlacesInv'
  <2>1. \A q \in Request \ {r} : Untouched(q)
    BY <1>7 DEF TypeOK, Untouched, Go, SecondGet, AttemptIs
  <2>2. Placed(r) /\ charged' \subseteq charged \cup {r}
    BY <1>7 DEF TypeOK, Go, AfterCharge, SecondGet, AttemptIs
  <2> QED
    BY <2>1, <2>2, <1>a
<1>8. ASSUME NEW r \in Request, Settle(r) PROVE PlacesInv'
  <2>1. \A q \in Request \ {r} : Untouched(q)
    BY <1>8 DEF TypeOK, Untouched, Go, Settle, AttemptIs, Released, Unwound
  <2>2. Placed(r) /\ charged' \subseteq charged \cup {r}
    BY <1>8 DEF TypeOK, Go, AfterCharge, Settle, AttemptIs, Released, Unwound
  <2> QED
    BY <2>1, <2>2, <1>a
<1>9. ASSUME NEW r \in Request, SettleReturns(r) PROVE PlacesInv'
  <2>1. \A q \in Request \ {r} : Untouched(q)
    BY <1>9 DEF TypeOK, Untouched, Go, SettleReturns, AttemptIs, Unwound
  <2>2. Placed(r) /\ charged' \subseteq charged \cup {r}
    BY <1>9 DEF TypeOK, Go, AfterCharge, SettleReturns, AttemptIs, Unwound
  <2> QED
    BY <2>1, <2>2, <1>a
<1>10. ASSUME NEW r \in Request, Store(r) PROVE PlacesInv'
  <2>1. \A q \in Request \ {r} : Untouched(q)
    BY <1>10 DEF TypeOK, Untouched, Go, Store, AttemptIs, Released
  <2>2. Placed(r) /\ charged' \subseteq charged \cup {r}
    BY <1>10 DEF TypeOK, Go, AfterCharge, Store, AttemptIs, Released
  <2> QED
    BY <2>1, <2>2, <1>a
<1>11. ASSUME NEW r \in Request, Release(r) PROVE PlacesInv'
  <2>1. \A q \in Request \ {r} : Untouched(q)
    BY <1>11 DEF TypeOK, Untouched, Go, Release, Resolve, AttemptIs
  <2>2. Placed(r) /\ charged' \subseteq charged \cup {r}
    BY <1>11 DEF TypeOK, Go, AfterCharge, Release, Resolve, AttemptIs
  <2> QED
    BY <2>1, <2>2, <1>a
<1>12. ASSUME NEW r \in Request, Unwind(r) PROVE PlacesInv'
  <2>1. \A q \in Request \ {r} : Untouched(q)
    BY <1>12 DEF TypeOK, Untouched, Go, Unwind
  <2>2. Placed(r) /\ charged' \subseteq charged \cup {r}
    BY <1>12 DEF TypeOK, Go, AfterCharge, Unwind
  <2> QED
    BY <2>1, <2>2, <1>a
<1>13. ASSUME NEW r \in Request, OwnerReturns(r) PROVE PlacesInv'
  <2>1. \A q \in Request \ {r} : Untouched(q)
    BY <1>13 DEF TypeOK, Untouched, Go, OwnerReturns, Answer
  <2>2. Placed(r) /\ charged' \subseteq charged \cup {r}
    BY <1>13 DEF TypeOK, Go, AfterCharge, OwnerReturns, Answer
  <2> QED
    BY <2>1, <2>2, <1>a
<1>14. ASSUME NEW r \in Request, WaiterReturns(r) PROVE PlacesInv'
  <2>1. \A q \in Request \ {r} : Untouched(q)
    BY <1>14 DEF TypeOK, Untouched, Go, WaiterReturns, Answer
  <2>2. Placed(r) /\ charged' \subseteq charged \cup {r}
    BY <1>14 DEF TypeOK, Go, AfterCharge, WaiterReturns, Answer
  <2> QED
    BY <2>1, <2>2, <1>a
<1>15. ASSUME NEW c \in Cache, NEW k \in Key, EntryExpires(c, k) PROVE PlacesInv'
  BY <1>0, <1>15 DEF EntryExpires, requestVars
<1>16. ASSUME NEW c \in Cache, NEW k \in Key, LockExpires(c, k) PROVE PlacesInv'
  BY <1>0, <1>16 DEF LockExpires, requestVars
<1>17. ASSUME NEW c \in Cache, NEW k \in Key, LockOverrun(c, k) PROVE PlacesInv'
  BY <1>0, <1>17 DEF LockOverrun, requestVars
<1>18. ASSUME NEW p \in Process, Crash(p) PROVE PlacesInv'
  BY <1>0, <1>18 DEF Crash, AfterCharge
<1>19. CASE UNCHANGED vars
  BY <1>0, <1>19 DEF vars
<1>20. CASE AllAnswered
  BY <1>19, <1>20 DEF AllAnswered
<1> QED
  BY <1>1, <1>2, <1>3, <1>4, <1>5, <1>6, <1>7, <1>8, <1>9, <1>10, <1>11, <1>12, <1>13,
     <1>14, <1>15, <1>16, <1>17, <1>18, <1>19, <1>20 DEF Next, Step

\* A request that gets to work uses the one memory, under its own key.
LEMMA UsesMemory ==
  ASSUME TypeOK, PlacesInv, NEW c, OneMemory(c), NEW r \in Request, pc[r] \in Live
  PROVE  /\ CacheFor(r) = c /\ c \in Cache /\ c # NoCache /\ KeyOf(r) \in Key
         /\ Locking(r) <=> c \in Redis
         /\ Cached(r) = entry[c][KeyOf(r)] /\ LockOf(r) = lock[c][KeyOf(r)]
<1>1. req[r] \in RequestData /\ req[r].gate \in Settling /\ KeyOf(r) \in Key
  BY LiveData DEF PlacesInv
<1>2. CacheFor(r) = c /\ c \in Cache /\ c # NoCache
  BY <1>1, NoneAssumption DEF OneMemory, CacheFor
<1> QED
  BY <1>1, <1>2 DEF Locking, Cached, LockOf

\* With no receipt kept, a request that has the right to settle is the only one
\* with that right: it holds the lock, or is the attempt its gate runs.
LEMMA WayIsFree ==
  ASSUME TypeOK, AttemptsRegistered, PlacesInv, NEW c, OneMemory(c),
         NEW r \in Request, pc[r] \in {"get1", "get2"}, Guarded(c, r),
         entry[c][KeyOf(r)] = NoReceipt
  PROVE  ~Blocked(c, KeyOf(r))
<1> SUFFICES ASSUME NEW q \in Request, AtWork(c, KeyOf(r), q) PROVE FALSE
  BY DEF Blocked
<1>1. q # r /\ KeyOf(q) = KeyOf(r) /\ pc[q] \in Attempting /\ pc[r] \in Attempting
  BY DEF AtWork, Attempting, HoldsLock
<1>2. CASE c \in Redis
  BY <1>1, <1>2 DEF AtWork, Guarded
<1>3. CASE c \notin Redis
  <2>1. req[q].gate \in Settling /\ req[r].gate \in Settling
    BY <1>1, LiveData DEF Live, PlacesInv
  <2>2. req[q].gate = req[r].gate
    BY <1>3, <2>1 DEF OneMemory
  <2> QED
    BY <1>1, <2>2 DEF AttemptsRegistered
<1> QED
  BY <1>2, <1>3

\* Every step keeps the accounts of every payment.
LEMMA BalanceStep ==
  ASSUME NEW c, OneMemory(c), TypeOK, TypeOK', AttemptsRegistered, ReceiptsInv, LockInv,
         AccountInv(c), [Next]_vars, NEW k \in Key
  PROVE  Balanced(c, k)
<1> USE DEF AccountInv
<1>0. c \in Cache /\ lost[k] \in Nat /\ lost'[k] \in Nat
  BY DEF OneMemory, TypeOK
<1>a. ASSUME UNCHANGED <<lost, lock, entry>>, \A q \in Request : Still(q)
      PROVE  Balanced(c, k)
  BY <1>0, <1>a, StillBalance
<1>1. ASSUME NEW r \in Request, Arrive(r) PROVE Balanced(c, k)
  <2>1. UNCHANGED <<lost, lock, entry, charged>> /\ pc[r] = "idle" /\ pc'[r] \in {"verify", "done"}
    BY <1>1, ArriveMoves DEF Arrive, Arrives, cacheVars
  <2>2. \A q \in Request \ {r} : pc'[q] = pc[q] /\ req'[q] = req[q]
    BY <1>1, ArriveCases DEF TypeOK, Go, Answer
  <2>3. r \notin charged
    BY <2>1 DEF PlacesInv, AfterCharge
  <2>4. \A q \in Request : Still(q)
    BY <2>1, <2>2, <2>3 DEF Still, KeyOf
  <2> QED
    BY <1>a, <2>1, <2>4
<1>2. ASSUME NEW r \in Request, VerifyFails(r) PROVE Balanced(c, k)
  <2>1. UNCHANGED <<req, charged, lost, lock, entry>>
    BY <1>2 DEF VerifyFails, cacheVars
  <2>2. \A q \in Request : Still(q)
    BY <1>2, <2>1 DEF Still, KeyOf, TypeOK, Go, VerifyFails, Answer
  <2> QED
    BY <1>a, <2>1, <2>2
<1>3. ASSUME NEW r \in Request, Join(r) PROVE Balanced(c, k)
  <2>1. UNCHANGED <<req, charged, lost, lock, entry>>
    BY <1>3 DEF Join, cacheVars
  <2>2. \A q \in Request : Still(q)
    BY <1>3, <2>1 DEF Still, KeyOf, TypeOK, Go, Join
  <2> QED
    BY <1>a, <2>1, <2>2
<1>4. ASSUME NEW r \in Request, Start(r) PROVE Balanced(c, k)
  <2>1. UNCHANGED <<req, charged, lost, lock, entry>>
    BY <1>4 DEF Start, cacheVars
  <2>2. \A q \in Request : Still(q)
    BY <1>4, <2>1 DEF Still, KeyOf, TypeOK, Go, Start
  <2> QED
    BY <1>a, <2>1, <2>2
<1>13. ASSUME NEW r \in Request, OwnerReturns(r) PROVE Balanced(c, k)
  <2>1. UNCHANGED <<req, charged, lost, lock, entry>>
    BY <1>13 DEF OwnerReturns, cacheVars
  <2>2. \A q \in Request : Still(q)
    BY <1>13, <2>1 DEF Still, KeyOf, TypeOK, Go, OwnerReturns, Answer
  <2> QED
    BY <1>a, <2>1, <2>2
<1>14. ASSUME NEW r \in Request, WaiterReturns(r) PROVE Balanced(c, k)
  <2>1. UNCHANGED <<req, charged, lost, lock, entry>>
    BY <1>14 DEF WaiterReturns, cacheVars
  <2>2. \A q \in Request : Still(q)
    BY <1>14, <2>1 DEF Still, KeyOf, TypeOK, Go, WaiterReturns, Answer
  <2> QED
    BY <1>a, <2>1, <2>2
<1>5. ASSUME NEW r \in Request, FirstGet(r) PROVE Balanced(c, k)
  <2>1. pc[r] = "get1" /\ UNCHANGED <<req, charged, lost, lock, entry>>
    BY <1>5 DEF FirstGet, cacheVars
  <2>2. CASE pc'[r] # "settle"
    <3>1. pc'[r] \in {"resolved", "acquire"} /\ \A q \in Request \ {r} : pc'[q] = pc[q]
      BY <1>5, <2>2 DEF FirstGet, Resolve, Go, TypeOK
    <3>2. \A q \in Request : Still(q)
      BY <2>1, <3>1 DEF Still, KeyOf
    <3> QED
      BY <1>a, <2>1, <3>2
  <2>3. CASE pc'[r] = "settle"
    <3>1. Cached(r) = NoReceipt /\ ~Locking(r)
      BY <1>5, <2>3 DEF FirstGet, Resolve, Go, TypeOK
    <3>2. c \notin Redis /\ entry[c][KeyOf(r)] = NoReceipt
      BY <2>1, <3>1, UsesMemory, PcNames
    <3>3. ~Blocked(c, KeyOf(r))
      BY <2>1, <3>2, WayIsFree DEF Guarded
    <3>4. AtWork(c, KeyOf(r), r)'
      BY <2>1, <2>3, <3>2 DEF AtWork, Guarded, KeyOf
    <3>5. \A q \in Request \ {r} : Untouched(q)
      BY <1>5 DEF TypeOK, Untouched, Go, FirstGet, Resolve, AttemptIs
    <3>6. KeyOf(r)' = KeyOf(r)
      BY <2>1 DEF KeyOf
    <3>7. KeyOf(r) = k => ~Blocked(c, k) /\ AtWork(c, k, r)'
      BY <3>3, <3>4, <3>6 DEF AtWork
    <3> QED
      BY <1>0, <2>1, <3>5, <3>7, MoverBalance
  <2> QED
    BY <2>2, <2>3
<1>6. ASSUME NEW r \in Request, Acquire(r) PROVE Balanced(c, k)
  <2>1. pc[r] = "acquire" /\ UNCHANGED <<req, charged, lost, entry>>
    BY <1>6 DEF Acquire
  <2>2. \A q \in Request \ {r} : Untouched(q)
    BY <1>6 DEF TypeOK, Untouched, Go, Acquire, Resolve, AttemptIs
  <2>3. CASE UNCHANGED lock
    <3>1. pc'[r] # "settle" /\ pc'[r] \in {"resolved", "get2"}
      BY <1>6 DEF Acquire, Resolve, Go, TypeOK
    <3>2. CASE pc'[r] = "resolved"
      <4>1. \A q \in Request : Still(q)
        BY <2>1, <2>2, <3>2 DEF Still, KeyOf, Untouched
      <4> QED
        BY <1>a, <2>1, <2>3, <4>1
    <3>3. CASE pc'[r] = "get2"
      <4>1. TakeLock(r) /\ LockOf(r) = NoRequest
        BY <1>6, <3>3 DEF Acquire, Resolve, Go, TypeOK
      <4>2. CacheFor(r) \in Cache /\ KeyOf(r) \in Key
        BY <2>1, UsesMemory, PcNames
      <4> QED
        BY <2>3, <4>1, <4>2, NoneAssumption DEF TakeLock, LockOf, TypeOK
    <3> QED
      BY <3>1, <3>2, <3>3
  <2>4. CASE TakeLock(r) /\ LockOf(r) = NoRequest
    <3>1. CacheFor(r) = c /\ c \in Redis /\ KeyOf(r) \in Key /\ lock[c][KeyOf(r)] = NoRequest
      BY <2>1, <2>4, UsesMemory, PcNames DEF LockInv, PathOK
    <3>2. \A j \in Key : lock'[c][j] = IF j = KeyOf(r) THEN r ELSE lock[c][j]
      BY <1>0, <2>4, <3>1 DEF TakeLock, TypeOK
    <3>3. \A q \in Request : KeyOf(q)' = KeyOf(q)
      BY <2>1 DEF KeyOf
    <3>4. r \notin charged
      BY <2>1 DEF PlacesInv, AfterCharge
    <3>5. pc'[r] \in {"get2", "resolved"}
      BY <1>6 DEF Acquire, Resolve, Go, TypeOK
    <3>6. \A q \in Request \ {r} : KeyOf(q) = k => (Guarded(c, q)' <=> Guarded(c, q))
      BY <3>1, <3>2, <3>3, NoneAssumption DEF Guarded
    <3>7. ~Claims(c, k, r)'
      BY <2>1, <3>1, <3>2, <3>3, <3>4, <3>5 DEF Claims, Guarded
    <3>8. \A q \in Request \ {r} : /\ Claims(c, k, q)' <=> Claims(c, k, q)
                                   /\ AtWork(c, k, q)' <=> AtWork(c, k, q)
      BY <2>1, <2>2, <3>3, <3>6 DEF Claims, AtWork, Untouched
    <3>9. ~AtWork(c, k, r)
      BY <2>1 DEF AtWork
    <3> QED
      BY <1>0, <2>1, <3>7, <3>8, <3>9 DEF Balanced, Claimants, Blocked
  <2> QED
    BY <1>6, <2>3, <2>4 DEF Acquire
<1>7. ASSUME NEW r \in Request, SecondGet(r) PROVE Balanced(c, k)
  <2>1. pc[r] = "get2" /\ UNCHANGED <<req, charged, lost, lock, entry>>
    BY <1>7 DEF SecondGet, cacheVars
  <2>2. \A q \in Request \ {r} : Untouched(q)
    BY <1>7 DEF TypeOK, Untouched, Go, SecondGet, AttemptIs
  <2>3. KeyOf(r)' = KeyOf(r) /\ (Guarded(c, r)' <=> Guarded(c, r)) /\ r \notin charged
    BY <2>1 DEF KeyOf, Guarded, PlacesInv, AfterCharge
  <2>4. CASE pc'[r] # "settle"
    <3>1. pc'[r] \in {"release", "unwind"}
      BY <1>7, <2>4 DEF SecondGet, Go, TypeOK
    <3>2. ~Claims(c, k, r)' /\ ~AtWork(c, k, r)
      BY <2>1, <2>3, <3>1 DEF Claims, AtWork
    <3> QED
      BY <1>0, <2>1, <2>2, <3>2, MoverBalance
  <2>5. CASE pc'[r] = "settle" /\ ~Guarded(c, r)
    <3>1. (Claims(c, k, r)' => Claims(c, k, r)) /\ ~AtWork(c, k, r)
      BY <2>1, <2>3, <2>5 DEF Claims, AtWork
    <3> QED
      BY <1>0, <2>1, <2>2, <3>1, MoverBalance
  <2>6. CASE pc'[r] = "settle" /\ Guarded(c, r)
    <3>1. Cached(r) = NoReceipt
      BY <1>7, <2>6 DEF SecondGet, Go, TypeOK
    <3>2. entry[c][KeyOf(r)] = NoReceipt
      BY <2>1, <3>1, UsesMemory, PcNames
    <3>3. ~Blocked(c, KeyOf(r))
      BY <2>1, <2>6, <3>2, WayIsFree
    <3>4. KeyOf(r) = k => ~Blocked(c, k) /\ AtWork(c, k, r)'
      BY <2>3, <2>6, <3>3 DEF AtWork
    <3> QED
      BY <1>0, <2>1, <2>2, <3>4, MoverBalance
  <2> QED
    BY <2>4, <2>5, <2>6
<1>8. ASSUME NEW r \in Request, Settle(r) PROVE Balanced(c, k)
  <2>1. pc[r] = "settle" /\ UNCHANGED <<req, lost, lock, entry>>
    BY <1>8 DEF Settle, cacheVars
  <2>2. \A q \in Request \ {r} : Untouched(q)
    BY <1>8 DEF TypeOK, Untouched, Go, Settle, AttemptIs, Released, Unwound
  <2>3. KeyOf(r)' = KeyOf(r) /\ (Guarded(c, r)' <=> Guarded(c, r)) /\ r \notin charged
    BY <2>1 DEF KeyOf, Guarded, PlacesInv, AfterCharge
  <2>4. CASE pc'[r] = "charged" /\ charged' = charged \cup {r}
    <3>1. (Claims(c, k, r)' => Claims(c, k, r)) /\ (AtWork(c, k, r) => AtWork(c, k, r)')
      BY <2>1, <2>3, <2>4 DEF Claims, AtWork
    <3> QED
      BY <1>0, <2>1, <2>2, <2>4, <3>1, MoverBalance
  <2>5. CASE pc'[r] \in {"release", "unwind", "resolved"} /\ UNCHANGED charged
    <3>1. KeyOf(r) = k => Claims(c, k, r) /\ ~Claims(c, k, r)'
      BY <2>1, <2>3, <2>5 DEF Claims
    <3> QED
      BY <1>0, <2>1, <2>2, <2>5, <3>1, MoverBalance
  <2> QED
    BY <1>8, <2>4, <2>5 DEF Settle, Go, TypeOK, Released, Unwound
<1>9. ASSUME NEW r \in Request, SettleReturns(r) PROVE Balanced(c, k)
  <2>1. pc[r] = "charged" /\ UNCHANGED <<req, charged, lock, entry>>
    BY <1>9 DEF SettleReturns, cacheVars
  <2>2. \A q \in Request \ {r} : Untouched(q)
    BY <1>9 DEF TypeOK, Untouched, Go, SettleReturns, AttemptIs, Unwound
  <2>3. KeyOf(r)' = KeyOf(r) /\ (Guarded(c, r)' <=> Guarded(c, r)) /\ r \in charged
    BY <2>1 DEF KeyOf, Guarded, ReceiptsInv, PlaceOK
  <2>4. CacheFor(r) # NoCache /\ KeyOf(r) \in Key
    BY <2>1, UsesMemory, PcNames
  <2>5. Claims(c, k, r)' => Claims(c, k, r)
    BY <2>3 DEF Claims
  <2>6. CASE pc'[r] = "store" /\ UNCHANGED lost
    <3>1. AtWork(c, k, r) => AtWork(c, k, r)'
      BY <2>3, <2>6 DEF AtWork
    <3> QED
      BY <1>0, <2>1, <2>2, <2>5, <2>6, <3>1, MoverBalance
  <2>7. CASE Lose(KeyOf(r))
    <3>1. lost'[k] = IF k = KeyOf(r) THEN lost[k] + 1 ELSE lost[k]
      BY <2>4, <2>7 DEF Lose, TypeOK
    <3> QED
      BY <1>0, <2>1, <2>2, <2>5, <3>1, MoverBalance
  <2> QED
    BY <1>9, <2>4, <2>6, <2>7 DEF SettleReturns, Go, TypeOK
<1>10. ASSUME NEW r \in Request, Store(r) PROVE Balanced(c, k)
  <2>1. pc[r] = "store" /\ UNCHANGED <<req, charged, lock>>
    BY <1>10 DEF Store
  <2>2. \A q \in Request \ {r} : Untouched(q)
    BY <1>10 DEF TypeOK, Untouched, Go, Store, AttemptIs, Released, Put
  <2>3. KeyOf(r)' = KeyOf(r) /\ CacheFor(r) = c /\ KeyOf(r) \in Key
    BY <2>1, UsesMemory, PcNames DEF KeyOf
  <2>4. pc'[r] \in {"release", "unwind", "resolved"}
    BY <1>10 DEF Store, Go, TypeOK, Released
  <2>5. Claims(c, k, r)' => Claims(c, k, r)
    BY <2>1, <2>3, <2>4 DEF Claims
  <2>6. CASE Put(r, att[r].receipt) /\ UNCHANGED lost
    <3>1. att[r].receipt # NoReceipt
      BY <2>1, NoneAssumption DEF ReceiptsInv, PlaceOK, AttOK, IsFor
    <3>2. entry'[c][k] = IF k = KeyOf(r) THEN att[r].receipt ELSE entry[c][k]
      BY <1>0, <2>3, <2>6 DEF Put, TypeOK
    <3> QED
      BY <1>0, <2>1, <2>2, <2>5, <2>6, <3>1, <3>2, MoverBalance
  <2>7. CASE Lose(KeyOf(r)) /\ UNCHANGED entry
    <3>1. lost'[k] = IF k = KeyOf(r) THEN lost[k] + 1 ELSE lost[k]
      BY <2>3, <2>7 DEF Lose, TypeOK
    <3> QED
      BY <1>0, <2>1, <2>2, <2>5, <2>7, <3>1, MoverBalance
  <2> QED
    BY <1>10, <2>6, <2>7 DEF Store
<1>11. ASSUME NEW r \in Request, Release(r) \/ Unwind(r) PROVE Balanced(c, k)
  <2>1. pc[r] \in {"release", "unwind"} /\ UNCHANGED <<req, charged, entry>> /\ (DropLock(r) \/ KeepLock)
    BY <1>11 DEF Release, Unwind
  <2>2. pc'[r] = "resolved" /\ \A q \in Request \ {r} : pc'[q] = pc[q]
    BY <1>11 DEF Release, Unwind, Resolve, Go, TypeOK
  <2>3. \A q \in Request : Still(q)
    BY <2>1, <2>2 DEF Still, KeyOf
  <2>4. CASE KeepLock
    BY <1>a, <2>1, <2>3, <2>4 DEF KeepLock
  <2>5. CASE DropLock(r)
    <3> DEFINE busy == {"get2", "settle", "charged", "store"}
    <3>1. CacheFor(r) = c /\ KeyOf(r) \in Key /\ LockOf(r) = lock[c][KeyOf(r)]
      BY <2>1, UsesMemory, PcNames
    <3>2. lock'[c][k] = IF k = KeyOf(r) THEN NoRequest ELSE lock[c][k]
      BY <1>0, <2>5, <3>1 DEF DropLock, TypeOK
    <3>3. lost'[k] = lost[k] \/ lost'[k] = lost[k] + 1
      BY <2>5, <3>1 DEF DropLock, Lose, TypeOK
    <3>4. CASE lock[c][k] = NoRequest \/ k # KeyOf(r)
      BY <1>0, <2>1, <2>3, <3>2, <3>3, <3>4, StillBalance
    <3>5. CASE lock[c][k] # NoRequest /\ k = KeyOf(r)
      <4>1. pc[lock[c][k]] \in busy => lock[c][k] # r
        BY <2>1
      <4>2. lock[c][k] # r => lost'[k] = lost[k] + 1
        BY <2>5, <3>1, <3>5 DEF DropLock, Lose, TypeOK
      <4> QED
        BY <1>0, <2>1, <2>3, <3>2, <3>3, <3>5, <4>1, <4>2, StillBalance
    <3> QED
      BY <3>4, <3>5
  <2> QED
    BY <2>1, <2>4, <2>5
<1>15. ASSUME NEW d \in Cache, NEW j \in Key, EntryExpires(d, j) PROVE Balanced(c, k)
  <2>1. UNCHANGED <<requestVars, lock, charged>>
    BY <1>15 DEF EntryExpires
  <2>2. \A q \in Request : Still(q)
    BY <2>1 DEF Still, requestVars, KeyOf
  <2>3. lost'[k] = IF k = j THEN lost[k] + 1 ELSE lost[k]
    BY <1>15 DEF EntryExpires, Lose, TypeOK
  <2>4. CASE k # j
    <3>1. entry'[c][k] = entry[c][k]
      BY <1>0, <1>15, <2>4 DEF EntryExpires, TypeOK
    <3> QED
      BY <1>0, <2>1, <2>2, <2>3, <2>4, <3>1, StillBalance
  <2>5. CASE k = j
    <3>1. Claimants(c, k)' = Claimants(c, k)
      BY <2>1 DEF Claimants, Claims, Guarded, KeyOf, requestVars
    <3> QED
      BY <1>0, <2>3, <2>5, <3>1 DEF Balanced
  <2> QED
    BY <2>4, <2>5
<1>16. ASSUME NEW d \in Cache, NEW j \in Key, LockExpires(d, j) \/ LockOverrun(d, j)
       PROVE  Balanced(c, k)
  <2>1. UNCHANGED <<requestVars, entry, charged>>
    BY <1>16 DEF LockExpires, LockOverrun
  <2>2. \A q \in Request : Still(q)
    BY <2>1 DEF Still, requestVars, KeyOf
  <2>3. lock'[c][k] = IF c = d /\ k = j THEN NoRequest ELSE lock[c][k]
    BY <1>0, <1>16 DEF LockExpires, LockOverrun, TypeOK
  <2>4. lost'[k] = lost[k] \/ lost'[k] = lost[k] + 1
    BY <1>16 DEF LockExpires, LockOverrun, Lose, TypeOK
  <2>5. c = d /\ k = j /\ lost'[k] = lost[k] => ~LockIsLive(c, k)
    BY <1>16 DEF LockExpires, LockOverrun, Lose, TypeOK
  <2>6. lock[c][k] \in Request \cup {NoRequest}
    BY <1>0 DEF TypeOK
  <2>7. ~LockIsLive(c, k) /\ lock[c][k] # NoRequest
          => pc[lock[c][k]] \notin {"get2", "settle", "charged", "store"}
    BY <2>6 DEF LockIsLive, HoldsLock
  <2> QED
    BY <1>0, <2>1, <2>2, <2>3, <2>4, <2>5, <2>7, StillBalance
<1>18. ASSUME NEW p \in Process, Crash(p) PROVE Balanced(c, k)
  <2> DEFINE dying == {r \in Request : pc[r] \in Live /\ req[r].gate \in GatesOf(p)}
             unwritten == {r \in dying : pc[r] \in {"charged", "store"} /\ KeyOf(r) = k}
             forgotten == {d \in MemoryOf(p) : entry[d][k] # NoReceipt}
  <2>1. /\ UNCHANGED <<req, lock, charged>>
        /\ \A q \in Request : pc'[q] = IF q \in dying THEN "crashed" ELSE pc[q]
        /\ entry'[c][k] = IF c \in MemoryOf(p) THEN NoReceipt ELSE entry[c][k]
        /\ lost'[k] = lost[k] + Cardinality(unwritten) + Cardinality(forgotten)
    BY <1>0, <1>18 DEF Crash
  <2>2. unwritten \subseteq Request /\ forgotten \subseteq Cache
    BY DEF MemoryOf
  <2>3. IsFiniteSet(unwritten) /\ IsFiniteSet(forgotten)
    BY <2>2, FiniteAssumption, FS_Subset
  <2>4. /\ Cardinality(unwritten) \in Nat /\ Cardinality(forgotten) \in Nat
        /\ unwritten # {} => Cardinality(unwritten) # 0
        /\ forgotten # {} => Cardinality(forgotten) # 0
    <3> HIDE DEF unwritten, forgotten
    <3> QED
      BY <2>3, FS_CardinalityType, FS_EmptySet
  <2>5. lost'[k] >= lost[k] /\ (unwritten # {} \/ forgotten # {} => lost'[k] > lost[k])
    <3> HIDE DEF unwritten, forgotten
    <3> QED
      BY <1>0, <2>1, <2>4
  <2>6. \A q \in Request : KeyOf(q)' = KeyOf(q) /\ (Guarded(c, q)' <=> Guarded(c, q))
    BY <2>1 DEF KeyOf, Guarded
  <2>7. Claimants(c, k)' \subseteq Claimants(c, k)
    BY <2>1, <2>6 DEF Claimants, Claims
  <2>8. CASE unwritten # {} \/ forgotten # {}
    BY <2>5, <2>7, <2>8 DEF Balanced
  <2>9. CASE unwritten = {} /\ forgotten = {} /\ Blocked(c, k) /\ ~Blocked(c, k)'
    <3>1. entry[c][k] = NoReceipt
      BY <2>1, <2>9 DEF Blocked
    <3>2. PICK q \in Request : AtWork(c, k, q)
      BY <2>9, <3>1 DEF Blocked
    <3>3. ~AtWork(c, k, q)'
      BY <2>9 DEF Blocked
    <3>4. q \in dying
      BY <2>1, <2>6, <3>2, <3>3 DEF AtWork
    <3>5. pc[q] = "settle" /\ KeyOf(q) = k
      BY <2>9, <3>2, <3>4 DEF AtWork
    <3>6. q \notin charged /\ pc'[q] = "crashed"
      BY <2>1, <3>4, <3>5 DEF PlacesInv, AfterCharge
    <3>7. q \in Claimants(c, k) /\ q \notin Claimants(c, k)'
      BY <2>1, <3>5, <3>6 DEF Claimants, Claims
    <3> QED
      BY <2>5, <2>7, <3>7 DEF Balanced
  <2>10. CASE Blocked(c, k) => Blocked(c, k)'
    BY <2>5, <2>7, <2>10 DEF Balanced
  <2> QED
    BY <2>8, <2>9, <2>10
<1>19. CASE UNCHANGED vars
  <2>1. \A q \in Request : Still(q)
    BY <1>19 DEF vars, Still, KeyOf
  <2> QED
    BY <1>19, <1>a, <2>1 DEF vars
<1>20. CASE AllAnswered
  BY <1>19, <1>20 DEF AllAnswered
<1> QED
  BY <1>1, <1>2, <1>3, <1>4, <1>5, <1>6, <1>7, <1>8, <1>9, <1>10, <1>11, <1>13,
     <1>14, <1>15, <1>16, <1>18, <1>19, <1>20 DEF Next, Step

LEMMA AccountStep ==
  ASSUME NEW c, OneMemory(c)
  PROVE  TypeOK /\ TypeOK' /\ AttemptsRegistered /\ ReceiptsInv /\ LockInv /\ AccountInv(c)
           /\ [Next]_vars => AccountInv(c)'
BY BalanceStep, PlacesStep, AccountKept DEF AccountInv, OneMemory

LEMMA AccountInvariant == ASSUME NEW c, OneMemory(c) PROVE Spec => []AccountInv(c)
<1>1. Init => AccountInv(c)
  <2> SUFFICES ASSUME Init PROVE AccountInv(c)
    OBVIOUS
  <2>1. \A k \in Key : Claimants(c, k) = {} /\ lost[k] = 0
    BY DEF Init, Claimants, Claims
  <2>2. \A k \in Key : AccountOK(c, k)
    BY <2>1, FS_EmptySet DEF AccountOK
  <2>3. PlacesInv
    BY NoneAssumption DEF Init, PlacesInv
  <2> QED
    BY <2>2, <2>3 DEF AccountInv
<1>2. TypeOK /\ TypeOK' /\ AttemptsRegistered /\ ReceiptsInv /\ LockInv /\ AccountInv(c)
        /\ [Next]_vars => AccountInv(c)'
  BY AccountStep
<1> QED
  BY <1>1, <1>2, TypeCorrect, AttemptInv, ReceiptInvariant, LockInvariant, PTL DEF Spec

\* What has been charged is claimed, and claims exceed losses by one at most.
LEMMA ChargesBounded ==
  ASSUME TypeOK, NEW c, AccountInv(c), NEW k \in Key
  PROVE  ChargesOf(k) \in Nat /\ ChargesOf(k) <= 1 + lost[k]
<1> DEFINE mine == {r \in charged : KeyOf(r) = k}
<1>1. mine \in SUBSET Claimants(c, k) /\ Claimants(c, k) \in SUBSET Request
  BY DEF Claimants, Claims, TypeOK
<1>2. Cardinality(mine) <= Cardinality(Claimants(c, k))
  BY <1>1, Counted
<1>3. Cardinality(mine) \in Nat /\ Cardinality(Claimants(c, k)) \in Nat
  BY <1>1, Counted
<1>4. Cardinality(Claimants(c, k)) <= lost[k] + (IF Blocked(c, k) THEN 1 ELSE 0)
  BY DEF AccountInv, AccountOK
<1>5. ChargesOf(k) = Cardinality(mine)
  BY DEF ChargesOf
<1> HIDE DEF mine
<1>6. lost[k] \in Nat
  BY DEF TypeOK
<1> QED
  BY <1>2, <1>3, <1>4, <1>5, <1>6

\* Duplicate protection, for gates that share one locking cache and for one
\* gate over its own: a payment is charged once, and again only after an event
\* that destroyed the memory of it.
THEOREM ChargesAreJustified == ASSUME NEW c, OneMemory(c) PROVE Spec => []ChargesJustified
<1>1. TypeOK /\ AccountInv(c) => ChargesJustified
  BY ChargesBounded DEF ChargesJustified
<1> QED
  BY <1>1, TypeCorrect, AccountInvariant, PTL

(***************************************************************************)
(* The ledger.                                                             *)
(***************************************************************************)

\* Access is granted in the step that ends a request.
GrantsInv == \A r \in Request : out[r].status = "settled" => pc[r] = "done"

LEMMA GrantsStep == TypeOK /\ GrantsInv /\ [Next]_vars => GrantsInv'
<1> SUFFICES ASSUME TypeOK, GrantsInv, [Next]_vars, NEW r \in Request, out'[r].status = "settled"
             PROVE  pc'[r] = "done"
  BY DEF GrantsInv
<1>1. Moves(r)
  BY MoveStep
<1>2. pc[r] = "done" => pc'[r] = "done"
  BY <1>1, MoveFacts
<1>3. "settled" \notin Early
  BY DEF Early
<1> QED
  BY <1>1, <1>2, <1>3 DEF GrantsInv, Moves, Untouched, Dies, Arrives, Refused, Joins, Starts, Works,
                          Returns, Hears, Keeps

LEMMA GrantsInvariant == Spec => []GrantsInv
<1>1. Init => GrantsInv
  BY DEF Init, GrantsInv, Rejected
<1>2. TypeOK /\ GrantsInv /\ [Next]_vars => GrantsInv'
  BY GrantsStep
<1> QED
  BY <1>1, <1>2, TypeCorrect, PTL DEF Spec

ChargesNow == [k \in Key |-> ChargesOf(k)]
GrantedNow == {<<r, KeyOf(r)>> : r \in {q \in Request : out[q].status = "settled"}}

\* A step that charges nobody and grants nothing leaves the ledger's books alone.
LEMMA BooksKept ==
  ASSUME TypeOK, PlacesInv, GrantsInv, \A q \in Request : Moves(q), charged' = charged,
         \A q \in Request : out'[q].status = "settled" <=> out[q].status = "settled"
  PROVE  UNCHANGED <<ChargesNow, GrantedNow>>
<1>1. \A q \in Request : q \in charged \/ out[q].status = "settled" => KeyOf(q)' = KeyOf(q)
  <2>1. \A q \in Request : q \in charged \/ out[q].status = "settled" => pc[q] # "idle"
    BY DEF PlacesInv, AfterCharge, GrantsInv
  <2> QED
    BY <2>1, MoveFacts DEF KeyOf
<1>2. \A k \in Key : {r \in charged : KeyOf(r) = k}' = {r \in charged : KeyOf(r) = k}
  BY <1>1 DEF TypeOK
<1>3. \A k \in Key : ChargesOf(k)' = ChargesOf(k)
  BY <1>2 DEF ChargesOf
<1>4. ChargesNow' = ChargesNow
  BY <1>3 DEF ChargesNow
<1>5. GrantedNow' = GrantedNow
  BY <1>1 DEF GrantedNow
<1> QED
  BY <1>4, <1>5

\* The step that charges is the ledger's Charge of the payment.
LEMMA LedgerCharge ==
  ASSUME TypeOK, NEW c, OneMemory(c), AccountInv(c), NEW r \in Request, Settle(r)
  PROVE  \/ Ledger!Charge(KeyOf(r))
         \/ UNCHANGED <<ChargesNow, lost, GrantedNow>>
<1> DEFINE k == KeyOf(r)
<1>1. pc[r] = "settle" /\ UNCHANGED <<req, out, lost>>
  BY DEF Settle
<1>2. k \in Key /\ r \notin charged
  BY <1>1, LiveData, PcNames DEF AccountInv, PlacesInv, AfterCharge
<1>3. \A q \in Request : KeyOf(q)' = KeyOf(q)
  BY <1>1 DEF KeyOf
<1>4. GrantedNow' = GrantedNow
  BY <1>1, <1>3 DEF GrantedNow
<1>5. CASE charged' = charged
  BY <1>1, <1>3, <1>4, <1>5 DEF ChargesNow, ChargesOf, KeyOf
<1>6. CASE charged' = charged \cup {r}
  <2> DEFINE mine(j) == {q \in charged : KeyOf(q) = j}
  <2>1. \A j \in Key : {q \in charged : KeyOf(q) = j}' = IF j = k THEN mine(j) \cup {r} ELSE mine(j)
    BY <1>3, <1>6 DEF TypeOK
  <2>2. mine(k) \cup {r} \in SUBSET Claimants(c, k) /\ Claimants(c, k) \in SUBSET Request
    BY <1>1 DEF Claimants, Claims, TypeOK
  <2>3. mine(k) \in SUBSET Request /\ r \notin mine(k)
    BY <1>2 DEF TypeOK
  <2>4. Cardinality(mine(k) \cup {r}) = Cardinality(mine(k)) + 1
    BY <2>3, FiniteAssumption, FS_Subset, FS_AddElement
  <2>5. Cardinality(mine(k)) + 1 <= Cardinality(Claimants(c, k))
    <3> HIDE DEF mine
    <3> QED
      BY <2>2, <2>4, Counted
  <2>6. Cardinality(Claimants(c, k)) <= lost[k] + (IF Blocked(c, k) THEN 1 ELSE 0)
    BY <1>2 DEF AccountInv, AccountOK
  <2>7. ChargesNow[k] = Cardinality(mine(k)) /\ ChargesNow[k] \in Nat /\ lost[k] \in Nat
    BY <1>2, <2>3, Counted DEF ChargesNow, ChargesOf, TypeOK
  <2>8. Cardinality(Claimants(c, k)) \in Nat
    BY <2>2, Counted
  <2>9. ChargesNow[k] <= lost[k]
    <3> HIDE DEF mine, k
    <3> QED
      BY <2>5, <2>6, <2>7, <2>8
  <2>10. \A j \in Key : ChargesNow'[j] = IF j = k THEN ChargesNow[j] + 1 ELSE ChargesNow[j]
    <3> SUFFICES ASSUME NEW j \in Key
                 PROVE  ChargesNow'[j] = IF j = k THEN ChargesNow[j] + 1 ELSE ChargesNow[j]
      OBVIOUS
    <3>1. ChargesNow'[j] = Cardinality({q \in charged : KeyOf(q) = j}')
      BY DEF ChargesNow, ChargesOf
    <3>2. ChargesNow[j] = Cardinality(mine(j))
      BY DEF ChargesNow, ChargesOf
    <3> QED
      BY <2>1, <2>4, <3>1, <3>2
  <2>11. ChargesNow' = [ChargesNow EXCEPT ![k] = @ + 1]
    BY <2>10 DEF ChargesNow
  <2> QED
    BY <1>1, <1>4, <2>9, <2>11 DEF Ledger!Charge, ChargesNow, GrantedNow
<1> QED
  BY <1>5, <1>6 DEF Settle

\* The step that ends a request is the ledger's Grant, if it grants access.
LEMMA LedgerGrant ==
  ASSUME TypeOK, TypeOK', PlacesInv, GrantsInv, ReceiptsInv', HonestInv',
         \A q \in Request : Moves(q),
         NEW r \in Request, OwnerReturns(r) \/ WaiterReturns(r), NEW k \in Key, k = KeyOf(r)
  PROVE  Ledger!Grant(r, k) \/ UNCHANGED <<ChargesNow, lost, GrantedNow>>
<1>1. UNCHANGED <<req, charged, lost>> /\ pc[r] \in {"resolved", "waiting"}
  BY DEF OwnerReturns, WaiterReturns
<1>2. \A q \in Request \ {r} : out'[q] = out[q]
  BY DEF OwnerReturns, WaiterReturns, Answer, TypeOK
<1>3. \A q \in Request : KeyOf(q)' = KeyOf(q)
  BY <1>1 DEF KeyOf
<1>4. out[r].status # "settled"
  BY <1>1 DEF GrantsInv
<1>5. ChargesNow' = ChargesNow
  BY <1>1, <1>3 DEF ChargesNow, ChargesOf, KeyOf
<1>6. CASE out'[r].status # "settled"
  <2>1. GrantedNow' = GrantedNow
    BY <1>2, <1>3, <1>4, <1>6 DEF GrantedNow
  <2> QED
    BY <1>1, <1>5, <2>1
<1>7. CASE out'[r].status = "settled"
  <2> DEFINE x == out'[r].receipt
  <2>1. GrantedNow' = GrantedNow \cup {<<r, k>>}
    BY <1>2, <1>3, <1>4, <1>7 DEF GrantedNow
  <2>2. x \in Receipt /\ <<x.model, x.pay>> = k /\ x.by \in charged
    BY <1>1, <1>3, <1>7 DEF ReceiptsInv, OutOK, IsFor
  <2>3. KeyOf(x.by) = k
    BY <1>1, <1>7, <2>2 DEF HonestInv, IsHonest, KeyOf
  <2>5. {q \in charged : KeyOf(q) = k} # {} /\ {q \in charged : KeyOf(q) = k} \in SUBSET Request
    BY <2>2, <2>3 DEF TypeOK
  <2>6. ChargesNow[k] > 0
    <3> DEFINE mine == {q \in charged : KeyOf(q) = k}
    <3>1. ChargesNow[k] = Cardinality(mine)
      BY DEF ChargesNow, ChargesOf
    <3>2. IsFiniteSet(mine) /\ mine # {}
      BY <2>5, FiniteAssumption, FS_Subset
    <3> HIDE DEF mine
    <3>3. Cardinality(mine) \in Nat /\ Cardinality(mine) # 0
      BY <3>2, FS_CardinalityType, FS_EmptySet
    <3> QED
      BY <3>1, <3>3
  <2> QED
    BY <1>1, <1>5, <2>1, <2>6 DEF Ledger!Grant, ChargesNow, GrantedNow
<1> QED
  BY <1>6, <1>7

LEMMA LedgerStep ==
  ASSUME NEW c, OneMemory(c), TypeOK, TypeOK', AttemptsRegistered, ReceiptsInv, ReceiptsInv',
         HonestInv', LockInv, AccountInv(c), GrantsInv, [Next]_vars
  PROVE  [Ledger!Next]_(Ledger!vars)
<1> DEFINE kept == UNCHANGED <<ChargesNow, GrantedNow>>
<1>1. \A q \in Request : Moves(q)
  BY MoveStep
<1>2. PlacesInv /\ (UNCHANGED <<ChargesNow, lost, GrantedNow>> => UNCHANGED Ledger!vars)
  BY DEF AccountInv, Ledger!vars, ChargesNow, GrantedNow
<1>3. \A k \in Key : lost'[k] >= lost[k]
  BY BalanceStep DEF Balanced
<1>4. kept => Ledger!Forget
  BY <1>3 DEF Ledger!Forget, ChargesNow, GrantedNow
<1>5. ASSUME NEW r \in Request, Settle(r) PROVE [Ledger!Next]_(Ledger!vars)
  <2>1. KeyOf(r) \in Key
    BY <1>5, LiveData, PcNames DEF Settle
  <2> QED
    BY <1>2, <1>5, <2>1, LedgerCharge DEF Ledger!Next
<1>6. ASSUME NEW r \in Request, OwnerReturns(r) \/ WaiterReturns(r) PROVE [Ledger!Next]_(Ledger!vars)
  <2>1. KeyOf(r) \in Key
    BY <1>6, LiveData, PcNames DEF OwnerReturns, WaiterReturns
  <2>2. PICK k \in Key : k = KeyOf(r)
    BY <2>1
  <2>3. Ledger!Grant(r, k) \/ UNCHANGED <<ChargesNow, lost, GrantedNow>>
    BY <1>1, <1>2, <1>6, <2>2, LedgerGrant
  <2> QED
    BY <1>2, <2>3 DEF Ledger!Next
<1>7. ASSUME NEW r \in Request, Arrive(r) \/ VerifyFails(r) PROVE kept
  <2>1. charged' = charged /\ pc[r] \in {"idle", "verify"}
    BY <1>7 DEF Arrive, VerifyFails
  <2>2. \A q \in Request \ {r} : out'[q] = out[q]
    BY <1>7, ArriveCases DEF VerifyFails, Answer, TypeOK
  <2>3. out[r].status # "settled" /\ out'[r].status # "settled"
    BY <1>1, <2>1 DEF GrantsInv, Moves, Untouched, Dies, Arrives, Refused, Joins, Starts, Works,
                      Returns, Hears, Early, Attempting, HoldsLock
  <2> QED
    BY <1>1, <1>2, <2>1, <2>2, <2>3, BooksKept
<1>8. ASSUME UNCHANGED <<charged, out>> PROVE kept
  BY <1>1, <1>2, <1>8, BooksKept
<1>9. \/ \E r \in Request : Settle(r) \/ OwnerReturns(r) \/ WaiterReturns(r) \/ Arrive(r) \/ VerifyFails(r)
      \/ UNCHANGED <<charged, out>>
  BY DEF Next, Step, Join, Start, FirstGet, Acquire, SecondGet, SettleReturns, Store, Release, Unwind,
         EntryExpires, LockExpires, LockOverrun, Crash, AllAnswered, vars, requestVars
<1> QED
  BY <1>4, <1>5, <1>6, <1>7, <1>8, <1>9 DEF Ledger!Next

\* The gate keeps the ledger's promise: behind caches, locks and in-flight maps
\* it charges a payment anew only where memory was lost, and grants access only
\* for what has been charged.
THEOREM LedgerImplemented == ASSUME NEW c, OneMemory(c) PROVE Spec => ImplementsLedger
<1>1. Init => Ledger!Init
  <2> SUFFICES ASSUME Init PROVE Ledger!Init
    OBVIOUS
  <2>1. \A k \in Key : ChargesOf(k) = 0
    BY FS_EmptySet DEF Init, ChargesOf
  <2>2. \A q \in Request : out[q].status # "settled"
    BY DEF Init, Rejected
  <2> QED
    BY <2>1, <2>2 DEF Init, Ledger!Init
<1>2. TypeOK /\ TypeOK' /\ AttemptsRegistered /\ ReceiptsInv /\ ReceiptsInv' /\ HonestInv'
        /\ LockInv /\ AccountInv(c) /\ GrantsInv /\ [Next]_vars => [Ledger!Next]_(Ledger!vars)
  BY LedgerStep
<1> QED
  BY <1>1, <1>2, TypeCorrect, AttemptInv, ReceiptInvariant, HonestInvariant, LockInvariant,
     AccountInvariant, GrantsInvariant, PTL DEF Spec, ImplementsLedger, Ledger!Spec

=============================================================================
