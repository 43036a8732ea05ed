--------------------------- MODULE SettlementGate ---------------------------
(***************************************************************************)
(* The payment gate of @tollway/server (gate.ts) over its settlement cache *)
(* (cache.ts).  Requests are coroutines: pc[r] names the await request r   *)
(* is suspended at, and one action runs it from that await to the next.    *)
(* A gate is one createPaywall instance, with its own inFlight map; gates  *)
(* live in processes and may share a cache.  The facilitator, the clock    *)
(* that ends TTLs and process crashes are the environment.                 *)
(*                                                                         *)
(* What the environment does to break the gate's memory is counted: every  *)
(* failure takes one unit of MaxFaults, and lost[k] counts the events      *)
(* after which nobody may remember that payment k was (or is being)        *)
(* settled.                                                                *)
(***************************************************************************)
EXTENDS Naturals, FiniteSets, ModelRouter

CONSTANTS
  Request, Gate, Process, Cache, Payment, Offer,
  Redis,        \* the caches made by createRedisSettlementCache
  ProcessOf,    \* the process a gate runs in
  CacheOf,      \* deps.cache of a gate, or NoCache
  OffersOf,     \* the offers a gate can make, as request.url varies
  RoutesOf,     \* the decisions its router, the default one or not, can take
  ChargeGates,  \* the gates with deps.mppChargeHandler
  HookThrows,   \* may deps.onCacheError throw?
  MaxFaults,    \* bound: failures in one behaviour
  NoRequest, NoReceipt, NoCache, NoPayment, NoData

SettledModel == {"x402", "mpp-charge"}

\* `${model}:${nonce}`; the nonce is a digest of the payment header.
Key == SettledModel \X Payment

\* The request, its gate's offer and the routing decision.
RequestData == [gate : Gate, pay : Payment, offer : Offer, model : SettledModel]

\* by, the request that settled payment pay, stands for the transaction hash.
Receipt == [by : Request, pay : Payment, model : SettledModel, offer : Offer]

ASSUME ConfigAssumption ==
  /\ Redis \subseteq Cache
  /\ ProcessOf \in [Gate -> Process]
  /\ CacheOf \in [Gate -> Cache \cup {NoCache}]
  /\ OffersOf \in [Gate -> SUBSET Offer]
  /\ RoutesOf \in [Gate -> SUBSET Route]
  /\ ChargeGates \subseteq Gate
  /\ HookThrows \in BOOLEAN
  /\ MaxFaults \in Nat

ASSUME NoneAssumption ==
  /\ NoRequest \notin Request
  /\ NoReceipt \notin Receipt
  /\ NoCache \notin Cache
  /\ NoPayment \notin Payment
  /\ NoData \notin RequestData

\* Finitely many requests and caches, so that what a crash loses is a number.
ASSUME FiniteAssumption == IsFiniteSet(Request) /\ IsFiniteSet(Cache)

\* An in-memory cache lives in one process.
ASSUME MemoryAssumption ==
  \A g, h \in Gate : CacheOf[g] = CacheOf[h] /\ CacheOf[g] \in Cache \ Redis
                       => ProcessOf[g] = ProcessOf[h]

VARIABLES
  pc,        \* where each request is suspended
  req,       \* its RequestData, once it goes on to verification
  owner,     \* the request whose promise a waiter awaits
  att,       \* the result of the attempt a request started
  out,       \* its GateOutcome
  inFlight,  \* context.inFlight of each gate: key -> the owning request
  entry,     \* cached receipts
  lock,      \* settlement locks; the holder is a ghost, the code stores "1"
  charged,   \* ghost: requests whose /settle moved money
  lost,      \* ghost: events that destroyed the memory of a payment
  faults     \* failures so far

requestVars == <<pc, req, owner, att, out, inFlight>>
cacheVars == <<entry, lock>>
vars == <<pc, req, owner, att, out, inFlight, entry, lock, charged, lost, faults>>

-----------------------------------------------------------------------------
(* Shapes and helpers. *)

\* The awaits of settleOnce and settleAndRecord, then of its owner.
HoldsLock == {"get2", "settle", "charged", "store", "release", "unwind"}
Attempting == {"get1", "acquire", "resolved"} \cup HoldsLock
Live == {"verify", "waiting"} \cup Attempting
Pc == {"idle", "done", "crashed"} \cup Live

ResultKind == {"none", "receipt", "declined", "busy", "threw"}
Result == [kind : ResultKind, receipt : Receipt \cup {NoReceipt},
           replayed : BOOLEAN, cacheError : BOOLEAN]
OutcomeStatus == {"none", "challenge", "invalid", "not-configured",
                  "not-implemented", "settled", "mismatch",
                  "declined", "busy", "threw"}
Outcome == [status : OutcomeStatus, receipt : Receipt \cup {NoReceipt},
            replayed : BOOLEAN, cacheError : BOOLEAN]

Bare(kind) == [kind |-> kind, receipt |-> NoReceipt,
               replayed |-> FALSE, cacheError |-> FALSE]
Ok(receipt, replayed) == [kind |-> "receipt", receipt |-> receipt,
                          replayed |-> replayed, cacheError |-> FALSE]
Rejected(status) == [status |-> status, receipt |-> NoReceipt,
                     replayed |-> FALSE, cacheError |-> FALSE]
Granted(receipt, replayed, cacheError) ==
  [status |-> "settled", receipt |-> receipt,
   replayed |-> replayed, cacheError |-> cacheError]

\* Mutant: the nonce alone is the key.
KeyWithoutModel(r) == <<"x402", req[r].pay>>
KeyOf(r) == <<req[r].model, req[r].pay>>
CacheFor(r) == CacheOf[req[r].gate]
Locking(r) == CacheFor(r) \in Redis
Pending(r) == inFlight[req[r].gate][KeyOf(r)]

\* A corrupt entry does not parse and is a miss, as if it had expired.
Cached(r) == IF CacheFor(r) = NoCache THEN NoReceipt ELSE entry[CacheFor(r)][KeyOf(r)]
Put(r, receipt) == entry' = [entry EXCEPT ![CacheFor(r)][KeyOf(r)] = receipt]
LockOf(r) == lock[CacheFor(r)][KeyOf(r)]
TakeLock(r) == lock' = [lock EXCEPT ![CacheFor(r)][KeyOf(r)] = r]

Go(r, to) == pc' = [pc EXCEPT ![r] = to]
AttemptIs(r, result) == att' = [att EXCEPT ![r] = result]
Answer(r, outcome) == Go(r, "done") /\ out' = [out EXCEPT ![r] = outcome]
Resolve(r, result) == Go(r, "resolved") /\ AttemptIs(r, result)

\* Where an attempt goes when settleAndRecord returns, and when it throws.
Released(r) == IF Locking(r) THEN "release" ELSE "resolved"
Unwound(r) == IF Locking(r) THEN "unwind" ELSE "resolved"

Fault == faults < MaxFaults /\ faults' = faults + 1
NoFault == UNCHANGED faults
Lose(k) == lost' = [lost EXCEPT ![k] = @ + 1]

\* DEL: whoever holds the lock loses it.  A request whose own lock ran out
\* can so remove the lock of another that is at work.
DropLock(r) ==
  /\ lock' = [lock EXCEPT ![CacheFor(r)][KeyOf(r)] = NoRequest]
  /\ IF LockOf(r) \in {r, NoRequest} THEN UNCHANGED lost ELSE Lose(KeyOf(r))
KeepLock == UNCHANGED <<lock, lost>>

-----------------------------------------------------------------------------
(* gate(): the challenge, the route, and the refusals that settle nothing. *)

Arrive(r) ==
  /\ pc[r] = "idle"
  /\ \E g \in Gate, p \in Payment \cup {NoPayment} : \E o \in OffersOf[g], m \in RoutesOf[g] :
       \/ p = NoPayment /\ Answer(r, Rejected("challenge")) /\ UNCHANGED req
       \/ /\ p # NoPayment
          /\ m = "no-viable-model"
          /\ Answer(r, Rejected("threw")) /\ UNCHANGED req
       \/ /\ p # NoPayment
          /\ m = "mpp-channel"
          /\ Answer(r, Rejected("not-implemented")) /\ UNCHANGED req
       \/ /\ p # NoPayment
          /\ m = "mpp-charge"
          /\ g \notin ChargeGates
          /\ Answer(r, Rejected("not-configured")) /\ UNCHANGED req
       \/ /\ p # NoPayment
          /\ m \in (IF g \in ChargeGates THEN SettledModel ELSE {"x402"})
          /\ req' = [req EXCEPT ![r] = [gate |-> g, pay |-> p, offer |-> o, model |-> m]]
          /\ Go(r, "verify")
          /\ UNCHANGED out
  /\ UNCHANGED <<owner, att, inFlight, cacheVars, charged, lost, faults>>

(* settleWithHandler().  From verify's answer to the in-flight map there is *)
(* no await: a valid request joins or starts in the same step.              *)

VerifyFails(r) ==
  /\ pc[r] = "verify"
  /\ \/ NoFault /\ Answer(r, Rejected("invalid"))
     \/ Fault /\ Answer(r, Rejected("threw"))
  /\ UNCHANGED <<req, owner, att, inFlight, cacheVars, charged, lost>>

\* Mutant: awaits whatever the map holds, also nothing.
JoinAlways(r) ==
  /\ pc[r] = "verify"
  /\ owner' = [owner EXCEPT ![r] = Pending(r)]
  /\ Go(r, "waiting")
  /\ UNCHANGED <<req, att, out, inFlight, cacheVars, charged, lost, faults>>

Join(r) ==
  /\ pc[r] = "verify"
  /\ Pending(r) # NoRequest
  /\ owner' = [owner EXCEPT ![r] = Pending(r)]
  /\ Go(r, "waiting")
  /\ UNCHANGED <<req, att, out, inFlight, cacheVars, charged, lost, faults>>

\* Mutant: the in-flight map is not consulted.
StartAlways(r) ==
  /\ pc[r] = "verify"
  /\ inFlight' = [inFlight EXCEPT ![req[r].gate][KeyOf(r)] = r]
  /\ Go(r, "get1")
  /\ UNCHANGED <<req, owner, att, out, cacheVars, charged, lost, faults>>

Start(r) ==
  /\ pc[r] = "verify"
  /\ Pending(r) = NoRequest
  /\ inFlight' = [inFlight EXCEPT ![req[r].gate][KeyOf(r)] = r]
  /\ Go(r, "get1")
  /\ UNCHANGED <<req, owner, att, out, cacheVars, charged, lost, faults>>

-----------------------------------------------------------------------------
(* settleOnce(). *)

\* Mutant: a hit is reported as a fresh settlement.
FirstGetHitIsFresh(r) ==
  /\ pc[r] = "get1"
  /\ \/ Cached(r) # NoReceipt /\ Resolve(r, Ok(Cached(r), FALSE)) /\ NoFault
     \/ /\ Cached(r) = NoReceipt
        /\ Go(r, IF Locking(r) THEN "acquire" ELSE "settle")
        /\ UNCHANGED att /\ NoFault
  /\ UNCHANGED <<req, owner, out, inFlight, cacheVars, charged, lost>>

\* A Redis get may throw; nothing is locked yet.
FirstGet(r) ==
  /\ pc[r] = "get1"
  /\ \/ Cached(r) # NoReceipt /\ Resolve(r, Ok(Cached(r), TRUE)) /\ NoFault
     \/ /\ Cached(r) = NoReceipt
        /\ Go(r, IF Locking(r) THEN "acquire" ELSE "settle")
        /\ UNCHANGED att /\ NoFault
     \/ Locking(r) /\ Fault /\ Resolve(r, Bare("threw"))
  /\ UNCHANGED <<req, owner, out, inFlight, cacheVars, charged, lost>>

\* Mutant: SET without NX, which always succeeds.
AcquireAlways(r) ==
  /\ pc[r] = "acquire"
  /\ TakeLock(r) /\ Go(r, "get2") /\ UNCHANGED att /\ NoFault
  /\ UNCHANGED <<req, owner, out, inFlight, entry, charged, lost>>

\* SET NX PX.  When it throws, the lock may have been set all the same.
Acquire(r) ==
  /\ pc[r] = "acquire"
  /\ \/ LockOf(r) = NoRequest /\ TakeLock(r) /\ Go(r, "get2") /\ UNCHANGED att /\ NoFault
     \/ LockOf(r) # NoRequest /\ Resolve(r, Bare("busy")) /\ UNCHANGED lock /\ NoFault
     \/ Fault /\ Resolve(r, Bare("threw")) /\ UNCHANGED lock
     \/ LockOf(r) = NoRequest /\ TakeLock(r) /\ Fault /\ Resolve(r, Bare("threw"))
  /\ UNCHANGED <<req, owner, out, inFlight, entry, charged, lost>>

\* Mutant: the second look under the lock is left out.
SecondGetSkipped(r) ==
  /\ pc[r] = "get2"
  /\ Go(r, "settle") /\ UNCHANGED att /\ NoFault
  /\ UNCHANGED <<req, owner, out, inFlight, cacheVars, charged, lost>>

\* Mutant: a hit under the lock returns early and forgets the lock.
SecondGetKeepsLock(r) ==
  /\ pc[r] = "get2"
  /\ \/ Cached(r) # NoReceipt /\ Resolve(r, Ok(Cached(r), TRUE)) /\ NoFault
     \/ Cached(r) = NoReceipt /\ Go(r, "settle") /\ UNCHANGED att /\ NoFault
  /\ UNCHANGED <<req, owner, out, inFlight, cacheVars, charged, lost>>

SecondGet(r) ==
  /\ pc[r] = "get2"
  /\ \/ /\ Cached(r) # NoReceipt
        /\ AttemptIs(r, Ok(Cached(r), TRUE)) /\ Go(r, "release") /\ NoFault
     \/ Cached(r) = NoReceipt /\ Go(r, "settle") /\ UNCHANGED att /\ NoFault
     \/ Fault /\ AttemptIs(r, Bare("threw")) /\ Go(r, "unwind")
  /\ UNCHANGED <<req, owner, out, inFlight, cacheVars, charged, lost>>

\* What a failed release makes of the attempt: it throws when this request
\* settled nothing; otherwise the receipt goes out with cacheError, unless the
\* onCacheError hook throws.
AfterFailedRelease(result) ==
  IF result.kind # "receipt" \/ result.replayed
  THEN {Bare("threw")}
  ELSE {[result EXCEPT !.cacheError = TRUE]} \cup (IF HookThrows THEN {Bare("threw")} ELSE {})

\* A failed DEL may have deleted the lock.
Release(r) ==
  /\ pc[r] = "release"
  /\ \/ DropLock(r) /\ Resolve(r, att[r]) /\ NoFault
     \/ /\ DropLock(r) \/ KeepLock
        /\ Fault
        /\ \E result \in AfterFailedRelease(att[r]) : Resolve(r, result)
  /\ UNCHANGED <<req, owner, out, inFlight, entry, charged>>

\* releaseOrThrow(): the attempt throws whether or not the release works.
Unwind(r) ==
  /\ pc[r] = "unwind"
  /\ Go(r, "resolved")
  /\ \/ DropLock(r) /\ NoFault
     \/ KeepLock /\ Fault
  /\ UNCHANGED <<req, owner, att, out, inFlight, entry, charged>>

-----------------------------------------------------------------------------
(* settleAndRecord(). *)

\* The facilitator handles /settle: it charges, declines, or is not reached.
Settle(r) ==
  /\ pc[r] = "settle"
  /\ \/ charged' = charged \cup {r} /\ Go(r, "charged") /\ UNCHANGED att /\ NoFault
     \/ AttemptIs(r, Bare("declined")) /\ Go(r, Released(r)) /\ UNCHANGED charged /\ NoFault
     \/ AttemptIs(r, Bare("threw")) /\ Go(r, Unwound(r)) /\ UNCHANGED charged /\ Fault
  /\ UNCHANGED <<req, owner, out, inFlight, cacheVars, lost>>

\* The receipt this attempt builds from the payment and its own offer.
NewReceipt(r) == [by |-> r, pay |-> req[r].pay, model |-> req[r].model, offer |-> req[r].offer]

\* The answer arrives and the receipt is signed; a lost answer or a failing
\* signer throws although the payment has been charged.
SettleReturns(r) ==
  /\ pc[r] = "charged"
  /\ \/ /\ AttemptIs(r, Ok(NewReceipt(r), FALSE))
        /\ Go(r, IF CacheFor(r) = NoCache THEN "resolved" ELSE "store")
        /\ UNCHANGED lost /\ NoFault
     \/ AttemptIs(r, Bare("threw")) /\ Go(r, Unwound(r)) /\ Lose(KeyOf(r)) /\ Fault
  /\ UNCHANGED <<req, owner, out, inFlight, cacheVars, charged>>

\* Mutant: a failed cache write throws, and the payer loses the receipt.
StoreThrows(r) ==
  /\ pc[r] = "store"
  /\ \/ /\ Put(r, att[r].receipt) /\ Go(r, Released(r))
        /\ UNCHANGED <<att, lost>> /\ NoFault
     \/ /\ Locking(r) /\ Fault /\ Lose(KeyOf(r)) /\ UNCHANGED entry
        /\ AttemptIs(r, Bare("threw")) /\ Go(r, "unwind")
  /\ UNCHANGED <<req, owner, out, inFlight, lock, charged>>

\* Mutant: the receipt is not written back.
StoreNothing(r) ==
  /\ pc[r] = "store"
  /\ Go(r, Released(r)) /\ NoFault
  /\ UNCHANGED <<req, owner, att, out, inFlight, cacheVars, charged, lost>>

\* A Redis write may fail, having taken effect or not; the hook is told, and
\* the receipt goes out with cacheError unless the hook throws.
Store(r) ==
  /\ pc[r] = "store"
  /\ \/ /\ Put(r, att[r].receipt) /\ UNCHANGED <<att, lost>> /\ NoFault
        /\ Go(r, Released(r))
     \/ /\ Locking(r) /\ Fault
        /\ \/ Put(r, att[r].receipt) /\ UNCHANGED lost
           \/ UNCHANGED entry /\ Lose(KeyOf(r))
        /\ \/ AttemptIs(r, [att[r] EXCEPT !.cacheError = TRUE]) /\ Go(r, "release")
           \/ HookThrows /\ AttemptIs(r, Bare("threw")) /\ Go(r, "unwind")
  /\ UNCHANGED <<req, owner, out, inFlight, lock, charged>>

-----------------------------------------------------------------------------
(* The continuations of settleWithHandler(). *)

\* Mutant: the receipt is returned whatever offer it was issued for.
ToOutcomeUnbound(r, result, waited) ==
  IF result.kind # "receipt" THEN Rejected(result.kind)
  ELSE Granted(result.receipt, waited \/ result.replayed, ~waited /\ result.cacheError)

\* offerBinding() and receiptBinding() agree: model, network, resource, amount,
\* asset and payee.
BoundTo(receipt, r) == receipt.model = req[r].model /\ receipt.offer = req[r].offer

ToOutcome(r, result, waited) ==
  IF result.kind # "receipt" THEN Rejected(result.kind)
  ELSE IF ~BoundTo(result.receipt, r) THEN Rejected("mismatch")
  ELSE Granted(result.receipt, waited \/ result.replayed, ~waited /\ result.cacheError)

OwnerReturns(r) ==
  /\ pc[r] = "resolved"
  /\ Answer(r, ToOutcome(r, att[r], FALSE))
  /\ inFlight' = [inFlight EXCEPT ![req[r].gate][KeyOf(r)] = NoRequest]
  /\ UNCHANGED <<req, owner, att, cacheVars, charged, lost, faults>>

\* Mutant: a waiter is answered as if it were the owner.
WaiterIsOwner(r) ==
  /\ pc[r] = "waiting"
  /\ pc[owner[r]] \in {"resolved", "done"}
  /\ Answer(r, ToOutcome(r, att[owner[r]], FALSE))
  /\ UNCHANGED <<req, owner, att, inFlight, cacheVars, charged, lost, faults>>

\* Mutant: a rejected promise never reaches the requests awaiting it.
WaiterMissesThrow(r) ==
  /\ pc[r] = "waiting"
  /\ pc[owner[r]] \in {"resolved", "done"} /\ att[owner[r]].kind # "threw"
  /\ Answer(r, ToOutcome(r, att[owner[r]], TRUE))
  /\ UNCHANGED <<req, owner, att, inFlight, cacheVars, charged, lost, faults>>

WaiterReturns(r) ==
  /\ pc[r] = "waiting"
  /\ pc[owner[r]] \in {"resolved", "done"}
  /\ Answer(r, ToOutcome(r, att[owner[r]], TRUE))
  /\ UNCHANGED <<req, owner, att, inFlight, cacheVars, charged, lost, faults>>

-----------------------------------------------------------------------------
(* The environment: TTLs and crashes. *)

\* The entry's TTL ends (or something overwrites it with junk).
EntryExpires(c, k) ==
  /\ entry[c][k] # NoReceipt
  /\ Fault /\ Lose(k)
  /\ entry' = [entry EXCEPT ![c][k] = NoReceipt]
  /\ UNCHANGED <<requestVars, lock, charged>>

LockIsLive(c, k) == lock[c][k] \in Request /\ pc[lock[c][k]] \in HoldsLock

\* Mutant: SET NX without PX, so an abandoned lock stays.
LockNeverExpires(c, k) == FALSE /\ UNCHANGED vars

\* SETTLEMENT_LOCK_TTL_MS passes, with the holder dead or gone...
LockExpires(c, k) ==
  /\ lock[c][k] # NoRequest /\ ~LockIsLive(c, k)
  /\ lock' = [lock EXCEPT ![c][k] = NoRequest]
  /\ UNCHANGED <<requestVars, entry, charged, lost, faults>>

\* ... or still at work: no await of the attempt has a shorter time limit.
LockOverrun(c, k) ==
  /\ LockIsLive(c, k)
  /\ Fault /\ Lose(k)
  /\ lock' = [lock EXCEPT ![c][k] = NoRequest]
  /\ UNCHANGED <<requestVars, entry, charged>>

GatesOf(p) == {g \in Gate : ProcessOf[g] = p}
MemoryOf(p) == {c \in Cache \ Redis : \E g \in GatesOf(p) : CacheOf[g] = c}

\* The process dies and comes back with empty maps and memory caches.
Crash(p) ==
  LET dying == {r \in Request : pc[r] \in Live /\ req[r].gate \in GatesOf(p)}
      unwritten(k) == {r \in dying : pc[r] \in {"charged", "store"} /\ KeyOf(r) = k}
      forgotten(k) == {c \in MemoryOf(p) : entry[c][k] # NoReceipt}
  IN /\ dying # {}
     /\ Fault
     /\ pc' = [r \in Request |-> IF r \in dying THEN "crashed" ELSE pc[r]]
     /\ inFlight' = [g \in Gate |-> IF g \in GatesOf(p)
                                    THEN [k \in Key |-> NoRequest] ELSE inFlight[g]]
     /\ entry' = [c \in Cache |-> IF c \in MemoryOf(p)
                                  THEN [k \in Key |-> NoReceipt] ELSE entry[c]]
     /\ lost' = [k \in Key |-> lost[k] + Cardinality(unwritten(k))
                                       + Cardinality(forgotten(k))]
     /\ UNCHANGED <<req, owner, att, out, lock, charged>>

-----------------------------------------------------------------------------
Init ==
  /\ pc = [r \in Request |-> "idle"]
  /\ req = [r \in Request |-> NoData]
  /\ owner = [r \in Request |-> NoRequest]
  /\ att = [r \in Request |-> Bare("none")]
  /\ out = [r \in Request |-> Rejected("none")]
  /\ inFlight = [g \in Gate |-> [k \in Key |-> NoRequest]]
  /\ entry = [c \in Cache |-> [k \in Key |-> NoReceipt]]
  /\ lock = [c \in Cache |-> [k \in Key |-> NoRequest]]
  /\ charged = {}
  /\ lost = [k \in Key |-> 0]
  /\ faults = 0

\* What the event loop runs once the promise a request awaits has settled.
Step(r) ==
  \/ VerifyFails(r) \/ Join(r) \/ Start(r)
  \/ FirstGet(r) \/ Acquire(r) \/ SecondGet(r)
  \/ Settle(r) \/ SettleReturns(r) \/ Store(r)
  \/ Release(r) \/ Unwind(r)
  \/ OwnerReturns(r) \/ WaiterReturns(r)

\* Every request has its answer: the model's requests run out, the server goes on.
AllAnswered ==
  /\ \A r \in Request : pc[r] \in {"done", "crashed"}
  /\ UNCHANGED vars

Next ==
  \/ \E r \in Request : Arrive(r) \/ Step(r)
  \/ \E c \in Cache, k \in Key : EntryExpires(c, k) \/ LockExpires(c, k) \/ LockOverrun(c, k)
  \/ \E p \in Process : Crash(p)
  \/ AllAnswered

Spec == Init /\ [][Next]_vars

\* Every promise a request awaits settles in the end, and Redis applies TTLs.
Fairness ==
  /\ \A r \in Request : WF_vars(Step(r))
  /\ \A c \in Cache, k \in Key : WF_vars(LockExpires(c, k))

FairSpec == Spec /\ Fairness

-----------------------------------------------------------------------------
(* Properties. *)

\* Every variable has its shape; a request past routing has its data.
TypeOK ==
  /\ pc \in [Request -> Pc]
  /\ req \in [Request -> RequestData \cup {NoData}]
  /\ owner \in [Request -> Request \cup {NoRequest}]
  /\ att \in [Request -> Result]
  /\ out \in [Request -> Outcome]
  /\ inFlight \in [Gate -> [Key -> Request \cup {NoRequest}]]
  /\ entry \in [Cache -> [Key -> Receipt \cup {NoReceipt}]]
  /\ lock \in [Cache -> [Key -> Request \cup {NoRequest}]]
  /\ charged \subseteq Request
  /\ lost \in [Key -> Nat]
  /\ faults \in Nat
  /\ \A r \in Request : pc[r] \in Live => req[r] \in RequestData
  /\ \A r \in Request : pc[r] = "waiting" => owner[r] \in Request

\* A gate never runs two settlement attempts for one payment at a time: the
\* in-flight map is what stops two requests of one process from both settling.
OneAttemptPerGate ==
  \A r, s \in Request :
    /\ pc[r] \in Attempting /\ pc[s] \in Attempting
    /\ req[r].gate = req[s].gate /\ KeyOf(r) = KeyOf(s)
    => r = s

\* A served receipt is for the payment presented and the offer being served,
\* however it was found (fresh, cached, or handed over by another request),
\* and stands for money that moved.
ServedReceiptIsBound ==
  \A r \in Request : out[r].status = "settled" =>
    /\ out[r].receipt # NoReceipt
    /\ out[r].receipt.pay = req[r].pay
    /\ out[r].receipt.model = req[r].model
    /\ out[r].receipt.offer = req[r].offer
    /\ out[r].receipt.by \in charged

\* A payer is told that the payment was settled for a different offer only if
\* that very payment was: the model in the key keeps payments apart that
\* happen to derive one nonce.
MismatchIsReal ==
  \A r \in Request : out[r].status = "mismatch" =>
    \E s \in charged : /\ req[s].pay = req[r].pay /\ req[s].model = req[r].model
                       /\ req[s].offer # req[r].offer

\* Two requests never both present one charge as a settlement of their own:
\* a receipt that is not marked replayed was settled by this very request.
FreshReceiptIsOwn ==
  \A r \in Request : out[r].status = "settled" /\ ~out[r].replayed
                       => out[r].receipt.by = r

ChargesOf(k) == Cardinality({r \in charged : KeyOf(r) = k})

\* Duplicate protection: a payment is charged once, and once more at most for
\* every event that destroyed the memory of it (an entry or a lock that ran out
\* of time, a lock deleted by another holder, a failed write, a lost answer, a
\* crash).  Holds for
\* gates that share one locking cache, and for one gate over its own cache.
ChargesJustified == \A k \in Key : ChargesOf(k) <= 1 + lost[k]

\* A lock that stays behind after its attempt is over was reported: the
\* attempt threw, or its receipt carries cacheError.
NoSilentLockLeak ==
  \A c \in Cache, k \in Key :
    LET h == lock[c][k]
    IN h # NoRequest /\ pc[h] \in {"resolved", "done"}
         => att[h].kind = "threw" \/ att[h].cacheError

\* A request that joined an attempt gets what its owner got: the receipt if it
\* is for the same offer, marked as a replay, and the same rejection if not.
WaiterAgreesWithOwner ==
  \A r \in Request :
    LET o == owner[r]
    IN pc[r] = "done" /\ o # NoRequest /\ pc[o] = "done" =>
         /\ out[o].status = "settled" /\ req[r].offer = req[o].offer
              => /\ out[r].status = "settled" /\ out[r].replayed
                 /\ out[r].receipt = out[o].receipt
         /\ out[o].status \notin {"settled", "mismatch"} => out[r].status = out[o].status
         /\ ~out[r].cacheError

\* What the gate promises of money, as a ledger: see ChargeLedger.
Ledger == INSTANCE ChargeLedger WITH
            charges <- [k \in Key |-> ChargesOf(k)],
            granted <- {<<r, KeyOf(r)>> : r \in {q \in Request : out[q].status = "settled"}}
ImplementsLedger == Ledger!Spec

\* gate.ts:341 "The payment has settled, so a failed write must not cost the
\* payer the receipt": once signed, it is returned whatever the cache does
\* afterwards, unless the process dies.  Holds if onCacheError never throws.
SignedReceiptReachesPayer ==
  \A r \in Request :
    pc[r] = "store" ~> pc[r] = "crashed" \/ (out[r].status = "settled" /\ out[r].receipt.by = r)

\* No payment stays locked for ever, whoever died holding the lock.
LockIsFreed ==
  \A c \in Cache, k \in Key : lock[c][k] # NoRequest ~> lock[c][k] = NoRequest

=============================================================================
