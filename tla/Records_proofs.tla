---------------------------- MODULE Records_proofs ----------------------------
(***************************************************************************)
(* Theorems about what is kept and shown of payments: the receipts page    *)
(* (DashboardReceipts), the receipts and their keys (ReceiptArchive) and   *)
(* the metrics (SpendMetrics).                                             *)
(***************************************************************************)
EXTENDS ReceiptArchive, SpendMetrics, DashboardReceipts, Sums, SequenceTheorems

-----------------------------------------------------------------------------
(* The receipts page. *)

\* The run of the effect that the open row waits for.
LastRun == Len(runs)
RunType == [row : Row, snapshot : Mount, settled : BOOLEAN]

\* A fetch knows a snapshot once it has built or found one, and a snapshot that
\* is known anywhere is the one its own fetch built.
FetchesOk ==
  /\ fetch \in [Mount -> [status : FetchStatus, snapshot : Mount \cup {NoSnapshot}]]
  /\ cached \in Mount \cup {NoSnapshot}
  /\ cached # NoSnapshot => fetch[cached].snapshot = cached
  /\ \A m \in Mount :
       /\ fetch[m].status \in {"none", "building", "rejected"} => fetch[m].snapshot = NoSnapshot
       /\ fetch[m].status = "built" => fetch[m].snapshot # NoSnapshot
       /\ fetch[m].snapshot # NoSnapshot => fetch[fetch[m].snapshot].snapshot = fetch[m].snapshot

\* The page on screen is loading until its fetch ends.
PageOk ==
  /\ page \in {0} \cup Mount
  /\ status \in {"loading", "ready", "error"}
  /\ page # 0 =>
       /\ fetch[page].status # "none"
       /\ status = "loading" <=> fetch[page].status # "ended"
       /\ status = "ready" => OnScreen # NoSnapshot

\* The verification is that of the last run of the effect, for the row selected
\* and the snapshot on screen.
PillOk ==
  /\ selected \in Row \cup {NoRow}
  /\ runs \in Seq(RunType)
  /\ verification \in Pill
  /\ verification = "none" <=> pill = "none"
  /\ verification # "none" =>
       /\ page # 0 /\ status = "ready" /\ selected # NoRow
       /\ LastRun # 0 /\ runs[LastRun].row = selected /\ runs[LastRun].snapshot = OnScreen
       /\ verification = IF runs[LastRun].settled THEN Truth(selected) ELSE "verifying"

Screen == FetchesOk /\ PageOk /\ PillOk

LEMMA ZeroIsNoMount == 0 \notin Mount
<1>1. IsFiniteSet(Mount) /\ Mount = 1 .. Cardinality(Mount)
  BY DashboardAssumption
<1>2. Cardinality(Mount) \in Nat
  BY <1>1, FS_CardinalityType
<1> QED
  BY <1>1, <1>2

\* Two bodies that differ in the amount are written as different texts.
LEMMA AmountIsWritten ==
  ASSUME NEW b, NEW x, "amount" \in DOMAIN b, b["amount"] # x
  PROVE  canonicalBytes([b EXCEPT !.amount = x]) # canonicalBytes(b)
<1> DEFINE flat(o) == [o EXCEPT !.settlement = Pairs(@)]
           t == [b EXCEPT !.amount = x]
<1>1. flat(t)["amount"] = x /\ flat(b)["amount"] = b["amount"]
  OBVIOUS
<1>2. "amount" \in DOMAIN flat(t) /\ DOMAIN flat(t) = DOMAIN flat(b)
  OBVIOUS
<1> HIDE DEF flat, t
<1>3. <<"amount", x>> \in Pairs(flat(t))
  BY <1>1, <1>2 DEF Pairs
<1>4. <<"amount", x>> \notin Pairs(flat(b))
  BY <1>1 DEF Pairs
<1> QED
  BY <1>3, <1>4 DEF canonicalBytes, flat, t

\* Parsing keeps each field, and of the reference its two; parsing a parsed body
\* changes nothing.
LEMMA ParsedIs ==
  ASSUME NEW body
  PROVE  /\ DOMAIN Parsed(body) = BodyField
         /\ Parsed(body) = [f \in BodyField |-> Parsed(body)[f]]
         /\ \A f \in BodyField : f # "settlement" => Parsed(body)[f] = body[f]
         /\ Parsed(body)["settlement"] =
              [kind |-> body["settlement"].kind, anchor |-> body["settlement"].anchor]
         /\ Parsed(Parsed(body)) = Parsed(body)
<1>1. PICK ref : ref = [kind |-> body["settlement"].kind, anchor |-> body["settlement"].anchor]
  OBVIOUS
<1>2. ref = [kind |-> ref.kind, anchor |-> ref.anchor]
  BY <1>1
<1>3. PICK b : b = [f \in BodyField |-> IF f = "settlement" THEN ref ELSE body[f]]
  OBVIOUS
<1>4. Parsed(body) = b
  BY <1>1, <1>3 DEF Parsed
<1>5. "settlement" \in BodyField
  BY DEF BodyField
<1>6. b["settlement"] = ref /\ \A f \in BodyField : f # "settlement" => b[f] = body[f]
  BY <1>3, <1>5
<1>7. Parsed(b) = [f \in BodyField |-> IF f = "settlement" THEN ref ELSE b[f]]
  BY <1>2, <1>6 DEF Parsed
<1>8. \A f \in BodyField : (IF f = "settlement" THEN ref ELSE b[f]) = b[f]
  BY <1>6
<1>9. b = [f \in BodyField |-> b[f]]
  BY <1>3
<1>10. Parsed(b) = b
  BY <1>7, <1>8, <1>9
<1> QED
  BY <1>1, <1>3, <1>4, <1>6, <1>9, <1>10

LEMMA ParsedTwice == \A body : Parsed(Parsed(body)) = Parsed(body)
BY ParsedIs

LEMMA SignedIs ==
  ASSUME NEW body, NEW g
  PROVE  LET s == SignReceipt(body, g)
         IN /\ s.receipt = Parsed(body) /\ s.signature.keyId = g.keyId
            /\ s.signature.algorithm = "Ed25519"
            /\ s.signature.value = Sign(g.key, canonicalBytes(Parsed(body)))
            /\ DOMAIN s.signature = SignatureField
            /\ s = [receipt |-> s.receipt, signature |-> s.signature]
BY DEF SignReceipt, SignatureField

\* Whether a body is well formed shows when it is parsed.
LEMMA ParsedOk ==
  ASSUME NEW body, BodyField \subseteq DOMAIN body
  PROVE  BodyOk(body) <=> BodyOk(Parsed(body))
<1>1. PICK b, ref :
        /\ b = Parsed(body)
        /\ ref = [kind |-> body["settlement"].kind, anchor |-> body["settlement"].anchor]
  OBVIOUS
<1>2. /\ DOMAIN b = BodyField /\ b["settlement"] = ref
      /\ \A f \in BodyField : f # "settlement" => b[f] = body[f]
  BY <1>1, ParsedIs
<1>3. "settlement" \in BodyField /\ "model" \in BodyField
  BY DEF BodyField
<1>4. ref.kind = body["settlement"].kind /\ ref.anchor = body["settlement"].anchor
  BY <1>1
<1>5. FieldOk("settlement", ref) <=> FieldOk("settlement", body["settlement"])
  BY <1>4 DEF FieldOk, SettlementRef
<1>6. \A f \in BodyField : FieldOk(f, b[f]) <=> FieldOk(f, body[f])
  BY <1>2, <1>5
<1>7. b.settlement.kind = body.settlement.kind /\ b.model = body.model
  BY <1>2, <1>3, <1>4
<1> HIDE DEF FieldOk
<1>8. BodyOk(body) <=> BodyOk(b)
  BY <1>2, <1>6, <1>7 DEF BodyOk
<1> QED
  BY <1>1, <1>8

\* Verifying a row of a snapshot with that snapshot's keys tells what was done to it.
LEMMA VerdictIsTrue ==
  ASSUME NEW m \in Mount, NEW row \in Row
  PROVE  Verdict(m, row) = Truth(row)
<1> DEFINE s == Signed(m, row)
           body == BuiltBody(SeedOf(row), row, "then")
<1>1. /\ s.receipt = Parsed(body) /\ s.signature.keyId = STUB_KEY_ID
      /\ s.signature.algorithm = "Ed25519"
      /\ s.signature.value = Sign(m, canonicalBytes(Parsed(body)))
      /\ DOMAIN s.signature = SignatureField
      /\ s = [receipt |-> s.receipt, signature |-> s.signature]
  <2>1. PICK g : g = [keyId |-> STUB_KEY_ID, key |-> m]
    OBVIOUS
  <2>2. g.keyId = STUB_KEY_ID /\ g.key = m /\ s = SignReceipt(body, g)
    BY <2>1 DEF Signed
  <2> HIDE DEF s, body
  <2>3. PICK r : r = SignReceipt(body, g)
    OBVIOUS
  <2>4. /\ r.receipt = Parsed(body) /\ r.signature.keyId = g.keyId
        /\ r.signature.algorithm = "Ed25519"
        /\ r.signature.value = Sign(g.key, canonicalBytes(Parsed(body)))
        /\ DOMAIN r.signature = SignatureField
        /\ r = [receipt |-> r.receipt, signature |-> r.signature]
    BY <2>3, SignedIs
  <2> QED
    BY <2>2, <2>3, <2>4
<1>2. /\ BodyOk(s.receipt) /\ Parsed(s.receipt) = s.receipt
      /\ \A f \in SignatureField : s.signature[f] # Bad
      /\ s.signature.value # Garbled
      /\ Garbled # Bad
  <2>1. BodyOk(body)
    BY RowAssumption DEF CanBuild
  <2>2. BodyOk(Parsed(body)) /\ Parsed(Parsed(body)) = Parsed(body)
    <3>1. BodyField \subseteq DOMAIN body
      BY <2>1 DEF BodyOk
    <3> HIDE DEF body
    <3> QED
      BY <2>1, <3>1, ParsedOk, ParsedTwice
  <2>3. \A f \in SignatureField : s.signature[f] # Bad
    BY RowAssumption DEF SignatureField
  <2> HIDE DEF s, body
  <2> QED
    BY <1>1, <2>2, <2>3, RowAssumption DEF s
<1>3. s.receipt["amount"] = 1 /\ DOMAIN s.receipt = BodyField
  <2>1. body["amount"] = 1
    BY DEF BuiltBody, SeedOf
  <2> HIDE DEF body, s
  <2>2. "amount" \in BodyField
    BY DEF BodyField
  <2> QED
    BY <1>1, <2>1, <2>2, ParsedIs
<1>4. Verdict(m, row) = VerifyReceipt(ReceiptOf(m, row), TrustedKeys(m))
  BY DEF Verdict
<1>5. STUB_KEY_ID \in DOMAIN TrustedKeys(m) /\ TrustedKeys(m)[STUB_KEY_ID] = m
  BY DEF TrustedKeys
<1>6. CASE row \in Unreadable
  <2>1. PICK c : c = [s EXCEPT !.signature.value = Garbled]
    OBVIOUS
  <2>2. ReceiptOf(m, row) = c
    BY <1>6, <2>1 DEF ReceiptOf
  <2> HIDE DEF s, body
  <2>3. /\ c.receipt = s.receipt /\ c.signature = [s.signature EXCEPT !.value = Garbled]
    BY <1>1, <2>1
  <2>4. /\ DOMAIN c.signature = SignatureField /\ c.signature.value = Garbled
        /\ \A f \in SignatureField : c.signature[f] # Bad
    BY <1>1, <1>2, <2>3 DEF SignatureField
  <2>5. SignedOk(c)
    BY <1>2, <2>3, <2>4 DEF SignedOk, SignatureOk
  <2> QED
    BY <1>4, <1>6, <2>2, <2>4, <2>5 DEF VerifyReceipt, Truth
<1>7. CASE row \notin Unreadable /\ row \in Tampered
  <2>1. PICK c : c = [s EXCEPT !.receipt.amount = 2]
    OBVIOUS
  <2>2. ReceiptOf(m, row) = c
    BY <1>7, <2>1 DEF ReceiptOf
  <2> HIDE DEF s, body
  <2>3. c.receipt = [s.receipt EXCEPT !.amount = 2] /\ c.signature = s.signature
    BY <1>1, <2>1
  <2>4. canonicalBytes(c.receipt) # canonicalBytes(s.receipt)
    <3>1. PICK b : b = s.receipt
      OBVIOUS
    <3>2. "amount" \in DOMAIN b /\ b["amount"] # 2
      BY <1>3, <3>1 DEF BodyField
    <3>3. canonicalBytes([b EXCEPT !.amount = 2]) # canonicalBytes(b)
      BY <3>2, AmountIsWritten
    <3> QED
      BY <2>3, <3>1, <3>3
  <2>5. Parsed(c.receipt) = c.receipt
    <3>1. PICK b, d, ref : b = s.receipt /\ d = c.receipt /\ ref = b["settlement"]
      OBVIOUS
    <3>2. "settlement" \in BodyField /\ b = Parsed(b) /\ b = Parsed(body)
      BY <1>1, <1>2, <3>1 DEF BodyField
    <3>3. ref = [kind |-> ref.kind, anchor |-> ref.anchor]
      BY <3>1, <3>2, ParsedIs
    <3>4. DOMAIN d = BodyField /\ d["settlement"] = ref /\ d = [f \in BodyField |-> d[f]]
      BY <1>3, <2>3, <3>1, <3>2
    <3>5. /\ DOMAIN Parsed(d) = BodyField /\ Parsed(d) = [f \in BodyField |-> Parsed(d)[f]]
          /\ \A f \in BodyField : f # "settlement" => Parsed(d)[f] = d[f]
          /\ Parsed(d)["settlement"] = [kind |-> ref.kind, anchor |-> ref.anchor]
      BY <3>4, ParsedIs
    <3>6. \A f \in BodyField : Parsed(d)[f] = d[f]
      BY <3>3, <3>4, <3>5
    <3>7. Parsed(d) = d
      BY <3>4, <3>5, <3>6
    <3> QED
      BY <3>1, <3>7
  <2>6. c.signature.value = Sign(m, canonicalBytes(s.receipt))
    BY <1>1, <2>3
  <2>7. ~VerifierAccepts(TrustedKeys(m), canonicalBytes(Parsed(c.receipt)), c.signature)
    BY <1>1, <1>5, <2>3, <2>4, <2>5, <2>6 DEF VerifierAccepts, Sign
  <2>8. c.signature.value # Garbled
    BY <1>2, <2>3
  <2> QED
    BY <1>4, <1>7, <2>2, <2>7, <2>8 DEF VerifyReceipt, Truth
<1>8. CASE row \notin Unreadable /\ row \notin Tampered
  <2>1. ReceiptOf(m, row) = s
    BY <1>8 DEF ReceiptOf
  <2> HIDE DEF s, body
  <2>2. SignedOk(s)
    BY <1>1, <1>2 DEF SignedOk, SignatureOk
  <2>3. VerifierAccepts(TrustedKeys(m), canonicalBytes(Parsed(s.receipt)), s.signature)
    BY <1>1, <1>2, <1>5 DEF VerifierAccepts
  <2> QED
    BY <1>2, <1>4, <1>8, <2>1, <2>2, <2>3 DEF VerifyReceipt, Truth
<1> QED
  BY <1>6, <1>7, <1>8

LEMMA InitScreen == Init => Screen
<1> SUFFICES ASSUME Init PROVE Screen
  OBVIOUS
<1>1. FetchesOk
  BY DashboardAssumption DEF Init, FetchesOk, NoFetch, FetchStatus
<1>2. PageOk
  BY DEF Init, PageOk
<1>3. PillOk
  BY DEF Init, PillOk, Pill
<1> QED
  BY <1>1, <1>2, <1>3 DEF Screen

\* The verification does not depend on the fetches of other mounts.
LEMMA SamePill ==
  ASSUME PillOk, UNCHANGED <<page, status, selected, runs, verification, pill>>,
         page # 0 => UNCHANGED OnScreen
  PROVE  PillOk'
BY DEF PillOk, LastRun, Truth

LEMMA StubStep ==
  ASSUME Screen, NEW m \in Mount, StubBuilt(m)
  PROVE  Screen'
<1> USE DEF Screen, StubBuilt
<1>1. fetch[m].status = "building" /\ fetch[m].snapshot = NoSnapshot
  BY DEF FetchesOk
<1>2. /\ fetch' \in [Mount -> [status : FetchStatus, snapshot : Mount \cup {NoSnapshot}]]
      /\ fetch'[m] = [status |-> "built", snapshot |-> m]
      /\ \A n \in Mount : n # m => fetch'[n] = fetch[n]
  BY DEF FetchesOk, FetchStatus
<1>3. FetchesOk'
  <2>1. \A n \in Mount : fetch[n].snapshot # m
    BY <1>1, DashboardAssumption DEF FetchesOk
  <2>2. ASSUME NEW n \in Mount, fetch'[n].snapshot # NoSnapshot
        PROVE  fetch'[fetch'[n].snapshot].snapshot = fetch'[n].snapshot
    <3>1. CASE n = m
      BY <1>2, <3>1
    <3>2. CASE n # m
      <4>1. fetch'[n] = fetch[n] /\ fetch[n].snapshot \in Mount
        BY <1>2, <2>2, <3>2 DEF FetchesOk
      <4> QED
        BY <1>2, <2>1, <2>2, <4>1 DEF FetchesOk
    <3> QED
      BY <3>1, <3>2
  <2>3. ASSUME NEW n \in Mount
        PROVE  /\ fetch'[n].status \in {"none", "building", "rejected"} => fetch'[n].snapshot = NoSnapshot
               /\ fetch'[n].status = "built" => fetch'[n].snapshot # NoSnapshot
    BY <1>2, DashboardAssumption DEF FetchesOk
  <2>4. cached' = m
    OBVIOUS
  <2> QED
    BY <1>2, <2>2, <2>3, <2>4 DEF FetchesOk
<1>4. PageOk'
  <2>1. page # 0 /\ page # m => fetch'[page] = fetch[page]
    BY <1>2 DEF PageOk
  <2>2. page = m => status = "loading"
    BY <1>1, ZeroIsNoMount DEF PageOk
  <2> QED
    BY <1>2, <2>1, <2>2 DEF PageOk, OnScreen
<1>5. PillOk'
  <2>1. CASE verification = "none"
    BY <2>1 DEF PillOk
  <2>2. CASE verification # "none"
    <3>1. page # m /\ page \in Mount
      BY <1>1, <2>2 DEF PageOk, PillOk
    <3>2. UNCHANGED OnScreen
      BY <1>2, <3>1 DEF OnScreen
    <3> QED
      BY <3>2, SamePill
  <2> QED
    BY <2>1, <2>2
<1> QED
  BY <1>3, <1>4, <1>5

\* A fetch that rejects, or that ends, keeps the snapshot it knows.
LEMMA StatusOnly ==
  ASSUME Screen, NEW m \in Mount, NEW to \in {"rejected", "ended"},
         fetch' = [fetch EXCEPT ![m].status = to], UNCHANGED cached,
         to = "rejected" => fetch[m].status = "building"
  PROVE  /\ FetchesOk'
         /\ fetch'[m].status = to /\ \A n \in Mount : fetch'[n].snapshot = fetch[n].snapshot
         /\ \A n \in Mount : n # m => fetch'[n] = fetch[n]
<1> USE DEF Screen
<1>1. /\ fetch' \in [Mount -> [status : FetchStatus, snapshot : Mount \cup {NoSnapshot}]]
      /\ fetch'[m].status = to
      /\ \A n \in Mount : fetch'[n].snapshot = fetch[n].snapshot
      /\ \A n \in Mount : n # m => fetch'[n] = fetch[n]
  BY DEF FetchesOk, FetchStatus
<1>2. FetchesOk'
  BY <1>1 DEF FetchesOk
<1> QED
  BY <1>1, <1>2

LEMMA FailsStep ==
  ASSUME Screen, NEW m \in Mount, BuildFails(m)
  PROVE  Screen'
<1> USE DEF Screen, BuildFails
<1>1. /\ FetchesOk'
      /\ fetch'[m].status = "rejected" /\ \A n \in Mount : fetch'[n].snapshot = fetch[n].snapshot
      /\ \A n \in Mount : n # m => fetch'[n] = fetch[n]
  BY StatusOnly
<1>2. page # 0 => UNCHANGED OnScreen
  BY <1>1 DEF OnScreen, PageOk
<1>3. PageOk'
  BY <1>1, <1>2 DEF PageOk
<1>4. PillOk'
  BY <1>2, SamePill
<1> QED
  BY <1>1, <1>3, <1>4

LEMMA EndsStep ==
  ASSUME Screen, NEW m \in Mount, FetchEnds(m)
  PROVE  Screen'
<1> USE DEF Screen, FetchEnds
<1>1. /\ FetchesOk'
      /\ fetch'[m].status = "ended" /\ \A n \in Mount : fetch'[n].snapshot = fetch[n].snapshot
      /\ \A n \in Mount : n # m => fetch'[n] = fetch[n]
  BY StatusOnly
<1>2. page # 0 => UNCHANGED OnScreen
  BY <1>1 DEF OnScreen, PageOk
<1>3. PageOk'
  <2>1. CASE page # m
    BY <1>1, <1>2, <2>1 DEF PageOk
  <2>2. CASE page = m
    <3>1. status' = "ready" => fetch[m].snapshot # NoSnapshot
      BY <2>2 DEF FetchesOk
    <3> QED
      BY <1>1, <2>2, <3>1 DEF PageOk, OnScreen
  <2> QED
    BY <2>1, <2>2
<1>4. PillOk'
  <2>1. CASE page # m
    <3>1. UNCHANGED <<page, status, selected, runs, verification, pill>>
      BY <2>1
    <3> QED
      BY <1>2, <3>1, SamePill
  <2>2. CASE page = m
    <3>1. verification = "none"
      BY <2>2, ZeroIsNoMount DEF PillOk, PageOk
    <3> QED
      BY <3>1 DEF PillOk
  <2> QED
    BY <2>1, <2>2
<1> QED
  BY <1>1, <1>3, <1>4

LEMMA MountStep ==
  ASSUME Screen, NEW m \in Mount, MountPage(m)
  PROVE  Screen'
<1> USE DEF Screen, MountPage
<1>1. verification = "none"
  BY DEF PillOk
<1>2. PICK f \in [status : {"building", "built"}, snapshot : Mount \cup {NoSnapshot}] :
        /\ fetch' = [fetch EXCEPT ![m] = f]
        /\ f.snapshot = cached /\ (f.status = "building" <=> cached = NoSnapshot)
  <2> DEFINE f == [status |-> IF cached = NoSnapshot THEN "building" ELSE "built", snapshot |-> cached]
  <2>1. fetch' = [fetch EXCEPT ![m] = f]
    BY DEF FetchReceipts
  <2>2. f \in [status : {"building", "built"}, snapshot : Mount \cup {NoSnapshot}]
    BY DEF FetchesOk
  <2>3. f.snapshot = cached /\ (f.status = "building" <=> cached = NoSnapshot)
    OBVIOUS
  <2> HIDE DEF f
  <2> QED
    BY <2>1, <2>2, <2>3
<1>3. /\ fetch' \in [Mount -> [status : FetchStatus, snapshot : Mount \cup {NoSnapshot}]]
      /\ fetch'[m] = f /\ \A n \in Mount : n # m => fetch'[n] = fetch[n]
  BY <1>2 DEF FetchesOk, FetchStatus
<1>4. fetch[m].snapshot = NoSnapshot /\ cached # m
  BY DashboardAssumption DEF FetchesOk
<1>5. FetchesOk'
  <2>1. \A n \in Mount : fetch[n].snapshot # m
    BY <1>4, DashboardAssumption DEF FetchesOk
  <2>2. ASSUME NEW n \in Mount, fetch'[n].snapshot # NoSnapshot
        PROVE  fetch'[fetch'[n].snapshot].snapshot = fetch'[n].snapshot
    <3>1. PICK s : s = fetch'[n].snapshot
      OBVIOUS
    <3>2. s \in Mount /\ s # m /\ fetch[s].snapshot = s
      BY <1>2, <1>3, <1>4, <2>1, <2>2, <3>1 DEF FetchesOk
    <3> QED
      BY <1>3, <3>1, <3>2
  <2>3. cached' # NoSnapshot => fetch'[cached'].snapshot = cached'
    BY <1>3, <1>4 DEF FetchesOk
  <2>4. ASSUME NEW n \in Mount
        PROVE  /\ fetch'[n].status \in {"none", "building", "rejected"} => fetch'[n].snapshot = NoSnapshot
               /\ fetch'[n].status = "built" => fetch'[n].snapshot # NoSnapshot
    BY <1>2, <1>3 DEF FetchesOk
  <2> QED
    BY <1>3, <2>2, <2>3, <2>4 DEF FetchesOk
<1>6. PageOk'
  BY <1>2, <1>3 DEF PageOk
<1>7. PillOk'
  BY <1>1 DEF PillOk
<1> QED
  BY <1>5, <1>6, <1>7

LEMMA OpenStep ==
  ASSUME Screen, NEW row \in Row, OpenRow(row)
  PROVE  Screen'
<1> USE DEF Screen, OpenRow
<1>1. OnScreen \in Mount /\ UNCHANGED <<OnScreen, Truth(row)>>
  BY DEF FetchesOk, PageOk, OnScreen, Truth
<1>2. FetchesOk' /\ PageOk'
  BY DEF FetchesOk, PageOk, OnScreen
<1>3. PICK r \in RunType : r = [row |-> row, snapshot |-> OnScreen, settled |-> FALSE]
  BY <1>1 DEF RunType
<1>4. runs' = Append(runs, r) /\ runs \in Seq(RunType)
  BY <1>3 DEF PillOk
<1>5. runs' \in Seq(RunType) /\ LastRun' = LastRun + 1 /\ LastRun \in Nat /\ runs'[LastRun'] = r
  BY <1>4 DEF LastRun
<1>6. row # NoRow
  BY DashboardAssumption
<1>7. PillOk'
  <2>1. page' # 0 /\ status' = "ready" /\ selected' = row /\ verification' = "verifying"
    OBVIOUS
  <2>2. LastRun' # 0 /\ runs'[LastRun'].row = row /\ runs'[LastRun'].snapshot = OnScreen'
        /\ ~runs'[LastRun'].settled
    <3>1. r.row = row /\ r.snapshot = OnScreen /\ r.settled = FALSE
      BY <1>3
    <3>2. PICK q : q = runs'[LastRun']
      OBVIOUS
    <3>3. q.row = row /\ q.snapshot = OnScreen /\ q.settled = FALSE
      BY <1>5, <3>1, <3>2
    <3>4. LastRun' # 0
      BY <1>5
    <3>5. q.snapshot = OnScreen'
      BY <1>1, <3>3
    <3> QED
      BY <3>2, <3>3, <3>4, <3>5
  <2>3. pill' # "none"
    OBVIOUS
  <2> QED
    BY <1>5, <1>6, <2>1, <2>2, <2>3 DEF PillOk, Pill
<1> QED
  BY <1>2, <1>7

LEMMA RenderStep ==
  ASSUME Screen, Render
  PROVE  Screen'
<1> USE DEF Screen, Render
<1>1. FetchesOk' /\ PageOk'
  BY DEF FetchesOk, PageOk, OnScreen
<1>2. PillOk'
  BY DEF PillOk, OnScreen, LastRun, Truth
<1> QED
  BY <1>1, <1>2

LEMMA CloseStep ==
  ASSUME Screen, CloseRow
  PROVE  Screen'
BY DEF Screen, CloseRow, FetchesOk, PageOk, OnScreen, PillOk, Pill

LEMMA UnmountStep ==
  ASSUME Screen, UnmountPage
  PROVE  Screen'
BY DEF Screen, UnmountPage, FetchesOk, PageOk, PillOk, Pill

LEMMA VerificationStep ==
  ASSUME Screen, NEW r \in DOMAIN runs, VerificationEnds(r)
  PROVE  Screen'
<1> USE DEF Screen, VerificationEnds
<1>1. FetchesOk' /\ PageOk'
  BY DEF FetchesOk, PageOk, OnScreen
<1>2. runs \in Seq(RunType) /\ LastRun \in Nat /\ r \in 1 .. LastRun /\ runs[r] \in RunType
  BY DEF PillOk, LastRun
<1>3. /\ runs' \in Seq(RunType) /\ LastRun' = LastRun
      /\ \A i \in 1 .. LastRun : runs'[i].row = runs[i].row /\ runs'[i].snapshot = runs[i].snapshot
      /\ runs'[r].settled
      /\ \A i \in 1 .. LastRun : i # r => runs'[i] = runs[i]
  <2>1. PICK e : e = [runs[r] EXCEPT !.settled = TRUE]
    OBVIOUS
  <2>2. e \in RunType /\ e.row = runs[r].row /\ e.snapshot = runs[r].snapshot /\ e.settled
    BY <1>2, <2>1 DEF RunType
  <2>3. runs' = [runs EXCEPT ![r] = e]
    BY <2>1
  <2>4. /\ runs' \in Seq(RunType) /\ Len(runs') = Len(runs) /\ runs'[r] = e
        /\ \A i \in 1 .. Len(runs) : i # r => runs'[i] = runs[i]
    <3>1. runs \in Seq(RunType) /\ r \in 1 .. Len(runs) /\ e \in RunType
      BY <1>2, <2>2 DEF LastRun
    <3> HIDE DEF VerificationEnds, Screen
    <3> QED
      BY <2>3, <3>1, ExceptSeq
  <2> QED
    BY <1>2, <2>2, <2>4 DEF LastRun
<1>4. UNCHANGED OnScreen
  BY DEF OnScreen
<1>5. CASE Cancelled(r)
  <2>1. verification = "none" \/ r # LastRun
    BY <1>5 DEF Cancelled, LastRun
  <2>2. verification' = verification /\ pill' = pill
    BY <1>5
  <2>3. verification # "none" => LastRun \in 1 .. LastRun /\ runs'[LastRun] = runs[LastRun]
    BY <1>2, <1>3, <2>1 DEF PillOk
  <2>4. PillOk'
    BY <1>3, <1>4, <2>2, <2>3 DEF PillOk, Truth
  <2> QED
    BY <1>1, <2>4
<1>6. CASE ~Cancelled(r)
  <2>1. verification # "none" /\ pill # "none" /\ r = LastRun
    BY <1>6 DEF Cancelled, LastRun, PillOk
  <2>2. runs[r].row = selected /\ runs[r].snapshot = OnScreen /\ selected \in Row /\ OnScreen \in Mount
    BY <1>2, <2>1 DEF PillOk, RunType
  <2>3. verification' = Truth(selected) /\ pill' = pill
    BY <1>6, <2>2, VerdictIsTrue
  <2>4. Truth(selected) \in Verification
    BY DEF Truth, Verification
  <2>5. PillOk'
    BY <1>2, <1>3, <1>4, <2>1, <2>2, <2>3, <2>4 DEF PillOk, Pill, Truth
  <2> QED
    BY <1>1, <2>5
<1> QED
  BY <1>5, <1>6

LEMMA StepScreen == Screen /\ [Next]_vars => Screen'
<1> SUFFICES ASSUME Screen, [Next]_vars PROVE Screen'
  OBVIOUS
<1>1. CASE \E m \in Mount : MountPage(m)
  BY <1>1, MountStep
<1>2. CASE UnmountPage
  BY <1>2, UnmountStep
<1>3. CASE \E row \in Row : OpenRow(row)
  BY <1>3, OpenStep
<1>4. CASE CloseRow
  BY <1>4, CloseStep
<1>5. CASE Settles
  <2>1. CASE \E m \in Mount : StubBuilt(m) \/ BuildFails(m) \/ FetchEnds(m)
    BY <2>1, StubStep, FailsStep, EndsStep
  <2>2. CASE \E r \in DOMAIN runs : VerificationEnds(r)
    BY <2>2, VerificationStep
  <2> QED
    BY <1>5, <2>1, <2>2 DEF Settles
<1>6. CASE Render
  BY <1>6, RenderStep
<1>7. CASE UNCHANGED vars
  BY <1>7 DEF vars, Screen, FetchesOk, PageOk, OnScreen, PillOk, LastRun, Truth
<1> QED
  BY <1>1, <1>2, <1>3, <1>4, <1>5, <1>6, <1>7 DEF Next, AtRest

LEMMA ScreenIsTrue == Screen => ScreenTellsTheTruth
<1> SUFFICES ASSUME Screen PROVE ScreenTellsTheTruth
  OBVIOUS
<1> USE DEF Screen
<1>1. page # 0 /\ fetch[page].status = "ended" => status # "loading"
  BY DEF PageOk
<1>2. page # 0 /\ status = "ready" => OnScreen # NoSnapshot /\ fetch[OnScreen].snapshot = OnScreen
  BY DEF PageOk, FetchesOk, OnScreen
<1>3. pill # "none" => page # 0 /\ status = "ready" /\ selected # NoRow
  BY DEF PillOk
<1>4. verification \in Verification => verification = Truth(selected)
  BY DEF PillOk, Verification
<1>5. ASSUME verification = "verifying"
      PROVE  \E r \in DOMAIN runs : runs[r].row = selected /\ ~runs[r].settled
  <2>1. LastRun \in DOMAIN runs /\ runs[LastRun].row = selected
    BY <1>5 DEF PillOk, LastRun
  <2>2. Truth(selected) # "verifying"
    BY DEF Truth
  <2>3. ~runs[LastRun].settled
    BY <1>5, <2>2 DEF PillOk
  <2> QED
    BY <2>1, <2>3
<1>6. verification = "none" <=> pill = "none"
  BY DEF PillOk
<1> QED
  BY <1>1, <1>2, <1>3, <1>4, <1>5, <1>6 DEF ScreenTellsTheTruth

\* However the user clicks, fetches and verifications overtake each other and
\* pages come and go, what the receipts page has to render is the true verdict
\* of the receipt on screen, and it waits for nothing that has ended.
THEOREM ScreenTrue == Spec => []ScreenTellsTheTruth
<1>1. Init => Screen
  BY InitScreen
<1>2. Screen /\ [Next]_vars => Screen'
  BY StepScreen
<1>3. Screen => ScreenTellsTheTruth
  BY ScreenIsTrue
<1> QED
  BY <1>1, <1>2, <1>3, PTL DEF Spec

-----------------------------------------------------------------------------
(* Receipts and keys. *)

\* Two objects written alike are equal.
IsObject(o) == o = [f \in DOMAIN o |-> o[f]]

LEMMA PairsTell ==
  ASSUME NEW a, NEW b, IsObject(a), IsObject(b), Pairs(a) = Pairs(b)
  PROVE  a = b
<1>1. \A f \in DOMAIN a : <<f, a[f]>> \in Pairs(b)
  BY DEF Pairs
<1>2. \A f \in DOMAIN b : <<f, b[f]>> \in Pairs(a)
  BY DEF Pairs
<1>3. DOMAIN a = DOMAIN b /\ \A f \in DOMAIN a : a[f] = b[f]
  BY <1>1, <1>2 DEF Pairs
<1> QED
  BY <1>3 DEF IsObject

\* So are two bodies, nested references included.
LEMMA BytesTell ==
  ASSUME NEW a, NEW b, IsObject(a), IsObject(b),
         "settlement" \in DOMAIN a, "settlement" \in DOMAIN b,
         IsObject(a["settlement"]), IsObject(b["settlement"]),
         canonicalBytes(a) = canonicalBytes(b)
  PROVE  a = b
<1> DEFINE x == [a EXCEPT !.settlement = Pairs(@)]
           y == [b EXCEPT !.settlement = Pairs(@)]
<1>1. /\ DOMAIN x = DOMAIN a /\ x["settlement"] = Pairs(a["settlement"])
      /\ \A f \in DOMAIN a : f # "settlement" => x[f] = a[f]
      /\ x = [f \in DOMAIN x |-> x[f]]
  OBVIOUS
<1>2. /\ DOMAIN y = DOMAIN b /\ y["settlement"] = Pairs(b["settlement"])
      /\ \A f \in DOMAIN b : f # "settlement" => y[f] = b[f]
      /\ y = [f \in DOMAIN y |-> y[f]]
  OBVIOUS
<1>3. Pairs(x) = Pairs(y)
  BY DEF canonicalBytes
<1> HIDE DEF x, y
<1>4. IsObject(x) /\ IsObject(y)
  BY <1>1, <1>2 DEF IsObject
<1>5. x = y
  BY <1>3, <1>4, PairsTell
<1>6. a["settlement"] = b["settlement"]
  BY <1>1, <1>2, <1>5, PairsTell
<1>7. DOMAIN a = DOMAIN b /\ \A f \in DOMAIN a : a[f] = b[f]
  BY <1>1, <1>2, <1>5, <1>6
<1> QED
  BY <1>7 DEF IsObject

LEMMA ParsedIsObject ==
  ASSUME NEW body
  PROVE  /\ IsObject(Parsed(body)) /\ DOMAIN Parsed(body) = BodyField
         /\ IsObject(Parsed(body)["settlement"])
<1>1. PICK ref : ref = [kind |-> body["settlement"].kind, anchor |-> body["settlement"].anchor]
  OBVIOUS
<1>2. IsObject(ref)
  BY <1>1 DEF IsObject
<1>3. PICK b : b = Parsed(body)
  OBVIOUS
<1>4. DOMAIN b = BodyField /\ b = [f \in BodyField |-> b[f]] /\ b["settlement"] = ref
  BY <1>1, <1>3, ParsedIs
<1>5. IsObject(b)
  BY <1>4 DEF IsObject
<1> QED
  BY <1>2, <1>3, <1>4, <1>5

\* What an issued receipt is.
IsIssued(s, g) ==
  \E input \in Input, id \in Id :
    CanBuild(input, id, "now") /\ s = SignReceipt(BuiltBody(input, id, "now"), g)

Names == Key \cup UNION {NamesOf[i] : i \in Instance}

KeysOk ==
  /\ generated \subseteq [keyId : Names, key : Key]
  /\ \A i \in Instance : signer[i] \in generated \cup {NoSigner}
  /\ DOMAIN keys \subseteq Names

ReceiptsOk == \A s \in issued : \E g \in generated : IsIssued(s, g)

Archive == KeysOk /\ ReceiptsOk

LEMMA NamesAreGood == Bad \notin Names
BY ArchiveAssumption DEF Names

\* A receipt is of the body it was built from and the key that signed it.
LEMMA IssuedIs ==
  ASSUME NEW g \in [keyId : Names, key : Key], NEW s, IsIssued(s, g)
  PROVE  /\ s = [receipt |-> s.receipt, signature |-> s.signature]
         /\ IsObject(s.receipt) /\ DOMAIN s.receipt = BodyField /\ BodyOk(s.receipt)
         /\ IsObject(s.receipt["settlement"])
         /\ s.signature = [keyId |-> g.keyId, algorithm |-> "Ed25519",
                           value |-> Sign(g.key, canonicalBytes(s.receipt))]
         /\ s.signature.value \notin {Bad, Garbled}
<1>1. PICK input \in Input, id \in Id :
        CanBuild(input, id, "now") /\ s = SignReceipt(BuiltBody(input, id, "now"), g)
  BY DEF IsIssued
<1>2. PICK body : body = BuiltBody(input, id, "now")
  OBVIOUS
<1>3. BodyOk(body)
  BY <1>1, <1>2 DEF CanBuild
<1>4. /\ s.receipt = Parsed(body)
      /\ s.signature = [keyId |-> g.keyId, algorithm |-> "Ed25519",
                        value |-> Sign(g.key, canonicalBytes(s.receipt))]
      /\ s = [receipt |-> s.receipt, signature |-> s.signature]
  BY <1>1, <1>2 DEF SignReceipt
<1>5. IsObject(s.receipt) /\ DOMAIN s.receipt = BodyField /\ IsObject(s.receipt["settlement"])
  BY <1>4, ParsedIsObject
<1>6. BodyOk(s.receipt)
  BY <1>3, <1>4, ParsedOk DEF BodyOk
<1>7. s.signature.value \notin {Bad, Garbled}
  <2>1. Sign(g.key, canonicalBytes(Parsed(body))) \notin {Bad, Garbled}
    BY <1>1, <1>2, SigningAssumption
  <2> QED
    BY <1>4, <2>1
<1> QED
  BY <1>4, <1>5, <1>6, <1>7

LEMMA InitArchive == ArchiveInit => Archive
BY DEF ArchiveInit, Archive, KeysOk, ReceiptsOk

LEMMA RestartStep ==
  ASSUME Archive, NEW i \in Instance, Restart(i)
  PROVE  Archive'
<1> USE DEF Archive
<1>1. PICK g \in Generated(i) :
        /\ signer' = [signer EXCEPT ![i] = g]
        /\ generated' = generated \cup {g}
        /\ UNCHANGED <<keys, issued>>
  BY DEF Restart
<1>2. g \in [keyId : Names, key : Key]
  <2>1. PICK n \in NamesOf[i] : g.keyId = KeyId(n, g.key)
    BY DEF Generated
  <2> DEFINE ids == {KeyId(x, k) : x \in NamesOf[i], k \in Key}
  <2>2. g \in [keyId : ids, key : Key]
    BY DEF Generated
  <2> HIDE DEF ids
  <2>3. g.key \in Key /\ g = [keyId |-> g.keyId, key |-> g.key]
    BY <2>2
  <2>4. g.keyId \in Names
    BY <2>1, <2>3 DEF KeyId, Names
  <2> QED
    BY <2>3, <2>4
<1>3. KeysOk'
  BY <1>1, <1>2 DEF KeysOk
<1>4. ReceiptsOk'
  BY <1>1 DEF ReceiptsOk, IsIssued
<1> QED
  BY <1>3, <1>4

LEMMA VerifierStep ==
  ASSUME Archive, NewVerifier
  PROVE  Archive'
<1> USE DEF Archive
<1>1. PICK ids \in SUBSET {g.keyId : g \in generated} :
        keys' \in [ids -> {g.key : g \in generated}] /\ UNCHANGED <<signer, issued, generated>>
  BY DEF NewVerifier
<1>2. DOMAIN keys' \subseteq Names
  <2>1. \A id \in {g.keyId : g \in generated} : id \in Names
    BY DEF KeysOk
  <2>2. DOMAIN keys' = ids
    BY <1>1
  <2> QED
    BY <2>1, <2>2
<1>3. KeysOk'
  BY <1>1, <1>2 DEF KeysOk
<1>4. ReceiptsOk'
  BY <1>1 DEF ReceiptsOk, IsIssued
<1> QED
  BY <1>3, <1>4

LEMMA IssueStep ==
  ASSUME Archive, NEW i \in Instance, Issue(i)
  PROVE  Archive'
<1> USE DEF Archive
<1>1. PICK input \in Input, id \in Id :
        /\ CanBuild(input, id, "now")
        /\ issued' = issued \cup {SignReceipt(BuiltBody(input, id, "now"), signer[i])}
        /\ signer[i] # NoSigner /\ UNCHANGED <<signer, keys, generated>>
  BY DEF Issue
<1>2. PICK s : s = SignReceipt(BuiltBody(input, id, "now"), signer[i])
  OBVIOUS
<1>3. IsIssued(s, signer[i]) /\ signer[i] \in generated
  BY <1>1, <1>2 DEF IsIssued, KeysOk
<1>4. KeysOk'
  BY <1>1 DEF KeysOk
<1>5. ReceiptsOk'
  BY <1>1, <1>2, <1>3 DEF ReceiptsOk, IsIssued
<1> QED
  BY <1>4, <1>5

LEMMA StepArchive == Archive /\ [ArchiveNext]_archiveVars => Archive'
<1> SUFFICES ASSUME Archive, [ArchiveNext]_archiveVars PROVE Archive'
  OBVIOUS
<1>1. CASE \E i \in Instance : Restart(i)
  BY <1>1, RestartStep
<1>2. CASE \E i \in Instance : Issue(i)
  BY <1>2, IssueStep
<1>3. CASE NewVerifier
  BY <1>3, VerifierStep
<1>4. CASE UNCHANGED archiveVars
  BY <1>4 DEF archiveVars, Archive, KeysOk, ReceiptsOk, IsIssued
<1> QED
  BY <1>1, <1>2, <1>3, <1>4 DEF ArchiveNext

LEMMA WithIs ==
  \A o, f, v : /\ DOMAIN With(o, f, v) = DOMAIN o \cup {f} /\ With(o, f, v)[f] = v
               /\ \A g \in DOMAIN o : g # f => With(o, f, v)[g] = o[g]
BY DEF With

\* A copy has all its fields, and a signature that was made or is no text.
HasParts(c) ==
  /\ BodyField \subseteq DOMAIN c.receipt /\ SignatureField \subseteq DOMAIN c.signature
  /\ c.signature.value = Garbled \/ \E t \in issued : c.signature.value = t.signature.value

LEMMA CopiesHaveParts ==
  ASSUME Archive, NEW s \in issued, NEW c \in Altered(s)
  PROVE  HasParts(c)
<1>1. \A t \in issued :
        /\ DOMAIN t = {"receipt", "signature"}
        /\ DOMAIN t.receipt = BodyField /\ DOMAIN t.signature = SignatureField
  <2> SUFFICES ASSUME NEW t \in issued
               PROVE  /\ DOMAIN t = {"receipt", "signature"}
                      /\ DOMAIN t.receipt = BodyField /\ DOMAIN t.signature = SignatureField
    OBVIOUS
  <2>1. PICK g \in generated : IsIssued(t, g)
    BY DEF Archive, ReceiptsOk
  <2>2. g \in [keyId : Names, key : Key]
    BY DEF Archive, KeysOk
  <2>3. /\ t = [receipt |-> t.receipt, signature |-> t.signature] /\ DOMAIN t.receipt = BodyField
        /\ t.signature = [keyId |-> g.keyId, algorithm |-> "Ed25519",
                          value |-> Sign(g.key, canonicalBytes(t.receipt))]
    BY <2>1, <2>2, IssuedIs
  <2>4. DOMAIN t.signature = SignatureField
    BY <2>3 DEF SignatureField
  <2>5. DOMAIN t = {"receipt", "signature"}
    BY <2>3
  <2> QED
    BY <2>3, <2>4, <2>5
\* A changed body, with the signature as it was.
<1>2. ASSUME NEW b, BodyField \subseteq DOMAIN b, c.receipt = b, c.signature = s.signature
      PROVE  HasParts(c)
  BY <1>1, <1>2 DEF HasParts
<1>3. ASSUME NEW f, NEW v, c = With(s, "receipt", With(s.receipt, f, v))
      PROVE  HasParts(c)
  <2>1. PICK b : b = With(s.receipt, f, v)
    OBVIOUS
  <2>2. BodyField \subseteq DOMAIN b
    BY <1>1, <2>1 DEF With
  <2>3. c["receipt"] = b /\ c["signature"] = s["signature"]
    BY <1>1, <1>3, <2>1, WithIs
  <2> QED
    BY <1>2, <2>2, <2>3
\* A changed signature.
<1>4. ASSUME NEW g, SignatureField \subseteq DOMAIN g, c = With(s, "signature", g),
             g["value"] = Garbled \/ \E t \in issued : g["value"] = t.signature.value
      PROVE  HasParts(c)
  <2>1. c["receipt"] = s["receipt"] /\ c["signature"] = g
    BY <1>1, <1>4, WithIs
  <2> QED
    BY <1>1, <1>4, <2>1 DEF HasParts
<1>5. ASSUME NEW f, NEW v, c = With(s, "signature", With(s.signature, f, v)),
             f # "value" \/ v = Garbled
      PROVE  HasParts(c)
  <2>1. PICK g : g = With(s.signature, f, v)
    OBVIOUS
  <2>2. "value" \in SignatureField
    BY DEF SignatureField
  <2>3. SignatureField \subseteq DOMAIN g
    BY <1>1, <2>1 DEF With
  <2>4. g["value"] = Garbled \/ g["value"] = s.signature["value"]
    BY <1>1, <1>5, <2>1, <2>2, WithIs
  <2> QED
    BY <1>4, <1>5, <2>1, <2>3, <2>4
<1>6. CASE c = s
  BY <1>1, <1>2, <1>6
<1>7. CASE c = With(s, "note", "added")
  <2>1. c["receipt"] = s["receipt"] /\ c["signature"] = s["signature"]
    BY <1>1, <1>7, WithIs
  <2> QED
    BY <1>1, <1>2, <2>1
<1>8. CASE \E t \in issued : c = With(s, "signature", t.signature)
  BY <1>1, <1>4, <1>8
<1>9. \/ c = s \/ c = With(s, "note", "added")
      \/ \E f, v : c = With(s, "receipt", With(s.receipt, f, v))
      \/ \E t \in issued : c = With(s, "signature", t.signature)
      \/ \E f, v : c = With(s, "signature", With(s.signature, f, v)) /\ (f # "value" \/ v = Garbled)
  BY DEF Altered
<1> QED
  BY <1>3, <1>5, <1>6, <1>7, <1>8, <1>9

\* Only what was signed is accepted: the bytes tell every field the schema knows.
LEMMA ValidIsSigned ==
  ASSUME Archive, NEW c, HasParts(c), VerifyReceipt(c, keys) = "valid"
  PROVE  \E t \in issued : IsTrustedCopy(c, t)
<1>1. /\ SignedOk(c) /\ c.signature.value # Garbled /\ c.signature.algorithm = "Ed25519"
      /\ c.signature.keyId \in DOMAIN keys
      /\ c.signature.value = Sign(keys[c.signature.keyId], canonicalBytes(Parsed(c.receipt)))
  BY DEF VerifyReceipt, VerifierAccepts
<1>2. PICK t \in issued : c.signature.value = t.signature.value
  BY <1>1 DEF HasParts
<1>3. PICK g \in generated : IsIssued(t, g)
  BY DEF Archive, ReceiptsOk
<1>4. g \in [keyId : Names, key : Key]
  BY DEF Archive, KeysOk
<1>5. /\ IsObject(t.receipt) /\ DOMAIN t.receipt = BodyField /\ IsObject(t.receipt["settlement"])
      /\ t.signature = [keyId |-> g.keyId, algorithm |-> "Ed25519",
                        value |-> Sign(g.key, canonicalBytes(t.receipt))]
  BY <1>3, <1>4, IssuedIs
<1>6. t.signature.value = Sign(g.key, canonicalBytes(t.receipt))
  BY <1>5
<1>7. PICK b, d : b = Parsed(c.receipt) /\ d = t.receipt
  OBVIOUS
<1>8. Sign(keys[c.signature.keyId], canonicalBytes(b)) = Sign(g.key, canonicalBytes(d))
  BY <1>1, <1>2, <1>6, <1>7
<1>9. keys[c.signature.keyId] = g.key /\ canonicalBytes(b) = canonicalBytes(d)
  BY <1>8 DEF Sign
<1>10. IsObject(b) /\ DOMAIN b = BodyField /\ IsObject(b["settlement"])
  BY <1>7, ParsedIsObject
<1>11. "settlement" \in BodyField
  BY DEF BodyField
<1>12. b = d
  BY <1>5, <1>7, <1>9, <1>10, <1>11, BytesTell
<1>13. t.signature.value.key = g.key
  BY <1>6 DEF Sign
<1> QED
  BY <1>1, <1>2, <1>7, <1>9, <1>12, <1>13 DEF IsTrustedCopy

\* And all of it is accepted, by whoever has the key.
LEMMA SignedIsValid ==
  ASSUME Archive, NEW c, HasParts(c), NEW t \in issued, IsTrustedCopy(c, t)
  PROVE  VerifyReceipt(c, keys) = "valid"
<1>1. PICK g \in generated : IsIssued(t, g)
  BY DEF Archive, ReceiptsOk
<1>2. g \in [keyId : Names, key : Key]
  BY DEF Archive, KeysOk
<1>3. /\ BodyOk(t.receipt) /\ t.signature.value \notin {Bad, Garbled}
      /\ t.signature = [keyId |-> g.keyId, algorithm |-> "Ed25519",
                        value |-> Sign(g.key, canonicalBytes(t.receipt))]
  BY <1>1, <1>2, IssuedIs
<1>4. /\ Parsed(c.receipt) = t.receipt
      /\ c.signature.algorithm = "Ed25519" /\ c.signature.value = t.signature.value
      /\ c.signature.keyId \in DOMAIN keys /\ keys[c.signature.keyId] = t.signature.value.key
  BY DEF IsTrustedCopy
<1>5. BodyOk(c.receipt)
  BY <1>3, <1>4, ParsedOk DEF HasParts
<1>6. SignatureOk(c.signature)
  <2>1. c.signature.keyId # Bad
    BY <1>4, NamesAreGood DEF Archive, KeysOk
  <2> QED
    BY <1>3, <1>4, <2>1, SigningAssumption DEF HasParts, SignatureOk, SignatureField
<1>7. t.signature.value = Sign(g.key, canonicalBytes(t.receipt))
  BY <1>3
<1>8. t.signature.value.key = g.key
  BY <1>7 DEF Sign
<1>9. VerifierAccepts(keys, canonicalBytes(Parsed(c.receipt)), c.signature)
  BY <1>4, <1>7, <1>8 DEF VerifierAccepts
<1> QED
  BY <1>3, <1>4, <1>5, <1>6, <1>9 DEF VerifyReceipt, SignedOk

LEMMA ArchiveIsGenuine == Archive => OnlyIssuedVerify
BY CopiesHaveParts, ValidIsSigned, SignedIsValid DEF OnlyIssuedVerify

\* For receipts, keys and names of any kind and number, and whatever keys a
\* verifier is given: a receipt, or a copy of one that was changed or added to,
\* verifies exactly if it says what was signed and the verifier has the signer's
\* key under the id it names.
THEOREM OnlyIssuedReceiptsVerify == ArchiveSpec => []OnlyIssuedVerify
<1>1. ArchiveInit => Archive
  BY InitArchive
<1>2. Archive /\ [ArchiveNext]_archiveVars => Archive'
  BY StepArchive
<1>3. Archive => OnlyIssuedVerify
  BY ArchiveIsGenuine
<1> QED
  BY <1>1, <1>2, <1>3, PTL DEF ArchiveSpec

-----------------------------------------------------------------------------
(* Windows of time. *)

LEMMA MetricsTyped ==
  /\ MetricsInit => metrics \in Seq(PaymentMetric)
  /\ metrics \in Seq(PaymentMetric) /\ [MetricsNext]_metrics => (metrics \in Seq(PaymentMetric))'
<1>1. MetricsInit => metrics \in Seq(PaymentMetric)
  BY DEF MetricsInit
<1>2. ASSUME metrics \in Seq(PaymentMetric), NEW metric \in PaymentMetric, Record(metric)
      PROVE  metrics' \in Seq(PaymentMetric)
  BY <1>2, AppendProperties DEF Record
<1>3. metrics \in Seq(PaymentMetric) /\ UNCHANGED metrics => (metrics \in Seq(PaymentMetric))'
  OBVIOUS
<1> QED
  BY <1>1, <1>2, <1>3 DEF MetricsNext, Full

\* c is a, m characters long, and then b, of n.
IsConcat(c, a, m, b, n) ==
  /\ c \in Seq(Int) /\ Len(c) = m + n /\ DOMAIN c = 1 .. m + n
  /\ \A i \in 1 .. m : c[i] = a[i]
  /\ \A i \in 1 .. n : c[m + i] = b[i]

LEMMA ConcatIs ==
  ASSUME NEW a \in Seq(Int), NEW b \in Seq(Int)
  PROVE  IsConcat(a \o b, a, Len(a), b, Len(b))
<1>1. PICK c, m, n : m = Len(a) /\ n = Len(b) /\ c = a \o b
  OBVIOUS
<1> m \in Nat /\ n \in Nat
  BY <1>1, LenProperties
<1>2. /\ c \in Seq(Int) /\ Len(c) = m + n
      /\ \A i \in 1 .. m + n : c[i] = IF i <= m THEN a[i] ELSE b[i - m]
  BY <1>1, ConcatProperties
<1>3. DOMAIN c = 1 .. m + n
  BY <1>2, LenProperties
<1>4. \A i \in 1 .. m : c[i] = a[i]
  BY <1>2
<1>5. ASSUME NEW i \in 1 .. n PROVE c[m + i] = b[i]
  <2>1. PICK k \in 1 .. m + n : k = m + i
    OBVIOUS
  <2>2. ~(k <= m) /\ k - m = i
    BY <2>1
  <2> QED
    BY <1>2, <2>1, <2>2
<1> QED
  BY <1>1, <1>2, <1>3, <1>4, <1>5 DEF IsConcat

\* The characters of a text: those of stamp s, which has k digits.
IsText(t, s, k) ==
  /\ k \in Nat /\ k = Len(s.fraction) /\ DOMAIN s.fraction = 1 .. k
  /\ \A n \in 1 .. k : s.fraction[n] \in 0 .. 9
  /\ t[1] = s.second
  /\ k = 0 => DOMAIN t = 1 .. 3 /\ t[2] = ZoneCode(s.zone) /\ t[3] = s.offset
  /\ k > 0 => /\ DOMAIN t = 1 .. k + 4 /\ t[2] = 46
              /\ \A n \in 1 .. k : t[n + 2] = 48 + s.fraction[n]
              /\ t[k + 3] = ZoneCode(s.zone) /\ t[k + 4] = s.offset

LEMMA TextIs ==
  ASSUME NEW s \in Stamps
  PROVE  IsText(Text(s), s, Len(s.fraction))
<1>1. s.fraction \in Seq(0 .. 9)
  BY MetricsAssumption
<1>2. PICK k \in Nat : k = Len(s.fraction) /\ s.fraction \in [1 .. k -> 0 .. 9]
  BY <1>1, LenProperties
<1>3. PICK head, digits, tail, dot :
        /\ head = <<s.second>> /\ tail = <<ZoneCode(s.zone), s.offset>> /\ dot = <<46>>
        /\ digits = [n \in 1 .. k |-> 48 + s.fraction[n]]
  OBVIOUS
<1>4. s.second \in Int /\ s.offset \in Int /\ ZoneCode(s.zone) \in Int
  BY MetricsAssumption DEF ZoneCode
<1>5. head \in Seq(Int) /\ Len(head) = 1 /\ head[1] = s.second
  BY <1>3, <1>4
<1>6. /\ tail \in Seq(Int) /\ Len(tail) = 2
      /\ tail[1] = ZoneCode(s.zone) /\ tail[2] = s.offset
  BY <1>3, <1>4
<1>7. digits \in Seq(Int) /\ Len(digits) = k /\ \A n \in 1 .. k : digits[n] = 48 + s.fraction[n]
  <2>1. \A n \in 1 .. k : s.fraction[n] \in Int
    BY <1>2
  <2>2. digits \in [1 .. k -> Int]
    BY <1>3, <2>1
  <2> QED
    BY <1>3, <2>2
<1>8. dot \in Seq(Int) /\ Len(dot) = 1 /\ dot[1] = 46
  BY <1>3
<1>9. DOMAIN s.fraction = 1 .. k /\ \A n \in 1 .. k : s.fraction[n] \in 0 .. 9
  BY <1>2
<1>10. CASE k = 0
  <2>1. s.fraction = <<>>
    BY <1>1, <1>2, <1>10, EmptySeq
  <2>2. head \o <<>> = head
    BY <1>5, ConcatEmptySeq
  <2>3. PICK t : t = head \o tail
    OBVIOUS
  <2>4. Text(s) = t
    BY <1>3, <2>1, <2>2, <2>3 DEF Text
  <2>5. IsConcat(t, head, 1, tail, 2)
    BY <1>5, <1>6, <2>3, ConcatIs
  <2>6. DOMAIN t = 1 .. 3 /\ t[1] = s.second
    BY <1>5, <2>5 DEF IsConcat
  <2>7. t[1 + 1] = tail[1] /\ t[1 + 2] = tail[2]
    BY <2>5 DEF IsConcat
  <2>8. t[2] = ZoneCode(s.zone) /\ t[3] = s.offset
    BY <1>6, <2>7
  <2> QED
    BY <1>2, <1>9, <1>10, <2>4, <2>6, <2>8 DEF IsText
<1>11. CASE k > 0
  <2>1. s.fraction # <<>>
    BY <1>2, <1>11
  <2>2. PICK middle, front, t : middle = dot \o digits /\ front = head \o middle /\ t = front \o tail
    OBVIOUS
  <2>3. Text(s) = t
    <3>1. [n \in DOMAIN s.fraction |-> DigitCode(s.fraction[n])] = digits
      BY <1>3, <1>9 DEF DigitCode
    <3> QED
      BY <1>3, <2>1, <2>2, <3>1 DEF Text, Dot
  <2>4. IsConcat(middle, dot, 1, digits, k)
    BY <1>7, <1>8, <2>2, ConcatIs
  <2>5. PICK m \in Nat : m = 1 + k
    OBVIOUS
  <2>6. IsConcat(front, head, 1, middle, m)
    <3>1. middle \in Seq(Int) /\ Len(middle) = m
      BY <2>4, <2>5 DEF IsConcat
    <3> QED
      BY <1>5, <2>2, <3>1, ConcatIs
  <2>7. PICK f \in Nat : f = 1 + m
    OBVIOUS
  <2>8. IsConcat(t, front, f, tail, 2)
    <3>1. front \in Seq(Int) /\ Len(front) = f
      BY <2>6, <2>7 DEF IsConcat
    <3> QED
      BY <1>6, <2>2, <3>1, ConcatIs
  <2>9. DOMAIN t = 1 .. k + 4
    BY <2>5, <2>7, <2>8 DEF IsConcat
  <2>10. t[1] = s.second
    BY <1>5, <2>6, <2>7, <2>8 DEF IsConcat
  <2>11. t[2] = 46
    <3>1. 2 \in 1 .. f /\ 1 \in 1 .. m
      BY <2>5, <2>7
    <3>2. t[2] = front[2] /\ front[1 + 1] = middle[1]
      BY <2>6, <2>8, <3>1 DEF IsConcat
    <3> QED
      BY <1>8, <2>4, <3>2 DEF IsConcat
  <2>12. ASSUME NEW n \in 1 .. k PROVE t[n + 2] = 48 + s.fraction[n]
    <3>1. PICK i \in Nat : i = 1 + n
      OBVIOUS
    <3>2. i \in 1 .. m /\ 1 + i \in 1 .. f /\ n + 2 = 1 + i
      BY <2>5, <2>7, <3>1
    <3>3. t[1 + i] = front[1 + i] /\ front[1 + i] = middle[i]
      BY <2>6, <2>8, <3>2 DEF IsConcat
    <3>4. middle[i] = digits[n]
      BY <2>4, <3>1 DEF IsConcat
    <3> QED
      BY <1>7, <3>2, <3>3, <3>4
  <2>13. t[k + 3] = ZoneCode(s.zone) /\ t[k + 4] = s.offset
    <3>1. t[f + 1] = tail[1] /\ t[f + 2] = tail[2]
      BY <2>8 DEF IsConcat
    <3>2. k + 3 = f + 1 /\ k + 4 = f + 2
      BY <2>5, <2>7
    <3> QED
      BY <1>6, <3>1, <3>2
  <2> QED
    BY <1>2, <1>9, <1>11, <2>3, <2>9, <2>10, <2>11, <2>12, <2>13 DEF IsText
<1> QED
  BY <1>10, <1>11

\* Texts sort by the second they print first.
LEMMA TextsBySecond ==
  ASSUME NEW a \in Stamps, NEW b \in Stamps
  PROVE  /\ a.second < b.second => SortsBelow(Text(a), Text(b))
         /\ SortsBelow(Text(a), Text(b)) => a.second <= b.second
<1>1. a.second \in Nat /\ b.second \in Nat
  BY MetricsAssumption
<1>2. PICK x, y : x = Text(a) /\ y = Text(b)
  OBVIOUS
<1>3. PICK k : IsText(x, a, k)
  BY <1>2, TextIs
<1>4. PICK m : IsText(y, b, m)
  BY <1>2, TextIs
<1>5. 1 \in DOMAIN x \cap DOMAIN y /\ \A n \in DOMAIN x \cap DOMAIN y : n \in Nat /\ n >= 1
  BY <1>3, <1>4 DEF IsText
<1>6. x[1] = a.second /\ y[1] = b.second
  BY <1>3, <1>4 DEF IsText
<1>7. a.second < b.second => SortsBelow(x, y)
  BY <1>5, <1>6 DEF SortsBelow
<1>8. SortsBelow(x, y) => a.second <= b.second
  <2> SUFFICES ASSUME SortsBelow(x, y) PROVE a.second <= b.second
    OBVIOUS
  <2>1. PICK n \in DOMAIN x \cap DOMAIN y : x[n] < y[n] /\ \A i \in 1 .. n - 1 : x[i] = y[i]
    BY DEF SortsBelow
  <2>2. CASE n = 1
    BY <1>1, <1>6, <2>1, <2>2
  <2>3. CASE n # 1
    <3>1. 1 \in 1 .. n - 1
      BY <1>5, <2>3
    <3> QED
      BY <1>1, <1>6, <2>1, <3>1
  <2> QED
    BY <2>2, <2>3
<1> QED
  BY <1>2, <1>7, <1>8

\* Texts written alike sort as the times they stand for.
LEMMA AlikeByTime ==
  ASSUME NEW a \in Stamps, NEW b \in Stamps, WrittenAlike(a, b)
  PROVE  SortsBelow(Text(a), Text(b)) <=> Earlier(a, b)
<1>1. PICK k \in Nat : IsText(Text(a), a, k)
  BY TextIs DEF IsText
<1>2. IsText(Text(b), b, k)
  <2>1. Len(b.fraction) = k
    BY <1>1 DEF WrittenAlike, IsText
  <2> QED
    BY <2>1, TextIs
<1>3. PICK x, y, zone, offset :
        /\ x = Text(a) /\ y = Text(b) /\ zone = ZoneCode(a.zone) /\ offset = a.offset
  OBVIOUS
<1>4. /\ zone = ZoneCode(b.zone) /\ offset = b.offset
      /\ a.second \in Int /\ b.second \in Int /\ zone \in Int /\ offset \in Int
  BY <1>3, MetricsAssumption DEF WrittenAlike, ZoneCode
<1>5. UtcSecond(a) < UtcSecond(b) <=> a.second < b.second
  <2>1. East(a) = East(b) /\ East(a) \in Int
    BY <1>3, <1>4 DEF WrittenAlike, East
  <2> QED
    BY <1>4, <2>1 DEF UtcSecond
<1>6. UtcSecond(a) = UtcSecond(b) <=> a.second = b.second
  <2>1. East(a) = East(b) /\ East(a) \in Int
    BY <1>3, <1>4 DEF WrittenAlike, East
  <2> QED
    BY <1>4, <2>1 DEF UtcSecond
<1>7. Earlier(a, b) <=>
        \/ a.second < b.second
        \/ /\ a.second = b.second
           /\ \E n \in 1 .. k : a.fraction[n] < b.fraction[n]
                               /\ \A i \in 1 .. n - 1 : a.fraction[i] = b.fraction[i]
  <2>1. \A n \in 1 .. k : Digit(a, n) = a.fraction[n] /\ Digit(b, n) = b.fraction[n]
    BY <1>1, <1>2 DEF Digit, IsText
  <2>2. \A n \in 1 .. k : \A i \in 1 .. n - 1 : i \in 1 .. k
    OBVIOUS
  <2>3. DOMAIN b.fraction = 1 .. k
    BY <1>2 DEF IsText
  <2>4. \A n \in 1 .. k :
          (\A i \in 1 .. n - 1 : Digit(a, i) = Digit(b, i)) <=>
          (\A i \in 1 .. n - 1 : a.fraction[i] = b.fraction[i])
    BY <2>1, <2>2
  <2>5. \A n \in 1 .. k :
          (Digit(a, n) < Digit(b, n) /\ \A i \in 1 .. n - 1 : Digit(a, i) = Digit(b, i)) <=>
          (a.fraction[n] < b.fraction[n] /\ \A i \in 1 .. n - 1 : a.fraction[i] = b.fraction[i])
    BY <2>1, <2>4
  <2>6. Earlier(a, b) <=>
          \/ a.second < b.second
          \/ /\ a.second = b.second
             /\ \E n \in 1 .. k : Digit(a, n) < Digit(b, n)
                                 /\ \A i \in 1 .. n - 1 : Digit(a, i) = Digit(b, i)
    BY <1>5, <1>6, <2>3 DEF Earlier
  <2>7. ASSUME \E n \in 1 .. k : Digit(a, n) < Digit(b, n)
                                /\ \A i \in 1 .. n - 1 : Digit(a, i) = Digit(b, i)
        PROVE  \E n \in 1 .. k : a.fraction[n] < b.fraction[n]
                                /\ \A i \in 1 .. n - 1 : a.fraction[i] = b.fraction[i]
    <3>1. PICK n \in 1 .. k : Digit(a, n) < Digit(b, n)
                              /\ \A i \in 1 .. n - 1 : Digit(a, i) = Digit(b, i)
      BY <2>7, Zenon
    <3>2. a.fraction[n] < b.fraction[n] /\ \A i \in 1 .. n - 1 : a.fraction[i] = b.fraction[i]
      BY <2>5, <3>1, Zenon
    <3> QED
      BY <3>2, Zenon
  <2>8. ASSUME \E n \in 1 .. k : a.fraction[n] < b.fraction[n]
                                /\ \A i \in 1 .. n - 1 : a.fraction[i] = b.fraction[i]
        PROVE  \E n \in 1 .. k : Digit(a, n) < Digit(b, n)
                                /\ \A i \in 1 .. n - 1 : Digit(a, i) = Digit(b, i)
    <3>1. PICK n \in 1 .. k : a.fraction[n] < b.fraction[n]
                              /\ \A i \in 1 .. n - 1 : a.fraction[i] = b.fraction[i]
      BY <2>8, Zenon
    <3>2. Digit(a, n) < Digit(b, n) /\ \A i \in 1 .. n - 1 : Digit(a, i) = Digit(b, i)
      BY <2>5, <3>1, Zenon
    <3> QED
      BY <3>2, Zenon
  <2> QED
    BY <2>6, <2>7, <2>8, Zenon
<1>8. \A n \in 1 .. k : a.fraction[n] \in Int /\ b.fraction[n] \in Int
  <2>1. \A n \in 1 .. k : a.fraction[n] \in 0 .. 9
    BY <1>1, Zenon DEF IsText
  <2>2. \A n \in 1 .. k : b.fraction[n] \in 0 .. 9
    BY <1>2, Zenon DEF IsText
  <2>3. \A d \in 0 .. 9 : d \in Int
    OBVIOUS
  <2> QED
    BY <2>1, <2>2, <2>3, Zenon
<1>9. CASE k = 0
  <2>1. DOMAIN x = 1 .. 3 /\ x[1] = a.second /\ x[2] = zone /\ x[3] = offset
    BY <1>1, <1>3, <1>9 DEF IsText
  <2>2. DOMAIN y = 1 .. 3 /\ y[1] = b.second /\ y[2] = zone /\ y[3] = offset
    BY <1>2, <1>3, <1>4, <1>9 DEF IsText
  <2>3. SortsBelow(x, y) <=> a.second < b.second
    BY <1>4, <2>1, <2>2 DEF SortsBelow
  <2>4. 1 .. k = {}
    BY <1>9
  <2> QED
    BY <1>3, <1>7, <2>3, <2>4
<1>10. CASE k > 0
  <2>1. /\ DOMAIN x = 1 .. k + 4 /\ x[1] = a.second /\ x[2] = 46 /\ x[k + 3] = zone /\ x[k + 4] = offset
        /\ \A n \in 1 .. k : x[n + 2] = 48 + a.fraction[n]
    BY <1>1, <1>3, <1>10 DEF IsText
  <2>2. /\ DOMAIN y = 1 .. k + 4 /\ y[1] = b.second /\ y[2] = 46 /\ y[k + 3] = zone /\ y[k + 4] = offset
        /\ \A n \in 1 .. k : y[n + 2] = 48 + b.fraction[n]
    BY <1>2, <1>3, <1>4, <1>10 DEF IsText
  <2>3. ASSUME SortsBelow(x, y) PROVE Earlier(a, b)
    <3>1. PICK n \in 1 .. k + 4 : x[n] < y[n] /\ \A i \in 1 .. n - 1 : x[i] = y[i]
      BY <2>1, <2>2, <2>3 DEF SortsBelow
    <3>2. CASE n = 1
      BY <1>7, <2>1, <2>2, <3>1, <3>2
    <3>3. CASE n \in 3 .. k + 2
      <4>1. PICK m \in 1 .. k : n = m + 2
        <5>1. n - 2 \in 1 .. k /\ n = (n - 2) + 2
          BY <3>3
        <5> QED
          BY <5>1
      <4>2. a.second = b.second
        <5>1. 1 \in 1 .. n - 1
          BY <4>1
        <5> QED
          BY <2>1, <2>2, <3>1, <5>1
      <4>3. a.fraction[m] < b.fraction[m]
        <5>1. /\ a.fraction[m] \in Int /\ b.fraction[m] \in Int
              /\ x[n] = 48 + a.fraction[m] /\ y[n] = 48 + b.fraction[m]
          BY <1>8, <2>1, <2>2, <4>1
        <5> QED
          BY <3>1, <5>1
      <4>4. ASSUME NEW i \in 1 .. m - 1 PROVE a.fraction[i] = b.fraction[i]
        <5>1. i \in 1 .. k /\ i + 2 \in 1 .. n - 1
          BY <4>1
        <5>2. x[i + 2] = y[i + 2]
          BY <3>1, <5>1
        <5>3. /\ a.fraction[i] \in Int /\ b.fraction[i] \in Int
              /\ x[i + 2] = 48 + a.fraction[i] /\ y[i + 2] = 48 + b.fraction[i]
          BY <1>8, <2>1, <2>2, <5>1
        <5>4. PICK u, v : u = a.fraction[i] /\ v = b.fraction[i]
          OBVIOUS
        <5>5. u \in Int /\ v \in Int /\ 48 + u = 48 + v
          BY <5>2, <5>3, <5>4
        <5>6. u = v
          BY <5>5
        <5> QED
          BY <5>4, <5>6
      <4> QED
        BY <1>7, <4>2, <4>3, <4>4
    <3>4. CASE n = 2 \/ n = k + 3 \/ n = k + 4
      <4>1. x[n] = y[n] /\ y[n] \in Int
        BY <1>4, <2>1, <2>2, <3>4
      <4> QED
        BY <3>1, <4>1
    <3>5. n = 1 \/ n = 2 \/ n \in 3 .. k + 2 \/ n = k + 3 \/ n = k + 4
      OBVIOUS
    <3> QED
      BY <3>2, <3>3, <3>4, <3>5
  <2>4. ASSUME Earlier(a, b) PROVE SortsBelow(x, y)
    <3>1. CASE a.second < b.second
      <4>1. 1 \in DOMAIN x \cap DOMAIN y /\ x[1] < y[1] /\ \A i \in 1 .. 1 - 1 : x[i] = y[i]
        BY <2>1, <2>2, <3>1
      <4> QED
        BY <4>1 DEF SortsBelow
    <3>2. CASE ~(a.second < b.second)
      <4>1. a.second = b.second
        BY <1>7, <2>4, <3>2
      <4>2. PICK m \in 1 .. k : a.fraction[m] < b.fraction[m]
                               /\ \A i \in 1 .. m - 1 : a.fraction[i] = b.fraction[i]
        BY <1>7, <2>4, <3>2
      <4>3. PICK n \in 1 .. k + 4 : n = m + 2
        OBVIOUS
      <4>4. x[n] < y[n]
        <5>1. /\ a.fraction[m] \in Int /\ b.fraction[m] \in Int
              /\ x[n] = 48 + a.fraction[m] /\ y[n] = 48 + b.fraction[m]
          BY <1>8, <2>1, <2>2, <4>3
        <5> QED
          BY <4>2, <5>1
      <4>5. ASSUME NEW i \in 1 .. n - 1 PROVE x[i] = y[i]
        <5>1. CASE i = 1 \/ i = 2
          BY <2>1, <2>2, <4>1, <5>1
        <5>2. CASE ~(i = 1 \/ i = 2)
          <6>1. PICK j \in 1 .. m - 1 : i = j + 2
            <7>1. i - 2 \in 1 .. m - 1 /\ i = (i - 2) + 2
              BY <4>3, <5>2
            <7> QED
              BY <7>1
          <6>2. j \in 1 .. k
            OBVIOUS
          <6> QED
            BY <2>1, <2>2, <4>2, <6>1, <6>2
        <5> QED
          BY <5>1, <5>2
      <4>6. n \in DOMAIN x \cap DOMAIN y
        BY <2>1, <2>2
      <4> QED
        BY <4>4, <4>5, <4>6 DEF SortsBelow
    <3> QED
      BY <3>1, <3>2
  <2> QED
    BY <1>3, <2>3, <2>4
<1> QED
  BY <1>9, <1>10

LEMMA TypedIsByTime == metrics \in Seq(PaymentMetric) => WindowErrsByNotationOnly
<1> SUFFICES ASSUME metrics \in Seq(PaymentMetric), NEW s \in Stamps, NEW i \in DOMAIN metrics
             PROVE  LET at     == metrics[i].at
                        after  == Matches(metrics[i], [Everything EXCEPT !.from = s])
                        before == Matches(metrics[i], [Everything EXCEPT !.to = s])
                    IN /\ WrittenAlike(at, s) => (after <=> ~Earlier(at, s)) /\ (before <=> ~Earlier(s, at))
                       /\ after \/ ~before => UtcSecond(at) + Apart(at, s) >= UtcSecond(s)
                       /\ before \/ ~after => UtcSecond(at) <= UtcSecond(s) + Apart(at, s)
  BY DEF WindowErrsByNotationOnly
<1>1. PICK at \in Stamps : at = metrics[i].at
  <2>1. metrics[i] \in PaymentMetric
    BY ElementOfSeq, LenProperties
  <2> QED
    BY <2>1 DEF PaymentMetric
<1>2. s # Unset
  BY MetricsAssumption
<1>3. Matches(metrics[i], [Everything EXCEPT !.from = s]) <=> ~SortsBelow(Text(at), Text(s))
  BY <1>1, <1>2 DEF Matches, Everything, InWindow
<1>4. Matches(metrics[i], [Everything EXCEPT !.to = s]) <=> ~SortsBelow(Text(s), Text(at))
  BY <1>1, <1>2 DEF Matches, Everything, InWindow
<1>5. WrittenAlike(at, s) =>
        /\ SortsBelow(Text(at), Text(s)) <=> Earlier(at, s)
        /\ SortsBelow(Text(s), Text(at)) <=> Earlier(s, at)
  <2>1. WrittenAlike(at, s) => WrittenAlike(s, at)
    BY DEF WrittenAlike
  <2> QED
    BY <2>1, AlikeByTime
<1>6. /\ ~SortsBelow(Text(at), Text(s)) \/ SortsBelow(Text(s), Text(at)) => s.second <= at.second
      /\ ~SortsBelow(Text(s), Text(at)) \/ SortsBelow(Text(at), Text(s)) => at.second <= s.second
  <2>1. s.second \in Nat /\ at.second \in Nat
    BY MetricsAssumption
  <2>2. /\ at.second < s.second => SortsBelow(Text(at), Text(s))
        /\ SortsBelow(Text(at), Text(s)) => at.second <= s.second
    BY TextsBySecond
  <2>3. /\ s.second < at.second => SortsBelow(Text(s), Text(at))
        /\ SortsBelow(Text(s), Text(at)) => s.second <= at.second
    BY TextsBySecond
  <2> QED
    BY <2>1, <2>2, <2>3
<1>7. /\ s.second <= at.second => UtcSecond(at) + Apart(at, s) >= UtcSecond(s)
      /\ at.second <= s.second => UtcSecond(at) <= UtcSecond(s) + Apart(at, s)
  <2>1. s.second \in Nat /\ at.second \in Nat /\ East(s) \in Int /\ East(at) \in Int
    BY MetricsAssumption DEF East
  <2> QED
    BY <2>1 DEF UtcSecond, Apart
<1> QED
  BY <1>1, <1>3, <1>4, <1>5, <1>6, <1>7

\* For stamps of any zone and any number of digits: a window holds what its
\* bounds say, but for what two ways of writing a time make of them.
THEOREM WindowsAreByTime == MetricsSpec => []WindowErrsByNotationOnly
<1>1. MetricsInit => metrics \in Seq(PaymentMetric)
  BY MetricsTyped
<1>2. metrics \in Seq(PaymentMetric) /\ [MetricsNext]_metrics => (metrics \in Seq(PaymentMetric))'
  BY MetricsTyped
<1>3. metrics \in Seq(PaymentMetric) => WindowErrsByNotationOnly
  BY TypedIsByTime
<1> QED
  BY <1>1, <1>2, <1>3, PTL DEF MetricsSpec

-----------------------------------------------------------------------------
(* The sums of the metrics. *)

Fields == {"model", "payer", "payee"}
AmountsOf(s) == [i \in DOMAIN s |-> s[i].amount]

\* The places in S whose amount is an integer, and what the loop has when it
\* has taken S.
Summed(s, S) == {i \in S : s[i].amount # NotInteger}
SumOver(s, S) == SumFunctionOnSet(AmountsOf(s), S)
KeyedBy(s, S, f, k) == {i \in S : s[i][f] = k}
RollupOf(s, S, f) ==
  [k \in {s[i][f] : i \in Summed(s, S)} |-> SumOver(s, KeyedBy(s, Summed(s, S), f, k))]
TotalsOf(s, S) ==
  [total |-> SumOver(s, Summed(s, S)), by |-> [f \in Fields |-> RollupOf(s, S, f)]]

LEMMA SummedOk ==
  ASSUME NEW s \in Seq(PaymentMetric), NEW S \in SUBSET DOMAIN s
  PROVE  /\ IsFiniteSet(DOMAIN s) /\ IsFiniteSet(S) /\ IsFiniteSet(Summed(s, S)) /\ Summed(s, S) \subseteq S
         /\ \A i \in Summed(s, S) : AmountsOf(s)[i] \in Int /\ AmountsOf(s)[i] = s[i].amount
         /\ SumOver(s, Summed(s, S)) \in Int
         /\ \A f, k : SumOver(s, KeyedBy(s, Summed(s, S), f, k)) \in Int
<1>1. IsFiniteSet(DOMAIN s)
  <2>1. DOMAIN s = 1 .. Len(s) /\ Len(s) \in Nat
    BY LenProperties
  <2> QED
    BY <2>1, UpToN
<1>2. IsFiniteSet(S) /\ Summed(s, S) \in SUBSET S
  BY <1>1, FS_Subset DEF Summed
<1>3. IsFiniteSet(Summed(s, S))
  BY <1>2, FS_Subset
<1>4. \A i \in Summed(s, S) : AmountsOf(s)[i] \in Int /\ AmountsOf(s)[i] = s[i].amount
  <2> SUFFICES ASSUME NEW i \in Summed(s, S)
               PROVE  AmountsOf(s)[i] \in Int /\ AmountsOf(s)[i] = s[i].amount
    OBVIOUS
  <2>1. i \in DOMAIN s /\ s[i].amount # NotInteger
    BY DEF Summed
  <2>2. s[i] \in PaymentMetric
    BY <2>1, ElementOfSeq, LenProperties
  <2>3. s[i].amount \in Amounts
    BY <2>2 DEF PaymentMetric
  <2>4. s[i].amount \in Int
    BY <2>1, <2>3, MetricsAssumption
  <2> QED
    BY <2>1, <2>4 DEF AmountsOf
<1>5. \A W \in SUBSET Summed(s, S) : SumOver(s, W) \in Int
  <2> SUFFICES ASSUME NEW W \in SUBSET Summed(s, S) PROVE SumOver(s, W) \in Int
    OBVIOUS
  <2>1. IsFiniteSet(W)
    BY <1>3, FS_Subset
  <2> QED
    BY <1>4, <2>1, SumType DEF SumOver
<1>6. \A f, k : KeyedBy(s, Summed(s, S), f, k) \in SUBSET Summed(s, S)
  BY DEF KeyedBy
<1> QED
  BY <1>1, <1>2, <1>3, <1>4, <1>5, <1>6

LEMMA NothingSummed ==
  ASSUME NEW s
  PROVE  TotalsOf(s, {}) = NoTotals
<1>1. Summed(s, {}) = {}
  BY DEF Summed
<1>2. SumOver(s, {}) = 0
  BY SumEmpty DEF SumOver
<1>3. \A f \in Fields : RollupOf(s, {}, f) = [k \in {} |-> 0]
  <2> SUFFICES ASSUME NEW f \in Fields PROVE RollupOf(s, {}, f) = [k \in {} |-> 0]
    OBVIOUS
  <2>1. {s[i][f] : i \in Summed(s, {})} = {}
    BY <1>1
  <2> QED
    BY <2>1 DEF RollupOf
<1>4. [f \in Fields |-> RollupOf(s, {}, f)] = [f \in Fields |-> [k \in {} |-> 0]]
  BY <1>3
<1> QED
  BY <1>1, <1>2, <1>4 DEF TotalsOf, NoTotals, Fields

\* One round of the loop takes one place more.
LEMMA RollupAdds ==
  ASSUME NEW s \in Seq(PaymentMetric), NEW S \in SUBSET DOMAIN s, NEW x \in S, x \in Summed(s, S),
         NEW rest, rest = S \ {x}, NEW f \in Fields
  PROVE  RollupOf(s, S, f) = AddTo(RollupOf(s, rest, f), s[x][f], s[x].amount)
<1>1. PICK V, W, c, amount : V = Summed(s, S) /\ W = Summed(s, rest) /\ c = s[x][f] /\ amount = s[x].amount
  OBVIOUS
<1>2. V = W \cup {x} /\ x \notin W /\ x \in V
  BY <1>1 DEF Summed
<1>3. rest \in SUBSET DOMAIN s
  OBVIOUS
<1>4. /\ IsFiniteSet(W) /\ (\A i \in V : AmountsOf(s)[i] \in Int) /\ AmountsOf(s)[x] = amount
      /\ \A k : SumOver(s, KeyedBy(s, W, f, k)) \in Int
  BY <1>1, <1>2, <1>3, SummedOk
<1>5. PICK before : before = RollupOf(s, rest, f)
  OBVIOUS
<1>6. before = [k \in {s[i][f] : i \in W} |-> SumOver(s, KeyedBy(s, W, f, k))]
  BY <1>1, <1>5 DEF RollupOf
<1>7. {s[i][f] : i \in V} = DOMAIN before \cup {c}
  <2>1. DOMAIN before = {s[i][f] : i \in W}
    BY <1>6
  <2> QED
    BY <1>1, <1>2, <2>1
<1>8. ASSUME NEW k \in DOMAIN before \cup {c}
      PROVE  SumOver(s, KeyedBy(s, V, f, k)) =
               (IF k \in DOMAIN before THEN before[k] ELSE 0) + (IF k = c THEN amount ELSE 0)
  <2>1. PICK A : A = KeyedBy(s, W, f, k)
    OBVIOUS
  <2>2. A \in SUBSET W /\ x \notin A
    BY <1>2, <2>1 DEF KeyedBy
  <2>3. IsFiniteSet(A) /\ (\A i \in A : AmountsOf(s)[i] \in Int) /\ amount \in Int
    BY <1>2, <1>4, <2>2, FS_Subset
  <2>4. SumOver(s, A) = IF k \in DOMAIN before THEN before[k] ELSE 0
    <3>1. CASE k \in DOMAIN before
      BY <1>6, <2>1, <3>1
    <3>2. CASE k \notin DOMAIN before
      <4>1. \A i \in W : s[i][f] # k
        BY <1>6, <3>2
      <4>2. A = {}
        BY <2>1, <4>1 DEF KeyedBy
      <4> QED
        BY <3>2, <4>2, SumEmpty DEF SumOver
    <3> QED
      BY <3>1, <3>2
  <2>5. CASE k = c
    <3>1. KeyedBy(s, V, f, k) = A \cup {x}
      BY <1>1, <1>2, <2>1, <2>5 DEF KeyedBy
    <3>2. SumFunctionOnSet(AmountsOf(s), A \cup {x}) = AmountsOf(s)[x] + SumFunctionOnSet(AmountsOf(s), A)
      BY <1>4, <2>2, <2>3, SumAdd
    <3>3. SumOver(s, KeyedBy(s, V, f, k)) = amount + SumOver(s, A) /\ SumOver(s, A) \in Int
      BY <1>4, <2>1, <3>1, <3>2 DEF SumOver
    <3> QED
      BY <2>3, <2>4, <2>5, <3>3
  <2>6. CASE k # c
    <3>1. KeyedBy(s, V, f, k) = A
      BY <1>1, <1>2, <2>1, <2>6 DEF KeyedBy
    <3>2. SumOver(s, A) \in Int
      BY <1>4, <2>1
    <3> QED
      BY <2>4, <2>6, <3>1, <3>2
  <2> QED
    BY <2>5, <2>6
<1>9. RollupOf(s, S, f) = [k \in DOMAIN before \cup {c} |-> SumOver(s, KeyedBy(s, V, f, k))]
  BY <1>1, <1>7 DEF RollupOf
<1>10. AddTo(before, c, amount) =
         [k \in DOMAIN before \cup {c} |->
            (IF k \in DOMAIN before THEN before[k] ELSE 0) + (IF k = c THEN amount ELSE 0)]
  BY DEF AddTo
<1>11. RollupOf(s, S, f) = AddTo(before, c, amount)
  BY <1>8, <1>9, <1>10, Zenon
<1> QED
  BY <1>1, <1>5, <1>11

LEMMA TotalsAdd ==
  ASSUME NEW s \in Seq(PaymentMetric), NEW S \in SUBSET DOMAIN s, NEW x \in S,
         NEW rest, rest = S \ {x}
  PROVE  TotalsOf(s, S) = AddMetric(TotalsOf(s, rest), s[x])
<1>1. CASE s[x].amount = NotInteger
  <2>1. Summed(s, S) = Summed(s, rest)
    BY <1>1 DEF Summed
  <2>2. \A f \in Fields : RollupOf(s, S, f) = RollupOf(s, rest, f)
    BY <2>1 DEF RollupOf
  <2>3. TotalsOf(s, S) = TotalsOf(s, rest)
    BY <2>1, <2>2 DEF TotalsOf
  <2>4. AddMetric(TotalsOf(s, rest), s[x]) = TotalsOf(s, rest)
    BY <1>1 DEF AddMetric
  <2> QED
    BY <2>3, <2>4
<1>2. CASE s[x].amount # NotInteger
  <2>1. x \in Summed(s, S)
    BY <1>2 DEF Summed
  <2>2. PICK V, W : V = Summed(s, S) /\ W = Summed(s, rest)
    OBVIOUS
  <2>3. W = V \ {x} /\ x \in V
    BY <2>1, <2>2 DEF Summed
  <2>4. IsFiniteSet(V) /\ (\A i \in V : AmountsOf(s)[i] \in Int /\ AmountsOf(s)[i] = s[i].amount)
    BY <2>2, SummedOk
  <2>5. SumFunctionOnSet(AmountsOf(s), V) = AmountsOf(s)[x] + SumFunctionOnSet(AmountsOf(s), V \ {x})
    BY <2>3, <2>4, SumRemove
  <2>6. SumOver(s, V) = s[x].amount + SumOver(s, W)
    BY <2>3, <2>4, <2>5 DEF SumOver
  <2>7. SumOver(s, W) \in Int /\ s[x].amount \in Int
    <3>1. rest \in SUBSET DOMAIN s
      OBVIOUS
    <3> QED
      BY <2>2, <2>3, <2>4, <3>1, SummedOk
  <2>8. SumOver(s, V) = SumOver(s, W) + s[x].amount
    BY <2>6, <2>7
  <2>9. \A f \in Fields : RollupOf(s, S, f) = AddTo(RollupOf(s, rest, f), s[x][f], s[x].amount)
    BY <2>1, RollupAdds
  <2>10. PICK T : T = TotalsOf(s, rest)
    OBVIOUS
  <2>11. T.total = SumOver(s, W) /\ DOMAIN T.by = Fields /\ \A f \in Fields : T.by[f] = RollupOf(s, rest, f)
    BY <2>2, <2>10 DEF TotalsOf
  <2>12. AddMetric(T, s[x]) =
           [total |-> T.total + s[x].amount,
            by |-> [f \in DOMAIN T.by |-> AddTo(T.by[f], s[x][f], s[x].amount)]]
    BY <1>2 DEF AddMetric
  <2>13. [f \in DOMAIN T.by |-> AddTo(T.by[f], s[x][f], s[x].amount)] = [f \in Fields |-> RollupOf(s, S, f)]
    BY <2>9, <2>11
  <2>14. TotalsOf(s, S) = [total |-> SumOver(s, V), by |-> [f \in Fields |-> RollupOf(s, S, f)]]
    BY <2>2 DEF TotalsOf
  <2> QED
    BY <2>8, <2>10, <2>11, <2>12, <2>13, <2>14
<1> QED
  BY <1>1, <1>2

LEMMA MaxIs ==
  ASSUME NEW n \in Nat, NEW S \in SUBSET (1 .. n), S # {}
  PROVE  Max(S) \in S
BY GreatestNumber DEF Max

\* What the fold's recursive function satisfies.
IsTotalling(F, s) ==
  F = [S \in SUBSET DOMAIN s |-> IF S = {} THEN NoTotals ELSE AddMetric(F[S \ {Max(S)}], s[Max(S)])]

LEMMA TotallingExists ==
  ASSUME NEW s \in Seq(PaymentMetric)
  PROVE  IsTotalling([S \in SUBSET DOMAIN s |-> TotalsOf(s, S)], s)
<1>1. PICK F : F = [S \in SUBSET DOMAIN s |-> TotalsOf(s, S)]
  OBVIOUS
<1>2. \A S \in SUBSET DOMAIN s :
        F[S] = IF S = {} THEN NoTotals ELSE AddMetric(F[S \ {Max(S)}], s[Max(S)])
  <2> SUFFICES ASSUME NEW S \in SUBSET DOMAIN s
               PROVE  F[S] = IF S = {} THEN NoTotals ELSE AddMetric(F[S \ {Max(S)}], s[Max(S)])
    OBVIOUS
  <2>1. CASE S = {}
    BY <1>1, <2>1, NothingSummed
  <2>2. CASE S # {}
    <3>1. PICK x, rest : x = Max(S) /\ rest = S \ {x}
      OBVIOUS
    <3>2. x \in S
      BY <2>2, <3>1, MaxIs, LenProperties
    <3>3. F[S] = TotalsOf(s, S) /\ F[rest] = TotalsOf(s, rest)
      BY <1>1, <3>1
    <3>4. TotalsOf(s, S) = AddMetric(TotalsOf(s, rest), s[x])
      BY <3>1, <3>2, TotalsAdd
    <3>5. F[S] = AddMetric(F[rest], s[x])
      BY <3>3, <3>4
    <3> QED
      BY <2>2, <3>1, <3>5
  <2> QED
    BY <2>1, <2>2
<1>3. F = [S \in SUBSET DOMAIN s |->
             IF S = {} THEN NoTotals ELSE AddMetric(F[S \ {Max(S)}], s[Max(S)])]
  BY <1>1, <1>2, Zenon
<1> QED
  BY <1>1, <1>3 DEF IsTotalling

LEMMA TotallingIs ==
  ASSUME NEW s \in Seq(PaymentMetric), NEW F, IsTotalling(F, s), NEW T \in SUBSET DOMAIN s
  PROVE  F[T] = TotalsOf(s, T)
<1> DEFINE B == {S \in SUBSET DOMAIN s : F[S] # TotalsOf(s, S)}
<1> SUFFICES ASSUME B # {} PROVE FALSE
  OBVIOUS
<1>1. PICK S \in B : \A t \in B : ~(t \subseteq S /\ t # S)
  <2>1. B \in SUBSET (SUBSET DOMAIN s)
    OBVIOUS
  <2>2. IsFiniteSet(DOMAIN s)
    BY SummedOk
  <2> HIDE DEF B
  <2> QED
    BY <2>1, <2>2, Smallest
<1>2. S \in SUBSET DOMAIN s /\ F[S] # TotalsOf(s, S)
  OBVIOUS
<1>3. F[S] = IF S = {} THEN NoTotals ELSE AddMetric(F[S \ {Max(S)}], s[Max(S)])
  BY <1>2 DEF IsTotalling
<1>4. S # {}
  BY <1>2, <1>3, NothingSummed
<1>5. PICK x, rest : x = Max(S) /\ rest = S \ {x}
  OBVIOUS
<1>6. x \in S
  BY <1>2, <1>4, <1>5, MaxIs, LenProperties
<1>7. rest \in SUBSET DOMAIN s /\ rest \subseteq S /\ rest # S
  BY <1>2, <1>5, <1>6
<1>8. F[rest] = TotalsOf(s, rest)
  BY <1>1, <1>7
<1>9. TotalsOf(s, S) = AddMetric(TotalsOf(s, rest), s[x])
  BY <1>2, <1>5, <1>6, TotalsAdd
<1>10. F[S] = AddMetric(F[rest], s[x])
  BY <1>3, <1>4, <1>5
<1> QED
  BY <1>2, <1>8, <1>9, <1>10

LEMMA FoldTotals ==
  ASSUME NEW s \in Seq(PaymentMetric)
  PROVE  FoldLeft(AddMetric, NoTotals, s) = TotalsOf(s, DOMAIN s)
<1>1. FoldLeft(AddMetric, NoTotals, s) = (CHOOSE F : IsTotalling(F, s))[DOMAIN s]
  BY DEF FoldLeft, MapThenFoldSet, IsTotalling
<1>2. PICK F : F = CHOOSE G : IsTotalling(G, s)
  OBVIOUS
<1>3. IsTotalling(F, s)
  BY <1>2, TotallingExists
<1>4. DOMAIN s \in SUBSET DOMAIN s
  OBVIOUS
<1> QED
  BY <1>1, <1>2, <1>3, <1>4, TotallingIs

\* What a query takes, as places among all metrics.
Matching(query) == {i \in DOMAIN metrics : Matches(metrics[i], query)}

LEMMA SummaryIs ==
  ASSUME metrics \in Seq(PaymentMetric), NEW query
  PROVE  /\ FilterMetrics(query) \in Seq(PaymentMetric)
         /\ Len(FilterMetrics(query)) = Summarize(query).count
         /\ Summarize(query).totalAmount = SumOver(metrics, Summed(metrics, Matching(query)))
         /\ DOMAIN Summarize(query).by = Fields
         /\ \A f \in Fields : Summarize(query).by[f] = RollupOf(metrics, Matching(query), f)
<1>1. PICK Q \in SUBSET DOMAIN metrics : Q = Matching(query)
  BY DEF Matching
<1>2. IsFiniteSet(Q) /\ Q \subseteq Int /\ \A i \in Q : metrics[i] \in PaymentMetric
  <2>1. IsFiniteSet(Q)
    BY SummedOk
  <2>2. \A i \in DOMAIN metrics : i \in Int /\ metrics[i] \in PaymentMetric
    BY LenProperties, ElementOfSeq
  <2> QED
    BY <2>1, <2>2
<1>3. PICK n \in Nat : \E place : AreKept(metrics, Q, n, place)
  <2>1. PICK array, kept : array = metrics /\ kept = Q
    OBVIOUS
  <2>2. IsFiniteSet(kept) /\ kept \subseteq Int
    BY <1>2, <2>1
  <2>3. \E n \in Nat : \E place : AreKept(array, kept, n, place)
    BY <2>2, KeepIs
  <2> QED
    BY <2>1, <2>3
<1>4. PICK place, m : AreKept(metrics, Q, n, place) /\ m = Keep(metrics, Q)
  BY <1>3
<1>5. /\ place \in [1 .. n -> Q]
      /\ \A i, j \in 1 .. n : place[i] = place[j] => i = j
      /\ Q = {place[i] : i \in 1 .. n}
      /\ m = [i \in 1 .. n |-> metrics[place[i]]]
  BY <1>4 DEF AreKept
<1>6. m \in Seq(PaymentMetric) /\ Len(m) = n /\ DOMAIN m = 1 .. n
  <2>1. m \in [1 .. n -> PaymentMetric]
    BY <1>2, <1>5
  <2>2. m \in Seq(PaymentMetric)
    BY <2>1
  <2> QED
    BY <2>1, <2>2, LenProperties
<1>7. m = FilterMetrics(query)
  BY <1>1, <1>4 DEF FilterMetrics, Matching
<1>8. PICK V, W : V = Summed(m, 1 .. n) /\ W = Summed(metrics, Q)
  OBVIOUS
<1>9. ASSUME NEW D \in SUBSET V
      PROVE  SumOver(m, D) = SumOver(metrics, {place[i] : i \in D})
  <2>1. /\ IsFiniteSet(V) /\ V \subseteq 1 .. n
        /\ \A i \in V : AmountsOf(m)[i] \in Int /\ AmountsOf(m)[i] = m[i].amount
    BY <1>6, <1>8, SummedOk
  <2>2. IsFiniteSet(D)
    BY <2>1, FS_Subset
  <2>3. \A i \in D : AmountsOf(m)[i] \in Int /\ AmountsOf(metrics)[place[i]] = AmountsOf(m)[i]
    <3> SUFFICES ASSUME NEW i \in D
                 PROVE  AmountsOf(m)[i] \in Int /\ AmountsOf(metrics)[place[i]] = AmountsOf(m)[i]
      OBVIOUS
    <3>1. i \in 1 .. n /\ place[i] \in DOMAIN metrics /\ m[i] = metrics[place[i]]
      BY <1>5, <2>1
    <3>2. AmountsOf(metrics)[place[i]] = metrics[place[i]].amount
      BY <3>1 DEF AmountsOf
    <3> QED
      BY <2>1, <3>1, <3>2
  <2>4. \A i, j \in D : place[i] = place[j] => i = j
    BY <1>5, <2>1
  <2> QED
    BY <2>2, <2>3, <2>4, SumRenamed DEF SumOver
<1>10. W = {place[i] : i \in V}
  <2>1. \A i \in 1 .. n : m[i] = metrics[place[i]]
    BY <1>5
  <2>2. \A i \in 1 .. n : i \in V <=> place[i] \in W
    BY <1>5, <1>8, <2>1 DEF Summed
  <2>3. V \subseteq 1 .. n /\ W \subseteq Q
    BY <1>8 DEF Summed
  <2>4. \A x \in W : \E i \in V : x = place[i]
    BY <1>5, <2>2, <2>3
  <2> QED
    BY <2>2, <2>3, <2>4
<1>11. \A i \in V : metrics[place[i]] = m[i]
  BY <1>5, <1>8 DEF Summed
<1>12. \A f \in Fields : RollupOf(m, 1 .. n, f) = RollupOf(metrics, Q, f)
  <2> SUFFICES ASSUME NEW f \in Fields PROVE RollupOf(m, 1 .. n, f) = RollupOf(metrics, Q, f)
    OBVIOUS
  <2>1. {m[i][f] : i \in V} = {metrics[i][f] : i \in W}
    BY <1>10, <1>11
  <2>2. ASSUME NEW k PROVE SumOver(m, KeyedBy(m, V, f, k)) = SumOver(metrics, KeyedBy(metrics, W, f, k))
    <3>1. PICK D \in SUBSET V : D = KeyedBy(m, V, f, k)
      BY DEF KeyedBy
    <3>2. {place[i] : i \in D} = KeyedBy(metrics, W, f, k)
      <4>1. \A i \in V : i \in D <=> metrics[place[i]][f] = k
        BY <1>11, <3>1 DEF KeyedBy
      <4> QED
        BY <1>10, <4>1 DEF KeyedBy
    <3> QED
      BY <1>9, <3>1, <3>2
  <2>3. RollupOf(m, 1 .. n, f) = [k \in {m[i][f] : i \in V} |-> SumOver(m, KeyedBy(m, V, f, k))]
    BY <1>8 DEF RollupOf
  <2>4. RollupOf(metrics, Q, f) = [k \in {metrics[i][f] : i \in W} |-> SumOver(metrics, KeyedBy(metrics, W, f, k))]
    BY <1>8 DEF RollupOf
  <2> QED
    BY <2>1, <2>2, <2>3, <2>4
<1>13. SumOver(m, V) = SumOver(metrics, W)
  BY <1>9, <1>10
<1>14. FoldLeft(AddMetric, NoTotals, m) = TotalsOf(m, 1 .. n)
  BY <1>6, FoldTotals
<1>15. Summarize(query) = [totalAmount |-> TotalsOf(m, 1 .. n).total, count |-> Len(m),
                           by |-> TotalsOf(m, 1 .. n).by]
  BY <1>7, <1>14 DEF Summarize
<1>16. /\ TotalsOf(m, 1 .. n).total = SumOver(m, V)
       /\ TotalsOf(m, 1 .. n).by = [f \in Fields |-> RollupOf(m, 1 .. n, f)]
  BY <1>8 DEF TotalsOf
<1>17. /\ Summarize(query).totalAmount = SumOver(m, V)
       /\ Summarize(query).count = Len(m)
       /\ Summarize(query).by = [f \in Fields |-> RollupOf(m, 1 .. n, f)]
  BY <1>15, <1>16
<1> QED
  BY <1>1, <1>6, <1>7, <1>8, <1>12, <1>13, <1>17

\* The entries of a rollup add up to the total.
LEMMA RollupSums ==
  ASSUME NEW s \in Seq(PaymentMetric), NEW S \in SUBSET DOMAIN s, NEW f \in Fields
  PROVE  SumOf(RollupOf(s, S, f)) = SumOver(s, Summed(s, S))
<1>1. PICK V, r, key : V = Summed(s, S) /\ r = RollupOf(s, S, f) /\ key = [i \in V |-> s[i][f]]
  OBVIOUS
<1>2. IsFiniteSet(V) /\ \A i \in V : AmountsOf(s)[i] \in Int
  BY <1>1, SummedOk
<1>3. PICK K : K = {s[i][f] : i \in V}
  OBVIOUS
<1>4. DOMAIN r = K /\ \A k \in K : r[k] = SumFunctionOnSet(AmountsOf(s), KeyedBy(s, V, f, k))
  BY <1>1, <1>3 DEF RollupOf, SumOver
<1>5. \A k : KeyedBy(s, V, f, k) = {i \in V : key[i] = k}
  BY <1>1 DEF KeyedBy
<1>6. \A k \in K : r[k] = SumFunctionOnSet(AmountsOf(s), {i \in V : key[i] = k})
  BY <1>4, <1>5
<1>7. \A i \in V : key[i] \in K
  BY <1>1, <1>3
<1>8. IsFiniteSet(K)
  <2>1. key \in Surjection(V, K)
    BY <1>1, <1>3 DEF Surjection
  <2> QED
    BY <1>2, <2>1, FS_Surjection
<1>9. SumFunctionOnSet(r, K) = SumFunctionOnSet(AmountsOf(s), V)
  <2>1. PICK a : a = AmountsOf(s)
    OBVIOUS
  <2>2. (\A i \in V : a[i] \in Int) /\ IsByKey(r, K, a, V, key)
    BY <1>2, <1>6, <2>1 DEF IsByKey
  <2>3. SumFunctionOnSet(r, K) = SumFunctionOnSet(a, V)
    BY ONLY <1>2, <1>7, <1>8, <2>2, SumByKey
  <2> QED
    BY <2>1, <2>3
<1> QED
  BY <1>1, <1>4, <1>9 DEF SumOf, SumOver

LEMMA RollupsDoAgree == metrics \in Seq(PaymentMetric) => RollupsAgree
<1> SUFFICES ASSUME metrics \in Seq(PaymentMetric), NEW query \in MetricsQuery
             PROVE  LET summary == Summarize(query)
                    IN /\ \A f \in DOMAIN summary.by : SumOf(summary.by[f]) = summary.totalAmount
                       /\ Len(Export("json", query)) = summary.count
                       /\ Len(Export("csv", query)) = summary.count + 1
  BY DEF RollupsAgree
<1>1. PICK Q \in SUBSET DOMAIN metrics : Q = Matching(query)
  BY DEF Matching
<1>2. \A f \in Fields : SumOf(RollupOf(metrics, Q, f)) = SumOver(metrics, Summed(metrics, Q))
  BY RollupSums
<1>3. /\ FilterMetrics(query) \in Seq(PaymentMetric)
      /\ Len(FilterMetrics(query)) = Summarize(query).count
      /\ Summarize(query).totalAmount = SumOver(metrics, Summed(metrics, Q))
      /\ DOMAIN Summarize(query).by = Fields
      /\ \A f \in Fields : Summarize(query).by[f] = RollupOf(metrics, Q, f)
  BY <1>1, SummaryIs
<1>4. \A f \in Fields : SumOf(Summarize(query).by[f]) = Summarize(query).totalAmount
  BY <1>2, <1>3
<1>5. Len(<<Header>> \o FilterMetrics(query)) = Len(FilterMetrics(query)) + 1
  <2>1. PICK m : m = FilterMetrics(query)
    OBVIOUS
  <2>2. PICK T : T = PaymentMetric \cup {Header}
    OBVIOUS
  <2>3. m \in Seq(T) /\ <<Header>> \in Seq(T)
    BY <1>3, <2>1, <2>2
  <2>4. Len(<<Header>> \o m) = 1 + Len(m) /\ Len(m) \in Nat
    BY <2>3, ConcatProperties, LenProperties
  <2> QED
    BY <2>1, <2>4
<1> QED
  BY <1>3, <1>4, <1>5 DEF Export

\* Asking for one takes what is under its key among what the window takes.
LEMMA AskingForOne ==
  ASSUME metrics \in Seq(PaymentMetric), NEW f \in Fields, NEW k, k # Unset, NEW from, NEW to, NEW window,
         window = [payer |-> Unset, payee |-> Unset, model |-> Unset, from |-> from, to |-> to]
  PROVE  Summarize([window EXCEPT ![f] = k]).totalAmount =
           SumOver(metrics, KeyedBy(metrics, Summed(metrics, Matching(window)), f, k))
<1>1. PICK one : one = [window EXCEPT ![f] = k]
  OBVIOUS
<1>2. /\ one.from = from /\ one.to = to /\ one[f] = k
      /\ \A g \in {"payer", "payee", "model"} : g # f => one[g] = Unset
  BY <1>1 DEF Fields
<1>3. PICK Q, P : Q = Matching(window) /\ P = Matching(one)
  OBVIOUS
<1>4. P = {i \in Q : metrics[i][f] = k}
  <2>1. \A metric : Matches(metric, window) <=> InWindow(metric.at, window)
    BY DEF Matches
  <2>2. \A metric : Matches(metric, one) <=> metric[f] = k /\ InWindow(metric.at, one)
    BY <1>2 DEF Matches, Fields
  <2>3. \A at : InWindow(at, one) <=> InWindow(at, window)
    BY <1>2 DEF InWindow
  <2>4. \A i : Matches(metrics[i], one) <=> metrics[i][f] = k /\ Matches(metrics[i], window)
    BY <2>1, <2>2, <2>3
  <2> QED
    BY <1>3, <2>4 DEF Matching
<1>5. Summed(metrics, P) = KeyedBy(metrics, Summed(metrics, Q), f, k)
  BY <1>4 DEF Summed, KeyedBy
<1>6. Summarize(one).totalAmount = SumOver(metrics, Summed(metrics, P))
  BY <1>3, SummaryIs
<1> QED
  BY <1>1, <1>3, <1>5, <1>6

LEMMA DrillingDownAgrees == metrics \in Seq(PaymentMetric) => DrillDownAgrees
<1> SUFFICES ASSUME metrics \in Seq(PaymentMetric),
                    NEW from \in Stamps \cup {Unset}, NEW to \in Stamps \cup {Unset},
                    NEW f \in {"payer", "payee", "model"}
             PROVE  LET window == [Everything EXCEPT !.from = from, !.to = to]
                        all    == Summarize(window).by[f]
                    IN \A k \in [payer |-> Payer, payee |-> Payee, model |-> Model][f] :
                         Summarize([window EXCEPT ![f] = k]).totalAmount =
                           IF k \in DOMAIN all THEN all[k] ELSE 0
  BY DEF DrillDownAgrees
<1>1. PICK window : window = [Everything EXCEPT !.from = from, !.to = to]
  OBVIOUS
<1>2. window = [payer |-> Unset, payee |-> Unset, model |-> Unset, from |-> from, to |-> to]
  BY <1>1 DEF Everything
<1>3. PICK all : all = Summarize(window).by[f]
  OBVIOUS
<1> SUFFICES ASSUME NEW k \in [payer |-> Payer, payee |-> Payee, model |-> Model][f]
             PROVE  Summarize([window EXCEPT ![f] = k]).totalAmount =
                      IF k \in DOMAIN all THEN all[k] ELSE 0
  BY <1>1, <1>3
<1>4. PICK Q : Q = Matching(window)
  OBVIOUS
<1>5. Summarize([window EXCEPT ![f] = k]).totalAmount =
        SumOver(metrics, KeyedBy(metrics, Summed(metrics, Q), f, k))
  <2>1. k # Unset /\ f \in Fields
    BY MetricsAssumption DEF Fields
  <2> QED
    BY <1>2, <1>4, <2>1, AskingForOne
<1>6. all = RollupOf(metrics, Q, f)
  BY <1>3, <1>4, SummaryIs DEF Fields
<1>7. CASE k \in DOMAIN all
  BY <1>5, <1>6, <1>7 DEF RollupOf
<1>8. CASE k \notin DOMAIN all
  <2>1. \A i \in Summed(metrics, Q) : metrics[i][f] # k
    BY <1>6, <1>8 DEF RollupOf
  <2>2. KeyedBy(metrics, Summed(metrics, Q), f, k) = {}
    BY <2>1 DEF KeyedBy
  <2> QED
    BY <1>5, <1>8, <2>2, SumEmpty DEF SumOver
<1> QED
  BY <1>7, <1>8

-----------------------------------------------------------------------------
(* The table of agents. *)

\* What the fold of sumSpend() satisfies.
SpendsOf(rows) == [i \in DOMAIN rows |-> rows[i].spend]
IsSpending(F, rows) ==
  F = [S \in SUBSET DOMAIN rows |-> IF S = {} THEN 0 ELSE F[S \ {Max(S)}] + rows[Max(S)].spend]

LEMMA SpendAdds ==
  ASSUME NEW n \in Nat, NEW rows, DOMAIN rows = 1 .. n, \A i \in 1 .. n : rows[i].spend \in Int,
         NEW S \in SUBSET (1 .. n), S # {}
  PROVE  /\ Max(S) \in S
         /\ SumFunctionOnSet(SpendsOf(rows), S) =
              SumFunctionOnSet(SpendsOf(rows), S \ {Max(S)}) + rows[Max(S)].spend
<1>1. PICK x, a : x = Max(S) /\ a = SpendsOf(rows)
  OBVIOUS
<1>2. x \in S
  BY <1>1, MaxIs
<1>3. \A i \in 1 .. n : a[i] \in Int /\ a[i] = rows[i].spend
  BY <1>1 DEF SpendsOf
<1>4. IsFiniteSet(S) /\ IsFiniteSet(S \ {x})
  <2>1. IsFiniteSet(1 .. n)
    BY UpToN
  <2> QED
    BY <2>1, FS_Subset
<1>5. SumFunctionOnSet(a, S) = a[x] + SumFunctionOnSet(a, S \ {x})
  BY <1>2, <1>3, <1>4, SumRemove
<1>6. SumFunctionOnSet(a, S \ {x}) \in Int
  BY <1>3, <1>4, SumType
<1>7. a[x] = rows[x].spend /\ a[x] \in Int
  BY <1>2, <1>3
<1>8. SumFunctionOnSet(a, S) = SumFunctionOnSet(a, S \ {x}) + rows[x].spend
  BY <1>5, <1>6, <1>7
<1> QED
  BY <1>1, <1>2, <1>8

LEMMA SpendingExists ==
  ASSUME NEW n \in Nat, NEW rows, DOMAIN rows = 1 .. n, \A i \in 1 .. n : rows[i].spend \in Int
  PROVE  IsSpending([S \in SUBSET (1 .. n) |-> SumFunctionOnSet(SpendsOf(rows), S)], rows)
<1>1. PICK F : F = [S \in SUBSET (1 .. n) |-> SumFunctionOnSet(SpendsOf(rows), S)]
  OBVIOUS
<1>2. \A S \in SUBSET (1 .. n) : F[S] = IF S = {} THEN 0 ELSE F[S \ {Max(S)}] + rows[Max(S)].spend
  <2> SUFFICES ASSUME NEW S \in SUBSET (1 .. n)
               PROVE  F[S] = IF S = {} THEN 0 ELSE F[S \ {Max(S)}] + rows[Max(S)].spend
    OBVIOUS
  <2>1. CASE S = {}
    BY <1>1, <2>1, SumEmpty
  <2>2. CASE S # {}
    BY <1>1, <2>2, SpendAdds
  <2> QED
    BY <2>1, <2>2
<1>3. F = [S \in SUBSET DOMAIN rows |->
             IF S = {} THEN 0 ELSE F[S \ {Max(S)}] + rows[Max(S)].spend]
  BY <1>1, <1>2, Zenon
<1> QED
  BY <1>1, <1>3 DEF IsSpending

LEMMA SpendingIs ==
  ASSUME NEW n \in Nat, NEW rows, DOMAIN rows = 1 .. n, \A i \in 1 .. n : rows[i].spend \in Int,
         NEW F, IsSpending(F, rows), NEW T \in SUBSET (1 .. n)
  PROVE  F[T] = SumFunctionOnSet(SpendsOf(rows), T)
<1> DEFINE B == {S \in SUBSET (1 .. n) : F[S] # SumFunctionOnSet(SpendsOf(rows), S)}
<1> SUFFICES ASSUME B # {} PROVE FALSE
  OBVIOUS
<1>1. PICK S \in B : \A t \in B : ~(t \subseteq S /\ t # S)
  <2>1. PICK U : U = 1 .. n
    OBVIOUS
  <2>2. B \in SUBSET (SUBSET U) /\ IsFiniteSet(U)
    BY <2>1, UpToN
  <2> HIDE DEF B
  <2> QED
    BY <2>2, Smallest
<1>2. S \in SUBSET (1 .. n) /\ F[S] # SumFunctionOnSet(SpendsOf(rows), S)
  OBVIOUS
<1>3. F[S] = IF S = {} THEN 0 ELSE F[S \ {Max(S)}] + rows[Max(S)].spend
  BY <1>2 DEF IsSpending
<1>4. S # {}
  BY <1>2, <1>3, SumEmpty
<1>5. PICK x, rest : x = Max(S) /\ rest = S \ {x}
  OBVIOUS
<1>6. /\ x \in S
      /\ SumFunctionOnSet(SpendsOf(rows), S) = SumFunctionOnSet(SpendsOf(rows), rest) + rows[x].spend
  BY <1>2, <1>4, <1>5, SpendAdds
<1>7. rest \in SUBSET (1 .. n) /\ rest \subseteq S /\ rest # S
  BY <1>2, <1>5, <1>6
<1>8. F[rest] = SumFunctionOnSet(SpendsOf(rows), rest)
  BY <1>1, <1>7
<1>9. F[S] = F[rest] + rows[x].spend
  BY <1>3, <1>4, <1>5
<1> QED
  BY <1>2, <1>6, <1>8, <1>9

LEMMA FoldSpends ==
  ASSUME NEW n \in Nat, NEW rows, DOMAIN rows = 1 .. n, \A i \in 1 .. n : rows[i].spend \in Int
  PROVE  sumSpend(rows) = SumFunctionOnSet(SpendsOf(rows), 1 .. n)
<1>1. sumSpend(rows) = (CHOOSE F : IsSpending(F, rows))[DOMAIN rows]
  BY DEF sumSpend, FoldLeft, MapThenFoldSet, IsSpending
<1>2. PICK F : F = CHOOSE G : IsSpending(G, rows)
  OBVIOUS
<1>3. IsSpending(F, rows)
  BY <1>2, SpendingExists
<1>4. 1 .. n \in SUBSET (1 .. n)
  OBVIOUS
<1> QED
  BY <1>1, <1>2, <1>3, <1>4, SpendingIs

\* The agents, each once.
LEMMA AgentsAre ==
  \E n \in Nat : \E agent :
    /\ n = Cardinality(Payer) /\ agent = SetToSeq(Payer) /\ agent \in [1 .. n -> Payer]
    /\ \A i, j \in 1 .. n : agent[i] = agent[j] => i = j
    /\ \A p \in Payer : \E i \in 1 .. n : agent[i] = p
<1>1. IsFiniteSet(Payer)
  BY MetricsAssumption
<1>2. PICK n \in Nat : n = Cardinality(Payer)
  BY <1>1, FS_CardinalityType
<1>3. \E f \in [1 .. n -> Payer] : IsInjective(f)
  <2>1. ExistsBijection(1 .. n, Payer)
    BY <1>1, <1>2, FS_CardinalityType
  <2> QED
    BY <2>1 DEF ExistsBijection, Bijection, Injection
<1>4. PICK agent : agent = SetToSeq(Payer)
  OBVIOUS
<1>5. agent \in [1 .. n -> Payer] /\ IsInjective(agent)
  BY <1>2, <1>3, <1>4 DEF SetToSeq
<1>6. agent \in Injection(1 .. n, Payer)
  BY <1>5 DEF Injection
<1>7. agent \in Surjection(1 .. n, Payer)
  <2>1. PICK N : N = 1 .. n
    OBVIOUS
  <2>2. IsFiniteSet(N) /\ Cardinality(N) = Cardinality(Payer) /\ agent \in Injection(N, Payer)
    BY <1>2, <1>6, <2>1, UpToN
  <2>3. agent \in Surjection(N, Payer)
    BY <1>1, <2>2, FS_Injection
  <2> QED
    BY <2>1, <2>3
<1>8. \A i, j \in 1 .. n : agent[i] = agent[j] => i = j
  BY <1>5 DEF IsInjective
<1>9. \A p \in Payer : \E i \in 1 .. n : agent[i] = p
  BY <1>7 DEF Surjection
<1> QED
  BY <1>2, <1>4, <1>5, <1>8, <1>9

\* What the hub has under one payer.
SpentBy(p) == SumOver(metrics, KeyedBy(metrics, Summed(metrics, Matching(Everything)), "payer", p))

LEMMA SpentIs ==
  ASSUME metrics \in Seq(PaymentMetric)
  PROVE  /\ \A p \in Payer : /\ Summarize([Everything EXCEPT !.payer = p]).totalAmount = SpentBy(p)
                             /\ SpentBy(p) \in Int
         /\ SumFunctionOnSet([p \in Payer |-> SpentBy(p)], Payer) = Summarize(Everything).totalAmount
<1>1. PICK Q \in SUBSET DOMAIN metrics : Q = Matching(Everything)
  BY DEF Matching
<1>2. PICK V, a : V = Summed(metrics, Q) /\ a = AmountsOf(metrics)
  OBVIOUS
<1>3. IsFiniteSet(V) /\ V \subseteq Q /\ \A i \in V : a[i] \in Int
  BY <1>2, SummedOk
<1>4. \A p \in Payer : Summarize([Everything EXCEPT !.payer = p]).totalAmount = SpentBy(p)
  <2> SUFFICES ASSUME NEW p \in Payer
               PROVE  Summarize([Everything EXCEPT !.payer = p]).totalAmount = SpentBy(p)
    OBVIOUS
  <2>1. p # Unset /\ "payer" \in Fields
    BY MetricsAssumption DEF Fields
  <2>2. Everything = [payer |-> Unset, payee |-> Unset, model |-> Unset, from |-> Unset, to |-> Unset]
    BY DEF Everything
  <2>3. Summarize([Everything EXCEPT !["payer"] = p]).totalAmount = SpentBy(p)
    BY <2>1, <2>2, AskingForOne DEF SpentBy
  <2> QED
    BY <2>3
<1>5. PICK key, r : key = [i \in V |-> metrics[i].payer] /\ r = [p \in Payer |-> SpentBy(p)]
  OBVIOUS
<1>6. IsByKey(r, Payer, a, V, key)
  <2> SUFFICES ASSUME NEW p \in Payer PROVE r[p] = SumFunctionOnSet(a, {i \in V : key[i] = p})
    BY DEF IsByKey
  <2>1. KeyedBy(metrics, V, "payer", p) = {i \in V : key[i] = p}
    BY <1>5 DEF KeyedBy
  <2>2. r[p] = SumFunctionOnSet(a, KeyedBy(metrics, V, "payer", p))
    BY <1>1, <1>2, <1>5 DEF SpentBy, SumOver
  <2> QED
    BY <2>1, <2>2
<1>7. \A i \in V : key[i] \in Payer
  <2>1. \A i \in V : metrics[i] \in PaymentMetric
    BY <1>3, ElementOfSeq, LenProperties
  <2> QED
    BY <1>5, <2>1 DEF PaymentMetric
<1>8. IsFiniteSet(Payer)
  BY MetricsAssumption
<1>9. SumFunctionOnSet(r, Payer) = SumFunctionOnSet(a, V) /\ \A p \in Payer : r[p] \in Int
  BY <1>3, <1>6, <1>7, <1>8, SumByKey
<1>10. Summarize(Everything).totalAmount = SumFunctionOnSet(a, V)
  BY <1>1, <1>2, SummaryIs DEF SumOver
<1> QED
  BY <1>4, <1>5, <1>9, <1>10

\* Every agent has one row, and keys that grow tell their order.
IsTable(rows, direction, n, key) ==
  /\ DOMAIN rows = 1 .. n
  /\ \A i \in 1 .. n : /\ rows[i].id \in Payer /\ rows[i].spend = SpentBy(rows[i].id)
                       /\ key[i] = IF direction = "asc" THEN rows[i].spend ELSE 0 - rows[i].spend
  /\ \A i, j \in 1 .. n : rows[i].id = rows[j].id => i = j
  /\ \A p \in Payer : \E i \in 1 .. n : rows[i].id = p
  /\ \A i, j \in 1 .. n : i < j => key[i] <= key[j]

\* Sorting keeps every row once, and puts what does not come after first.
LEMMA SortedRowsAre ==
  ASSUME metrics \in Seq(PaymentMetric), NEW direction \in {"asc", "desc"}
  PROVE  \E n \in Nat : \E key : IsTable(SortedRows(direction), direction, n, key)
<1>1. PICK n \in Nat : \E agent :
        /\ n = Cardinality(Payer) /\ agent = SetToSeq(Payer) /\ agent \in [1 .. n -> Payer]
        /\ \A i, j \in 1 .. n : agent[i] = agent[j] => i = j
        /\ \A p \in Payer : \E i \in 1 .. n : agent[i] = p
  BY AgentsAre
<1>2. PICK agent :
        /\ n = Cardinality(Payer) /\ agent = SetToSeq(Payer) /\ agent \in [1 .. n -> Payer]
        /\ \A i, j \in 1 .. n : agent[i] = agent[j] => i = j
        /\ \A p \in Payer : \E i \in 1 .. n : agent[i] = p
  BY <1>1
<1>3. PICK first : first = AgentRows
  OBVIOUS
<1>4. /\ DOMAIN first = 1 .. n
      /\ \A i \in 1 .. n : /\ first[i].id = agent[i] /\ agent[i] \in Payer
                           /\ first[i].spend = SpentBy(agent[i]) /\ first[i].spend \in Int
  <2>1. first = [i \in 1 .. n |-> [id |-> agent[i],
                   spend |-> Summarize([Everything EXCEPT !.payer = agent[i]]).totalAmount]]
    BY <1>2, <1>3 DEF AgentRows
  <2>2. \A i \in 1 .. n : agent[i] \in Payer
    BY <1>2
  <2>3. \A i \in 1 .. n : Summarize([Everything EXCEPT !.payer = agent[i]]).totalAmount = SpentBy(agent[i])
    BY <2>2, SpentIs
  <2>4. \A i \in 1 .. n : SpentBy(agent[i]) \in Int
    BY <2>2, SpentIs
  <2> QED
    BY <2>1, <2>2, <2>3, <2>4
<1>5. PICK weight : weight = [i \in 1 .. n |-> IF direction = "asc" THEN first[i].spend ELSE 0 - first[i].spend]
  OBVIOUS
<1>6. \A i \in 1 .. n : weight[i] \in Int
  BY <1>4, <1>5
<1>7. PICK upTo : upTo = [i \in 1 .. n |->
        {j \in 1 .. n : \/ ComesBefore(first[j], first[i], direction)
                        \/ ~ComesBefore(first[i], first[j], direction) /\ j <= i}]
  OBVIOUS
<1>8. \A i, j \in 1 .. n : ComesBefore(first[j], first[i], direction) <=> weight[j] < weight[i]
  <2>1. \A i \in 1 .. n : first[i].spend \in Int
    BY <1>4
  <2>2. CASE direction = "asc"
    BY <1>5, <2>1, <2>2 DEF ComesBefore
  <2>3. CASE direction = "desc"
    BY <1>5, <2>1, <2>3 DEF ComesBefore
  <2> QED
    BY <2>2, <2>3
<1>9. \A i \in 1 .. n : upTo[i] = {j \in 1 .. n : weight[j] < weight[i] \/ (~(weight[i] < weight[j]) /\ j <= i)}
  BY <1>7, <1>8
<1>10. IsOrder(1 .. n, upTo)
  BY <1>6, <1>9, SortedByKey
<1>11. PICK o : o = InOrder(1 .. n, upTo)
  OBVIOUS
<1>12. /\ o \in [1 .. n -> 1 .. n]
       /\ \A x \in 1 .. n : \E i \in 1 .. n : o[i] = x
       /\ \A i, j \in 1 .. n : o[i] = o[j] => i = j
       /\ \A i, j \in 1 .. n : i <= j => o[i] \in upTo[o[j]]
  <2>1. PICK N : N = 1 .. n
    OBVIOUS
  <2>2. IsFiniteSet(N) /\ Cardinality(N) = n /\ IsOrder(N, upTo) /\ o = InOrder(N, upTo)
    BY <1>10, <1>11, <2>1, UpToN
  <2>3. /\ Cardinality(N) \in Nat /\ o \in [1 .. Cardinality(N) -> N]
        /\ \A x \in N : \E i \in 1 .. Cardinality(N) : o[i] = x
        /\ \A i, j \in 1 .. Cardinality(N) : o[i] = o[j] => i = j
        /\ \A i, j \in 1 .. Cardinality(N) : i <= j => o[i] \in upTo[o[j]]
    BY <2>2, OrderIs
  <2> QED
    BY <2>1, <2>2, <2>3
<1>13. PICK rows : rows = SortedRows(direction)
  OBVIOUS
<1>14. rows = [i \in 1 .. n |-> first[o[i]]]
  BY <1>3, <1>4, <1>7, <1>11, <1>13 DEF SortedRows, StableSort
<1>15. PICK key : key = [i \in 1 .. n |-> weight[o[i]]]
  OBVIOUS
<1>16. \A i \in 1 .. n : o[i] \in 1 .. n /\ rows[i] = first[o[i]]
  BY <1>12, <1>14
<1>17. \A i \in 1 .. n : /\ rows[i].id \in Payer /\ rows[i].id = agent[o[i]] /\ rows[i].spend = SpentBy(rows[i].id)
                         /\ key[i] = IF direction = "asc" THEN rows[i].spend ELSE 0 - rows[i].spend
  BY <1>4, <1>5, <1>15, <1>16
<1>18. \A i, j \in 1 .. n : rows[i].id = rows[j].id => i = j
  BY <1>2, <1>12, <1>16, <1>17
<1>19. \A p \in Payer : \E i \in 1 .. n : rows[i].id = p
  <2> SUFFICES ASSUME NEW p \in Payer PROVE \E i \in 1 .. n : rows[i].id = p
    OBVIOUS
  <2>1. PICK x \in 1 .. n : agent[x] = p
    BY <1>2
  <2>2. PICK i \in 1 .. n : o[i] = x
    BY <1>12
  <2>3. rows[i].id = p
    BY <1>17, <2>1, <2>2
  <2> QED
    BY <2>3
<1>20. \A i, j \in 1 .. n : i < j => key[i] <= key[j]
  <2> SUFFICES ASSUME NEW i \in 1 .. n, NEW j \in 1 .. n, i < j PROVE key[i] <= key[j]
    OBVIOUS
  <2>1. PICK x \in 1 .. n, y \in 1 .. n : x = o[i] /\ y = o[j]
    BY <1>16
  <2>2. x \in upTo[y]
    <3>1. i <= j
      OBVIOUS
    <3>2. o[i] \in upTo[o[j]]
      BY <1>12, <3>1
    <3> QED
      BY <2>1, <3>2
  <2>3. weight[x] < weight[y] \/ ~(weight[y] < weight[x])
    BY <1>9, <2>2
  <2>4. weight[x] <= weight[y]
    BY <1>6, <2>3
  <2> QED
    BY <1>15, <2>1, <2>4
<1>21. DOMAIN rows = 1 .. n
  BY <1>14
<1>22. IsTable(rows, direction, n, key)
  BY <1>17, <1>18, <1>19, <1>20, <1>21 DEF IsTable
<1> QED
  BY <1>13, <1>22

LEMMA TableTellsSpend == metrics \in Seq(PaymentMetric) => AgentTableTellsSpend
<1> SUFFICES ASSUME metrics \in Seq(PaymentMetric), NEW direction \in {"asc", "desc"}
             PROVE  LET rows == SortedRows(direction)
                    IN /\ {rows[i].id : i \in DOMAIN rows} = Payer
                       /\ \A i, j \in DOMAIN rows : i < j =>
                            /\ direction = "asc" => rows[i].spend <= rows[j].spend
                            /\ direction = "desc" => rows[i].spend >= rows[j].spend
                       /\ sumSpend(rows) = Summarize(Everything).totalAmount
  BY DEF AgentTableTellsSpend
<1>1. PICK rows : rows = SortedRows(direction)
  OBVIOUS
<1>2. PICK n \in Nat : \E key : IsTable(rows, direction, n, key)
  BY <1>1, SortedRowsAre
<1>3. PICK key : IsTable(rows, direction, n, key)
  BY <1>2
<1>4. /\ DOMAIN rows = 1 .. n
      /\ \A i \in 1 .. n : /\ rows[i].id \in Payer /\ rows[i].spend = SpentBy(rows[i].id)
                           /\ key[i] = IF direction = "asc" THEN rows[i].spend ELSE 0 - rows[i].spend
      /\ \A i, j \in 1 .. n : rows[i].id = rows[j].id => i = j
      /\ \A p \in Payer : \E i \in 1 .. n : rows[i].id = p
      /\ \A i, j \in 1 .. n : i < j => key[i] <= key[j]
  BY <1>3 DEF IsTable
<1>5. \A i \in 1 .. n : rows[i].spend \in Int
  <2>1. \A p \in Payer : SpentBy(p) \in Int
    BY SpentIs
  <2>2. \A i \in 1 .. n : rows[i].id \in Payer /\ rows[i].spend = SpentBy(rows[i].id)
    BY <1>4
  <2> QED
    BY <2>1, <2>2
<1>6. {rows[i].id : i \in DOMAIN rows} = Payer
  BY <1>4
<1>7. ASSUME NEW i \in DOMAIN rows, NEW j \in DOMAIN rows, i < j
      PROVE  /\ direction = "asc" => rows[i].spend <= rows[j].spend
             /\ direction = "desc" => rows[i].spend >= rows[j].spend
  <2>1. /\ key[i] <= key[j] /\ rows[i].spend \in Int /\ rows[j].spend \in Int
        /\ key[i] = IF direction = "asc" THEN rows[i].spend ELSE 0 - rows[i].spend
        /\ key[j] = IF direction = "asc" THEN rows[j].spend ELSE 0 - rows[j].spend
    BY <1>4, <1>5, <1>7
  <2>2. CASE direction = "asc"
    BY <2>1, <2>2
  <2>3. CASE direction = "desc"
    BY <2>1, <2>3
  <2> QED
    BY <2>2, <2>3
<1>8. sumSpend(rows) = SumFunctionOnSet(SpendsOf(rows), 1 .. n)
  BY <1>4, <1>5, FoldSpends
<1>9. PICK N, f, g, by : /\ N = 1 .. n /\ f = SpendsOf(rows) /\ g = [p \in Payer |-> SpentBy(p)]
                         /\ by = [i \in 1 .. n |-> rows[i].id]
  OBVIOUS
<1>10. \A i \in N : f[i] \in Int /\ g[by[i]] = f[i]
  BY <1>4, <1>5, <1>9 DEF SpendsOf
<1>11. IsFiniteSet(N) /\ (\A i, j \in N : by[i] = by[j] => i = j)
  BY <1>4, <1>9, UpToN
<1>12. {by[i] : i \in N} = Payer
  BY <1>4, <1>6, <1>9
<1>13. SumFunctionOnSet(f, N) = SumFunctionOnSet(g, {by[i] : i \in N})
  BY <1>10, <1>11, SumRenamed
<1>14. sumSpend(rows) = Summarize(Everything).totalAmount
  BY <1>8, <1>9, <1>12, <1>13, SpentIs
<1> QED
  BY <1>1, <1>6, <1>7, <1>14

\* For agents, services, amounts and windows of any kind and number: rollups,
\* drilling down and the table of agents tell the same sums.
THEOREM MetricsDoAgree == MetricsSpec => []MetricsAgree
<1>1. MetricsInit => metrics \in Seq(PaymentMetric)
  BY MetricsTyped
<1>2. metrics \in Seq(PaymentMetric) /\ [MetricsNext]_metrics => (metrics \in Seq(PaymentMetric))'
  BY MetricsTyped
<1>3. metrics \in Seq(PaymentMetric) => MetricsAgree
  BY RollupsDoAgree, DrillingDownAgrees, TableTellsSpend DEF MetricsAgree
<1> QED
  BY <1>1, <1>2, <1>3, PTL DEF MetricsSpec

=============================================================================
