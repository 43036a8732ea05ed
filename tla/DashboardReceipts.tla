-------------------------- MODULE DashboardReceipts ---------------------------
(***************************************************************************)
(* The receipts page of the dashboard: fetchReceipts() with its cache      *)
(* (data/receipts.ts), the hook that loads a snapshot when the page mounts *)
(* (data/use-receipts.ts), and the view that verifies the receipt the user *)
(* selected (app/receipts/receipts-view.tsx).                              *)
(*                                                                         *)
(* React is external: it runs the effects of a mount, and those of a click *)
(* once it has committed what the click changed.  A state that an effect   *)
(* or a callback sets is on screen after a later render.  A cleanup sets   *)
(* the flag cancelled, which the callbacks of that run of the effect read. *)
(* Promises settle in any order.                                           *)
(***************************************************************************)
EXTENDS ReceiptFormat, Sequences, FiniteSets

CONSTANTS
  Mount,      \* the times the page is mounted, 1 to the last
  Row,        \* ids of the rows of every snapshot
  Tampered,   \* rows changed after they were signed
  Unreadable, \* rows whose signature value is no base64url
  MaxRuns,    \* bound: verifications started
  MaxFaults,  \* bound: fetches that reject
  NoRow, NoSnapshot

ASSUME DashboardAssumption ==
  /\ IsFiniteSet(Mount) /\ Mount = 1 .. Cardinality(Mount)
  /\ Tampered \cup Unreadable \subseteq Row /\ NoRow \notin Row
  /\ MaxRuns \in Nat /\ MaxFaults \in Nat
  /\ NoSnapshot \notin Mount

VARIABLES
  cached,    \* the module's snapshot, named by the fetch that built it
  fetch,     \* the call of fetchReceipts() of each mount
  page,      \* the mount on screen, or 0
  status,    \* of the hook
  selected,  \* selectedId
  runs,      \* verifications, one for each run of the effect
  verification, \* of ReceiptDetail, as last set; "none" without one
  pill,      \* the verification of the last render, which is on screen
  faults

vars == <<cached, fetch, page, status, selected, runs, verification, pill, faults>>

-----------------------------------------------------------------------------
(* Snapshots.  Each has receipts signed by a key of its own and trusts that *)
(* key, under the one id.                                                  *)

STUB_KEY_ID == "tollway-stub-2026"

SeedOf(row) ==
  [payer |-> "agent", payee |-> "service", amount |-> 1, asset |-> "usdc", resource |-> "quotes",
   model |-> "x402", settlement |-> [kind |-> "transaction", anchor |-> row], network |-> "testnet"]

Signed(snapshot, row) ==
  SignReceipt(BuiltBody(SeedOf(row), row, "then"), [keyId |-> STUB_KEY_ID, key |-> snapshot])

\* Every row is one the schema accepts.
ASSUME RowAssumption ==
  /\ Bad \notin Row \cup {Garbled}
  /\ \A m \in Mount, row \in Row :
       /\ CanBuild(SeedOf(row), row, "then")
       /\ Signed(m, row).signature.keyId # Bad /\ Signed(m, row).signature.algorithm # Bad
       /\ Signed(m, row).signature.value \notin {Bad, Garbled}

ReceiptOf(snapshot, row) ==
  IF row \in Unreadable THEN [Signed(snapshot, row) EXCEPT !.signature.value = Garbled]
  ELSE IF row \in Tampered THEN [Signed(snapshot, row) EXCEPT !.receipt.amount = 2]
  ELSE Signed(snapshot, row)

TrustedKeys(snapshot) == [k \in {STUB_KEY_ID} |-> snapshot]

OnScreen == fetch[page].snapshot
Verdict(snapshot, row) == VerifyReceipt(ReceiptOf(snapshot, row), TrustedKeys(snapshot))

-----------------------------------------------------------------------------
(* fetchReceipts() *)

FetchStatus == {"none", "building", "built", "rejected", "ended"}
NoFetch == [status |-> "none", snapshot |-> NoSnapshot]

\* cached ??= await buildStub(): whoever finds null here builds a stub.
FetchReceipts(m) ==
  fetch' = [fetch EXCEPT ![m] =
    IF cached = NoSnapshot THEN [status |-> "building", snapshot |-> NoSnapshot]
    ELSE [status |-> "built", snapshot |-> cached]]

\* The assignment does not look again whether there is a snapshot by now.
StubBuilt(m) ==
  /\ fetch[m].status = "building"
  /\ cached' = m
  /\ fetch' = [fetch EXCEPT ![m] = [status |-> "built", snapshot |-> m]]
  /\ UNCHANGED <<page, status, selected, runs, verification, pill, faults>>

BuildFails(m) ==
  /\ fetch[m].status = "building"
  /\ faults < MaxFaults
  /\ faults' = faults + 1
  /\ fetch' = [fetch EXCEPT ![m].status = "rejected"]
  /\ UNCHANGED <<cached, page, status, selected, runs, verification, pill>>

-----------------------------------------------------------------------------
(* useReceipts() *)

\* The user opens the page, which loads; a new component remembers nothing.
MountPage(m) ==
  /\ page = 0
  /\ fetch[m].status = "none"
  /\ \A n \in Mount : fetch[n].status = "none" => m <= n
  /\ page' = m
  /\ status' = "loading"
  /\ selected' = NoRow
  /\ FetchReceipts(m)
  /\ UNCHANGED <<cached, runs, verification, pill, faults>>

\* Every cleanup runs.
UnmountPage ==
  /\ page # 0
  /\ page' = 0
  /\ verification' = "none" /\ pill' = "none"
  /\ UNCHANGED <<cached, fetch, status, selected, runs, faults>>

FetchEnds(m) ==
  /\ fetch[m].status \in {"built", "rejected"}
  /\ fetch' = [fetch EXCEPT ![m].status = "ended"]
  /\ status' = IF page # m THEN status
               ELSE IF fetch[m].status = "built" THEN "ready" ELSE "error"
  /\ UNCHANGED <<cached, page, selected, runs, verification, pill, faults>>

-----------------------------------------------------------------------------
(* ReceiptsView, ReceiptDetail *)

Pill == {"none", "verifying"} \cup Verification

\* Opening a row that is not selected commits its receipt and then runs the
\* effect of ReceiptDetail: the run before is cancelled and "verifying" is set.
\* The component of another row stays mounted, as it has no key, and shows that
\* row's verification beside the new receipt until it renders again.
OpenRow(row) ==
  /\ page # 0 /\ status = "ready"
  /\ row # selected /\ Len(runs) < MaxRuns
  /\ selected' = row
  /\ runs' = Append(runs, [row |-> row, snapshot |-> OnScreen, settled |-> FALSE])
  /\ verification' = "verifying"
  /\ pill' = IF pill = "none" THEN "verifying" ELSE pill
  /\ UNCHANGED <<cached, fetch, page, status, faults>>

\* React renders what was set.
Render ==
  /\ pill # verification
  /\ pill' = verification
  /\ UNCHANGED <<cached, fetch, page, status, selected, runs, verification, faults>>

\* A click on the selected row unmounts ReceiptDetail.
CloseRow ==
  /\ page # 0 /\ selected # NoRow
  /\ selected' = NoRow
  /\ verification' = "none" /\ pill' = "none"
  /\ UNCHANGED <<cached, fetch, page, status, runs, faults>>

\* Mutant: the flag is not read.
NeverCancelled(r) == verification = "none"

\* The run the mounted ReceiptDetail waits for is the last.
Cancelled(r) == verification = "none" \/ r # Len(runs)

VerificationEnds(r) ==
  /\ ~runs[r].settled
  /\ runs' = [runs EXCEPT ![r].settled = TRUE]
  /\ verification' =
       IF Cancelled(r) THEN verification ELSE Verdict(runs[r].snapshot, runs[r].row)
  /\ UNCHANGED <<cached, fetch, page, status, selected, pill, faults>>

-----------------------------------------------------------------------------
Init ==
  /\ cached = NoSnapshot
  /\ fetch = [m \in Mount |-> NoFetch]
  /\ page = 0
  /\ status = "loading"
  /\ selected = NoRow
  /\ runs = <<>>
  /\ verification = "none" /\ pill = "none"
  /\ faults = 0

\* What a promise that settles runs.
Settles ==
  \/ \E m \in Mount : StubBuilt(m) \/ BuildFails(m) \/ FetchEnds(m)
  \/ \E r \in DOMAIN runs : VerificationEnds(r)

\* The user is gone and everything has settled.
AtRest ==
  /\ page = 0
  /\ \A m \in Mount : fetch[m].status = "ended"
  /\ \A r \in DOMAIN runs : runs[r].settled
  /\ UNCHANGED vars

Next ==
  \/ \E m \in Mount : MountPage(m)
  \/ UnmountPage
  \/ \E row \in Row : OpenRow(row)
  \/ CloseRow
  \/ Render
  \/ Settles
  \/ AtRest

Spec == Init /\ [][Next]_vars

-----------------------------------------------------------------------------
(* Properties. *)

\* What there is to say of the receipt in a row.
Truth(row) ==
  IF row \in Unreadable THEN "threw" ELSE IF row \in Tampered THEN "invalid" ELSE "valid"

\* What is on screen is true once React has rendered what was set, however the
\* user clicks, verifications overtake each other and pages come and go.  A page
\* is ready with the receipts of a fetch that built them, also after one that
\* failed, and never left loading by a fetch that ended.  A verdict is that of
\* the receipt on screen under the keys that came with it: valid exactly if the
\* receipt is as it was signed.  It says "verifying" only while the receipt on
\* screen is being verified.  Until the next render a pill may tell of a row
\* that was open before.
ScreenTellsTheTruth ==
  /\ page # 0 /\ fetch[page].status = "ended" => status # "loading"
  /\ page # 0 /\ status = "ready" =>
       OnScreen # NoSnapshot /\ fetch[OnScreen].snapshot = OnScreen
  /\ verification = "none" <=> pill = "none"
  /\ pill # "none" => page # 0 /\ status = "ready" /\ selected # NoRow
  /\ verification \in Verification => verification = Truth(selected)
  /\ verification = "verifying" =>
       \E r \in DOMAIN runs : runs[r].row = selected /\ ~runs[r].settled

=============================================================================
