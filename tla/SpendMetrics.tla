----------------------------- MODULE SpendMetrics -----------------------------
(***************************************************************************)
(* The metrics half of the observability hub (observability/src/index.ts): *)
(* record() pushes a metric; summarize() and export() filter what is there *)
(* by payer, payee, model and a window of time, and roll it up.            *)
(*                                                                         *)
(* Times are ISO 8601 texts, which the filter compares as texts.  A stamp   *)
(* is the date and time it prints, as the second of the local clock, any   *)
(* number of digits after it, and the time zone: "Z", or a sign and what   *)
(* the local clock is ahead of UTC, or behind.                             *)
(***************************************************************************)
EXTENDS ModelRouter, Ordering, Integers, Sequences, FiniteSets, SequencesExt

CONSTANTS
  Payer, Payee,
  Amounts,     \* integers, and NotInteger for a text BigInt() refuses
  Stamps,      \* [second, fraction, zone, offset]
  MaxMetrics,  \* bound: metrics recorded
  NotInteger, Unset

ASSUME MetricsAssumption ==
  /\ IsFiniteSet(Payer)
  /\ Amounts \ {NotInteger} \subseteq Int /\ NotInteger \notin Int
  /\ \A s \in Stamps :
       /\ s.second \in Nat /\ s.offset \in Nat /\ s.zone \in {"Z", "+", "-"}
       /\ s.fraction \in Seq(0 .. 9)
       /\ s.zone = "Z" => s.offset = 0
  /\ MaxMetrics \in Nat
  /\ Unset \notin Payer /\ Unset \notin Payee /\ Unset \notin Model /\ Unset \notin Stamps

VARIABLE metrics

\* The outcome is left out: nothing asks for it, and failed and skipped payments
\* are summed with the settled ones.  So are asset and latency.
PaymentMetric == [payer : Payer, payee : Payee, model : Model, amount : Amounts, at : Stamps]

\* A query field that is Unset is left out.
MetricsQuery ==
  [payer : Payer \cup {Unset}, payee : Payee \cup {Unset}, model : Model \cup {Unset},
   from : Stamps \cup {Unset}, to : Stamps \cup {Unset}]
Everything == [payer |-> Unset, payee |-> Unset, model |-> Unset, from |-> Unset, to |-> Unset]

\* Character codes: the signs sort below ".", this below the digits, all below "Z".
Dot == 46
DigitCode(digit) == 48 + digit
ZoneCode(zone) == IF zone = "+" THEN 43 ELSE IF zone = "-" THEN 45 ELSE 90

\* The text of a stamp.  Date and time, and the offset, have a fixed width, so
\* each sorts as one number does.
Text(s) ==
  <<s.second>>
  \o (IF s.fraction = <<>> THEN <<>>
      ELSE <<Dot>> \o [n \in DOMAIN s.fraction |-> DigitCode(s.fraction[n])])
  \o <<ZoneCode(s.zone), s.offset>>

\* Texts sort by the first character that differs; none begins another.
SortsBelow(a, b) ==
  \E n \in DOMAIN a \cap DOMAIN b : a[n] < b[n] /\ \A i \in 1 .. n - 1 : a[i] = b[i]

-----------------------------------------------------------------------------
(* Filtering. *)

\* Mutant: an upper bound that is exclusive.
InWindowToExclusive(at, query) ==
  /\ query.from = Unset \/ ~SortsBelow(Text(at), Text(query.from))
  /\ query.to = Unset \/ SortsBelow(Text(at), Text(query.to))

InWindow(at, query) ==
  /\ query.from = Unset \/ ~SortsBelow(Text(at), Text(query.from))
  /\ query.to = Unset \/ ~SortsBelow(Text(query.to), Text(at))

Matches(metric, query) ==
  /\ \A f \in {"payer", "payee", "model"} : query[f] = Unset \/ metric[f] = query[f]
  /\ InWindow(metric.at, query)

FilterMetrics(query) == Keep(metrics, {i \in DOMAIN metrics : Matches(metrics[i], query)})

-----------------------------------------------------------------------------
(* summarize() *)

NoTotals == [total |-> 0, by |-> [f \in {"model", "payer", "payee"} |-> [k \in {} |-> 0]]]

\* Mutant: the entry is set to the amount.
AddToSets(rollup, key, amount) ==
  [k \in DOMAIN rollup \cup {key} |-> IF k = key THEN amount ELSE rollup[k]]

AddTo(rollup, key, amount) ==
  [k \in DOMAIN rollup \cup {key} |->
     (IF k \in DOMAIN rollup THEN rollup[k] ELSE 0) + (IF k = key THEN amount ELSE 0)]

\* One round of the loop: an amount that does not parse is skipped.
AddMetric(totals, metric) ==
  IF metric.amount = NotInteger THEN totals
  ELSE [total |-> totals.total + metric.amount,
        by    |-> [f \in DOMAIN totals.by |-> AddTo(totals.by[f], metric[f], metric.amount)]]

Summarize(query) ==
  LET matched == FilterMetrics(query)
      totals  == FoldLeft(AddMetric, NoTotals, matched)
  IN [totalAmount |-> totals.total, count |-> Len(matched), by |-> totals.by]

-----------------------------------------------------------------------------
(* export() *)

\* JSON is one object for each metric; CSV is that under a line of headings.
Header == [line |-> "headings"]
Export(format, query) ==
  IF format = "csv" THEN <<Header>> \o FilterMetrics(query) ELSE FilterMetrics(query)

-----------------------------------------------------------------------------
(* The dashboard's agents view (app/agents/agents-view.tsx) over rows that  *)
(* ask the hub for each agent, the source agent-spend.ts names for them.    *)

AgentRows == [i \in 1 .. Cardinality(Payer) |->
  LET agent == SetToSeq(Payer)[i]
  IN [id |-> agent, spend |-> Summarize([Everything EXCEPT !.payer = agent]).totalAmount]]

\* compareSpend(): does a come before b?
ComesBefore(a, b, direction) ==
  IF direction = "asc" THEN a.spend < b.spend ELSE a.spend > b.spend

SortedRows(direction) == StableSort(AgentRows, LAMBDA a, b : ComesBefore(a, b, direction))

sumSpend(rows) == FoldLeft(LAMBDA acc, row : acc + row.spend, 0, rows)

-----------------------------------------------------------------------------
Record(metric) ==
  /\ Len(metrics) < MaxMetrics
  /\ metrics' = Append(metrics, metric)

MetricsInit == metrics = <<>>

\* The bound is reached; the hub goes on.
Full ==
  /\ Len(metrics) = MaxMetrics
  /\ UNCHANGED metrics

MetricsNext == (\E metric \in PaymentMetric : Record(metric)) \/ Full

MetricsSpec == MetricsInit /\ [][MetricsNext]_metrics

-----------------------------------------------------------------------------
(* Properties. *)

SumOf(rollup) == SumFunctionOnSet(rollup, DOMAIN rollup)

\* The three rollups are three views of one total: none loses an amount, takes
\* one twice or keeps one the others skipped, and a metric that cannot be
\* summed is still counted and exported.
RollupsAgree ==
  \A query \in MetricsQuery :
    LET summary == Summarize(query)
    IN /\ \A f \in DOMAIN summary.by : SumOf(summary.by[f]) = summary.totalAmount
       /\ Len(Export("json", query)) = summary.count
       /\ Len(Export("csv", query)) = summary.count + 1

\* Asking for one payer, payee or model is asking for its entry in the rollup
\* of everything, in any window (docs/dashboard-data-contracts.md:82 and :83
\* leave the choice of the two to the view).
DrillDownAgrees ==
  \A from, to \in Stamps \cup {Unset}, f \in {"payer", "payee", "model"} :
    LET window == [Everything EXCEPT !.from = from, !.to = to]
        all    == Summarize(window).by[f]
    IN \A k \in [payer |-> Payer, payee |-> Payee, model |-> Model][f] :
         Summarize([window EXCEPT ![f] = k]).totalAmount = IF k \in DOMAIN all THEN all[k] ELSE 0

\* The table has every agent once, in the order of spend the arrow shows, and the
\* card above it the total the hub has for all of them.
AgentTableTellsSpend ==
  \A direction \in {"asc", "desc"} :
    LET rows == SortedRows(direction)
    IN /\ {rows[i].id : i \in DOMAIN rows} = Payer
       /\ \A i, j \in DOMAIN rows : i < j =>
            /\ direction = "asc" => rows[i].spend <= rows[j].spend
            /\ direction = "desc" => rows[i].spend >= rows[j].spend
       /\ sumSpend(rows) = Summarize(Everything).totalAmount

\* Whoever asks the hub gets the same sums: by rollup, by drilling down, or as
\* the table of agents.
MetricsAgree == RollupsAgree /\ DrillDownAgrees /\ AgentTableTellsSpend

\* The time of a stamp: its second in UTC, then the digits after it.
East(s) == IF s.zone = "-" THEN 0 - s.offset ELSE s.offset
UtcSecond(s) == s.second - East(s)
Digit(s, n) == IF n \in DOMAIN s.fraction THEN s.fraction[n] ELSE 0

Earlier(a, b) ==
  \/ UtcSecond(a) < UtcSecond(b)
  \/ /\ UtcSecond(a) = UtcSecond(b)
     /\ \E n \in DOMAIN b.fraction :
          Digit(a, n) < Digit(b, n) /\ \A i \in 1 .. n - 1 : Digit(a, i) = Digit(b, i)

\* Two stamps of one zone with the same number of digits.
WrittenAlike(a, b) ==
  a.zone = b.zone /\ a.offset = b.offset /\ Len(a.fraction) = Len(b.fraction)

\* Two local clocks are apart by what their zones differ.
Apart(a, b) == IF East(a) >= East(b) THEN East(a) - East(b) ELSE East(b) - East(a)

\* A window holds what happened in it, bounds included, when the metric and the
\* bound are written alike, to the last digit.  When they are not it errs, by
\* no more than their zones differ: in one zone, within the second of the bound.
WindowErrsByNotationOnly ==
  \A s \in Stamps : \A i \in DOMAIN metrics :
    LET at     == metrics[i].at
        after  == Matches(metrics[i], [Everything EXCEPT !.from = s])
        before == Matches(metrics[i], [Everything EXCEPT !.to = s])
    IN /\ WrittenAlike(at, s) => (after <=> ~Earlier(at, s)) /\ (before <=> ~Earlier(s, at))
       /\ after \/ ~before => UtcSecond(at) + Apart(at, s) >= UtcSecond(s)
       /\ before \/ ~after => UtcSecond(at) <= UtcSecond(s) + Apart(at, s)

=============================================================================
