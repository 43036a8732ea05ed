----------------------------- MODULE Reconciler -----------------------------
(***************************************************************************)
(* reconcileChannel of @tollway/reconcile (index.ts): the drift between a  *)
(* stored commitment stream and what the channel settled on chain.  A pure *)
(* function; ChannelAudit applies it to the channels of ChannelManager.    *)
(***************************************************************************)
EXTENDS Integers, Sequences

CONSTANT Suppressed   \* the drift the suppress hook filters out

DriftKind == {"under-settled", "over-settled", "missing-commitment",
              "unexpected-remainder", "sequence-gap", "malformed-record"}

ASSUME SuppressedAssumption == Suppressed \subseteq DriftKind

Numbers(s) == {s[i].sequence : i \in DOMAIN s}

\* Mutant: only missing numbers count, repeated ones pass.
NumberMissing(s) == \E n \in Numbers(s) : \E k \in 0 .. n : k \notin Numbers(s)

\* Sorted, the numbers are 0, 1, 2...: none is missing and none is repeated.
SequenceGap(s) == Numbers(s) # 0 .. (Len(s) - 1)

\* The total of the last commitment in the stable order by sequence.
LastCumulative(s) ==
  LET last == CHOOSE i \in DOMAIN s : \A j \in DOMAIN s :
                s[j].sequence < s[i].sequence \/ (s[j].sequence = s[i].sequence /\ j <= i)
  IN s[last].cumulative

\* A negative amount stands for one that does not parse.
StreamDrift(s, settled, remainder) ==
  {kind \in DriftKind :
     CASE kind = "sequence-gap"         -> SequenceGap(s)
       [] kind = "malformed-record"     -> LastCumulative(s) < 0
       [] kind = "under-settled"        -> settled < LastCumulative(s)
       [] kind = "over-settled"         -> settled > LastCumulative(s) /\ LastCumulative(s) >= 0
       [] kind = "unexpected-remainder" -> settled + remainder = 0 /\ LastCumulative(s) > 0
       [] kind = "missing-commitment"   -> FALSE}

Drift(s, settled, remainder) ==
  (IF settled < 0 \/ remainder < 0 THEN {"malformed-record"}
   ELSE IF s = <<>> THEN {kind \in {"missing-commitment"} : settled > 0}
   ELSE StreamDrift(s, settled, remainder)) \ Suppressed

=============================================================================
