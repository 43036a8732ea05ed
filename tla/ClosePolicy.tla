----------------------------- MODULE ClosePolicy ------------------------------
(***************************************************************************)
(* When a channel should close: shouldClose() of @tollway/channels         *)
(* (manager.ts), and the dashboard's table of channels, which flags those  *)
(* that are near it (app/channels/channels-view.tsx).  Operators only.     *)
(*                                                                         *)
(* A threshold is a fraction of 0 to 1, here an integer in units of        *)
(* 1 / ThresholdUnit, fine enough to be out of reach of either rounding.   *)
(***************************************************************************)
EXTENDS Integers, Sequences, Ordering

CONSTANTS
  ThresholdUnit,  \* a multiple of SCALE
  Unset           \* a limit the policy does not have

SCALE == 1000000

ASSUME PolicyAssumption ==
  /\ ThresholdUnit \in Nat \ {0} /\ ThresholdUnit % SCALE = 0
  /\ Unset \notin Int

-----------------------------------------------------------------------------
(* shouldClose().  quiet is the seconds since the last commit, or since the *)
(* channel was opened.                                                     *)

\* Math.round(threshold * SCALE)
ScaledThreshold(threshold) ==
  LET unit == ThresholdUnit \div SCALE
  IN (2 * threshold + unit) \div (2 * unit)

\* Mutant: past the threshold, not at it.
DrawdownPassed(channel, threshold) ==
  /\ channel.deposit > 0
  /\ channel.committed * SCALE > channel.deposit * ScaledThreshold(threshold)

DrawdownReached(channel, threshold) ==
  /\ channel.deposit > 0
  /\ channel.committed * SCALE >= channel.deposit * ScaledThreshold(threshold)

OutOfRange(policy) == policy.drawdown # Unset /\ policy.drawdown \notin 0 .. ThresholdUnit
DrawnDown(channel, policy) == policy.drawdown # Unset /\ DrawdownReached(channel, policy.drawdown)

\* Mutant: no fallback to the time of opening.
IdleSinceCommit(channel, policy, quiet) ==
  policy.idle # Unset /\ channel.sequence >= 0 /\ quiet >= policy.idle

Idle(channel, policy, quiet) == policy.idle # Unset /\ quiet >= policy.idle

\* "throws": the promise rejects on a limit that makes no sense.  The idle limit
\* is not looked at when the drawdown decides.
ShouldClose(channel, policy, quiet) ==
  IF channel.status # "open" THEN "no"
  ELSE IF OutOfRange(policy) THEN "throws"
  ELSE IF DrawnDown(channel, policy) THEN "yes"
  ELSE IF policy.idle # Unset /\ policy.idle < 0 THEN "throws"
  ELSE IF Idle(channel, policy, quiet) THEN "yes" ELSE "no"

-----------------------------------------------------------------------------
(* ChannelsView.  Its rows are channel records. *)

RatioDigits == 10000

drawdownRatio(row) ==
  IF row.deposit = 0 THEN 0 ELSE (row.committed * RatioDigits) \div row.deposit

isNearingClose(row, threshold) ==
  /\ row.status = "open"
  /\ drawdownRatio(row) * (ThresholdUnit \div RatioDigits) >= threshold

\* The sort is stable.
SortedRows(rows) == StableSort(rows, LAMBDA a, b : drawdownRatio(a) > drawdownRatio(b))

=============================================================================
