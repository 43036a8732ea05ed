------------------------- MODULE ChannelKeeper_proofs -------------------------
(***************************************************************************)
(* Theorems about ChannelKeeper and ClosePolicy, for any number of calls   *)
(* and channels, any policies and deposits and any unit of thresholds: the *)
(* limits are told exactly, and an answer the keeper acts on is stale only *)
(* because of a commit or a close.                                         *)
(***************************************************************************)
EXTENDS ChannelKeeper, ChannelManager_proofs

(***************************************************************************)
(* Thresholds, in units of 1 / ThresholdUnit, and ratios, in hundredths of *)
(* a percent: both are rounded, and neither rounding passes the other.     *)
(***************************************************************************)

LEMMA DivIs ==
  ASSUME NEW a \in Int, NEW b \in Nat \ {0}
  PROVE  a \div b \in Int /\ b * (a \div b) <= a /\ a < b * (a \div b) + b
BY SMT

LEMMA DivUnique ==
  ASSUME NEW a \in Int, NEW b \in Nat \ {0}, NEW q \in Int, b * q <= a, a < b * q + b
  PROVE  a \div b = q
BY SMT

LEMMA TimesMore ==
  ASSUME NEW a \in Int, NEW b \in Int, NEW k \in Nat, a <= b
  PROVE  k * a <= k * b
BY SMT

LEMMA TimesKeeps ==
  ASSUME NEW a \in Int, NEW b \in Int, NEW k \in Nat \ {0}
  PROVE  k * a <= k * b <=> a <= b
BY SMT

LEMMA TimesSwaps ==
  ASSUME NEW a \in Int, NEW b \in Int, NEW k \in Int
  PROVE  a * (k * b) = k * (a * b)
BY SMT

\* A step of what the scaled threshold tells apart.
Unit == ThresholdUnit \div SCALE

LEMMA UnitIs ==
  /\ Unit \in Nat \ {0} /\ ThresholdUnit = SCALE * Unit
  /\ ThresholdUnit \div RatioDigits = 100 * Unit
<1>1. ThresholdUnit \in Nat \ {0} /\ ThresholdUnit % 1000000 = 0
  BY SMT, PolicyAssumption DEF SCALE
<1>2. PICK u : u = ThresholdUnit \div 1000000
  BY SMT
<1>3. u \in Nat \ {0} /\ ThresholdUnit = 1000000 * u
  BY SMT, <1>1, <1>2
<1>4. ThresholdUnit \div 10000 = 100 * u
  BY SMT, <1>3, DivUnique
<1> QED
  BY SMT, <1>2, <1>3, <1>4 DEF Unit, SCALE, RatioDigits

LEMMA ScaledIs ==
  ASSUME NEW t \in Nat
  PROVE  /\ ScaledThreshold(t) \in Int
         /\ \A q \in Nat : t <= Unit * q => ScaledThreshold(t) <= q
         /\ \A q \in Nat : t = Unit * q => ScaledThreshold(t) = q
<1>1. PICK u \in Nat \ {0} : u = Unit
  BY SMT, UnitIs
<1>2. PICK s : s = ScaledThreshold(t)
  BY SMT
<1>3. s = (2 * t + u) \div (2 * u)
  BY SMT, <1>1, <1>2 DEF ScaledThreshold, Unit
<1>4. 2 * t + u \in Int /\ 2 * u \in Nat \ {0}
  BY SMT, <1>1
<1>5. s \in Int /\ (2 * u) * s <= 2 * t + u /\ 2 * t + u < (2 * u) * s + 2 * u
  <2>1. PICK a \in Int, b \in Nat \ {0} : a = 2 * t + u /\ b = 2 * u
    BY SMT, <1>4
  <2>2. s = a \div b
    BY SMT, <1>3, <2>1
  <2>3. s \in Int /\ b * s <= a /\ a < b * s + b
    BY SMT, <2>2, DivIs
  <2> QED
    BY SMT, <2>1, <2>3
<1>6. (2 * u) * s = 2 * (u * s)
  BY SMT, <1>1, <1>5
<1>7. ASSUME NEW q \in Nat, t <= u * q PROVE s <= q
  <2> SUFFICES ASSUME q + 1 <= s PROVE FALSE
    BY SMT, <1>5
  <2>1. u * (q + 1) <= u * s
    BY SMT, <1>1, <1>5, TimesMore
  <2>2. u * (q + 1) = u * q + u /\ u * q \in Int /\ u * s \in Int
    BY SMT, <1>1, <1>5
  <2> QED
    BY SMT, <1>1, <1>5, <1>6, <1>7, <2>1, <2>2
<1>8. ASSUME NEW q \in Nat, t = u * q PROVE s = q
  <2>1. s <= q
    BY SMT, <1>1, <1>7, <1>8
  <2> SUFFICES ASSUME s + 1 <= q PROVE FALSE
    BY SMT, <1>5, <2>1
  <2>2. u * (s + 1) <= u * q
    BY SMT, <1>1, <1>5, TimesMore
  <2>3. u * (s + 1) = u * s + u /\ u * q \in Int /\ u * s \in Int
    BY SMT, <1>1, <1>5
  <2> QED
    BY SMT, <1>1, <1>5, <1>6, <1>8, <2>2, <2>3
<1> QED
  BY SMT, <1>1, <1>2, <1>5, <1>7, <1>8

\* A record of an amount committed of a deposit.
IsRow(row) == row.deposit \in Nat \ {0} /\ row.committed \in Int

LEMMA RatioIs ==
  ASSUME NEW row, IsRow(row)
  PROVE  drawdownRatio(row) \in Int /\ row.deposit * drawdownRatio(row) <= row.committed * RatioDigits
<1>1. PICK d \in Nat \ {0}, n \in Int : d = row.deposit /\ n = row.committed
  BY SMT DEF IsRow
<1>2. drawdownRatio(row) = (n * 10000) \div d
  BY SMT, <1>1 DEF drawdownRatio, RatioDigits
<1>3. n * 10000 \in Int
  BY SMT, <1>1
<1> QED
  BY SMT, <1>1, <1>2, <1>3, DivIs DEF RatioDigits

\* What is flagged is reached.
LEMMA NearIsReached ==
  ASSUME NEW row, IsRow(row), NEW t \in Nat, isNearingClose(row, t)
  PROVE  DrawdownReached(row, t)
<1>1. PICK d \in Nat \ {0}, n \in Int, ratio \in Int :
        d = row.deposit /\ n = row.committed /\ ratio = drawdownRatio(row)
  BY SMT, RatioIs DEF IsRow
<1>2. d * ratio <= n * 10000
  BY SMT, <1>1, RatioIs DEF RatioDigits
<1>3. PICK u \in Nat \ {0} : u = Unit
  BY SMT, UnitIs
<1>4. ratio * (100 * u) >= t
  BY SMT, <1>1, <1>3, UnitIs DEF isNearingClose
<1>5. PICK q : q = 100 * ratio
  BY SMT
<1>6. q \in Int /\ ratio * (100 * u) = u * q
  BY SMT, <1>1, <1>3, <1>5
<1>7. q \in Nat
  <2> SUFFICES ASSUME q <= 0 - 1 PROVE FALSE
    BY SMT, <1>6
  <2>1. u * q <= u * (0 - 1)
    BY SMT, <1>3, <1>6, TimesMore
  <2>2. u * (0 - 1) < 0 /\ u * q \in Int
    BY SMT, <1>3, <1>6
  <2> QED
    BY SMT, <1>4, <1>6, <2>1, <2>2
<1>8. PICK s \in Int : s = ScaledThreshold(t) /\ s <= q
  BY SMT, <1>3, <1>4, <1>6, <1>7, ScaledIs
<1>9. d * s <= d * q
  BY SMT, <1>1, <1>6, <1>8, TimesMore
<1>10. d * q = 100 * (d * ratio) /\ d * ratio \in Int /\ d * s \in Int
  BY SMT, <1>1, <1>5, <1>8
<1>11. n * 1000000 >= d * s
  BY SMT, <1>1, <1>2, <1>9, <1>10
<1> QED
  BY SMT, <1>1, <1>8, <1>11 DEF DrawdownReached, SCALE

\* A threshold of up to six digits is told exactly.
LEMMA ReachedExactly ==
  ASSUME NEW row, IsRow(row), NEW t \in Nat, t % Unit = 0
  PROVE  DrawdownReached(row, t) <=> row.committed * ThresholdUnit >= row.deposit * t
<1>1. PICK d \in Nat \ {0}, n \in Int : d = row.deposit /\ n = row.committed
  BY SMT DEF IsRow
<1>2. PICK u \in Nat \ {0} : u = Unit
  BY SMT, UnitIs
<1>3. PICK q : q = t \div u
  BY SMT
<1>4. q \in Nat /\ t = u * q
  BY SMT, <1>2, <1>3
<1>5. ScaledThreshold(t) = q
  BY SMT, <1>2, <1>4, ScaledIs
<1>6. DrawdownReached(row, t) <=> d * q <= n * 1000000
  BY SMT, <1>1, <1>4, <1>5 DEF DrawdownReached, SCALE
<1>7. ThresholdUnit = 1000000 * u
  BY SMT, <1>2, UnitIs DEF SCALE
<1>8. n * ThresholdUnit = u * (n * 1000000) /\ d * t = u * (d * q) /\ n * 1000000 \in Int /\ d * q \in Int
  <2>1. n * ThresholdUnit = n * (u * 1000000) /\ d * t = d * (u * q)
    BY SMT, <1>2, <1>4, <1>7
  <2>2. n * (u * 1000000) = u * (n * 1000000) /\ d * (u * q) = u * (d * q)
    BY SMT, <1>1, <1>2, <1>4, TimesSwaps
  <2> QED
    BY SMT, <1>1, <1>4, <2>1, <2>2
<1>9. u * (d * q) <= u * (n * 1000000) <=> d * q <= n * 1000000
  BY SMT, <1>2, <1>8, TimesKeeps
<1>10. u * (d * q) \in Int /\ u * (n * 1000000) \in Int
  BY SMT, <1>2, <1>8
<1> QED
  BY SMT, <1>1, <1>6, <1>8, <1>9, <1>10

\* The table has of two rows the one with the greater ratio first.
LEMMA TwoSorted ==
  ASSUME NEW a, IsRow(a), NEW b, IsRow(b), NEW rows, rows = SortedRows(<<a, b>>)
  PROVE  /\ IsRow(rows[1]) /\ IsRow(rows[2])
         /\ drawdownRatio(rows[2]) <= drawdownRatio(rows[1])
<1>1. PICK array : array = <<a, b>>
  OBVIOUS
<1>key. PICK key : key = [i \in 1 .. 2 |-> 0 - drawdownRatio(array[i])]
  OBVIOUS
<1>2. \A i \in 1 .. 2 : IsRow(array[i])
  BY SMT, <1>1
<1>3. \A i \in 1 .. 2 : drawdownRatio(array[i]) \in Int
  BY <1>2, RatioIs
<1>4. \A i \in 1 .. 2 : key[i] \in Int /\ key[i] = 0 - drawdownRatio(array[i])
  BY SMT, <1>key, <1>3
<1>5. PICK upTo : upTo = [i \in 1 .. 2 |->
        {j \in 1 .. 2 : \/ drawdownRatio(array[j]) > drawdownRatio(array[i])
                        \/ ~(drawdownRatio(array[i]) > drawdownRatio(array[j])) /\ j <= i}]
  OBVIOUS
<1>6. \A i, j \in 1 .. 2 : drawdownRatio(array[j]) > drawdownRatio(array[i]) <=> key[j] < key[i]
  BY SMT, <1>3, <1>4
<1>7. \A i \in 1 .. 2 : upTo[i] = {j \in 1 .. 2 : key[j] < key[i] \/ (~(key[i] < key[j]) /\ j <= i)}
  BY SMT, <1>5, <1>6
<1>8. PICK N, o : N = 1 .. 2 /\ o = InOrder(N, upTo)
  OBVIOUS
<1>9. IsFiniteSet(N) /\ Cardinality(N) = 2 /\ IsOrder(N, upTo)
  <2>1. IsOrder(1 .. 2, upTo)
    <3>1. PICK n \in Nat : n = 2
      OBVIOUS
    <3>2. \A i \in 1 .. n : key[i] \in Int
      BY <1>4, <3>1
    <3>3. \A i \in 1 .. n : upTo[i] = {j \in 1 .. n : key[j] < key[i] \/ (~(key[i] < key[j]) /\ j <= i)}
      BY <1>7, <3>1
    <3>4. IsOrder(1 .. n, upTo)
      BY <3>2, <3>3, SortedByKey
    <3> QED
      BY <3>1, <3>4
  <2> QED
    BY <1>8, <2>1, UpToN
<1>10. /\ Cardinality(N) \in Nat /\ o \in [1 .. Cardinality(N) -> N]
       /\ \A i, j \in 1 .. Cardinality(N) : i <= j => o[i] \in upTo[o[j]]
  BY <1>8, <1>9, OrderIs
<1>11. o[1] \in 1 .. 2 /\ o[2] \in 1 .. 2 /\ o[1] \in upTo[o[2]]
  BY SMT, <1>8, <1>9, <1>10
<1>12. key[o[1]] <= key[o[2]]
  BY SMT, <1>4, <1>7, <1>11
<1>13. rows = [i \in 1 .. 2 |-> array[o[i]]]
  <2>1. DOMAIN array = N
    BY SMT, <1>1, <1>8
  <2> QED
    BY <1>1, <1>5, <1>8, <2>1 DEF SortedRows, StableSort
<1>14. rows[1] = array[o[1]] /\ rows[2] = array[o[2]]
  BY SMT, <1>13
<1>15. drawdownRatio(array[o[2]]) <= drawdownRatio(array[o[1]])
  BY SMT, <1>3, <1>4, <1>11, <1>12
<1> QED
  BY <1>2, <1>11, <1>14, <1>15

LEMMA RowsAre == TypeOK => \A c \in Known : IsRow(channels[c])
BY DEF TypeOK, Known, Record, IsRow

LEMMA DrawdownTold == TypeOK => DrawdownIsTold
<1> SUFFICES ASSUME TypeOK, NEW c \in Known PROVE
      /\ policy.drawdown \in 0 .. ThresholdUnit /\ policy.drawdown % (ThresholdUnit \div SCALE) = 0 =>
           (DrawdownReached(channels[c], policy.drawdown) <=>
              channels[c].committed * ThresholdUnit >= channels[c].deposit * policy.drawdown)
      /\ policy.drawdown \in 0 .. ThresholdUnit =>
           /\ isNearingClose(channels[c], policy.drawdown) => Asked(c) = "yes"
           /\ \A row \in OtherRows :
                LET rows == SortedRows(<<row, channels[c]>>)
                    Flagged(i) == isNearingClose(rows[i], policy.drawdown)
                IN rows[1].status = "open" /\ Flagged(2) => Flagged(1)
  BY DEF DrawdownIsTold, DrawdownIsExact, FlagsAreTrue
<1>1. PICK t, own : t = policy.drawdown /\ own = channels[c] /\ IsRow(own)
  BY RowsAre
<1>2. t \in 0 .. ThresholdUnit => t \in Nat /\ t # Unset
  BY PolicyAssumption
<1>3. t \in 0 .. ThresholdUnit /\ t % Unit = 0 =>
        (DrawdownReached(own, t) <=> own.committed * ThresholdUnit >= own.deposit * t)
  BY <1>1, <1>2, ReachedExactly
<1>4. ASSUME t \in 0 .. ThresholdUnit, isNearingClose(own, t) PROVE Asked(c) = "yes"
  <2>1. DrawdownReached(own, t)
    BY <1>1, <1>2, <1>4, NearIsReached
  <2>2. own.status = "open"
    BY <1>4 DEF isNearingClose
  <2>3. ~OutOfRange(policy) /\ DrawnDown(own, policy)
    BY <1>1, <1>2, <1>4, <2>1 DEF OutOfRange, DrawnDown
  <2> QED
    BY <1>1, <2>2, <2>3 DEF Asked, ShouldClose
<1>5. ASSUME t \in 0 .. ThresholdUnit, NEW row \in OtherRows, NEW rows, rows = SortedRows(<<row, own>>),
             rows[1].status = "open", isNearingClose(rows[2], t)
      PROVE  isNearingClose(rows[1], t)
  <2>1. IsRow(row)
    <3>1. PICK d \in {e \in Deposits \cup {2} : e > 0}, n \in 0 .. 2 :
            row = [deposit |-> d, committed |-> n, sequence |-> 0, status |-> "open"]
      BY DEF OtherRows
    <3>2. d \in Nat \ {0} /\ n \in Int
      BY InputAssumption
    <3> QED
      BY <3>1, <3>2 DEF IsRow
  <2>2. PICK r1, r2 : r1 = drawdownRatio(rows[1]) /\ r2 = drawdownRatio(rows[2])
    BY SMT
  <2>3. r1 \in Int /\ r2 \in Int /\ r2 <= r1
    <3>1. IsRow(rows[1]) /\ IsRow(rows[2]) /\ drawdownRatio(rows[2]) <= drawdownRatio(rows[1])
      BY <1>1, <1>5, <2>1, TwoSorted
    <3> QED
      BY <2>2, <3>1, RatioIs
  <2>4. PICK k \in Nat : k = ThresholdUnit \div RatioDigits
    BY SMT, UnitIs
  <2>5. r2 * k >= t
    BY <1>5, <2>2, <2>4 DEF isNearingClose
  <2>6. k * r2 <= k * r1
    BY <2>3, <2>4, TimesMore
  <2>7. r1 * k >= t
    BY SMT, <1>2, <1>5, <2>3, <2>4, <2>5, <2>6
  <2> QED
    BY <1>5, <2>2, <2>4, <2>7 DEF isNearingClose
<1> QED
  BY <1>1, <1>3, <1>4, <1>5 DEF Unit

(***************************************************************************)
(* A call of the keeper's is forgotten once it has returned, so the steps  *)
(* are those of the manager and one more: what is needed of the manager is *)
(* that no call says "committed" while it is still under way.              *)
(***************************************************************************)

Answered == \A x \in Call : out[x] = "committed" => pc[x] = "done"

KeeperInv ==
  /\ Typed
  /\ Answered
  /\ quiet \in [Channel -> Nat]
  /\ policy \in Policies

LEMMA InitKeeper == KeeperInit => KeeperInv
<1> SUFFICES ASSUME KeeperInit PROVE KeeperInv
  OBVIOUS
<1>1. Typed
  BY InitType DEF KeeperInit
<1>2. Answered
  BY DEF KeeperInit, Init, Answered
<1> QED
  BY <1>1, <1>2 DEF KeeperInit, KeeperInv

LEMMA KeeperMoves ==
  KeeperNext => KeeperReturns \/ (\E x \in Call : Open(x) \/ Commit(x) \/ Close(x) \/ Resume(x)) \/ UNCHANGED vars
BY KeeperAssumption DEF KeeperNext, Called, Resumed, Second, Ask, KeeperCloses

LEMMA StepAnswered == Typed /\ Answered /\ [Next]_vars => Answered'
<1> SUFFICES ASSUME Typed, Answered, [Next]_vars PROVE Answered'
  OBVIOUS
<1>1. OutsKept
  BY StepOuts
<1> QED
  BY <1>1 DEF OutsKept, Answered

\* The keeper forgets a call that is over.
LEMMA ReturnsTyped == Typed /\ Answered /\ KeeperReturns => Typed' /\ Answered'
<1> SUFFICES ASSUME Typed, Answered, KeeperReturns PROVE Typed' /\ Answered'
  OBVIOUS
<1>1. /\ pc[Keeper] = "done" /\ pc' = [pc EXCEPT ![Keeper] = "idle"]
      /\ job' = [job EXCEPT ![Keeper] = NoJob]
      /\ out' = [out EXCEPT ![Keeper] = "none"]
      /\ UNCHANGED <<channels, stream, onChain, faults>>
  BY DEF KeeperReturns, Go
<1>2. NoJob \in Job
  BY DEF NoJob, Job
<1>3. "idle" \in Pc /\ "none" \in Results /\ "idle" \notin Live /\ "idle" \notin Committing \cup Closing
  BY DEF Pc, Results, Live, Committing, Closing
<1>4. Keeper \in Call
  BY KeeperAssumption
<1>5. pc' \in [Call -> Pc] /\ job' \in [Call -> Job] /\ out' \in [Call -> Results]
  BY <1>1, <1>2, <1>3 DEF Typed, TypeOK
<1>6. /\ pc'[Keeper] = "idle" /\ out'[Keeper] = "none"
      /\ \A y \in Call \ {Keeper} : pc'[y] = pc[y] /\ job'[y] = job[y] /\ out'[y] = out[y]
  BY <1>1, <1>4 DEF Typed, TypeOK
<1>7. PlacesOK'
  BY <1>1, <1>3, <1>6 DEF Typed, TypeOK, PlacesOK, ChannelOf
<1>8. TypeOK'
  BY <1>1, <1>5, <1>7 DEF Typed, TypeOK, PlacesOK
<1>9. OpeningIsNew' /\ SigningIsNext' /\ HasLatest'
  BY <1>1, <1>3, <1>6 DEF Typed, OpeningIsNew, SigningIsNext, HasLatest, ChannelOf
<1>10. Answered'
  BY <1>6 DEF Answered
<1> QED
  BY <1>8, <1>9, <1>10 DEF Typed

LEMMA QuietIs ==
  ASSUME quiet \in [Channel -> Nat], KeeperNext
  PROVE  quiet' \in [Channel -> Nat]
<1>1. CASE Second
  <2>1. quiet' = [c \in Channel |-> IF c \in Known /\ quiet[c] < Horizon THEN quiet[c] + 1 ELSE quiet[c]]
    BY <1>1 DEF Second
  <2> HIDE DEF Known
  <2> QED
    BY <2>1
<1>2. ASSUME NEW x \in Call, quiet' = Stamps(x) PROVE quiet' \in [Channel -> Nat]
  BY <1>2 DEF Stamps
<1>3. CASE ~Second /\ ~Resumed
  BY <1>3 DEF KeeperNext, Called, Ask, KeeperCloses, KeeperReturns, keeperVars
<1> QED
  BY <1>1, <1>2, <1>3 DEF Resumed

LEMMA StepKeeper == KeeperInv /\ [KeeperNext]_allVars => KeeperInv'
<1> SUFFICES ASSUME KeeperInv, [KeeperNext]_allVars PROVE KeeperInv'
  OBVIOUS
<1>1. Typed' /\ Answered'
  <2>1. CASE KeeperReturns
    BY <2>1, ReturnsTyped DEF KeeperInv
  <2>2. CASE [Next]_vars
    BY <2>2, StepType, StepAnswered DEF KeeperInv
  <2> QED
    BY <2>1, <2>2, KeeperMoves DEF Next, allVars
<1>2. quiet' \in [Channel -> Nat]
  BY QuietIs DEF KeeperInv, allVars, keeperVars
<1>3. policy' = policy
  BY DEF KeeperNext, Called, Resumed, Second, Ask, KeeperCloses, KeeperReturns, allVars, keeperVars
<1> QED
  BY <1>1, <1>2, <1>3 DEF KeeperInv

\* DrawdownIsTold: for every unit of thresholds, policy and deposit, shouldClose()
\* decides the drawdown exactly, what the dashboard flags it says yes to, and
\* the flagged channels come first (manager.ts, channels-view.tsx).
THEOREM LimitsAreTold == KeeperSpec => []DrawdownIsTold
<1>1. KeeperInv => DrawdownIsTold
  BY DrawdownTold DEF KeeperInv, Typed
<1> QED
  BY InitKeeper, StepKeeper, <1>1, PTL DEF KeeperSpec

(***************************************************************************)
(* A channel that is due stays so.                                         *)
(***************************************************************************)

\* What DueUntilUsed says of one channel.
StaysDue(c) ==
  \/ Asked(c)' = "yes"
  \/ ~IsOpen(c)'
  \/ \E x \in Call : ChannelOf(x) = c /\ out[x] # "committed" /\ out'[x] = "committed"

LEMMA DueIsOpen == \A c \in Known : Asked(c) = "yes" => IsOpen(c)
BY DEF Known, Asked, ShouldClose, IsOpen, Has

\* The record and the policy are as they were, and no commit was recorded.
LEMMA QuietStaysDue ==
  ASSUME KeeperInv, NEW c \in Known, Asked(c) = "yes",
         channels'[c] = channels[c], policy' = policy, quiet'[c] \in Nat, quiet'[c] >= quiet[c]
  PROVE  StaysDue(c)
<1>1. quiet[c] \in Nat
  BY DEF KeeperInv, Known
<1>2. channels[c].status = "open" /\ ~OutOfRange(policy)
  BY DEF Asked, ShouldClose
<1>3. Asked(c)' = ShouldClose(channels[c], policy, quiet'[c])
  BY DEF Asked
<1>4. CASE DrawnDown(channels[c], policy)
  BY <1>2, <1>3, <1>4 DEF ShouldClose, StaysDue
<1>5. CASE ~DrawnDown(channels[c], policy)
  <2>1. ~(policy.idle # Unset /\ policy.idle < 0) /\ Idle(channels[c], policy, quiet[c])
    BY <1>2, <1>5 DEF Asked, ShouldClose
  <2>2. policy.idle \in Int
    <3>1. policy \in [drawdown : Int \cup {Unset}, idle : Int \cup {Unset}]
      BY KeeperAssumption DEF KeeperInv
    <3> QED
      BY <2>1, <3>1 DEF Idle
  <2>3. Idle(channels[c], policy, quiet'[c])
    BY <1>1, <2>1, <2>2 DEF Idle
  <2> QED
    BY <1>2, <1>3, <1>5, <2>1, <2>3 DEF ShouldClose, StaysDue
<1> QED
  BY <1>4, <1>5

\* A step that says nothing to a call that waits leaves the stamps alone.
LEMMA NoStamp ==
  ASSUME NEW x \in Call, out'[x] = out[x] \/ out'[x] \notin {"opened", "committed"}
  PROVE  Stamps(x) = quiet
BY DEF Stamps

LEMMA ElsewhereStaysDue ==
  ASSUME KeeperInv, NEW c \in Known, Asked(c) = "yes", NEW x \in Call, ChannelOf(x) # c,
         policy' = policy, quiet' = Stamps(x), channels'[c] = channels[c]
  PROVE  StaysDue(c)
<1>1. quiet'[c] = quiet[c] /\ quiet[c] \in Nat
  BY DEF Stamps, KeeperInv, Known
<1> QED
  BY <1>1, QuietStaysDue

\* A close takes the channel out of "open", or puts it back there.
LEMMA ClosingStaysDue ==
  ASSUME KeeperInv, NEW c \in Known, Asked(c) = "yes", NEW x \in Call, policy' = policy, quiet' = quiet,
         NEW status \in ChannelStatus, SetStatus(ChannelOf(x), status)
  PROVE  StaysDue(c)
<1>1. c \in Channel /\ channels[c] \in Record /\ channels[c].status = "open" /\ quiet[c] \in Nat
  BY DueIsOpen DEF KeeperInv, Typed, TypeOK, Known, IsOpen, Has
<1>2. channels \in [Channel -> Record \cup {NoRecord}]
  BY DEF KeeperInv, Typed, TypeOK
<1>3. CASE ChannelOf(x) # c
  BY <1>1, <1>2, <1>3, QuietStaysDue DEF SetStatus
<1>4. CASE ChannelOf(x) = c
  <2>1. channels'[c] = [channels[c] EXCEPT !.status = status]
    BY <1>1, <1>2, <1>4 DEF SetStatus
  <2>2. CASE status = "open"
    <3>1. channels'[c] = channels[c]
      BY <1>1, <2>1, <2>2 DEF Record
    <3> QED
      BY <1>1, <3>1, QuietStaysDue
  <2>3. CASE status # "open"
    <3>1. channels'[c].status = status
      BY <1>1, <2>1 DEF Record
    <3> QED
      BY <2>3, <3>1 DEF StaysDue, IsOpen, Has
  <2> QED
    BY <2>2, <2>3
<1> QED
  BY <1>3, <1>4

LEMMA ResumedStaysDue ==
  ASSUME KeeperInv, NEW c \in Known, Asked(c) = "yes", NEW x \in Call, Resume(x),
         quiet' = Stamps(x), policy' = policy
  PROVE  StaysDue(c)
<1>1. /\ c \in Channel /\ channels[c] # NoRecord /\ quiet[c] \in Nat
      /\ channels \in [Channel -> Record \cup {NoRecord}] /\ out \in [Call -> Results]
  BY DEF KeeperInv, Typed, TypeOK, Known
<1>2. \A result : Finish(x, result) => out'[x] = result
  BY <1>1 DEF Finish
<1>3. CASE OpenReturns(x)
  <2>1. ChannelOf(x) # c
    BY <1>1, <1>3 DEF OpenReturns, KeeperInv, Typed, OpeningIsNew
  <2>2. channels'[c] = channels[c]
    BY <1>1, <1>3, <2>1 DEF OpenReturns
  <2> QED
    BY <2>1, <2>2, ElsewhereStaysDue
<1>4. CASE CommitRecorded(x)
  <2>1. CASE ChannelOf(x) = c
    <3>1. out[x] # "committed"
      BY <1>4 DEF CommitRecorded, KeeperInv, Answered
    <3>2. out'[x] = "committed"
      BY <1>2, <1>4 DEF CommitRecorded
    <3> QED
      BY <2>1, <3>1, <3>2 DEF StaysDue
  <2>2. CASE ChannelOf(x) # c
    <3>1. channels'[c] = channels[c]
      BY <1>1, <1>4, <2>2 DEF CommitRecorded
    <3> QED
      BY <2>2, <3>1, ElsewhereStaysDue
  <2> QED
    BY <2>1, <2>2
<1>5. CASE UNCHANGED channels /\ (UNCHANGED out \/ Finish(x, "threw"))
  <2>1. quiet' = quiet
    BY <1>2, <1>5, NoStamp
  <2> QED
    BY <1>1, <1>5, <2>1, QuietStaysDue
<1>6. CASE /\ \E status \in ChannelStatus : SetStatus(ChannelOf(x), status)
           /\ UNCHANGED out \/ Finish(x, "threw") \/ Finish(x, "closed")
  <2>1. quiet' = quiet
    BY <1>2, <1>6, NoStamp
  <2> QED
    BY <1>6, <2>1, ClosingStaysDue
<1>7. SignReturns(x) \/ SignFails(x) \/ OpenFails(x) \/ CloseLists(x) \/ ContractSettles(x)
        => UNCHANGED channels /\ (UNCHANGED out \/ Finish(x, "threw"))
  BY DEF SignReturns, SignFails, OpenFails, CloseLists, ContractSettles
<1>8. CloseMarks(x) \/ CloseFails(x) \/ CloseReturns(x)
        => /\ \E status \in ChannelStatus : SetStatus(ChannelOf(x), status)
           /\ UNCHANGED out \/ Finish(x, "threw") \/ Finish(x, "closed")
  BY DEF CloseMarks, CloseFails, CloseReturns, ChannelStatus
<1> QED
  BY <1>3, <1>4, <1>5, <1>6, <1>7, <1>8 DEF Resume

LEMMA StepStaysDue ==
  ASSUME KeeperInv, KeeperNext, NEW c \in Known, Asked(c) = "yes"
  PROVE  StaysDue(c)
<1>1. policy' = policy
  BY DEF KeeperNext, Called, Resumed, Second, Ask, KeeperCloses, KeeperReturns, keeperVars
<1>2. c \in Channel /\ quiet[c] \in Nat
  BY DEF KeeperInv, Known
<1>3. CASE Resumed
  BY <1>1, <1>3, ResumedStaysDue DEF Resumed
<1>4. CASE Second
  <2>1. quiet'[c] = (IF quiet[c] < Horizon THEN quiet[c] + 1 ELSE quiet[c]) /\ channels' = channels
    BY <1>2, <1>4 DEF Second, vars
  <2>2. quiet'[c] \in Nat /\ quiet'[c] >= quiet[c]
    BY <1>2, <2>1
  <2> QED
    BY <1>1, <2>1, <2>2, QuietStaysDue
<1>5. CASE ~Resumed /\ ~Second
  <2>1. channels' = channels /\ quiet' = quiet
    BY <1>5 DEF KeeperNext, Called, Open, Commit, Ask, KeeperCloses, Close, KeeperReturns, keeperVars, vars
  <2> QED
    BY <1>1, <1>2, <2>1, QuietStaysDue
<1> QED
  BY <1>3, <1>4, <1>5

\* DueUntilUsed: however calls, seconds and other channels' work come between
\* the answer "yes" of shouldClose() and the close() it leads to, the channel
\* goes on to be due unless a commit to it landed or it is no longer open.
THEOREM DueStaysDue == KeeperSpec => DueUntilUsed
<1>1. KeeperInv /\ [KeeperNext]_allVars =>
        [\A c \in Known : Asked(c) = "yes" =>
           \/ Asked(c)' = "yes"
           \/ ~IsOpen(c)'
           \/ \E x \in Call : ChannelOf(x) = c /\ out[x] # "committed" /\ out'[x] = "committed"]_allVars
  BY StepStaysDue DEF StaysDue
<1> QED
  BY InitKeeper, StepKeeper, <1>1, PTL DEF KeeperSpec, DueUntilUsed

(***************************************************************************)
(* The manager stays safe in a keeper's hands.  The keeper makes a call of *)
(* close() as often as it likes, so calls of close do not run out as they  *)
(* do in ChannelManager: what was proved there for one call each holds     *)
(* here for any number.                                                    *)
(***************************************************************************)

KeptSafe == KeeperInv /\ Within /\ Numbered

\* A call that is over has nothing left to sign, record or settle.
LEMMA ReturnsSafe == Typed /\ Within /\ Numbered /\ KeeperReturns => Within' /\ Numbered'
<1> SUFFICES ASSUME Typed, Within, Numbered, KeeperReturns PROVE Within' /\ Numbered'
  OBVIOUS
<1>1. Keeper \in Call /\ UNCHANGED <<channels, stream, onChain>>
  BY KeeperAssumption DEF KeeperReturns
<1>2. pc'[Keeper] = "idle" /\ \A y \in Call \ {Keeper} : pc'[y] = pc[y] /\ job'[y] = job[y]
  BY <1>1 DEF KeeperReturns, Go, Typed, TypeOK
<1>3. RecordsWithin' /\ CommitmentsWithinDeposit'
  BY <1>1 DEF Within, RecordsWithin, CommitmentsWithinDeposit
<1>4. JobsWithin'
  BY <1>1, <1>2 DEF Within, JobsWithin, JobWithin, ChannelOf, Committing
<1>5. \A x \in Call : JobNumbered(x)'
  BY <1>1, <1>2 DEF Numbered, JobNumbered, HasNumber, HasOwn, ChannelOf
<1>6. \A c \in Channel : StreamNumbered(c)' /\ (channels'[c] # NoRecord => RecordNumbered(c)')
  BY <1>1 DEF Numbered, StreamNumbered, RecordNumbered, HasNumber
<1> QED
  BY <1>3, <1>4, <1>5, <1>6 DEF Within, Numbered

LEMMA StepKeptSafe == KeptSafe /\ [KeeperNext]_allVars => KeptSafe'
<1> SUFFICES ASSUME KeptSafe, [KeeperNext]_allVars PROVE KeptSafe'
  OBVIOUS
<1>1. KeeperInv'
  BY StepKeeper DEF KeptSafe
<1>2. CASE KeeperReturns
  BY <1>1, <1>2, ReturnsSafe DEF KeptSafe, KeeperInv
<1>3. CASE [Next]_vars
  BY <1>1, <1>3, StepWithin, StepNumbered DEF KeptSafe, KeeperInv
<1> QED
  BY <1>2, <1>3, KeeperMoves DEF Next, allVars

LEMMA InitKeptSafe == KeeperInit => KeptSafe
BY InitKeeper, InitWithin, InitNumbered DEF KeeperInit, KeptSafe

\* CommitmentsWithinDeposit, of a keeper that closes and closes again: no
\* signed commitment and no settlement exceeds the deposit, however often a
\* settlement failed and was tried anew (manager.ts).
THEOREM KeptWithinDeposit == KeeperSpec => []CommitmentsWithinDeposit
<1>1. KeptSafe => CommitmentsWithinDeposit
  BY DEF KeptSafe, Within
<1> QED
  BY InitKeptSafe, StepKeptSafe, <1>1, PTL DEF KeeperSpec

\* NoSequenceGap, of the same: closes that fail and are tried again leave no
\* gap in a channel's numbers.
THEOREM KeptGapless == KeeperSpec => []NoSequenceGap
<1>1. KeptSafe => NoSequenceGap
  BY NumberedIsGapless DEF KeptSafe
<1> QED
  BY InitKeptSafe, StepKeptSafe, <1>1, PTL DEF KeeperSpec

===============================================================================
