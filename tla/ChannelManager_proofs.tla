------------------------ MODULE ChannelManager_proofs ------------------------
(***************************************************************************)
(* Theorems about ChannelManager, for any number of calls and channels,    *)
(* overlapping or not, and any bound on the adapter's failures; and about  *)
(* what a channel pays out in the end (ChannelAudit).  When calls on a     *)
(* channel do not overlap, the manager keeps the promises of               *)
(* PaymentChannel and a closed channel reconciles; when they do, a closed  *)
(* channel that reconciles has paid what its commits acknowledged, and a   *)
(* record overwritten by a late commit is behind in its counter too.       *)
(***************************************************************************)
EXTENDS ChannelAudit, Sums

(***************************************************************************)
(* The manager's steps, seen from the channel records.                     *)
(***************************************************************************)

\* The numbers of a record, which no change of its status touches.
SameNumbers(a, b) ==
  a.deposit = b.deposit /\ a.committed = b.committed /\ a.sequence = b.sequence

RecordOK(a) == a.deposit > 0 /\ a.committed >= 0 /\ a.sequence >= -1

\* Setting the status of a channel the store knows.
LEMMA StatusStep ==
  ASSUME TypeOK, NEW c \in Channel, channels[c] # NoRecord,
         NEW status \in ChannelStatus, SetStatus(c, status)
  PROVE  /\ channels' \in [Channel -> Record \cup {NoRecord}]
         /\ \A d \in Channel : (channels'[d] = NoRecord) <=> (channels[d] = NoRecord)
         /\ \A d \in Channel : channels[d] # NoRecord => SameNumbers(channels'[d], channels[d])
<1> DEFINE new == [channels[c] EXCEPT !.status = status]
<1>1. channels[c] \in Record
  BY DEF TypeOK
<1>2. new \in Record /\ SameNumbers(new, channels[c])
  BY <1>1 DEF Record, SameNumbers
<1>3. channels' = [channels EXCEPT ![c] = new]
  BY DEF SetStatus
<1> HIDE DEF new
<1>4. new # NoRecord
  BY <1>2, RecordAssumption
<1> QED
  BY <1>2, <1>3, <1>4 DEF TypeOK, SameNumbers

\* A commit recorded.
LEMMA RecordedStep ==
  ASSUME TypeOK, NEW x \in Call, CommitRecorded(x)
  PROVE  /\ channels' \in [Channel -> Record \cup {NoRecord}]
         /\ ChannelOf(x) \in Channel /\ channels[ChannelOf(x)] # NoRecord
         /\ \A d \in Channel : (channels'[d] = NoRecord) <=> (channels[d] = NoRecord)
         /\ \A d \in Channel \ {ChannelOf(x)} : channels'[d] = channels[d]
         /\ channels'[ChannelOf(x)].deposit = channels[ChannelOf(x)].deposit
         /\ channels'[ChannelOf(x)].committed = job[x].cumulative
         /\ channels'[ChannelOf(x)].sequence = job[x].sequence
<1> DEFINE c == ChannelOf(x)
           new == [channels[c] EXCEPT !.committed = job[x].cumulative, !.sequence = job[x].sequence]
<1>1. c \in Channel /\ channels[c] # NoRecord
  BY DEF TypeOK, CommitRecorded, Committing, Live
<1>2. channels[c] \in Record /\ job[x] \in Job
  BY <1>1 DEF TypeOK
<1>3. /\ new \in Record
      /\ new.deposit = channels[c].deposit
      /\ new.committed = job[x].cumulative
      /\ new.sequence = job[x].sequence
  BY <1>2 DEF Record, Job
<1>4. channels' = [channels EXCEPT ![c] = new]
  BY DEF CommitRecorded
<1> HIDE DEF new
<1>5. new # NoRecord
  BY <1>3, RecordAssumption
<1> QED
  BY <1>1, <1>3, <1>4, <1>5 DEF TypeOK

\* A channel opened.
LEMMA OpenedStep ==
  ASSUME TypeOK, NEW x \in Call, OpenReturns(x), job[x].amount > 0
  PROVE  /\ channels' \in [Channel -> Record \cup {NoRecord}]
         /\ ChannelOf(x) \in Channel
         /\ channels'[ChannelOf(x)] # NoRecord /\ RecordOK(channels'[ChannelOf(x)])
         /\ channels'[ChannelOf(x)].committed = 0
         /\ channels'[ChannelOf(x)].sequence = -1
         /\ \A d \in Channel \ {ChannelOf(x)} : channels'[d] = channels[d]
<1> DEFINE c == ChannelOf(x)
           new == [deposit |-> job[x].amount, committed |-> 0, sequence |-> -1, status |-> "open"]
<1>1. c \in Channel
  BY DEF TypeOK, OpenReturns, Live
<1>2. job[x].amount \in Int
  BY DEF TypeOK, Job
<1>3. new \in Record /\ RecordOK(new) /\ new.committed = 0 /\ new.sequence = -1
  BY <1>2 DEF Record, ChannelStatus, RecordOK
<1>4. channels' = [channels EXCEPT ![c] = new]
  BY DEF OpenReturns
<1> HIDE DEF new
<1>5. new # NoRecord
  BY <1>3, RecordAssumption
<1> QED
  BY <1>1, <1>3, <1>4, <1>5 DEF TypeOK

(***************************************************************************)
(* Type correctness.                                                       *)
(***************************************************************************)

\* A call that is opening asked for a positive deposit in a channel the store
\* does not know yet, and is alone in that.
OpeningIsNew ==
  \A x \in Call : pc[x] = "opening" =>
    /\ job[x].amount > 0
    /\ channels[ChannelOf(x)] = NoRecord
    /\ \A y \in Call : pc[y] = "opening" /\ ChannelOf(y) = ChannelOf(x) => y = x

\* A commit under way has a positive total and a number that counts from 0.
SigningIsNext ==
  \A x \in Call : pc[x] \in Committing => job[x].cumulative > 0 /\ job[x].sequence >= 0

\* Latest chooses among what there is: a stream with a commitment has a last one.
IsLatest(s, i) ==
  \A j \in DOMAIN s :
    \/ s[j].sequence < s[i].sequence
    \/ s[j].sequence = s[i].sequence /\ j <= i

HasLatest == \A c \in Channel : stream[c] # <<>> => \E i \in DOMAIN stream[c] : IsLatest(stream[c], i)

Typed == TypeOK /\ OpeningIsNew /\ SigningIsNext /\ HasLatest

\* The part of TypeOK about calls.
CallsOK ==
  /\ pc \in [Call -> Pc]
  /\ job \in [Call -> Job]
  /\ out \in [Call -> Results]

RecordsOK ==
  /\ channels \in [Channel -> Record \cup {NoRecord}]
  /\ \A c \in Channel : channels[c] # NoRecord => RecordOK(channels[c])

\* Where a call is, is about a channel of the model, known to the store from
\* its first check on.
PlacesOK ==
  /\ \A x \in Call : pc[x] \in Live => ChannelOf(x) \in Channel
  /\ \A x \in Call : pc[x] \in Committing \cup Closing => channels[ChannelOf(x)] # NoRecord

LEMMA TypeParts ==
  TypeOK <=> /\ CallsOK /\ RecordsOK /\ PlacesOK
             /\ stream \in [Channel -> Seq(Commitment)]
             /\ onChain \in [Channel -> Int \cup {NoPayout}]
             /\ faults \in Nat
BY DEF TypeOK, CallsOK, RecordsOK, RecordOK, PlacesOK

\* The store never forgets a channel nor changes its deposit.
Kept ==
  \A c \in Channel : channels[c] # NoRecord =>
    channels'[c] # NoRecord /\ channels'[c].deposit = channels[c].deposit

LEMMA InitType == Init => Typed
<1> SUFFICES ASSUME Init PROVE Typed
  OBVIOUS
<1>1. NoJob \in Job
  BY DEF NoJob, Job
<1>2. CallsOK
  BY <1>1 DEF Init, CallsOK, Pc, Results
<1>3. RecordsOK /\ PlacesOK
  BY DEF Init, RecordsOK, PlacesOK, Live, Committing, Closing
<1>4. stream \in [Channel -> Seq(Commitment)]
  BY DEF Init
<1>5. OpeningIsNew /\ SigningIsNext /\ HasLatest
  BY DEF Init, OpeningIsNew, SigningIsNext, HasLatest, Committing
<1> QED
  BY <1>2, <1>3, <1>4, <1>5, TypeParts DEF Typed, Init

\* A step that leaves the job of every call but x alone, keeps every record,
\* and takes x from a live place to a later one of the same channel.
LEMMA MovesOn ==
  ASSUME Typed, Kept, NEW x \in Call, NEW to \in Pc, pc[x] \in Live, Go(x, to),
         job' = job \/ (\E v \in Int : job' = [job EXCEPT ![x].cumulative = v]),
         to \in Committing \cup Closing => pc[x] \in Committing \cup Closing,
         to # "opening"
  PROVE  PlacesOK' /\ job' \in [Call -> Job] /\ pc' \in [Call -> Pc]
<1>1. job' \in [Call -> Job] /\ \A y \in Call : job'[y].chan = job[y].chan
  <2>1. CASE job' = job
    BY <2>1 DEF Typed, TypeOK
  <2>2. CASE \E v \in Int : job' = [job EXCEPT ![x].cumulative = v]
    <3>1. PICK v \in Int : job' = [job EXCEPT ![x].cumulative = v]
      BY <2>2
    <3> DEFINE new == [job[x] EXCEPT !.cumulative = v]
    <3>2. job[x] \in Job
      BY DEF Typed, TypeOK
    <3>3. new \in Job /\ new.chan = job[x].chan
      BY <3>2 DEF Job
    <3>4. job' = [job EXCEPT ![x] = new]
      BY <3>1
    <3> HIDE DEF new
    <3> QED
      BY <3>3, <3>4 DEF Typed, TypeOK
  <2> QED
    BY <2>1, <2>2
<1>2. pc' \in [Call -> Pc] /\ \A y \in Call \ {x} : pc'[y] = pc[y]
  BY DEF Typed, TypeOK, Go
<1>3. pc'[x] = to
  BY DEF Typed, TypeOK, Go
<1> QED
  <2>1. \A y \in Call : pc'[y] \in Live => job'[y].chan \in Channel
    BY <1>1, <1>2, <1>3 DEF Typed, TypeOK, ChannelOf
  <2>2. \A y \in Call : pc'[y] \in Committing \cup Closing => pc[y] \in Committing \cup Closing
    BY <1>2, <1>3
  <2>3. \A y \in Call : pc'[y] \in Committing \cup Closing => channels'[job'[y].chan] # NoRecord
    BY <1>1, <2>2 DEF Typed, TypeOK, Kept, ChannelOf, Live
  <2> QED
    BY <1>1, <1>2, <2>1, <2>3 DEF PlacesOK, ChannelOf

\* The variables that are not about calls or records.
LEMMA StoreType ==
  ASSUME TypeOK
  PROVE  /\ UNCHANGED stream => stream' \in [Channel -> Seq(Commitment)]
         /\ UNCHANGED onChain => onChain' \in [Channel -> Int \cup {NoPayout}]
         /\ UNCHANGED faults \/ Fault => faults' \in Nat
         /\ UNCHANGED channels => RecordsOK' /\ Kept
         /\ UNCHANGED out => out' \in [Call -> Results]
         /\ UNCHANGED job => job' \in [Call -> Job]
         /\ UNCHANGED stream /\ HasLatest => HasLatest'
BY TypeParts DEF HasLatest, RecordsOK, Kept, RecordOK, Fault, TypeOK

\* A step of a call that is past its first check.
LEMMA ResumeType ==
  ASSUME Typed, Kept, RecordsOK', NEW x \in Call, NEW to \in Pc \ {"opening"},
         pc[x] \in Live, Go(x, to),
         job' = job \/ (to \notin Committing /\ \E v \in Int : job' = [job EXCEPT ![x].cumulative = v]),
         to \in Committing \cup Closing => pc[x] \in Committing \cup Closing,
         to \in Committing => pc[x] \in Committing,
         \A y \in Call \ {x} : pc[y] = "opening" => channels'[ChannelOf(y)] = NoRecord,
         out' \in [Call -> Results], HasLatest',
         stream' \in [Channel -> Seq(Commitment)],
         onChain' \in [Channel -> Int \cup {NoPayout}],
         faults' \in Nat
  PROVE  Typed'
<1>1. PlacesOK' /\ job' \in [Call -> Job] /\ pc' \in [Call -> Pc]
  BY MovesOn
<1>2. \A y \in Call \ {x} : pc'[y] = pc[y]
  BY DEF Typed, TypeOK, Go
<1>3. pc'[x] = to
  BY DEF Typed, TypeOK, Go
<1>4. \A y \in Call \ {x} : job'[y] = job[y]
  BY DEF Typed, TypeOK
<1>5. TypeOK'
  BY <1>1, TypeParts DEF TypeOK, CallsOK, RecordsOK, RecordOK, PlacesOK
<1>6. OpeningIsNew'
  BY <1>2, <1>3, <1>4 DEF Typed, OpeningIsNew, ChannelOf
<1>7. SigningIsNext'
  BY <1>2, <1>3, <1>4 DEF Typed, SigningIsNext
<1> QED
  BY <1>5, <1>6, <1>7 DEF Typed

\* A call that is refused: it ends where it started.
LEMMA RefusedType ==
  ASSUME Typed, NEW x \in Call, pc[x] = "idle", Finish(x, "rejected"),
         UNCHANGED <<job, channels, stream, onChain, faults>>
  PROVE  Typed'
<1>1. pc' \in [Call -> Pc] /\ pc'[x] = "done" /\ \A y \in Call \ {x} : pc'[y] = pc[y]
  BY DEF Typed, TypeOK, Finish, Go, Pc
<1>2. out' \in [Call -> Results]
  BY DEF Typed, TypeOK, Finish, Results
<1>3. PlacesOK'
  BY <1>1 DEF Typed, TypeOK, PlacesOK, ChannelOf, Live, Committing, Closing
<1>4. TypeOK'
  BY <1>1, <1>2, <1>3, StoreType DEF Typed, TypeOK, RecordsOK, RecordOK, PlacesOK
<1> QED
  BY <1>1, <1>4 DEF Typed, OpeningIsNew, SigningIsNext, HasLatest, ChannelOf, Committing

\* A call that passes its first check with a job.
LEMMA StartType ==
  ASSUME Typed, NEW x \in Call, pc[x] = "idle", NEW to \in Live, Go(x, to),
         NEW new \in Job, job' = [job EXCEPT ![x] = new], new.chan \in Channel,
         to # "opening" => channels[new.chan] # NoRecord,
         to = "opening" => new.amount > 0 /\ Unused(new.chan),
         to \in Committing => new.cumulative > 0 /\ new.sequence >= 0,
         UNCHANGED <<out, channels, stream, onChain, faults>>
  PROVE  Typed'
<1>1. pc' \in [Call -> Pc] /\ pc'[x] = to /\ \A y \in Call \ {x} : pc'[y] = pc[y]
  BY DEF Typed, TypeOK, Go, Pc
<1>2. job' \in [Call -> Job] /\ job'[x] = new /\ \A y \in Call \ {x} : job'[y] = job[y]
  BY DEF Typed, TypeOK
<1>3. PlacesOK'
  <2>1. \A y \in Call : pc'[y] \in Live => job'[y].chan \in Channel
    BY <1>1, <1>2 DEF Typed, TypeOK, ChannelOf
  <2>2. \A y \in Call : pc'[y] \in Committing \cup Closing => channels'[job'[y].chan] # NoRecord
    BY <1>1, <1>2 DEF Typed, TypeOK, ChannelOf, Committing, Closing
  <2> QED
    BY <2>1, <2>2 DEF PlacesOK, ChannelOf
<1>4. TypeOK'
  BY <1>1, <1>2, <1>3, StoreType DEF Typed, TypeOK, RecordsOK, RecordOK, PlacesOK
<1>5. OpeningIsNew'
  BY <1>1, <1>2 DEF Typed, OpeningIsNew, ChannelOf, Unused
<1>6. SigningIsNext'
  BY <1>1, <1>2 DEF Typed, SigningIsNext
<1> QED
  BY <1>4, <1>5, <1>6 DEF Typed, HasLatest

LEMMA LatestIs ==
  ASSUME NEW s, \E i \in DOMAIN s : IsLatest(s, i)
  PROVE  Latest(s) \in DOMAIN s
BY DEF Latest, IsLatest

\* Appending keeps a last one: the new commitment, or what was last before.
LEMMA AppendLatest ==
  ASSUME NEW s \in Seq(Commitment), NEW new \in Commitment,
         s # <<>> => \E i \in DOMAIN s : IsLatest(s, i)
  PROVE  \E i \in DOMAIN Append(s, new) : IsLatest(Append(s, new), i)
<1> DEFINE t == Append(s, new)
<1>1. /\ DOMAIN t = 1 .. Len(s) + 1 /\ DOMAIN s = 1 .. Len(s) /\ Len(s) \in Nat
      /\ \A i \in DOMAIN s : t[i] = s[i]
      /\ t[Len(s) + 1] = new
  OBVIOUS
<1>2. new.sequence \in Int /\ \A i \in DOMAIN s : s[i].sequence \in Int
  <2>1. \A z \in Commitment : z.sequence \in Int
    BY DEF Commitment
  <2>2. \A i \in DOMAIN s : s[i] \in Commitment
    OBVIOUS
  <2> QED
    BY <2>1, <2>2
<1> HIDE DEF t
<1>3. CASE \A j \in DOMAIN s : s[j].sequence <= new.sequence
  <2>1. IsLatest(t, Len(s) + 1)
    BY <1>1, <1>2, <1>3 DEF IsLatest
  <2> QED
    BY <1>1, <2>1 DEF t
<1>4. CASE \E j \in DOMAIN s : ~(s[j].sequence <= new.sequence)
  <2>1. PICK j \in DOMAIN s : s[j].sequence > new.sequence
    BY <1>2, <1>4
  <2>2. PICK i \in DOMAIN s : IsLatest(s, i)
    BY <1>1, <2>1
  <2>3. s[i].sequence > new.sequence
    BY <1>2, <2>1, <2>2 DEF IsLatest
  <2>4. IsLatest(t, i)
    BY <1>1, <1>2, <2>2, <2>3 DEF IsLatest
  <2> QED
    BY <1>1, <2>4 DEF t
<1> QED
  BY <1>3, <1>4

\* What SignReturns appends.
LEMMA SignedStep ==
  ASSUME Typed, NEW x \in Call, SignReturns(x)
  PROVE  LET c == ChannelOf(x)
             new == [by |-> x, sequence |-> job[x].sequence, cumulative |-> job[x].cumulative]
         IN  /\ c \in Channel /\ new \in Commitment
             /\ stream' = [stream EXCEPT ![c] = Append(stream[c], new)]
             /\ stream' \in [Channel -> Seq(Commitment)]
             /\ HasLatest'
<1> DEFINE c == ChannelOf(x)
           new == [by |-> x, sequence |-> job[x].sequence, cumulative |-> job[x].cumulative]
<1>1. c \in Channel
  BY DEF Typed, TypeOK, SignReturns, Live, Committing
<1>2. new \in Commitment
  <2>1. job[x] \in Job
    BY DEF Typed, TypeOK
  <2> QED
    BY <2>1 DEF Job, Commitment
<1>3. stream' = [stream EXCEPT ![c] = Append(stream[c], new)]
  BY DEF SignReturns
<1> HIDE DEF new, c
<1>4. Append(stream[c], new) \in Seq(Commitment)
  BY <1>1, <1>2 DEF Typed, TypeOK
<1>5. stream' \in [Channel -> Seq(Commitment)]
  BY <1>3, <1>4 DEF Typed, TypeOK
<1>6. \A d \in Channel : stream'[d] # <<>> => \E i \in DOMAIN stream'[d] : IsLatest(stream'[d], i)
  <2> TAKE d \in Channel
  <2>1. CASE d = c
    <3>1. \E i \in DOMAIN Append(stream[c], new) : IsLatest(Append(stream[c], new), i)
      BY <1>1, <1>2, AppendLatest DEF Typed, TypeOK, HasLatest
    <3>2. stream'[c] = Append(stream[c], new)
      BY <1>1, <1>3 DEF Typed, TypeOK
    <3> QED
      BY <2>1, <3>1, <3>2
  <2>2. CASE d # c
    <3>1. stream'[d] = stream[d]
      BY <1>3, <2>2 DEF Typed, TypeOK
    <3> QED
      BY <3>1 DEF Typed, HasLatest
  <2> QED
    BY <2>1, <2>2
<1>7. HasLatest'
  BY <1>6 DEF HasLatest, IsLatest
<1> QED
  BY <1>1, <1>2, <1>3, <1>5, <1>7 DEF c, new

\* A call that ends.
LEMMA FinishType ==
  ASSUME Typed, NEW x \in Call, NEW result \in Results, Finish(x, result)
  PROVE  Go(x, "done") /\ out' \in [Call -> Results]
BY DEF Typed, TypeOK, Finish

LEMMA StepType == Typed /\ [Next]_vars => Typed' /\ Kept
<1> SUFFICES ASSUME Typed, [Next]_vars PROVE Typed' /\ Kept
  OBVIOUS
<1> USE StoreType
<1>typed. TypeOK /\ OpeningIsNew /\ SigningIsNext /\ HasLatest
  BY DEF Typed
<1>names. /\ {"done", "appended", "marking", "settling", "settled"} \subseteq Pc \ {"opening"}
          /\ {"opening", "signing", "appended", "listing", "marking", "settling", "settled"} \subseteq Live
          /\ {"opened", "committed", "closed", "rejected", "threw"} \subseteq Results
          /\ "done" \notin Committing \cup Closing
          /\ Committing = {"signing", "appended"}
          /\ Closing = {"listing", "marking", "settling", "settled"}
  BY DEF Pc, Live, Committing, Closing, Results
<1>others. \A x, y \in Call : pc[y] = "opening" => channels[ChannelOf(y)] = NoRecord /\ ChannelOf(y) \in Channel
  BY <1>typed, <1>names DEF OpeningIsNew, TypeOK
<1>1. ASSUME NEW x \in Call, Open(x) PROVE Typed' /\ Kept
  <2>1. pc[x] = "idle" /\ UNCHANGED <<channels, stream, onChain, faults>>
    BY <1>1 DEF Open
  <2>2. Kept
    BY <2>1, <1>typed
  <2>3. PICK d \in Deposits :
          \/ d <= 0 /\ Finish(x, "rejected") /\ UNCHANGED job
          \/ /\ d > 0
             /\ \E c \in Channel :
                  /\ Unused(c)
                  /\ job' = [job EXCEPT ![x].chan = c, ![x].amount = d]
             /\ Go(x, "opening") /\ UNCHANGED out
    BY <1>1 DEF Open
  <2>4. CASE Finish(x, "rejected") /\ UNCHANGED job
    BY <2>1, <2>2, <2>4, RefusedType
  <2>5. ASSUME NEW c \in Channel, Unused(c), d > 0, Go(x, "opening"), UNCHANGED out,
               job' = [job EXCEPT ![x].chan = c, ![x].amount = d]
        PROVE Typed'
    <3> DEFINE new == [job[x] EXCEPT !.chan = c, !.amount = d]
    <3>1. job[x] \in Job /\ d \in Int
      BY <1>typed, InputAssumption DEF TypeOK
    <3>2. new \in Job /\ new.chan = c /\ new.amount = d
      BY <3>1 DEF Job
    <3>3. job' = [job EXCEPT ![x] = new]
      BY <2>5
    <3> HIDE DEF new
    <3> QED
      BY <1>names, <2>1, <2>5, <3>2, <3>3, StartType
  <2> QED
    BY <2>2, <2>3, <2>4, <2>5
<1>2. ASSUME NEW x \in Call, Commit(x) PROVE Typed' /\ Kept
  <2>1. pc[x] = "idle" /\ UNCHANGED <<channels, stream, onChain, faults>>
    BY <1>2 DEF Commit
  <2>2. Kept
    BY <2>1, <1>typed
  <2>3. PICK c \in Channel, a \in Amounts :
          \/ Finish(x, "rejected") /\ UNCHANGED job
          \/ /\ Accepts(c, a)
             /\ job' = [job EXCEPT ![x] =
                  [chan |-> c, amount |-> a, sequence |-> channels[c].sequence + 1,
                   cumulative |-> channels[c].committed + a]]
             /\ Go(x, "signing") /\ UNCHANGED out
    BY <1>2 DEF Commit
  <2>4. CASE Finish(x, "rejected") /\ UNCHANGED job
    BY <2>1, <2>2, <2>4, RefusedType
  <2>5. CASE /\ Accepts(c, a)
             /\ job' = [job EXCEPT ![x] =
                  [chan |-> c, amount |-> a, sequence |-> channels[c].sequence + 1,
                   cumulative |-> channels[c].committed + a]]
             /\ Go(x, "signing") /\ UNCHANGED out
    <3> DEFINE new == [chan |-> c, amount |-> a, sequence |-> channels[c].sequence + 1,
                       cumulative |-> channels[c].committed + a]
    <3>1. a \in Int /\ a > 0 /\ channels[c] # NoRecord
      BY <2>5, InputAssumption DEF Accepts, IsOpen, Has
    <3>2. channels[c] \in Record /\ channels[c].committed >= 0 /\ channels[c].sequence >= -1
      BY <1>typed, <3>1 DEF TypeOK
    <3>3. /\ new \in Job /\ new.chan = c
          /\ new.cumulative > 0 /\ new.sequence >= 0
      BY <3>1, <3>2 DEF Job, Record
    <3>4. job' = [job EXCEPT ![x] = new]
      BY <2>5
    <3> HIDE DEF new
    <3>5. channels[new.chan] # NoRecord /\ new.chan \in Channel /\ "signing" \in Live
      BY <1>names, <3>1, <3>3
    <3>6. Go(x, "signing") /\ UNCHANGED <<out, channels, stream, onChain, faults>>
      BY <2>1, <2>5
    <3>7. Typed'
      BY <2>1, <3>3, <3>4, <3>5, <3>6, StartType
    <3> QED
      BY <2>2, <3>7
  <2> QED
    BY <2>3, <2>4, <2>5
<1>3. ASSUME NEW x \in Call, Close(x) PROVE Typed' /\ Kept
  <2>1. pc[x] = "idle" /\ UNCHANGED <<channels, stream, onChain, faults>>
    BY <1>3 DEF Close
  <2>2. Kept
    BY <2>1, <1>typed
  <2>3. PICK c \in Channel :
          \/ Finish(x, "rejected") /\ UNCHANGED job
          \/ /\ IsOpen(c)
             /\ job' = [job EXCEPT ![x].chan = c]
             /\ Go(x, "listing") /\ UNCHANGED out
    BY <1>3 DEF Close
  <2>4. CASE Finish(x, "rejected") /\ UNCHANGED job
    BY <2>1, <2>2, <2>4, RefusedType
  <2>5. CASE /\ IsOpen(c)
             /\ job' = [job EXCEPT ![x].chan = c]
             /\ Go(x, "listing") /\ UNCHANGED out
    <3> DEFINE new == [job[x] EXCEPT !.chan = c]
    <3>1. job[x] \in Job
      BY <1>typed DEF TypeOK
    <3>2. new \in Job /\ new.chan = c
      BY <3>1 DEF Job
    <3>3. job' = [job EXCEPT ![x] = new]
      BY <2>5
    <3>4. channels[c] # NoRecord
      BY <2>5 DEF IsOpen, Has
    <3> HIDE DEF new
    <3>5. channels[new.chan] # NoRecord /\ new.chan \in Channel
      BY <3>2, <3>4
    <3>6. "listing" \in Live /\ "listing" \notin Committing
      BY <1>names
    <3>7. Typed'
      BY <2>1, <2>5, <3>2, <3>3, <3>5, <3>6, StartType
    <3> QED
      BY <2>2, <3>7
  <2> QED
    BY <2>3, <2>4, <2>5
<1>4. ASSUME NEW x \in Call, OpenReturns(x) PROVE Typed' /\ Kept
  <2>1. /\ pc[x] = "opening" /\ Finish(x, "opened")
        /\ UNCHANGED <<job, stream, onChain, faults>>
    BY <1>4 DEF OpenReturns
  <2>2. job[x].amount > 0 /\ channels[ChannelOf(x)] = NoRecord /\ \A y \in Call \ {x} : pc[y] = "opening" => ChannelOf(y) # ChannelOf(x)
    BY <1>typed, <2>1 DEF OpeningIsNew
  <2>3. RecordsOK' /\ Kept
    BY <1>4, <1>typed, <2>2, OpenedStep DEF RecordsOK, Kept, RecordOK, TypeOK
  <2>4. \A y \in Call \ {x} : pc[y] = "opening" => channels'[ChannelOf(y)] = NoRecord
    BY <1>4, <1>typed, <1>others, <2>2, OpenedStep
  <2> QED
    BY <1>typed, <1>names, <2>1, <2>3, <2>4, FinishType, ResumeType
<1>5. ASSUME NEW x \in Call, OpenFails(x) \/ SignFails(x) PROVE Typed' /\ Kept
  BY <1>5, <1>typed, <1>names, <1>others, FinishType, ResumeType DEF OpenFails, SignFails
<1>6. ASSUME NEW x \in Call, SignReturns(x) PROVE Typed' /\ Kept
  <2>1. stream' \in [Channel -> Seq(Commitment)] /\ HasLatest'
    BY <1>6, SignedStep
  <2> QED
    BY <1>6, <1>typed, <1>names, <1>others, <2>1, ResumeType DEF SignReturns
<1>7. ASSUME NEW x \in Call, CommitRecorded(x) PROVE Typed' /\ Kept
  <2>1. /\ pc[x] = "appended" /\ Finish(x, "committed")
        /\ UNCHANGED <<job, stream, onChain, faults>>
    BY <1>7 DEF CommitRecorded
  <2>2. job[x].cumulative > 0 /\ job[x].sequence >= 0
    BY <1>typed, <1>names, <2>1 DEF SigningIsNext
  <2>3. RecordsOK' /\ Kept
    <3> DEFINE c == ChannelOf(x)
    <3>1. /\ channels' \in [Channel -> Record \cup {NoRecord}]
          /\ c \in Channel /\ channels[c] # NoRecord
          /\ \A d \in Channel : (channels'[d] = NoRecord) <=> (channels[d] = NoRecord)
          /\ \A d \in Channel \ {c} : channels'[d] = channels[d]
          /\ channels'[c].deposit = channels[c].deposit
          /\ channels'[c].committed > 0 /\ channels'[c].sequence >= 0
      BY <1>7, <1>typed, <2>2, RecordedStep
    <3>2. job[x] \in Job
      BY <1>typed DEF TypeOK
    <3>3. channels'[c].committed \in Int /\ channels'[c].sequence \in Int
      BY <1>7, <1>typed, <3>2, RecordedStep DEF Job
    <3> HIDE DEF c
    <3>4. \A d \in Channel : channels'[d] # NoRecord => RecordOK(channels'[d])
      <4>1. RecordOK(channels[c]) /\ \A d \in Channel : channels[d] # NoRecord => RecordOK(channels[d])
        BY <1>typed, <3>1 DEF RecordOK, TypeOK
      <4>2. RecordOK(channels'[c])
        BY <3>1, <3>3, <4>1 DEF RecordOK
      <4> QED
        BY <3>1, <4>1, <4>2
    <3> QED
      BY <3>1, <3>4 DEF RecordsOK, RecordOK, Kept
  <2>4. \A y \in Call \ {x} : pc[y] = "opening" => channels'[ChannelOf(y)] = NoRecord
    BY <1>7, <1>typed, <1>others, RecordedStep
  <2> QED
    BY <1>typed, <1>names, <2>1, <2>3, <2>4, FinishType, ResumeType
<1>8. ASSUME NEW x \in Call, CloseLists(x) PROVE Typed' /\ Kept
  <2> DEFINE s == stream[ChannelOf(x)]
             total == IF s = <<>> THEN 0 ELSE s[Latest(s)].cumulative
  <2>1. /\ pc[x] = "listing" /\ Go(x, "marking")
        /\ job' = [job EXCEPT ![x].cumulative = total]
        /\ UNCHANGED <<out, channels, stream, onChain, faults>>
    BY <1>8 DEF CloseLists
  <2>2. total \in Int
    <3>1. ChannelOf(x) \in Channel /\ s \in Seq(Commitment)
      BY <1>typed, <1>names, <2>1 DEF TypeOK
    <3>2. s # <<>> => Latest(s) \in DOMAIN s
      BY <1>typed, <3>1, LatestIs DEF HasLatest
    <3>3. \A z \in Commitment : z.cumulative \in Int
      BY DEF Commitment
    <3> HIDE DEF s
    <3>4. \A i \in DOMAIN s : s[i] \in Commitment
      BY <3>1
    <3> QED
      BY <3>2, <3>3, <3>4
  <2> HIDE DEF total
  <2> QED
    BY <1>typed, <1>names, <1>others, <2>1, <2>2, ResumeType
<1>9. ASSUME NEW x \in Call, CloseMarks(x) PROVE Typed' /\ Kept
  <2>1. ChannelOf(x) \in Channel /\ channels[ChannelOf(x)] # NoRecord
    BY <1>9, <1>typed, <1>names DEF TypeOK, CloseMarks
  <2>2. /\ RecordsOK' /\ Kept
        /\ \A y \in Call : pc[y] = "opening" => channels'[ChannelOf(y)] = NoRecord
    BY <1>9, <1>typed, <1>others, <2>1, StatusStep
    DEF CloseMarks, RecordsOK, RecordOK, SameNumbers, Kept, TypeOK, ChannelStatus
  <2> QED
    BY <1>9, <1>typed, <1>names, <2>2, ResumeType DEF CloseMarks
<1>10. ASSUME NEW x \in Call, ContractSettles(x) PROVE Typed' /\ Kept
  <2>1. onChain' \in [Channel -> Int \cup {NoPayout}] /\ faults' \in Nat
    <3>1. job[x] \in Job
      BY <1>typed DEF TypeOK
    <3>2. job[x].cumulative \in Int
      BY <3>1 DEF Job
    <3>3. PICK v \in Int : onChain' = [onChain EXCEPT ![ChannelOf(x)] = v]
      BY <1>10, <3>2 DEF ContractSettles
    <3>4. faults' \in Nat
      BY <1>10, <1>typed DEF ContractSettles
    <3> QED
      BY <1>typed, <3>3, <3>4 DEF TypeOK
  <2> QED
    BY <1>10, <1>typed, <1>names, <1>others, <2>1, ResumeType DEF ContractSettles
<1>11. ASSUME NEW x \in Call, CloseFails(x) \/ CloseReturns(x) PROVE Typed' /\ Kept
  <2>1. /\ pc[x] \in {"settling", "settled"} /\ faults' \in Nat
        /\ UNCHANGED <<job, stream, onChain>>
        /\ Finish(x, "threw") \/ Finish(x, "closed")
        /\ SetStatus(ChannelOf(x), "open") \/ SetStatus(ChannelOf(x), "closed")
    BY <1>11, <1>typed DEF CloseFails, CloseReturns, AdapterThrows
  <2>2. ChannelOf(x) \in Channel /\ channels[ChannelOf(x)] # NoRecord
    BY <1>typed, <1>names, <2>1 DEF TypeOK
  <2>3. /\ RecordsOK' /\ Kept
        /\ \A y \in Call : pc[y] = "opening" => channels'[ChannelOf(y)] = NoRecord
    BY <1>typed, <1>others, <2>1, <2>2, StatusStep
    DEF RecordsOK, RecordOK, SameNumbers, Kept, TypeOK, ChannelStatus
  <2> QED
    BY <1>typed, <1>names, <2>1, <2>3, FinishType, ResumeType
<1>12. CASE UNCHANGED vars
  <2>1. Kept
    BY <1>12, <1>typed DEF vars
  <2> QED
    BY <1>12, <2>1 DEF vars, Typed, TypeOK, OpeningIsNew, SigningIsNext, HasLatest, ChannelOf
<1> QED
  BY <1>1, <1>2, <1>3, <1>4, <1>5, <1>6, <1>7, <1>8, <1>9, <1>10, <1>11, <1>12
  DEF Next, Resume, AllReturned

\* Type correctness, which includes that a call past its checks is about a
\* channel the store knows: no step of open, commit or close dangles.
THEOREM TypeCorrect == Spec => []TypeOK
<1>1. Typed /\ [Next]_vars => Typed'
  BY StepType
<1>2. Typed => TypeOK
  BY DEF Typed
<1> QED
  BY InitType, <1>1, <1>2, PTL DEF Spec

(***************************************************************************)
(* No commitment and no settlement exceeds the deposit.  A commit checks   *)
(* the record it reads; what it will sign stays within the deposit because *)
(* a record's deposit never changes, whatever is appended meanwhile.       *)
(***************************************************************************)

RecordsWithin ==
  \A c \in Channel : channels[c] # NoRecord => channels[c].committed <= channels[c].deposit

\* What a call is about to sign, append, record or settle is within the deposit.
JobWithin(x) ==
  /\ pc[x] \in Committing => job[x].cumulative \in 1 .. channels[ChannelOf(x)].deposit
  /\ pc[x] \in {"marking", "settling", "settled"} =>
       job[x].cumulative \in 0 .. channels[ChannelOf(x)].deposit

JobsWithin == \A x \in Call : JobWithin(x)

Within == RecordsWithin /\ JobsWithin /\ CommitmentsWithinDeposit

\* Only x moved.
Only(x) == \A y \in Call \ {x} : pc'[y] = pc[y] /\ job'[y] = job[y]

LEMMA InitWithin == Init => Within
BY DEF Init, Within, RecordsWithin, JobsWithin, JobWithin, CommitmentsWithinDeposit, Committing

\* A call that did not move is still within its channel's deposit.
LEMMA OthersWithin ==
  ASSUME Typed, Kept, JobsWithin, NEW y \in Call, pc'[y] = pc[y], job'[y] = job[y]
  PROVE  JobWithin(y)'
<1>1. pc[y] \in Committing \cup Closing =>
        channels'[ChannelOf(y)].deposit = channels[ChannelOf(y)].deposit
  BY DEF Typed, TypeOK, Kept, Live
<1> QED
  BY <1>1 DEF JobsWithin, JobWithin, ChannelOf, Closing

LEMMA KeepsWithin ==
  ASSUME Typed, Kept, CommitmentsWithinDeposit, UNCHANGED <<stream, onChain>>
  PROVE  CommitmentsWithinDeposit'
BY DEF Kept, CommitmentsWithinDeposit

\* Every step of a call moves only that call.
LEMMA OnlyMoves ==
  ASSUME Typed, NEW x \in Call, Open(x) \/ Commit(x) \/ Close(x) \/ Resume(x)
  PROVE  Only(x)
<1>1. \A to : Go(x, to) => \A y \in Call \ {x} : pc'[y] = pc[y]
  BY DEF Typed, TypeOK, Go
<1>2. CASE Open(x) \/ Commit(x) \/ Close(x)
  BY <1>1, <1>2 DEF Only, Typed, TypeOK, Open, Commit, Close, Finish
<1>3. CASE Resume(x)
  <2>1. job' = job \/ \E v : job' = [job EXCEPT ![x].cumulative = v]
    BY <1>3 DEF Resume, OpenReturns, OpenFails, SignReturns, SignFails, CommitRecorded, CloseLists,
                CloseMarks, ContractSettles, CloseFails, CloseReturns
  <2>2. \E to : Go(x, to)
    BY <1>3 DEF Resume, OpenReturns, OpenFails, SignReturns, SignFails, CommitRecorded, CloseLists,
                CloseMarks, ContractSettles, CloseFails, CloseReturns, Finish
  <2> QED
    BY <1>1, <2>1, <2>2 DEF Only, Typed, TypeOK
<1> QED
  BY <1>2, <1>3

\* A step that starts no job and touches neither record totals nor payouts.
LEMMA EasyWithin ==
  ASSUME Typed, Kept, Within, NEW x \in Call, Only(x), JobWithin(x)',
         UNCHANGED <<stream, onChain>>, RecordsWithin'
  PROVE  Within'
<1>1. JobsWithin'
  BY OthersWithin DEF Only, JobsWithin, Within
<1> QED
  BY <1>1, KeepsWithin DEF Within

LEMMA StepWithin == Typed /\ Within /\ [Next]_vars => Within'
<1> SUFFICES ASSUME Typed, Within, [Next]_vars PROVE Within'
  OBVIOUS
<1>typed. TypeOK /\ Typed' /\ TypeOK' /\ Kept
  BY StepType DEF Typed
<1>parts. RecordsWithin /\ JobsWithin /\ CommitmentsWithinDeposit
  BY DEF Within
<1>names. /\ Committing = {"signing", "appended"}
          /\ Closing = {"listing", "marking", "settling", "settled"}
          /\ {"opening", "signing", "appended", "listing", "marking", "settling", "settled"} \subseteq Live
  BY DEF Live, Committing, Closing
<1>same. UNCHANGED channels => RecordsWithin'
  BY <1>parts DEF RecordsWithin
<1>chan. \A x \in Call : pc[x] \in Live => ChannelOf(x) \in Channel
  BY <1>typed DEF TypeOK
<1>known. \A x \in Call : pc[x] \in Committing \cup Closing => channels[ChannelOf(x)] # NoRecord
  BY <1>typed DEF TypeOK
<1>done. ASSUME NEW x \in Call, NEW result, Finish(x, result) PROVE JobWithin(x)'
  BY <1>done, <1>typed, <1>names DEF Finish, Go, TypeOK, JobWithin
<1>1. ASSUME NEW x \in Call, Open(x) \/ Close(x) PROVE Within'
  <2>1. pc'[x] \in {"opening", "listing", "done"}
    BY <1>1, <1>typed DEF Open, Close, Finish, Go, TypeOK
  <2>2. JobWithin(x)'
    BY <2>1, <1>names DEF JobWithin
  <2> QED
    BY <1>1, <1>typed, <1>same, <2>2, OnlyMoves, EasyWithin DEF Open, Close
<1>2. ASSUME NEW x \in Call, Commit(x) PROVE Within'
  <2>1. UNCHANGED <<channels, stream, onChain, faults>>
    BY <1>2 DEF Commit
  <2>2. JobWithin(x)'
    <3>1. PICK c \in Channel, a \in Amounts :
            \/ Finish(x, "rejected")
            \/ /\ Accepts(c, a)
               /\ job' = [job EXCEPT ![x] =
                    [chan |-> c, amount |-> a, sequence |-> channels[c].sequence + 1,
                     cumulative |-> channels[c].committed + a]]
               /\ Go(x, "signing")
      BY <1>2 DEF Commit
    <3>2. CASE Finish(x, "rejected")
      BY <3>2, <1>done
    <3>3. CASE /\ Accepts(c, a)
               /\ job' = [job EXCEPT ![x] =
                    [chan |-> c, amount |-> a, sequence |-> channels[c].sequence + 1,
                     cumulative |-> channels[c].committed + a]]
               /\ Go(x, "signing")
      <4>1. /\ a \in Int /\ a > 0 /\ channels[c] # NoRecord
            /\ channels[c].committed + a <= channels[c].deposit
        BY <3>3, InputAssumption DEF Accepts, IsOpen, Has
      <4>2. channels[c] \in Record /\ channels[c].committed >= 0
        BY <1>typed, <4>1 DEF TypeOK
      <4>3. channels[c].committed \in Int /\ channels[c].deposit \in Int
        BY <4>2 DEF Record
      <4>4. job'[x].chan = c /\ job'[x].cumulative = channels[c].committed + a /\ pc'[x] = "signing"
        BY <1>typed, <3>3 DEF TypeOK, Go
      <4>5. channels[c].committed + a \in 1 .. channels[c].deposit
        BY <4>1, <4>2, <4>3
      <4> QED
        BY <2>1, <4>4, <4>5 DEF JobWithin, ChannelOf
    <3> QED
      BY <3>1, <3>2, <3>3
  <2> QED
    BY <1>2, <1>typed, <1>same, <2>1, <2>2, OnlyMoves, EasyWithin
<1>3. ASSUME NEW x \in Call, OpenReturns(x) PROVE Within'
  <2>1. Finish(x, "opened") /\ UNCHANGED <<stream, onChain>> /\ pc[x] = "opening"
    BY <1>3 DEF OpenReturns
  <2>2. RecordsWithin'
    <3>1. job[x].amount > 0
      BY <2>1 DEF Typed, OpeningIsNew
    <3> DEFINE c == ChannelOf(x)
    <3>2. /\ channels'[c].deposit > 0 /\ channels'[c].committed = 0
          /\ \A d \in Channel \ {c} : channels'[d] = channels[d]
      BY <1>3, <1>typed, <3>1, OpenedStep DEF RecordOK
    <3>3. channels'[c] \in Record
      BY <1>3, <1>typed, <3>1, OpenedStep
    <3>4. channels'[c].committed <= channels'[c].deposit
      BY <3>2, <3>3 DEF Record
    <3> QED
      BY <1>parts, <3>2, <3>4 DEF RecordsWithin
  <2> QED
    BY <1>3, <1>typed, <1>done, <2>1, <2>2, OnlyMoves, EasyWithin DEF Resume
<1>4. ASSUME NEW x \in Call, OpenFails(x) \/ SignFails(x) PROVE Within'
  BY <1>4, <1>typed, <1>same, <1>done, OnlyMoves, EasyWithin DEF OpenFails, SignFails, Resume
<1>5. ASSUME NEW x \in Call, SignReturns(x) PROVE Within'
  <2> DEFINE c == ChannelOf(x)
             new == [by |-> x, sequence |-> job[x].sequence, cumulative |-> job[x].cumulative]
  <2>1. c \in Channel /\ stream' = [stream EXCEPT ![c] = Append(stream[c], new)] /\ new.cumulative = job[x].cumulative
    BY <1>5, SignedStep
  <2>2. /\ pc[x] = "signing" /\ pc'[x] = "appended" /\ job'[x] = job[x]
        /\ UNCHANGED <<channels, onChain>>
    BY <1>5, <1>typed DEF SignReturns, Go, TypeOK
  <2>3. channels[c] # NoRecord /\ job[x].cumulative \in 1 .. channels[c].deposit
    BY <1>parts, <1>names, <1>known, <2>2 DEF JobsWithin, JobWithin
  <2>4. JobsWithin'
    <3>1. JobWithin(x)'
      BY <1>names, <2>2, <2>3 DEF JobWithin, ChannelOf
    <3>2. Only(x)
      BY <1>5, OnlyMoves DEF Resume
    <3> QED
      BY <1>typed, <1>parts, <3>1, <3>2, OthersWithin DEF Only, JobsWithin
  <2> HIDE DEF c, new
  <2>5. CommitmentsWithinDeposit'
    <3>1. stream[c] \in Seq(Commitment) /\ stream'[c] = Append(stream[c], new)
      BY <1>typed, <2>1 DEF TypeOK
    <3>2. \A d \in Channel \ {c} : stream'[d] = stream[d]
      BY <1>typed, <2>1 DEF TypeOK
    <3>3. \A i \in DOMAIN stream'[c] : (i \in DOMAIN stream[c] /\ stream'[c][i] = stream[c][i]) \/ stream'[c][i] = new
      BY <3>1
    <3>4. \A i \in DOMAIN stream'[c] : stream'[c][i].cumulative \in 1 .. channels[c].deposit
      BY <1>parts, <2>1, <2>3, <3>3 DEF CommitmentsWithinDeposit
    <3> QED
      BY <1>parts, <2>1, <2>2, <2>3, <3>2, <3>4 DEF CommitmentsWithinDeposit
  <2> QED
    BY <1>same, <2>2, <2>4, <2>5 DEF Within
<1>6. ASSUME NEW x \in Call, CommitRecorded(x) PROVE Within'
  <2>1. Finish(x, "committed") /\ UNCHANGED <<stream, onChain>> /\ pc[x] = "appended"
    BY <1>6 DEF CommitRecorded
  <2>2. RecordsWithin'
    <3>1. job[x].cumulative \in 1 .. channels[ChannelOf(x)].deposit
      BY <1>parts, <1>names, <2>1 DEF JobsWithin, JobWithin
    <3> QED
      BY <1>6, <1>typed, <1>parts, <3>1, RecordedStep DEF RecordsWithin
  <2> QED
    BY <1>6, <1>typed, <1>done, <2>1, <2>2, OnlyMoves, EasyWithin DEF Resume
<1>7. ASSUME NEW x \in Call, CloseLists(x) PROVE Within'
  <2> DEFINE c == ChannelOf(x)
             s == stream[c]
             total == IF s = <<>> THEN 0 ELSE s[Latest(s)].cumulative
  <2>1. /\ pc[x] = "listing" /\ Go(x, "marking")
        /\ job' = [job EXCEPT ![x].cumulative = total]
        /\ UNCHANGED <<out, channels, stream, onChain, faults>>
    BY <1>7 DEF CloseLists
  <2>2. c \in Channel /\ channels[c] # NoRecord
    BY <1>chan, <1>known, <1>names, <2>1
  <2>3. total \in 0 .. channels[c].deposit
    <3>1. s # <<>> => Latest(s) \in DOMAIN s
      BY <2>2, LatestIs DEF Typed, HasLatest
    <3>2. channels[c] \in Record /\ channels[c].deposit > 0
      BY <1>typed, <2>2 DEF TypeOK
    <3>3. 0 \in 0 .. channels[c].deposit
      BY <3>2 DEF Record
    <3> QED
      BY <1>parts, <2>2, <3>1, <3>3 DEF CommitmentsWithinDeposit
  <2>4. /\ pc'[x] = "marking" /\ job'[x].cumulative = total /\ job'[x].chan = job[x].chan
    <3> HIDE DEF total
    <3>1. pc'[x] = "marking"
      BY <1>typed, <2>1 DEF TypeOK, Go
    <3>2. job[x] \in Job
      BY <1>typed DEF TypeOK
    <3>3. job'[x] = [job[x] EXCEPT !.cumulative = total]
      BY <1>typed, <2>1 DEF TypeOK
    <3> QED
      BY <3>1, <3>2, <3>3 DEF Job
  <2>5. JobWithin(x)'
    <3> HIDE DEF total
    <3> QED
      BY <1>names, <2>1, <2>3, <2>4 DEF JobWithin, ChannelOf
  <2>6. Only(x)
    BY <1>7, OnlyMoves DEF Resume
  <2> QED
    BY <1>typed, <1>same, <2>1, <2>5, <2>6, EasyWithin
<1>8. ASSUME NEW x \in Call, CloseMarks(x) PROVE Within'
  <2>1. /\ pc[x] = "marking" /\ pc'[x] = "settling" /\ UNCHANGED <<job, stream, onChain>>
        /\ SetStatus(ChannelOf(x), "closing")
    BY <1>8, <1>typed DEF CloseMarks, Go, TypeOK
  <2>2. ChannelOf(x) \in Channel /\ channels[ChannelOf(x)] # NoRecord
    BY <1>chan, <1>known, <1>names, <2>1
  <2>3. RecordsWithin'
    BY <1>typed, <1>parts, <2>1, <2>2, StatusStep DEF RecordsWithin, SameNumbers, ChannelStatus
  <2>4. JobWithin(x)'
    BY <1>typed, <1>parts, <1>names, <2>1, <2>2 DEF JobsWithin, JobWithin, ChannelOf, Kept
  <2>5. Only(x)
    BY <1>8, OnlyMoves DEF Resume
  <2> QED
    BY <1>typed, <2>1, <2>3, <2>4, <2>5, EasyWithin
<1>9. ASSUME NEW x \in Call, ContractSettles(x) PROVE Within'
  <2> DEFINE c == ChannelOf(x)
  <2>1. /\ pc[x] = "settling" /\ pc'[x] = "settled" /\ UNCHANGED <<job, channels, stream>>
    BY <1>9, <1>typed DEF ContractSettles, Go, TypeOK
  <2>2. c \in Channel /\ channels[c] # NoRecord /\ job[x].cumulative \in 0 .. channels[c].deposit
    BY <1>chan, <1>known, <1>names, <1>parts, <2>1 DEF JobsWithin, JobWithin
  <2>3. PICK v \in 0 .. job[x].cumulative : onChain' = [onChain EXCEPT ![c] = v]
    BY <1>9, <2>2 DEF ContractSettles
  <2>4. channels[c] \in Record
    BY <1>typed, <2>2 DEF TypeOK
  <2>5. v \in 0 .. channels[c].deposit
    BY <2>2, <2>3, <2>4 DEF Record
  <2> HIDE DEF c
  <2>6. CommitmentsWithinDeposit'
    BY <1>typed, <1>parts, <2>1, <2>2, <2>3, <2>5 DEF CommitmentsWithinDeposit, TypeOK
  <2>7. JobWithin(x)'
    BY <1>parts, <1>names, <2>1 DEF JobsWithin, JobWithin, ChannelOf
  <2>8. JobsWithin'
    <3>1. Only(x)
      BY <1>9, OnlyMoves DEF Resume
    <3> QED
      BY <1>typed, <1>parts, <2>7, <3>1, OthersWithin DEF Only, JobsWithin
  <2> QED
    BY <1>same, <2>1, <2>6, <2>8 DEF Within
<1>10. ASSUME NEW x \in Call, CloseFails(x) \/ CloseReturns(x) PROVE Within'
  <2>1. /\ pc[x] \in {"settling", "settled"}
        /\ UNCHANGED <<job, stream, onChain>>
        /\ Finish(x, "threw") \/ Finish(x, "closed")
        /\ SetStatus(ChannelOf(x), "open") \/ SetStatus(ChannelOf(x), "closed")
    BY <1>10 DEF CloseFails, CloseReturns, AdapterThrows
  <2>2. ChannelOf(x) \in Channel /\ channels[ChannelOf(x)] # NoRecord
    BY <1>chan, <1>known, <1>names, <2>1
  <2>3. RecordsWithin'
    BY <1>typed, <1>parts, <2>1, <2>2, StatusStep DEF RecordsWithin, SameNumbers, ChannelStatus
  <2>4. Only(x)
    BY <1>10, OnlyMoves DEF Resume
  <2> QED
    BY <1>typed, <1>done, <2>1, <2>3, <2>4, EasyWithin
<1>11. CASE UNCHANGED vars
  BY <1>11 DEF vars, Within, RecordsWithin, JobsWithin, JobWithin, CommitmentsWithinDeposit, ChannelOf
<1> QED
  BY <1>1, <1>2, <1>3, <1>4, <1>5, <1>6, <1>7, <1>8, <1>9, <1>10, <1>11
  DEF Next, Resume, AllReturned

\* However calls overlap and whatever the adapter does, no signed commitment
\* and no settlement exceeds what the payer deposited.
THEOREM DepositIsCeiling == Spec => []CommitmentsWithinDeposit
<1>1. Init => Typed /\ Within
  BY InitType, InitWithin
<1>2. Typed /\ Within /\ [Next]_vars => Typed' /\ Within'
  BY StepType, StepWithin
<1>3. Within => CommitmentsWithinDeposit
  BY DEF Within
<1> QED
  BY <1>1, <1>2, <1>3, PTL DEF Spec

(***************************************************************************)
(* A channel's stream has no gap in its numbers: a commit takes the number *)
(* after the record's, and the record's is that of a commitment stored.    *)
(***************************************************************************)

\* The stream of channel c has a commitment numbered n.
HasNumber(c, n) == \E j \in DOMAIN stream[c] : stream[c][j].sequence = n

\* The stream of channel c has the commitment that call x is about to record.
HasOwn(c, x) ==
  \E j \in DOMAIN stream[c] :
    stream[c][j].sequence = job[x].sequence /\ stream[c][j].cumulative = job[x].cumulative

\* Every number before the one being signed is taken, and a commitment is
\* appended before it is recorded.
JobNumbered(x) ==
  /\ pc[x] = "signing" => \A n \in 0 .. (job[x].sequence - 1) : HasNumber(ChannelOf(x), n)
  /\ pc[x] = "appended" => HasOwn(ChannelOf(x), x)

\* The two halves of NoSequenceGap.
StreamNumbered(c) ==
  \A i \in DOMAIN stream[c] : \A n \in 0 .. stream[c][i].sequence : HasNumber(c, n)

RecordNumbered(c) ==
  channels[c].sequence >= 0 =>
    \E j \in DOMAIN stream[c] :
      /\ stream[c][j].sequence = channels[c].sequence
      /\ stream[c][j].cumulative = channels[c].committed

Numbered ==
  /\ \A x \in Call : JobNumbered(x)
  /\ \A c \in Channel : StreamNumbered(c)
  /\ \A c \in Channel : channels[c] # NoRecord => RecordNumbered(c)

LEMMA NumberedIsGapless == Numbered => NoSequenceGap
BY DEF Numbered, NoSequenceGap, StreamNumbered, RecordNumbered, HasNumber

LEMMA InitNumbered == Init => Numbered
BY DEF Init, Numbered, JobNumbered, StreamNumbered, RecordNumbered

\* The stream is append-only.
Grown ==
  \A c \in Channel : \A i \in DOMAIN stream[c] : i \in DOMAIN stream'[c] /\ stream'[c][i] = stream[c][i]

LEMMA StepGrown == Typed /\ [Next]_vars => Grown
<1> SUFFICES ASSUME Typed, [Next]_vars PROVE Grown
  OBVIOUS
<1>1. UNCHANGED stream \/ \E x \in Call : SignReturns(x)
  BY DEF Next, AllReturned, vars, Resume, Open, Commit, Close, OpenReturns, OpenFails, SignFails,
         CommitRecorded, CloseLists, CloseMarks, ContractSettles, CloseFails, CloseReturns
<1>2. CASE UNCHANGED stream
  BY <1>2 DEF Grown
<1>3. ASSUME NEW x \in Call, SignReturns(x) PROVE Grown
  <2> DEFINE c == ChannelOf(x)
             new == [by |-> x, sequence |-> job[x].sequence, cumulative |-> job[x].cumulative]
  <2>1. c \in Channel /\ new \in Commitment /\ stream' = [stream EXCEPT ![c] = Append(stream[c], new)]
    BY <1>3, SignedStep
  <2> HIDE DEF c, new
  <2>2. stream[c] \in Seq(Commitment) /\ stream'[c] = Append(stream[c], new)
    BY <2>1 DEF Typed, TypeOK
  <2>3. \A d \in Channel \ {c} : stream'[d] = stream[d]
    BY <2>1 DEF Typed, TypeOK
  <2>4. \A i \in DOMAIN stream[c] : i \in DOMAIN stream'[c] /\ stream'[c][i] = stream[c][i]
    BY <2>2
  <2> QED
    BY <2>3, <2>4 DEF Grown
<1> QED
  BY <1>1, <1>2, <1>3

\* What is in the stream stays there.
LEMMA Stays ==
  ASSUME Grown, NEW c \in Channel
  PROVE  /\ \A n : HasNumber(c, n) => HasNumber(c, n)'
         /\ \A x : HasOwn(c, x) /\ job'[x] = job[x] => HasOwn(c, x)'
         /\ RecordNumbered(c) /\ channels'[c].sequence = channels[c].sequence
              /\ channels'[c].committed = channels[c].committed => RecordNumbered(c)'
<1>1. \A n : HasNumber(c, n) => HasNumber(c, n)'
  BY DEF Grown, HasNumber
<1>2. \A x : HasOwn(c, x) /\ job'[x] = job[x] => HasOwn(c, x)'
  BY DEF Grown, HasOwn
<1>3. RecordNumbered(c) /\ channels'[c].sequence = channels[c].sequence
        /\ channels'[c].committed = channels[c].committed => RecordNumbered(c)'
  BY DEF Grown, RecordNumbered
<1> QED
  BY <1>1, <1>2, <1>3

LEMMA OthersNumbered ==
  ASSUME Typed, Grown, NEW y \in Call, JobNumbered(y), pc'[y] = pc[y], job'[y] = job[y]
  PROVE  JobNumbered(y)'
<1>1. pc[y] \in {"signing", "appended"} => ChannelOf(y) \in Channel
  BY DEF Typed, TypeOK, Live, Committing
<1>2. CASE pc[y] = "signing"
  BY <1>1, <1>2, Stays DEF JobNumbered, ChannelOf
<1>3. CASE pc[y] = "appended"
  BY <1>1, <1>3, Stays DEF JobNumbered, ChannelOf
<1> QED
  BY <1>2, <1>3 DEF JobNumbered

\* A step that appends nothing and changes no record's number or total.
LEMMA EasyNumbered ==
  ASSUME Typed, Grown, Numbered, NEW x \in Call, Only(x), JobNumbered(x)', UNCHANGED stream,
         \A c \in Channel : channels'[c] # NoRecord =>
           \/ RecordNumbered(c)'
           \/ channels[c] # NoRecord /\ SameNumbers(channels'[c], channels[c])
  PROVE  Numbered'
<1>1. \A y \in Call : JobNumbered(y)'
  BY OthersNumbered DEF Only, Numbered
<1>2. \A c \in Channel : StreamNumbered(c)'
  BY DEF Numbered, StreamNumbered, HasNumber
<1>3. \A c \in Channel : channels'[c] # NoRecord => RecordNumbered(c)'
  BY Stays DEF Numbered, SameNumbers
<1> QED
  BY <1>1, <1>2, <1>3 DEF Numbered

\* What a commit past its check will sign.
LEMMA CommitCases ==
  ASSUME Typed, NEW x \in Call, Commit(x)
  PROVE  \/ Finish(x, "rejected")
         \/ \E c \in Channel :
              /\ channels[c] # NoRecord /\ pc'[x] = "signing"
              /\ job'[x].chan = c /\ job'[x].sequence = channels[c].sequence + 1
<1>1. PICK c \in Channel, a \in Amounts :
        \/ Finish(x, "rejected")
        \/ /\ Accepts(c, a)
           /\ job' = [job EXCEPT ![x] =
                [chan |-> c, amount |-> a, sequence |-> channels[c].sequence + 1,
                 cumulative |-> channels[c].committed + a]]
           /\ Go(x, "signing")
  BY DEF Commit
<1>2. Accepts(c, a) => channels[c] # NoRecord
  BY DEF Accepts, IsOpen, Has
<1>3. Go(x, "signing") => pc'[x] = "signing"
  BY DEF Typed, TypeOK, Go
<1> QED
  BY <1>1, <1>2, <1>3 DEF Typed, TypeOK

LEMMA StepNumbered == Typed /\ Within /\ Numbered /\ [Next]_vars => Numbered'
<1> SUFFICES ASSUME Typed, Within, Numbered, [Next]_vars PROVE Numbered'
  OBVIOUS
<1>typed. TypeOK /\ Typed' /\ TypeOK' /\ Kept /\ Grown
  BY StepType, StepGrown DEF Typed
<1>names. /\ Committing = {"signing", "appended"}
          /\ Closing = {"listing", "marking", "settling", "settled"}
          /\ {"opening", "signing", "appended", "listing", "marking", "settling", "settled"} \subseteq Live
  BY DEF Live, Committing, Closing
<1>chan. \A x \in Call : pc[x] \in Live => ChannelOf(x) \in Channel
  BY <1>typed DEF TypeOK
<1>known. \A x \in Call : pc[x] \in Committing \cup Closing => channels[ChannelOf(x)] # NoRecord
  BY <1>typed DEF TypeOK
<1>same. UNCHANGED channels => \A c \in Channel : SameNumbers(channels'[c], channels[c]) /\ channels'[c] = channels[c]
  BY DEF SameNumbers
<1>done. ASSUME NEW x \in Call, NEW result, Finish(x, result) PROVE JobNumbered(x)'
  BY <1>done, <1>typed DEF Finish, Go, TypeOK, JobNumbered
<1>ends. ASSUME NEW x \in Call, NEW to \in {"opening", "listing", "marking", "settling", "settled"}, Go(x, to)
         PROVE  JobNumbered(x)'
  BY <1>ends, <1>typed DEF Go, TypeOK, JobNumbered
<1>1. ASSUME NEW x \in Call, Open(x) \/ Close(x) \/ OpenFails(x) \/ SignFails(x) \/ CloseLists(x) \/ ContractSettles(x)
      PROVE  Numbered'
  <2>1. UNCHANGED <<stream, channels>>
    BY <1>1 DEF Open, Close, OpenFails, SignFails, CloseLists, ContractSettles
  <2>2. JobNumbered(x)'
    BY <1>1, <1>done, <1>ends DEF Open, Close, OpenFails, SignFails, CloseLists, ContractSettles
  <2>3. Only(x)
    BY <1>1, OnlyMoves DEF Resume
  <2> QED
    BY <1>typed, <1>same, <2>1, <2>2, <2>3, EasyNumbered
<1>2. ASSUME NEW x \in Call, Commit(x) PROVE Numbered'
  <2>1. UNCHANGED <<stream, channels>>
    BY <1>2 DEF Commit
  <2>2. JobNumbered(x)'
    <3>1. CASE Finish(x, "rejected")
      BY <3>1, <1>done
    <3>2. ASSUME NEW c \in Channel, channels[c] # NoRecord, pc'[x] = "signing",
                 job'[x].chan = c, job'[x].sequence = channels[c].sequence + 1
          PROVE  JobNumbered(x)'
      <4>1. channels[c] \in Record /\ channels[c].sequence >= -1
        BY <1>typed, <3>2 DEF TypeOK
      <4>2. channels[c].sequence \in Int
        BY <4>1 DEF Record
      <4>3. \A n \in 0 .. channels[c].sequence : HasNumber(c, n)
        <5>1. CASE channels[c].sequence >= 0
          BY <3>2, <5>1 DEF Numbered, RecordNumbered, StreamNumbered
        <5>2. CASE channels[c].sequence = -1
          BY <5>2
        <5> QED
          BY <4>1, <4>2, <5>1, <5>2
      <4>4. \A n \in 0 .. (job'[x].sequence - 1) : HasNumber(c, n)'
        BY <1>typed, <3>2, <4>2, <4>3, Stays
      <4> QED
        BY <3>2, <4>4 DEF JobNumbered, ChannelOf, HasNumber
    <3> QED
      BY <1>2, <3>1, <3>2, CommitCases
  <2>3. Only(x)
    BY <1>2, OnlyMoves
  <2> QED
    BY <1>typed, <1>same, <2>1, <2>2, <2>3, EasyNumbered
<1>3. ASSUME NEW x \in Call, OpenReturns(x) PROVE Numbered'
  <2>1. Finish(x, "opened") /\ UNCHANGED stream /\ pc[x] = "opening"
    BY <1>3 DEF OpenReturns
  <2>2. job[x].amount > 0
    BY <2>1 DEF Typed, OpeningIsNew
  <2>3. /\ channels'[ChannelOf(x)].sequence = -1
        /\ \A d \in Channel \ {ChannelOf(x)} : channels'[d] = channels[d]
    BY <1>3, <1>typed, <2>2, OpenedStep
  <2>4. RecordNumbered(ChannelOf(x))'
    <3>1. channels'[ChannelOf(x)'] = channels'[ChannelOf(x)]
      BY <1>3 DEF OpenReturns, ChannelOf
    <3> QED
      BY <2>3, <3>1 DEF RecordNumbered
  <2>5. Only(x) /\ JobNumbered(x)'
    BY <1>3, <1>done, <2>1, OnlyMoves DEF Resume
  <2>6. ChannelOf(x)' = ChannelOf(x)
    BY <1>3 DEF OpenReturns, ChannelOf
  <2> QED
    BY <1>typed, <2>1, <2>3, <2>4, <2>5, <2>6, EasyNumbered DEF SameNumbers
<1>4. ASSUME NEW x \in Call, SignReturns(x) PROVE Numbered'
  <2>1. /\ pc[x] = "signing" /\ pc'[x] = "appended"
        /\ UNCHANGED <<job, channels, onChain>>
    BY <1>4, <1>typed DEF SignReturns, Go, TypeOK
  <2>2. PICK c \in Channel, number \in Int, new \in Commitment :
          /\ c = ChannelOf(x) /\ number = job[x].sequence
          /\ new.sequence = number /\ new.cumulative = job[x].cumulative
          /\ stream' = [stream EXCEPT ![c] = Append(stream[c], new)]
    <3>1. job[x] \in Job
      BY <1>typed DEF TypeOK
    <3>2. job[x].sequence \in Int
      BY <3>1 DEF Job
    <3> DEFINE own == [by |-> x, sequence |-> job[x].sequence, cumulative |-> job[x].cumulative]
    <3>3. /\ ChannelOf(x) \in Channel /\ own \in Commitment
          /\ stream' = [stream EXCEPT ![ChannelOf(x)] = Append(stream[ChannelOf(x)], own)]
      BY <1>4, SignedStep
    <3>4. own.sequence = job[x].sequence /\ own.cumulative = job[x].cumulative
      OBVIOUS
    <3> HIDE DEF own
    <3> QED
      BY <3>2, <3>3, <3>4
  <2>3. \A n \in 0 .. (number - 1) : HasNumber(c, n)
    BY <2>1, <2>2 DEF Numbered, JobNumbered
  <2>4. Only(x)
    BY <1>4, OnlyMoves DEF Resume
  <2>5. stream[c] \in Seq(Commitment) /\ stream'[c] = Append(stream[c], new)
    BY <1>typed, <2>2 DEF TypeOK
  <2>6. \A d \in Channel \ {c} : stream'[d] = stream[d]
    BY <1>typed, <2>2 DEF TypeOK
  <2>7. \E j \in DOMAIN stream'[c] : stream'[c][j] = new
    <3>1. Len(stream[c]) + 1 \in DOMAIN stream'[c] /\ stream'[c][Len(stream[c]) + 1] = new
      BY <2>5
    <3> QED
      BY <3>1
  <2>8. \A i \in DOMAIN stream'[c] : (i \in DOMAIN stream[c] /\ stream'[c][i] = stream[c][i]) \/ stream'[c][i] = new
    BY <2>5
  <2>9. JobNumbered(x)'
    BY <2>1, <2>2, <2>7 DEF JobNumbered, HasOwn, ChannelOf
  <2>10. \A d \in Channel : StreamNumbered(d)'
    <3>1. \A n \in 0 .. number : HasNumber(c, n)'
      <4>1. \A n \in 0 .. (number - 1) : HasNumber(c, n)'
        BY <1>typed, <2>3, Stays
      <4>2. HasNumber(c, number)'
        BY <2>2, <2>7 DEF HasNumber
      <4> QED
        BY <4>1, <4>2
    <3>2. StreamNumbered(c)'
      <4> SUFFICES ASSUME NEW i \in DOMAIN stream'[c], NEW n \in 0 .. stream'[c][i].sequence
                   PROVE  HasNumber(c, n)'
        BY DEF StreamNumbered
      <4>1. CASE i \in DOMAIN stream[c] /\ stream'[c][i] = stream[c][i]
        <5>1. HasNumber(c, n)
          BY <4>1 DEF Numbered, StreamNumbered
        <5> QED
          BY <1>typed, <5>1, Stays
      <4>2. CASE stream'[c][i] = new
        BY <2>2, <3>1, <4>2
      <4> QED
        BY <2>8, <4>1, <4>2
    <3>3. \A d \in Channel \ {c} : StreamNumbered(d)'
      BY <2>6 DEF Numbered, StreamNumbered, HasNumber
    <3> QED
      BY <3>2, <3>3
  <2>11. \A d \in Channel : channels'[d] # NoRecord => RecordNumbered(d)'
    BY <1>typed, <2>1, Stays DEF Numbered
  <2>12. \A y \in Call : JobNumbered(y)'
    BY <1>typed, <2>4, <2>9, OthersNumbered DEF Only, Numbered
  <2> QED
    BY <2>10, <2>11, <2>12 DEF Numbered
<1>5. ASSUME NEW x \in Call, CommitRecorded(x) PROVE Numbered'
  <2> DEFINE c == ChannelOf(x)
  <2>1. Finish(x, "committed") /\ UNCHANGED <<job, stream>> /\ pc[x] = "appended"
    BY <1>5 DEF CommitRecorded
  <2>2. HasOwn(c, x) /\ c \in Channel
    BY <1>chan, <1>names, <2>1 DEF Numbered, JobNumbered
  <2>3. /\ channels'[c].sequence = job[x].sequence /\ channels'[c].committed = job[x].cumulative
        /\ \A d \in Channel \ {c} : channels'[d] = channels[d]
        /\ \A d \in Channel : (channels'[d] = NoRecord) <=> (channels[d] = NoRecord)
    BY <1>5, <1>typed, RecordedStep
  <2>4. Only(x) /\ JobNumbered(x)'
    BY <1>5, <1>done, <2>1, OnlyMoves DEF Resume
  <2> HIDE DEF c
  <2>5. \A d \in Channel : d = c => RecordNumbered(d)'
    BY <2>1, <2>2, <2>3 DEF RecordNumbered, HasOwn
  <2> QED
    BY <1>typed, <2>1, <2>3, <2>4, <2>5, EasyNumbered DEF SameNumbers
<1>6. ASSUME NEW x \in Call, CloseMarks(x) \/ CloseFails(x) \/ CloseReturns(x) PROVE Numbered'
  <2>1. /\ pc[x] \in Closing /\ UNCHANGED stream
        /\ \E status \in ChannelStatus : SetStatus(ChannelOf(x), status)
        /\ JobNumbered(x)'
    BY <1>6, <1>names, <1>done, <1>ends
    DEF CloseMarks, CloseFails, CloseReturns, AdapterThrows, ChannelStatus
  <2>2. ChannelOf(x) \in Channel /\ channels[ChannelOf(x)] # NoRecord
    BY <1>chan, <1>known, <1>names, <2>1
  <2>3. \A d \in Channel : channels'[d] # NoRecord =>
          channels[d] # NoRecord /\ SameNumbers(channels'[d], channels[d])
    BY <1>typed, <2>1, <2>2, StatusStep
  <2>4. Only(x)
    BY <1>6, OnlyMoves DEF Resume
  <2> QED
    BY <1>typed, <2>1, <2>3, <2>4, EasyNumbered
<1>7. CASE UNCHANGED vars
  BY <1>7 DEF vars, Numbered, JobNumbered, StreamNumbered, RecordNumbered, HasNumber, HasOwn, ChannelOf
<1> QED
  BY <1>1, <1>2, <1>3, <1>4, <1>5, <1>6, <1>7 DEF Next, Resume, AllReturned

\* However calls overlap and whatever the adapter does, a stream has no gap in
\* its numbers and a record shows the total and number of one commitment.
THEOREM Gapless == Spec => []NoSequenceGap
<1>1. Init => Typed /\ Within /\ Numbered
  BY InitType, InitWithin, InitNumbered
<1>2. Typed /\ Within /\ Numbered /\ [Next]_vars => Typed' /\ Within' /\ Numbered'
  BY StepType, StepWithin, StepNumbered
<1> QED
  BY <1>1, <1>2, NumberedIsGapless, PTL DEF Spec

(***************************************************************************)
(* Nobody is overcharged.  A commit's total is what the record showed when *)
(* it was called, plus its amount; the record shows the total of a commit  *)
(* that is signed.  So no total exceeds the amounts signed, as long as     *)
(* each call signs once, for more than nothing.                            *)
(***************************************************************************)

\* What the calls with a commitment in the stream of c asked for.
Charged(c) == AmountOf(SignedBy(c, Len(stream[c])))

\* A call with a commitment in the stream of c: past signing, and the
\* commitment says what it computed.
IsSigner(x, c) ==
  /\ x \in Call
  /\ pc[x] \in {"appended", "done"}
  /\ ChannelOf(x) = c
  /\ job[x].amount > 0

SignersKnown ==
  \A c \in Channel : \A i \in DOMAIN stream[c] :
    /\ IsSigner(stream[c][i].by, c)
    /\ stream[c][i].cumulative = job[stream[c][i].by].cumulative
    /\ stream[c][i].sequence = job[stream[c][i].by].sequence

SignedOnce ==
  \A c \in Channel : \A i, j \in DOMAIN stream[c] :
    stream[c][i].by = stream[c][j].by => i = j

JobCharged(x) ==
  /\ pc[x] = "signing" =>
       job[x].amount > 0 /\ job[x].cumulative <= Charged(ChannelOf(x)) + job[x].amount
  /\ pc[x] = "appended" => job[x].cumulative <= Charged(ChannelOf(x))

RecordCharged(c) == channels[c] # NoRecord => channels[c].committed <= Charged(c)

Signed == SignersKnown /\ SignedOnce

Charges ==
  /\ \A x \in Call : JobCharged(x)
  /\ \A c \in Channel : RecordCharged(c)
  /\ NeverOvercharged

\* The job of a call is computed when it starts, except for the total of a
\* close; a call that signed only returns.
JobsKept ==
  \A x \in Call :
    /\ pc[x] \in Live \cup {"done"} =>
         job'[x].chan = job[x].chan /\ job'[x].amount = job[x].amount
    /\ pc[x] \in Committing \cup {"done"} => job'[x] = job[x]
    /\ pc[x] \in {"appended", "done"} => pc'[x] \in {"appended", "done"}

\* A stream grows by the commitment of a call that was signing.
AppendsOne ==
  \/ UNCHANGED stream
  \/ \E x \in Call, c \in Channel, new \in Commitment :
       /\ pc[x] = "signing" /\ pc'[x] = "appended" /\ UNCHANGED <<job, channels>>
       /\ c = ChannelOf(x)
       /\ new.by = x /\ new.cumulative = job[x].cumulative /\ new.sequence = job[x].sequence
       /\ stream' = [stream EXCEPT ![c] = Append(stream[c], new)]

LEMMA StepJobs == Typed /\ [Next]_vars => JobsKept
<1> SUFFICES ASSUME Typed, [Next]_vars PROVE JobsKept
  OBVIOUS
<1>names. /\ Committing = {"signing", "appended"}
          /\ Closing = {"listing", "marking", "settling", "settled"}
          /\ Live = {"opening", "signing", "appended", "listing", "marking", "settling", "settled"}
  BY DEF Live, Committing, Closing
<1>1. CASE UNCHANGED vars
  BY <1>1 DEF vars, JobsKept
<1>2. ASSUME NEW x \in Call, Open(x) \/ Commit(x) \/ Close(x) \/ Resume(x)
      PROVE  JobsKept
  <2>1. Only(x)
    BY <1>2, OnlyMoves
  <2>2. CASE Open(x) \/ Commit(x) \/ Close(x)
    <3>1. pc[x] = "idle"
      BY <2>2 DEF Open, Commit, Close
    <3> QED
      BY <1>names, <2>1, <3>1 DEF JobsKept, Only
  <2>3. CASE Resume(x) /\ ~CloseLists(x)
    <3>1. UNCHANGED job /\ pc[x] \in Live
      BY <1>names, <2>3 DEF Resume, OpenReturns, OpenFails, SignReturns, SignFails, CommitRecorded,
         CloseMarks, ContractSettles, CloseFails, CloseReturns, AdapterThrows
    <3>2. pc[x] = "appended" => CommitRecorded(x)
      BY <2>3 DEF Resume, OpenReturns, OpenFails, SignReturns, SignFails, CommitRecorded,
         CloseMarks, ContractSettles, CloseFails, CloseReturns, AdapterThrows
    <3>3. CommitRecorded(x) => pc'[x] = "done"
      BY DEF CommitRecorded, Finish, Go, Typed, TypeOK
    <3> QED
      BY <1>names, <2>1, <3>1, <3>2, <3>3 DEF JobsKept, Only
  <2>4. CASE CloseLists(x)
    <3>1. pc[x] = "listing" /\ \E v : job' = [job EXCEPT ![x].cumulative = v]
      BY <2>4 DEF CloseLists
    <3>2. PICK v : job' = [job EXCEPT ![x].cumulative = v]
      BY <3>1
    <3>3. job[x] \in Job /\ job'[x] = [job[x] EXCEPT !.cumulative = v]
      BY <3>2 DEF Typed, TypeOK
    <3>4. job'[x].chan = job[x].chan /\ job'[x].amount = job[x].amount
      BY <3>3 DEF Job
    <3> QED
      BY <1>names, <2>1, <3>1, <3>4 DEF JobsKept, Only
  <2> QED
    BY <1>2, <2>2, <2>3, <2>4
<1> QED
  BY <1>1, <1>2 DEF Next, AllReturned

LEMMA StepAppends == Typed /\ [Next]_vars => AppendsOne
<1> SUFFICES ASSUME Typed, [Next]_vars PROVE AppendsOne
  OBVIOUS
<1>1. UNCHANGED stream \/ \E x \in Call : SignReturns(x)
  BY DEF Next, AllReturned, vars, Resume, Open, Commit, Close, OpenReturns, OpenFails, SignFails,
         CommitRecorded, CloseLists, CloseMarks, ContractSettles, CloseFails, CloseReturns
<1>2. ASSUME NEW x \in Call, SignReturns(x) PROVE AppendsOne
  <2> DEFINE own == [by |-> x, sequence |-> job[x].sequence, cumulative |-> job[x].cumulative]
  <2>1. /\ ChannelOf(x) \in Channel /\ own \in Commitment
        /\ stream' = [stream EXCEPT ![ChannelOf(x)] = Append(stream[ChannelOf(x)], own)]
    BY <1>2, SignedStep
  <2>2. own.by = x /\ own.sequence = job[x].sequence /\ own.cumulative = job[x].cumulative
    OBVIOUS
  <2>3. pc[x] = "signing" /\ pc'[x] = "appended" /\ UNCHANGED <<job, channels>>
    BY <1>2 DEF SignReturns, Go, Typed, TypeOK
  <2> HIDE DEF own
  <2> QED
    BY <2>1, <2>2, <2>3 DEF AppendsOne
<1> QED
  BY <1>1, <1>2 DEF AppendsOne

\* What calls asked for, as AmountOf sums it.
AmountAsked == [x \in Call |-> job[x].amount]

LEMMA AmountIs == \A calls : AmountOf(calls) = SumFunctionOnSet(AmountAsked, calls)
BY DEF AmountOf, AmountAsked

\* The signers of a part of a stream.
LEMMA SomeSigners ==
  ASSUME Typed, SignersKnown, NEW c \in Channel, NEW n \in 0 .. Len(stream[c])
  PROVE  /\ 1 .. n \subseteq DOMAIN stream[c]
         /\ IsFiniteSet(SignedBy(c, n))
         /\ \A x \in SignedBy(c, n) : IsSigner(x, c) /\ AmountAsked[x] = job[x].amount /\ AmountAsked[x] \in Nat
<1>1. stream[c] \in Seq(Commitment)
  BY DEF Typed, TypeOK
<1>2. Len(stream[c]) \in Nat /\ DOMAIN stream[c] = 1 .. Len(stream[c])
  BY <1>1
<1>3. n \in Nat /\ 1 .. n \subseteq DOMAIN stream[c]
  BY <1>2
<1>4. IsFiniteSet(SignedBy(c, n))
  <2>1. PICK s : s = stream[c]
    OBVIOUS
  <2>2. IsFiniteSet(1 .. n)
    BY <1>3, FS_Interval
  <2>3. PICK by : by = [i \in 1 .. n |-> s[i].by]
    OBVIOUS
  <2>4. IsFiniteSet({by[i] : i \in 1 .. n})
    <3>1. by \in [1 .. n -> {by[i] : i \in 1 .. n}]
      BY <2>3
    <3>2. by \in Surjection(1 .. n, {by[i] : i \in 1 .. n})
      BY <3>1 DEF Surjection
    <3> QED
      BY <2>2, <3>2, FS_Surjection
  <2>5. {by[i] : i \in 1 .. n} = SignedBy(c, n)
    BY <2>1, <2>3 DEF SignedBy
  <2> QED
    BY <2>4, <2>5
<1>5. \A x \in SignedBy(c, n) : IsSigner(x, c)
  BY <1>3 DEF SignersKnown, SignedBy
<1>6. ASSUME NEW x \in Call, job[x].amount > 0 PROVE AmountAsked[x] = job[x].amount /\ AmountAsked[x] \in Nat
  <2>1. job[x] \in Job
    BY DEF Typed, TypeOK
  <2>2. job[x].amount \in Int
    BY <2>1 DEF Job
  <2> QED
    BY <1>6, <2>2 DEF AmountAsked
<1> QED
  BY <1>3, <1>4, <1>5, <1>6 DEF IsSigner

\* Signing is for good: what a part of a stream adds up to never changes.
LEMMA PartsKept ==
  ASSUME Typed, SignersKnown, JobsKept, Grown, NEW c \in Channel, NEW n \in 0 .. Len(stream[c])
  PROVE  /\ AmountOf(SignedBy(c, n))' = AmountOf(SignedBy(c, n))
         /\ SignedBy(c, n)' = SignedBy(c, n)
<1>1. 1 .. n \subseteq DOMAIN stream[c]
  BY SomeSigners
<1>2. \A i \in 1 .. n : stream'[c][i] = stream[c][i]
  BY <1>1 DEF Grown
<1>3. SignedBy(c, n)' = SignedBy(c, n)
  BY <1>2 DEF SignedBy
<1>4. PICK A : A = SignedBy(c, n)
  OBVIOUS
<1>5. IsFiniteSet(A) /\ \A x \in A : IsSigner(x, c)
  BY <1>4, SomeSigners
<1>6. \A x \in A : AmountAsked'[x] = AmountAsked[x]
  BY <1>5 DEF IsSigner, JobsKept, AmountAsked, Committing
<1>7. PICK f : f = AmountAsked
  OBVIOUS
<1>8. PICK g : g = AmountAsked'
  OBVIOUS
<1>9. SumFunctionOnSet(g, A) = SumFunctionOnSet(f, A)
  BY <1>5, <1>6, <1>7, <1>8, SumSame
<1>10. AmountOf(SignedBy(c, n)) = SumFunctionOnSet(f, A)
  BY <1>4, <1>7 DEF AmountOf, AmountAsked
<1>11. AmountOf(SignedBy(c, n))' = SumFunctionOnSet(g, A)
  BY <1>3, <1>4, <1>8 DEF AmountOf, AmountAsked
<1> QED
  BY <1>3, <1>9, <1>10, <1>11

\* Sums of signed amounts are naturals.
LEMMA ChargedIsNat ==
  ASSUME Typed, SignersKnown, NEW c \in Channel
  PROVE  Charged(c) \in Nat /\ Len(stream[c]) \in Nat
<1>1. stream[c] \in Seq(Commitment)
  BY DEF Typed, TypeOK
<1>2. Len(stream[c]) \in Nat /\ Len(stream[c]) \in 0 .. Len(stream[c])
  BY <1>1
<1>3. PICK A : A = SignedBy(c, Len(stream[c]))
  OBVIOUS
<1>4. IsFiniteSet(A) /\ \A x \in A : AmountAsked[x] \in Nat
  BY <1>2, <1>3, SomeSigners
<1>5. PICK f : f = AmountAsked
  OBVIOUS
<1>6. \A x \in A : f[x] \in Int /\ f[x] >= 0
  BY <1>4, <1>5
<1>7. SumFunctionOnSet(f, A) \in Int /\ SumFunctionOnSet(f, A) >= 0
  BY <1>4, <1>6, SumType
<1> QED
  BY <1>2, <1>3, <1>5, <1>7 DEF Charged, AmountOf, AmountAsked

\* The call that signs adds what it asked for to its channel, and nothing to
\* the others.
LEMMA SignsOnce ==
  ASSUME Typed, SignersKnown, JobsKept, Grown,
         NEW x \in Call, NEW c \in Channel, NEW new \in Commitment,
         pc[x] = "signing", UNCHANGED job, job[x].amount > 0, new.by = x,
         stream' = [stream EXCEPT ![c] = Append(stream[c], new)]
  PROVE  Charged(c)' = Charged(c) + job[x].amount
<1>1. stream[c] \in Seq(Commitment) /\ stream'[c] = Append(stream[c], new)
  BY DEF Typed, TypeOK
<1>2. PICK n : n = Len(stream[c])
  OBVIOUS
<1>3. n \in Nat /\ n \in 0 .. Len(stream[c]) /\ Len(stream'[c]) = n + 1 /\ stream'[c][n + 1] = new
  BY <1>1, <1>2
<1>4. PICK A : A = SignedBy(c, n)
  OBVIOUS
<1>5. SignedBy(c, n)' = A
  BY <1>3, <1>4, PartsKept
<1>6. SignedBy(c, n + 1)' = A \cup {x}
  <2>1. 1 .. n + 1 = (1 .. n) \cup {n + 1}
    BY <1>3
  <2> QED
    BY <1>3, <1>5, <2>1 DEF SignedBy
<1>7. IsFiniteSet(A) /\ (\A y \in A : IsSigner(y, c) /\ AmountAsked[y] \in Nat)
  BY <1>3, <1>4, SomeSigners
<1>8. x \notin A
  BY <1>7 DEF IsSigner
<1>9. PICK f : f = AmountAsked
  OBVIOUS
<1>10. job[x] \in Job
  BY DEF Typed, TypeOK
<1>11. f[x] = job[x].amount /\ f[x] \in Int
  BY <1>9, <1>10 DEF AmountAsked, Job
<1>12. \A y \in A : f[y] \in Int
  BY <1>7, <1>9
<1>13. SumFunctionOnSet(f, A \cup {x}) = f[x] + SumFunctionOnSet(f, A)
  BY <1>7, <1>8, <1>11, <1>12, SumAdd
<1>14. SumFunctionOnSet(f, A) = Charged(c)
  BY <1>2, <1>4, <1>9 DEF Charged, AmountOf, AmountAsked
<1>15. Charged(c)' = SumFunctionOnSet(f, A \cup {x})
  BY <1>3, <1>6, <1>9 DEF Charged, AmountOf, AmountAsked
<1>16. Charged(c) \in Int
  BY ChargedIsNat
<1> QED
  BY <1>11, <1>13, <1>14, <1>15, <1>16

LEMMA StepSigned == Typed /\ Signed /\ JobsKept /\ Grown /\ AppendsOne /\ (\A x \in Call : JobCharged(x)) => Signed'
<1> SUFFICES ASSUME Typed, SignersKnown, SignedOnce, JobsKept, Grown, AppendsOne,
                    \A x \in Call : JobCharged(x)
             PROVE  Signed'
  BY DEF Signed
<1>1. \A x, c : IsSigner(x, c) => IsSigner(x, c)'
  BY DEF IsSigner, JobsKept, ChannelOf, Committing
<1>2. \A x, c : IsSigner(x, c) => job'[x] = job[x]
  BY DEF IsSigner, JobsKept, Committing
<1>3. CASE UNCHANGED stream
  BY <1>1, <1>2, <1>3 DEF Signed, SignersKnown, SignedOnce
<1>4. ASSUME NEW x \in Call, NEW c \in Channel, NEW new \in Commitment,
             pc[x] = "signing", pc'[x] = "appended", UNCHANGED job, c = ChannelOf(x),
             new.by = x, new.cumulative = job[x].cumulative, new.sequence = job[x].sequence,
             stream' = [stream EXCEPT ![c] = Append(stream[c], new)]
      PROVE  Signed'
  <2>1. stream[c] \in Seq(Commitment) /\ stream'[c] = Append(stream[c], new)
    BY <1>4 DEF Typed, TypeOK
  <2>2. \A d \in Channel \ {c} : stream'[d] = stream[d]
    BY <1>4 DEF Typed, TypeOK
  <2>3. \A i \in DOMAIN stream'[c] :
          \/ i \in DOMAIN stream[c] /\ stream'[c][i] = stream[c][i]
          \/ i = Len(stream[c]) + 1 /\ i \notin DOMAIN stream[c] /\ stream'[c][i] = new
    BY <2>1
  <2>4. IsSigner(x, c)'
    BY <1>4 DEF IsSigner, JobCharged, ChannelOf
  <2>5. \A i \in DOMAIN stream[c] : stream[c][i].by # x
    BY <1>4 DEF SignersKnown, IsSigner
  <2>6. SignersKnown'
    BY <1>1, <1>4, <2>2, <2>3, <2>4 DEF SignersKnown
  <2>7. SignedOnce'
    BY <1>4, <2>2, <2>3, <2>5 DEF SignedOnce
  <2> QED
    BY <2>6, <2>7 DEF Signed
<1> QED
  BY <1>3, <1>4 DEF AppendsOne

\* What was charged stays charged.
LEMMA ChargedGrows ==
  ASSUME Typed, Signed, JobsKept, Grown, AppendsOne, \A x \in Call : JobCharged(x),
         NEW c \in Channel
  PROVE  Charged(c) \in Int /\ Charged(c)' \in Int /\ Charged(c) <= Charged(c)'
<1>1. Charged(c) \in Nat /\ Len(stream[c]) \in 0 .. Len(stream[c])
  BY ChargedIsNat DEF Signed
<1>2. CASE stream'[c] = stream[c]
  <2>1. AmountOf(SignedBy(c, Len(stream[c])))' = AmountOf(SignedBy(c, Len(stream[c])))
    BY <1>1, <1>2, PartsKept DEF Signed
  <2>2. Charged(c)' = Charged(c)
    BY <1>2, <2>1 DEF Charged
  <2> QED
    BY <1>1, <2>2
<1>3. ASSUME NEW x \in Call, NEW d \in Channel, NEW new \in Commitment,
             pc[x] = "signing", UNCHANGED job, new.by = x,
             stream' = [stream EXCEPT ![d] = Append(stream[d], new)]
      PROVE  Charged(c)' \in Int /\ Charged(c) <= Charged(c)'
  <2>1. CASE d = c
    <3>1. job[x].amount > 0 /\ job[x] \in Job
      BY <1>3 DEF JobCharged, Typed, TypeOK
    <3>2. job[x].amount \in Int
      BY <3>1 DEF Job
    <3>3. Charged(c)' = Charged(c) + job[x].amount
      BY <1>3, <2>1, <3>1, SignsOnce DEF Signed
    <3> QED
      BY <1>1, <3>1, <3>2, <3>3
  <2>2. CASE d # c
    <3>1. stream'[c] = stream[c]
      BY <1>3, <2>2 DEF Typed, TypeOK
    <3> QED
      BY <1>1, <1>2, <3>1
  <2> QED
    BY <2>1, <2>2
<1> QED
  BY <1>1, <1>2, <1>3 DEF AppendsOne

LEMMA InitCharges == Init => Signed /\ \A x \in Call : JobCharged(x)
BY DEF Init, Signed, SignersKnown, SignedOnce, JobCharged

LEMMA InitRecords == Init => (\A c \in Channel : RecordCharged(c)) /\ NeverOvercharged
BY DEF Init, RecordCharged, NeverOvercharged

\* A call that is signing, or has a commitment stored, is still covered.
LEMMA OthersCharged ==
  ASSUME Typed, Signed, JobsKept, Grown, AppendsOne, \A z \in Call : JobCharged(z),
         NEW x \in Call, pc'[x] = pc[x], job'[x] = job[x]
  PROVE  JobCharged(x)'
<1>1. pc[x] \in Committing => ChannelOf(x) \in Channel /\ ChannelOf(x)' = ChannelOf(x)
  BY DEF Typed, TypeOK, Live, ChannelOf
<1>2. job[x] \in Job
  BY DEF Typed, TypeOK
<1>3. job[x].cumulative \in Int /\ job[x].amount \in Int
  BY <1>2 DEF Job
<1>4. CASE pc[x] \in Committing
  <2>1. PICK c \in Channel : c = ChannelOf(x)
    BY <1>1, <1>4
  <2>2. Charged(c) \in Int /\ Charged(c)' \in Int /\ Charged(c) <= Charged(c)'
    BY ChargedGrows
  <2>3. Charged(ChannelOf(x)) = Charged(c) /\ Charged(ChannelOf(x))' = Charged(c)'
    BY <1>1, <1>4, <2>1 DEF Charged, SignedBy, AmountOf
  <2> QED
    BY <1>3, <2>2, <2>3 DEF JobCharged
<1> QED
  BY <1>4 DEF JobCharged, Committing

\* A record that shows no more than before is still covered.
LEMMA RecordsCharged ==
  ASSUME Typed, Signed, JobsKept, Grown, AppendsOne, \A z \in Call : JobCharged(z),
         NEW c \in Channel, RecordCharged(c),
         channels'[c] # NoRecord =>
           \/ channels'[c].committed = 0
           \/ channels[c] # NoRecord /\ channels'[c].committed = channels[c].committed
  PROVE  RecordCharged(c)'
<1>1. Charged(c) \in Nat /\ Charged(c)' \in Int /\ Charged(c) <= Charged(c)'
  BY ChargedGrows, ChargedIsNat DEF Signed
<1>2. channels[c] # NoRecord => channels[c].committed \in Int
  <2>1. channels[c] # NoRecord => channels[c] \in Record
    BY DEF Typed, TypeOK
  <2> QED
    BY <2>1 DEF Record
<1>3. CASE channels'[c].committed = 0
  BY <1>1, <1>3 DEF RecordCharged
<1>4. CASE channels[c] # NoRecord /\ channels'[c].committed = channels[c].committed
  BY <1>1, <1>2, <1>4 DEF RecordCharged
<1> QED
  BY <1>3, <1>4 DEF RecordCharged

\* Appending charges no more than what was asked for.
LEMMA StepNeverOvercharged ==
  ASSUME Typed, Signed, JobsKept, Grown, AppendsOne, \A x \in Call : JobCharged(x),
         NeverOvercharged
  PROVE  NeverOvercharged'
<1>1. ASSUME NEW c \in Channel, NEW i \in DOMAIN stream[c]
      PROVE  stream'[c][i].cumulative <= AmountOf(SignedBy(c, i))'
  <2>1. stream[c] \in Seq(Commitment)
    BY DEF Typed, TypeOK
  <2>2. i \in 0 .. Len(stream[c])
    BY <1>1, <2>1
  <2>3. AmountOf(SignedBy(c, i))' = AmountOf(SignedBy(c, i))
    BY <2>2, PartsKept DEF Signed
  <2> QED
    BY <1>1, <2>3 DEF NeverOvercharged, Grown
<1>2. CASE UNCHANGED stream
  BY <1>1, <1>2 DEF NeverOvercharged
<1>3. ASSUME NEW x \in Call, NEW c \in Channel, NEW new \in Commitment,
             pc[x] = "signing", UNCHANGED job, c = ChannelOf(x),
             new.by = x, new.cumulative = job[x].cumulative,
             stream' = [stream EXCEPT ![c] = Append(stream[c], new)]
      PROVE  NeverOvercharged'
  <2>1. stream[c] \in Seq(Commitment) /\ stream'[c] = Append(stream[c], new)
    BY <1>3 DEF Typed, TypeOK
  <2>2. \A d \in Channel \ {c} : stream'[d] = stream[d]
    BY <1>3 DEF Typed, TypeOK
  <2>3. Len(stream'[c]) = Len(stream[c]) + 1 /\ Len(stream[c]) \in Nat
    BY <2>1
  <2>4. \A i \in DOMAIN stream'[c] :
          i \in DOMAIN stream[c] \/ (i = Len(stream'[c]) /\ stream'[c][i] = new)
    BY <2>1
  <2>5. /\ job[x].amount > 0
        /\ job[x].cumulative <= Charged(c) + job[x].amount
    BY <1>3 DEF JobCharged
  <2>6. Charged(c)' = Charged(c) + job[x].amount
    BY <1>3, <2>5, SignsOnce DEF Signed
  <2>7. new.cumulative <= AmountOf(SignedBy(c, Len(stream[c])))'
    BY <1>3, <2>5, <2>6 DEF Charged
  <2> SUFFICES ASSUME NEW d \in Channel, NEW i \in DOMAIN stream'[d]
               PROVE  stream'[d][i].cumulative <= AmountOf(SignedBy(d, i))'
    BY DEF NeverOvercharged
  <2>8. CASE i \in DOMAIN stream[d]
    BY <1>1, <2>8
  <2>9. CASE d = c /\ i = Len(stream'[c]) /\ stream'[c][i] = new
    BY <2>7, <2>9
  <2> QED
    BY <2>2, <2>4, <2>8, <2>9
<1> QED
  BY <1>2, <1>3 DEF AppendsOne

LEMMA StepCharges ==
  Typed /\ Typed' /\ Signed /\ Charges /\ JobsKept /\ Grown /\ AppendsOne /\ [Next]_vars => Charges'
<1> SUFFICES ASSUME Typed, Typed', Signed, Charges, JobsKept, Grown, AppendsOne, [Next]_vars
             PROVE  Charges'
  OBVIOUS
<1>jobs. \A x \in Call : JobCharged(x)
  BY DEF Charges
<1>never. NeverOvercharged'
  BY <1>jobs, StepNeverOvercharged DEF Charges
<1>records. ASSUME NEW c \in Channel,
                   channels'[c] # NoRecord =>
                     \/ channels'[c].committed = 0
                     \/ channels[c] # NoRecord /\ channels'[c].committed = channels[c].committed
            PROVE  RecordCharged(c)'
  BY <1>jobs, <1>records, RecordsCharged DEF Charges
<1>others. ASSUME NEW x \in Call, Only(x), JobCharged(x)' PROVE \A y \in Call : JobCharged(y)'
  BY <1>jobs, <1>others, OthersCharged DEF Only
<1>grows. \A c \in Channel : Charged(c) \in Int /\ Charged(c)' \in Int /\ Charged(c) <= Charged(c)'
  BY <1>jobs, ChargedGrows
<1>names. /\ Committing = {"signing", "appended"}
          /\ Closing = {"listing", "marking", "settling", "settled"}
          /\ Live = {"opening", "signing", "appended", "listing", "marking", "settling", "settled"}
  BY DEF Live, Committing, Closing
<1>chan. \A x \in Call : pc[x] \in Live => ChannelOf(x) \in Channel
  BY DEF Typed, TypeOK
<1>known. \A x \in Call : pc[x] \in Committing \cup Closing => channels[ChannelOf(x)] # NoRecord
  BY DEF Typed, TypeOK
<1>free. ASSUME NEW x \in Call, NEW to \in Pc \ Committing, Go(x, to) PROVE JobCharged(x)'
  BY <1>free, <1>names DEF Go, Typed, TypeOK, JobCharged
<1>done. ASSUME NEW x \in Call, NEW result, Finish(x, result) PROVE JobCharged(x)'
  BY <1>done, <1>free, <1>names DEF Finish, Pc
<1>1. ASSUME NEW x \in Call, Open(x) \/ Close(x) \/ OpenFails(x) \/ SignFails(x) \/ CloseLists(x) \/ ContractSettles(x)
      PROVE  Charges'
  <2>1. UNCHANGED channels
    BY <1>1 DEF Open, Close, OpenFails, SignFails, CloseLists, ContractSettles
  <2>2. JobCharged(x)'
    <3>1. \/ \E to \in {"opening", "listing", "marking", "settled"} : Go(x, to)
          \/ \E result \in Results : Finish(x, result)
      BY <1>1 DEF Open, Close, OpenFails, SignFails, CloseLists, ContractSettles, Results
    <3> QED
      BY <1>free, <1>done, <1>names, <3>1 DEF Pc
  <2>3. Only(x)
    BY <1>1, OnlyMoves DEF Resume
  <2>4. \A c \in Channel : RecordCharged(c)'
    BY <1>records, <2>1
  <2> QED
    BY <1>others, <1>never, <2>2, <2>3, <2>4 DEF Charges
<1>2. ASSUME NEW x \in Call, Commit(x) PROVE Charges'
  <2>1. UNCHANGED channels
    BY <1>2 DEF Commit
  <2>2. JobCharged(x)'
    <3>1. PICK c \in Channel, a \in Amounts :
            \/ Finish(x, "rejected")
            \/ /\ Accepts(c, a)
               /\ job' = [job EXCEPT ![x] =
                    [chan |-> c, amount |-> a, sequence |-> channels[c].sequence + 1,
                     cumulative |-> channels[c].committed + a]]
               /\ Go(x, "signing")
      BY <1>2 DEF Commit
    <3>2. CASE Finish(x, "rejected")
      BY <3>2, <1>done
    <3>3. CASE /\ Accepts(c, a)
               /\ job' = [job EXCEPT ![x] =
                    [chan |-> c, amount |-> a, sequence |-> channels[c].sequence + 1,
                     cumulative |-> channels[c].committed + a]]
               /\ Go(x, "signing")
      <4>1. a \in Int /\ a > 0 /\ channels[c] # NoRecord
        BY <3>3, InputAssumption DEF Accepts, IsOpen, Has
      <4>2. channels[c] \in Record
        BY <4>1 DEF Typed, TypeOK
      <4>3. channels[c].committed \in Int
        BY <4>2 DEF Record
      <4>4. /\ job'[x].chan = c /\ job'[x].amount = a
            /\ job'[x].cumulative = channels[c].committed + a /\ pc'[x] = "signing"
        BY <3>3 DEF Go, Typed, TypeOK
      <4>5. channels[c].committed <= Charged(c)
        BY <4>1 DEF Charges, RecordCharged
      <4>6. channels[c].committed + a <= Charged(c)' + a
        BY <1>grows, <4>1, <4>3, <4>5
      <4>7. Charged(ChannelOf(x))' = Charged(c)'
        BY <4>4 DEF Charged, SignedBy, AmountOf, ChannelOf
      <4> QED
        BY <4>1, <4>4, <4>6, <4>7 DEF JobCharged
    <3> QED
      BY <3>1, <3>2, <3>3
  <2>3. Only(x)
    BY <1>2, OnlyMoves
  <2>4. \A c \in Channel : RecordCharged(c)'
    BY <1>records, <2>1
  <2> QED
    BY <1>others, <1>never, <2>2, <2>3, <2>4 DEF Charges
<1>3. ASSUME NEW x \in Call, OpenReturns(x) PROVE Charges'
  <2>1. Finish(x, "opened") /\ pc[x] = "opening"
    BY <1>3 DEF OpenReturns
  <2>2. job[x].amount > 0
    BY <2>1 DEF Typed, OpeningIsNew
  <2>3. /\ ChannelOf(x) \in Channel /\ channels'[ChannelOf(x)].committed = 0
        /\ \A d \in Channel \ {ChannelOf(x)} : channels'[d] = channels[d]
    BY <1>3, <2>2, OpenedStep DEF Typed
  <2>4. \A c \in Channel : RecordCharged(c)'
    BY <1>records, <2>3
  <2>5. Only(x) /\ JobCharged(x)'
    BY <1>3, <1>done, <2>1, OnlyMoves DEF Resume
  <2> QED
    BY <1>others, <1>never, <2>4, <2>5 DEF Charges
<1>4. ASSUME NEW x \in Call, SignReturns(x) PROVE Charges'
  <2>1. /\ pc[x] = "signing" /\ pc'[x] = "appended" /\ UNCHANGED <<job, channels>>
    BY <1>4 DEF SignReturns, Go, Typed, TypeOK
  <2>2. PICK c \in Channel, new \in Commitment :
          c = ChannelOf(x) /\ new.by = x /\ stream' = [stream EXCEPT ![c] = Append(stream[c], new)]
    <3> DEFINE own == [by |-> x, sequence |-> job[x].sequence, cumulative |-> job[x].cumulative]
    <3>1. /\ ChannelOf(x) \in Channel /\ own \in Commitment
          /\ stream' = [stream EXCEPT ![ChannelOf(x)] = Append(stream[ChannelOf(x)], own)]
      BY <1>4, SignedStep
    <3>2. own.by = x
      OBVIOUS
    <3> HIDE DEF own
    <3> QED
      BY <3>1, <3>2
  <2>3. job[x].amount > 0 /\ job[x].cumulative <= Charged(c) + job[x].amount
    BY <1>jobs, <2>1, <2>2 DEF JobCharged
  <2>4. Charged(c)' = Charged(c) + job[x].amount
    BY <2>1, <2>2, <2>3, SignsOnce DEF Signed
  <2>5. Charged(ChannelOf(x))' = Charged(c)'
    BY <2>1, <2>2 DEF Charged, SignedBy, AmountOf, ChannelOf
  <2>6. JobCharged(x)'
    BY <2>1, <2>3, <2>4, <2>5 DEF JobCharged
  <2>7. Only(x)
    BY <1>4, OnlyMoves DEF Resume
  <2>8. \A d \in Channel : RecordCharged(d)'
    BY <1>records, <2>1
  <2> QED
    BY <1>others, <1>never, <2>6, <2>7, <2>8 DEF Charges
<1>5. ASSUME NEW x \in Call, CommitRecorded(x) PROVE Charges'
  <2>1. Finish(x, "committed") /\ UNCHANGED job /\ pc[x] = "appended"
    BY <1>5 DEF CommitRecorded
  <2>2. PICK c \in Channel : c = ChannelOf(x) /\ channels[c] # NoRecord
    BY <1>chan, <1>known, <1>names, <2>1
  <2>3. /\ channels'[c].committed = job[x].cumulative
        /\ \A d \in Channel \ {c} : channels'[d] = channels[d]
    BY <1>5, <2>2, RecordedStep DEF Typed
  <2>4. job[x].cumulative <= Charged(c)
    BY <1>jobs, <2>1, <2>2 DEF JobCharged
  <2>5. job[x] \in Job
    BY DEF Typed, TypeOK
  <2>6. job[x].cumulative \in Int
    BY <2>5 DEF Job
  <2>7. job[x].cumulative <= Charged(c)'
    BY <1>grows, <2>4, <2>6
  <2>8. \A d \in Channel : RecordCharged(d)'
    <3>1. RecordCharged(c)'
      BY <2>3, <2>7 DEF RecordCharged
    <3> QED
      BY <1>records, <2>3, <3>1
  <2>9. Only(x) /\ JobCharged(x)'
    BY <1>5, <1>done, <2>1, OnlyMoves DEF Resume
  <2> QED
    BY <1>others, <1>never, <2>8, <2>9 DEF Charges
<1>6. ASSUME NEW x \in Call, CloseMarks(x) \/ CloseFails(x) \/ CloseReturns(x) PROVE Charges'
  <2>1. /\ pc[x] \in Closing
        /\ \E status \in ChannelStatus : SetStatus(ChannelOf(x), status)
        /\ \/ Go(x, "settling")
           \/ \E result \in Results : Finish(x, result)
    BY <1>6, <1>names
    DEF CloseMarks, CloseFails, CloseReturns, AdapterThrows, ChannelStatus, Results
  <2>2. ChannelOf(x) \in Channel /\ channels[ChannelOf(x)] # NoRecord
    BY <1>chan, <1>known, <1>names, <2>1
  <2>3. \A d \in Channel : channels'[d] # NoRecord =>
          channels[d] # NoRecord /\ SameNumbers(channels'[d], channels[d])
    BY <2>1, <2>2, StatusStep DEF Typed
  <2>4. \A d \in Channel : RecordCharged(d)'
    BY <1>records, <2>3 DEF SameNumbers
  <2>5. Only(x)
    BY <1>6, OnlyMoves DEF Resume
  <2>6. JobCharged(x)'
    BY <1>free, <1>done, <1>names, <2>1 DEF Pc
  <2> QED
    BY <1>others, <1>never, <2>4, <2>5, <2>6 DEF Charges
<1>7. CASE UNCHANGED vars
  <2>1. \A x \in Call : JobCharged(x)'
    BY <1>7, <1>jobs, OthersCharged DEF vars
  <2>2. \A c \in Channel : RecordCharged(c)'
    BY <1>7, <1>records DEF vars
  <2> QED
    BY <1>never, <2>1, <2>2 DEF Charges
<1> QED
  BY <1>1, <1>2, <1>3, <1>4, <1>5, <1>6, <1>7 DEF Next, Resume, AllReturned

\* However commits overlap, fail and are retried, no commitment's total is
\* more than the payer asked for in the commits signed up to it.
THEOREM NobodyOvercharged == Spec => []NeverOvercharged
<1>1. Init => Typed /\ Signed /\ Charges
  BY InitType, InitCharges, InitRecords DEF Charges
<1>2. Typed /\ Signed /\ Charges /\ [Next]_vars => Typed' /\ Signed' /\ Charges'
  <2> SUFFICES ASSUME Typed, Signed, Charges, [Next]_vars PROVE Typed' /\ Signed' /\ Charges'
    OBVIOUS
  <2>1. Typed' /\ JobsKept /\ Grown /\ AppendsOne
    BY StepType, StepJobs, StepGrown, StepAppends
  <2>2. Signed'
    BY <2>1, StepSigned DEF Charges
  <2> QED
    BY <2>1, <2>2, StepCharges
<1>3. Charges => NeverOvercharged
  BY DEF Charges
<1> QED
  BY <1>1, <1>2, <1>3, PTL DEF Spec

-----------------------------------------------------------------------------
(***************************************************************************)
(* One call at a time.  The stream is numbered in the order it grows, each *)
(* total is that of the amounts so far, the record shows the last one once *)
(* the commit that signed it has returned, and nothing happens to a closed *)
(* channel.                                                                *)
(***************************************************************************)

\* Call x is at work on channel c.
At(x, c) == pc[x] \in Live /\ ChannelOf(x) = c

Ascending(c) ==
  \A i \in DOMAIN stream[c] :
    /\ stream[c][i].sequence = i - 1
    /\ stream[c][i].cumulative = AmountOf(SignedBy(c, i))

\* The record shows the whole stream.
Shown(c) ==
  /\ channels[c].sequence = Len(stream[c]) - 1
  /\ channels[c].committed = Charged(c)

\* What a call at work on c will sign, has signed or will settle.
JobAt(x, c) ==
  /\ pc[x] = "signing" =>
       /\ job[x].amount > 0
       /\ job[x].sequence = Len(stream[c])
       /\ job[x].cumulative = Charged(c) + job[x].amount
  /\ pc[x] = "appended" =>
       /\ job[x].amount > 0
       /\ job[x].sequence = Len(stream[c]) - 1
       /\ job[x].cumulative = Charged(c)
       /\ channels[c].committed = Charged(c) - job[x].amount
  /\ pc[x] \in {"marking", "settling", "settled"} => job[x].cumulative = Charged(c)
  /\ pc[x] = "settled" => onChain[c] # NoPayout
  /\ pc[x] \in {"settling", "settled"} => Has(c, "closing")
  /\ pc[x] = "opening" => stream[c] = <<>> /\ channels[c] = NoRecord

Final(c) ==
  Has(c, "closed") => onChain[c] = Charged(c) /\ \A x \in Call : ~At(x, c)

Serial(c) ==
  /\ channels[c] = NoRecord => stream[c] = <<>>
  /\ Ascending(c)
  /\ \A x, y \in Call : At(x, c) /\ At(y, c) => x = y
  /\ channels[c] # NoRecord /\ (\A x \in Call : At(x, c) => pc[x] # "appended") => Shown(c)
  /\ \A x \in Call : At(x, c) => JobAt(x, c)
  /\ Final(c)

SerialInv == \A c \in Channel : Serial(c)

LEMMA InitSerial == Init => SerialInv
<1> SUFFICES ASSUME Init, NEW c \in Channel PROVE Serial(c)
  BY DEF SerialInv
<1>1. \A x \in Call : pc[x] = "idle"
  BY DEF Init
<1>2. stream[c] = <<>> /\ channels[c] = NoRecord
  BY DEF Init
<1>3. \A x \in Call : ~At(x, c)
  BY <1>1 DEF At, Live, Committing, Closing
<1>4. DOMAIN stream[c] = {}
  BY <1>2
<1>5. Ascending(c)
  BY <1>4 DEF Ascending
<1>6. Final(c)
  BY <1>2 DEF Final, Has
<1> QED
  BY <1>2, <1>3, <1>5, <1>6 DEF Serial

\* What a step leaves of the stream of a channel, it leaves of its sums.
LEMMA SameStream ==
  ASSUME Typed, SignersKnown, JobsKept, Grown, NEW c \in Channel, stream'[c] = stream[c]
  PROVE  /\ Charged(c)' = Charged(c)
         /\ Ascending(c) => Ascending(c)'
<1>1. stream[c] \in Seq(Commitment)
  BY DEF Typed, TypeOK
<1>2. Len(stream[c]) \in 0 .. Len(stream[c]) /\ DOMAIN stream[c] \subseteq 0 .. Len(stream[c])
  BY <1>1
<1>3. AmountOf(SignedBy(c, Len(stream[c])))' = AmountOf(SignedBy(c, Len(stream[c])))
  <2>1. PICK n : n = Len(stream[c])
    OBVIOUS
  <2>2. n \in 0 .. Len(stream[c]) /\ n = Len(stream'[c])
    BY <1>2, <2>1
  <2>3. AmountOf(SignedBy(c, n))' = AmountOf(SignedBy(c, n))
    BY <2>2, PartsKept
  <2> QED
    BY <2>1, <2>2, <2>3
<1>4. \A i \in DOMAIN stream[c] : AmountOf(SignedBy(c, i))' = AmountOf(SignedBy(c, i))
  BY <1>2, PartsKept
<1> QED
  BY <1>3, <1>4 DEF Charged, Ascending

\* A channel that a step leaves alone.
LEMMA ElsewhereSerial ==
  ASSUME Typed, SignersKnown, JobsKept, Grown, NEW c \in Channel, Serial(c),
         stream'[c] = stream[c], channels'[c] = channels[c], onChain'[c] = onChain[c],
         \A x \in Call : At(x, c)' <=> At(x, c),
         \A x \in Call : At(x, c) => pc'[x] = pc[x] /\ job'[x] = job[x]
  PROVE  Serial(c)'
<1>1. Charged(c)' = Charged(c) /\ Ascending(c)'
  BY SameStream DEF Serial
<1>2. Shown(c) => Shown(c)'
  BY <1>1 DEF Shown
<1>3. \A x \in Call : At(x, c)' => JobAt(x, c)'
  BY <1>1 DEF Serial, JobAt, Has
<1>4. Final(c)'
  BY <1>1 DEF Serial, Final, Has
<1>5. channels'[c] # NoRecord /\ (\A x \in Call : At(x, c)' => pc'[x] # "appended") => Shown(c)'
  BY <1>2 DEF Serial
<1> QED
  BY <1>1, <1>3, <1>4, <1>5 DEF Serial

\* A channel that one call works on.
LEMMA LoneSerial ==
  ASSUME NEW c \in Channel, NEW x \in Call,
         \A y \in Call \ {x} : ~At(y, c)',
         channels'[c] = NoRecord => stream'[c] = <<>>,
         Ascending(c)',
         channels'[c] # NoRecord /\ pc'[x] # "appended" => Shown(c)',
         At(x, c)' => JobAt(x, c)',
         channels'[c] # NoRecord /\ ~At(x, c)' => Shown(c)',
         Has(c, "closed")' => onChain'[c] = Charged(c)' /\ ~At(x, c)'
  PROVE  Serial(c)'
<1>1. Final(c)'
  BY DEF Final
<1>2. \A y, z \in Call : At(y, c)' /\ At(z, c)' => y = z
  OBVIOUS
<1>3. \A y \in Call : At(y, c)' => JobAt(y, c)'
  OBVIOUS
<1> QED
  BY <1>1, <1>2, <1>3 DEF Serial

\* A call that is not at work on any channel says nothing about one.
LEMMA OnlyAt ==
  ASSUME NEW x \in Call, NEW c, Only(x)
  PROVE  \A y \in Call \ {x} : At(y, c)' <=> At(y, c)
BY DEF Only, At, ChannelOf

\* A channel that the call which moves does not work on.
LEMMA NotHere ==
  ASSUME Typed, SignersKnown, JobsKept, Grown, NEW c \in Channel, Serial(c),
         NEW x \in Call, Only(x), ~At(x, c), ~At(x, c)',
         stream'[c] = stream[c], channels'[c] = channels[c], onChain'[c] = onChain[c]
  PROVE  Serial(c)'
<1>1. \A y \in Call : At(y, c)' <=> At(y, c)
  BY OnlyAt
<1>2. \A y \in Call : At(y, c) => pc'[y] = pc[y] /\ job'[y] = job[y]
  BY DEF Only
<1> QED
  BY <1>1, <1>2, ElsewhereSerial

\* What close settles: the total of the whole stream.
LEMMA LatestTotal ==
  ASSUME Typed, SignersKnown, NEW c \in Channel, Ascending(c)
  PROVE  (IF stream[c] = <<>> THEN 0 ELSE stream[c][Latest(stream[c])].cumulative) = Charged(c)
<1>1. stream[c] \in Seq(Commitment)
  BY DEF Typed, TypeOK
<1>2. CASE stream[c] = <<>>
  <2>1. SignedBy(c, Len(stream[c])) = {}
    BY <1>2 DEF SignedBy
  <2> QED
    BY <1>2, <2>1, SumEmpty DEF Charged, AmountOf
<1>3. CASE stream[c] # <<>>
  <2>1. PICK s : s = stream[c]
    OBVIOUS
  <2>2. s \in Seq(Commitment) /\ s # <<>> /\ \E i \in DOMAIN s : IsLatest(s, i)
    BY <1>1, <1>3, <2>1 DEF Typed, HasLatest
  <2>3. PICK i : i = Latest(s)
    OBVIOUS
  <2>4. i \in DOMAIN s /\ IsLatest(s, i)
    BY <2>2, <2>3 DEF Latest, IsLatest
  <2>5. \A j \in DOMAIN s : s[j].sequence = j - 1
    BY <2>1 DEF Ascending
  <2>6. Len(s) \in DOMAIN s /\ DOMAIN s = 1 .. Len(s) /\ Len(s) \in Nat
    BY <2>2
  <2>7. i = Len(s)
    BY <2>4, <2>5, <2>6 DEF IsLatest
  <2> QED
    BY <1>3, <2>1, <2>3, <2>4, <2>7 DEF Ascending, Charged
<1> QED
  BY <1>2, <1>3

\* Signing adds to a stream that is in order what comes next.
LEMMA AppendsInOrder ==
  ASSUME Typed, SignersKnown, JobsKept, Grown, NEW c \in Channel, Ascending(c),
         NEW x \in Call, NEW new \in Commitment, pc[x] = "signing", UNCHANGED job,
         job[x].amount > 0, new.by = x,
         new.sequence = Len(stream[c]), new.cumulative = Charged(c) + job[x].amount,
         stream' = [stream EXCEPT ![c] = Append(stream[c], new)]
  PROVE  /\ Ascending(c)'
         /\ Charged(c)' = Charged(c) + job[x].amount
         /\ Len(stream'[c]) = Len(stream[c]) + 1
<1>1. stream[c] \in Seq(Commitment) /\ stream'[c] = Append(stream[c], new)
  BY DEF Typed, TypeOK
<1>2. Charged(c)' = Charged(c) + job[x].amount
  BY SignsOnce
<1>3. Len(stream'[c]) = Len(stream[c]) + 1 /\ Len(stream[c]) \in Nat
  BY <1>1
<1>4. \A i \in DOMAIN stream'[c] :
        \/ i \in DOMAIN stream[c] /\ i \in 0 .. Len(stream[c]) /\ stream'[c][i] = stream[c][i]
        \/ i = Len(stream'[c]) /\ stream'[c][i] = new
  BY <1>1
<1>5. Ascending(c)'
  <2> SUFFICES ASSUME NEW i \in DOMAIN stream'[c]
               PROVE  /\ stream'[c][i].sequence = i - 1
                      /\ stream'[c][i].cumulative = AmountOf(SignedBy(c, i))'
    BY DEF Ascending
  <2>1. CASE i \in DOMAIN stream[c] /\ i \in 0 .. Len(stream[c]) /\ stream'[c][i] = stream[c][i]
    <3>1. AmountOf(SignedBy(c, i))' = AmountOf(SignedBy(c, i))
      BY <2>1, PartsKept
    <3> QED
      BY <2>1, <3>1 DEF Ascending
  <2>2. CASE i = Len(stream'[c]) /\ stream'[c][i] = new
    <3>1. AmountOf(SignedBy(c, i))' = Charged(c)'
      BY <2>2 DEF Charged
    <3> QED
      BY <1>2, <1>3, <2>2, <3>1
  <2> QED
    BY <1>4, <2>1, <2>2
<1> QED
  BY <1>2, <1>3, <1>5

\* The caller waits for each call on a channel before it makes the next.
NoOverlap == Overlap = FALSE

LEMMA StepSerial ==
  ASSUME NoOverlap
  PROVE  Typed /\ Typed' /\ Signed /\ JobsKept /\ Grown /\ SerialInv /\ [Next]_vars => SerialInv'
<1> SUFFICES ASSUME Typed, Typed', Signed, JobsKept, Grown, SerialInv, [Next]_vars
             PROVE  SerialInv'
  OBVIOUS
<1>signers. SignersKnown
  BY DEF Signed
<1>names. /\ Committing = {"signing", "appended"}
          /\ Closing = {"listing", "marking", "settling", "settled"}
          /\ Live = {"opening", "signing", "appended", "listing", "marking", "settling", "settled"}
  BY DEF Live, Committing, Closing
<1>serial. \A c \in Channel : Serial(c)
  BY DEF SerialInv
<1>chan. \A x \in Call : pc[x] \in Live => ChannelOf(x) \in Channel
  BY DEF Typed, TypeOK
<1>known. \A x \in Call, c \in Channel : At(x, c) /\ pc[x] # "opening" => channels[c] # NoRecord
  BY <1>names DEF Typed, TypeOK, At
<1>here. ASSUME NEW x \in Call, Only(x), NEW c \in Channel, At(x, c) \/ At(x, c)', Serial(c)',
                \A d \in Channel \ {c} : ~At(x, d) /\ ~At(x, d)',
                \A d \in Channel \ {c} :
                  stream'[d] = stream[d] /\ channels'[d] = channels[d] /\ onChain'[d] = onChain[d]
         PROVE  SerialInv'
  <2>1. \A d \in Channel \ {c} : Serial(d)'
    BY <1>here, <1>signers, <1>serial, NotHere
  <2> QED
    BY <1>here, <2>1 DEF SerialInv
<1>alone. ASSUME NEW x \in Call, NEW c \in Channel, At(x, c), Only(x)
          PROVE  \A y \in Call \ {x} : ~At(y, c)'
  BY <1>alone, <1>serial, OnlyAt DEF Serial
<1>refused. ASSUME NEW x \in Call, Only(x), pc[x] = "idle", Finish(x, "rejected"),
                   UNCHANGED <<channels, stream, onChain>>
            PROVE  SerialInv'
  <2>1. pc'[x] = "done"
    BY <1>refused DEF Finish, Go, Typed, TypeOK
  <2>2. \A c \in Channel : ~At(x, c) /\ ~At(x, c)'
    BY <1>refused, <1>names, <2>1 DEF At
  <2> QED
    BY <1>refused, <1>signers, <1>serial, <2>2, NotHere DEF SerialInv
<1>shown. ASSUME NEW x \in Call, NEW c \in Channel, At(x, c), pc[x] # "appended", channels[c] # NoRecord
          PROVE  Shown(c) /\ ~Has(c, "closed")
  <2>1. \A y \in Call : At(y, c) => y = x
    BY <1>serial, <1>shown DEF Serial
  <2> QED
    BY <1>serial, <1>shown, <2>1 DEF Serial, Final
<1>quiet. ASSUME NEW x \in Call, NEW c \in Channel, \A y \in Call : ~At(y, c), IsOpen(c)
          PROVE  Shown(c) /\ channels[c] # NoRecord /\ channels[c].status = "open"
  BY <1>serial, <1>quiet DEF Serial, IsOpen, Has
<1>may. ASSUME NEW c \in Channel, MayCall(c) PROVE \A y \in Call : ~At(y, c)
  BY <1>may DEF MayCall, NoOverlap, At
<1>moves. \A x \in Call : \A to : Go(x, to) => pc'[x] = to
  BY DEF Go, Typed, TypeOK
<1>ends. \A x \in Call : \A result : Finish(x, result) => pc'[x] = "done"
  BY <1>moves DEF Finish
<1>1. ASSUME NEW x \in Call, Open(x) PROVE SerialInv'
  <2>1. pc[x] = "idle" /\ Only(x) /\ UNCHANGED <<channels, stream, onChain>>
    BY <1>1, OnlyMoves DEF Open
  <2>2. CASE Finish(x, "rejected")
    BY <1>refused, <2>1, <2>2
  <2>3. ASSUME NEW c \in Channel, NEW d \in Deposits, Unused(c), Go(x, "opening"),
               job' = [job EXCEPT ![x].chan = c, ![x].amount = d]
        PROVE  SerialInv'
    <3>1. pc'[x] = "opening"
      BY <1>moves, <2>3
    <3>2. job[x] \in Job /\ job'[x] = [job[x] EXCEPT !.chan = c, !.amount = d]
      BY <2>3 DEF Typed, TypeOK
    <3>3. job'[x].chan = c
      BY <3>2 DEF Job
    <3>4. At(x, c)' /\ \A e \in Channel \ {c} : ~At(x, e) /\ ~At(x, e)'
      BY <1>names, <2>1, <3>1, <3>3 DEF At, ChannelOf
    <3>5. channels[c] = NoRecord /\ stream[c] = <<>> /\ Ascending(c)
      BY <1>serial, <2>3 DEF Unused, Serial
    <3>6. \A y \in Call : ~At(y, c)
      BY <1>known, <2>3, <3>5 DEF Unused, At
    <3>7. \A y \in Call \ {x} : ~At(y, c)'
      BY <2>1, <3>6, OnlyAt
    <3>8. JobAt(x, c)' /\ ~Has(c, "closed")' /\ Ascending(c)'
      BY <1>signers, <2>1, <3>1, <3>5, SameStream DEF JobAt, Has
    <3>9. Serial(c)'
      BY <2>1, <3>4, <3>5, <3>7, <3>8, LoneSerial
    <3> QED
      BY <1>here, <2>1, <3>4, <3>9
  <2> QED
    BY <1>1, <2>2, <2>3 DEF Open
<1>2. ASSUME NEW x \in Call, Commit(x) PROVE SerialInv'
  <2>1. pc[x] = "idle" /\ Only(x) /\ UNCHANGED <<channels, stream, onChain>>
    BY <1>2, OnlyMoves DEF Commit
  <2>2. CASE Finish(x, "rejected")
    BY <1>refused, <2>1, <2>2
  <2>3. ASSUME NEW c \in Channel, NEW a \in Amounts, MayCall(c), Accepts(c, a), Go(x, "signing"),
               job' = [job EXCEPT ![x] =
                 [chan |-> c, amount |-> a, sequence |-> channels[c].sequence + 1,
                  cumulative |-> channels[c].committed + a]]
        PROVE  SerialInv'
    <3>1. pc'[x] = "signing"
      BY <1>moves, <2>3
    <3>2. /\ job'[x].chan = c /\ job'[x].amount = a
          /\ job'[x].sequence = channels[c].sequence + 1
          /\ job'[x].cumulative = channels[c].committed + a
      BY <2>3 DEF Typed, TypeOK
    <3>3. At(x, c)' /\ \A e \in Channel \ {c} : ~At(x, e) /\ ~At(x, e)'
      BY <1>names, <2>1, <3>1, <3>2 DEF At, ChannelOf
    <3>4. \A y \in Call : ~At(y, c)
      BY <1>may, <2>3
    <3>5. \A y \in Call \ {x} : ~At(y, c)'
      BY <2>1, <3>4, OnlyAt
    <3>6. Shown(c) /\ channels[c] # NoRecord /\ channels[c].status = "open" /\ a > 0
      BY <1>quiet, <2>3, <3>4 DEF Accepts
    <3>7. Charged(c)' = Charged(c) /\ Ascending(c)'
      BY <1>signers, <1>serial, <2>1, SameStream DEF Serial
    <3>8. Shown(c)' /\ ~Has(c, "closed")'
      BY <2>1, <3>6, <3>7 DEF Shown, Has
    <3>9. Len(stream[c]) \in Nat
      BY <1>signers, ChargedIsNat
    <3>10. JobAt(x, c)'
      BY <2>1, <3>1, <3>2, <3>6, <3>7, <3>9 DEF JobAt, Shown
    <3>11. Serial(c)'
      BY <2>1, <3>3, <3>5, <3>6, <3>7, <3>8, <3>10, LoneSerial
    <3> QED
      BY <1>here, <2>1, <3>3, <3>11
  <2> QED
    BY <1>2, <2>2, <2>3 DEF Commit
<1>3. ASSUME NEW x \in Call, Close(x) PROVE SerialInv'
  <2>1. pc[x] = "idle" /\ Only(x) /\ UNCHANGED <<channels, stream, onChain>>
    BY <1>3, OnlyMoves DEF Close
  <2>2. CASE Finish(x, "rejected")
    BY <1>refused, <2>1, <2>2
  <2>3. ASSUME NEW c \in Channel, MayCall(c), IsOpen(c), Go(x, "listing"),
               job' = [job EXCEPT ![x].chan = c]
        PROVE  SerialInv'
    <3>1. pc'[x] = "listing"
      BY <1>moves, <2>3
    <3>2. job[x] \in Job /\ job'[x] = [job[x] EXCEPT !.chan = c]
      BY <2>3 DEF Typed, TypeOK
    <3>3. job'[x].chan = c
      BY <3>2 DEF Job
    <3>4. At(x, c)' /\ \A e \in Channel \ {c} : ~At(x, e) /\ ~At(x, e)'
      BY <1>names, <2>1, <3>1, <3>3 DEF At, ChannelOf
    <3>5. \A y \in Call : ~At(y, c)
      BY <1>may, <2>3
    <3>6. \A y \in Call \ {x} : ~At(y, c)'
      BY <2>1, <3>5, OnlyAt
    <3>7. Shown(c) /\ channels[c] # NoRecord /\ channels[c].status = "open"
      BY <1>quiet, <2>3, <3>5
    <3>8. Charged(c)' = Charged(c) /\ Ascending(c)'
      BY <1>signers, <1>serial, <2>1, SameStream DEF Serial
    <3>9. Shown(c)' /\ ~Has(c, "closed")' /\ JobAt(x, c)'
      BY <2>1, <3>1, <3>7, <3>8 DEF Shown, Has, JobAt
    <3>10. Serial(c)'
      BY <2>1, <3>4, <3>6, <3>7, <3>8, <3>9, LoneSerial
    <3> QED
      BY <1>here, <2>1, <3>4, <3>10
  <2> QED
    BY <1>3, <2>2, <2>3 DEF Close
<1>4. ASSUME NEW x \in Call, Resume(x) PROVE SerialInv'
  <2>only. Only(x)
    BY <1>4, OnlyMoves
  <2>live. pc[x] \in Live
    BY <1>4, <1>names DEF Resume, OpenReturns, OpenFails, SignReturns, SignFails, CommitRecorded, CloseLists,
       CloseMarks, ContractSettles, CloseFails, CloseReturns, AdapterThrows
  <2>c. PICK c \in Channel : c = ChannelOf(x)
    BY <1>chan, <2>live
  <2>at. At(x, c) /\ \A d \in Channel \ {c} : ~At(x, d)
    BY <2>live, <2>c DEF At
  <2>chan. job'[x].chan = c /\ job'[x].amount = job[x].amount
    BY <2>live, <2>c DEF JobsKept, ChannelOf
  <2>elsewhere. \A d \in Channel \ {c} : ~At(x, d)'
    BY <2>chan DEF At, ChannelOf
  <2>alone. \A y \in Call \ {x} : ~At(y, c)'
    BY <1>alone, <2>at, <2>only
  <2>job. JobAt(x, c)
    BY <1>serial, <2>at DEF Serial
  <2>rest. Len(stream[c]) \in Nat /\ Charged(c) \in Nat /\ job[x] \in Job
    BY <1>signers, ChargedIsNat DEF Typed, TypeOK
  <2>ints. job[x].amount \in Int /\ job[x].cumulative \in Int /\ job[x].sequence \in Int
    BY <2>rest DEF Job
  <2>known. pc[x] # "opening" => channels[c] # NoRecord
    BY <1>known, <2>at
  <2>same. UNCHANGED stream => Charged(c)' = Charged(c) /\ Ascending(c)'
    BY <1>signers, <1>serial, SameStream DEF Serial
  <2>ends. ASSUME NEW result, Finish(x, result) PROVE ~At(x, c)' /\ pc'[x] = "done"
    BY <1>ends, <1>names, <2>ends DEF At
  <2>empty. pc[x] = "opening" => Charged(c) = 0
    <3>1. pc[x] = "opening" => SignedBy(c, Len(stream[c])) = {}
      BY <2>job DEF JobAt, SignedBy
    <3> QED
      BY <3>1, SumEmpty DEF Charged, AmountOf
  <2>status. ASSUME NEW status \in ChannelStatus, SetStatus(c, status), pc[x] \in Closing, UNCHANGED stream
             PROVE  /\ channels'[c] # NoRecord /\ channels'[c].status = status
                    /\ Shown(c)'
                    /\ \A d \in Channel \ {c} : channels'[d] = channels[d]
    <3>1. Shown(c) /\ channels[c] # NoRecord
      BY <1>shown, <1>names, <2>at, <2>known, <2>status
    <3>2. channels'[c] # NoRecord /\ SameNumbers(channels'[c], channels[c])
      BY <2>status, <3>1, StatusStep DEF Typed
    <3>3. channels[c] \in Record /\ channels'[c] = [channels[c] EXCEPT !.status = status]
      BY <2>status, <3>1 DEF Typed, TypeOK, SetStatus
    <3>4. channels'[c].status = status
      BY <3>3 DEF Record
    <3>5. \A d \in Channel \ {c} : channels'[d] = channels[d]
      BY <2>status DEF SetStatus, Typed, TypeOK
    <3>6. Shown(c)'
      BY <2>same, <2>status, <3>1, <3>2 DEF Shown, SameNumbers
    <3> QED
      BY <3>2, <3>4, <3>5, <3>6
  <2>1. CASE OpenReturns(x)
    <3>1. pc[x] = "opening" /\ Finish(x, "opened") /\ UNCHANGED <<stream, onChain>>
      BY <2>1 DEF OpenReturns
    <3>2. job[x].amount > 0
      BY <3>1 DEF Typed, OpeningIsNew
    <3>3. /\ channels'[c].committed = 0 /\ channels'[c].sequence = -1 /\ channels'[c] # NoRecord
          /\ \A d \in Channel \ {c} : channels'[d] = channels[d]
      BY <2>1, <2>c, <3>2, OpenedStep DEF Typed
    <3>4. channels'[c].status = "open"
      BY <2>1, <2>c DEF OpenReturns, Typed, TypeOK
    <3>5. Len(stream[c]) = 0 /\ stream'[c] = stream[c]
      BY <2>job, <3>1 DEF JobAt
    <3>6. Shown(c)'
      BY <2>same, <2>empty, <3>1, <3>3, <3>5 DEF Shown
    <3>7. Serial(c)'
      BY <2>alone, <2>same, <2>ends, <3>1, <3>3, <3>4, <3>6, LoneSerial DEF Has
    <3> QED
      BY <1>here, <2>only, <2>at, <2>elsewhere, <3>1, <3>3, <3>7
  <2>2. CASE OpenFails(x)
    <3>1. pc[x] = "opening" /\ Finish(x, "threw") /\ UNCHANGED <<channels, stream, onChain>>
      BY <2>2 DEF OpenFails
    <3>2. channels'[c] = NoRecord /\ stream'[c] = <<>>
      BY <2>job, <3>1 DEF JobAt
    <3>3. Serial(c)'
      BY <2>alone, <2>same, <2>ends, <3>1, <3>2, LoneSerial DEF Has
    <3> QED
      BY <1>here, <2>only, <2>at, <2>elsewhere, <3>1, <3>3
  <2>3. CASE SignFails(x)
    <3>1. pc[x] = "signing" /\ Finish(x, "threw") /\ UNCHANGED <<channels, stream, onChain>>
      BY <2>3 DEF SignFails
    <3>2. channels'[c] # NoRecord /\ Shown(c) /\ ~Has(c, "closed")
      BY <1>shown, <2>at, <2>known, <3>1
    <3>3. Shown(c)' /\ ~Has(c, "closed")'
      BY <2>same, <3>1, <3>2 DEF Shown, Has
    <3>4. Serial(c)'
      BY <2>alone, <2>same, <2>ends, <3>1, <3>2, <3>3, LoneSerial
    <3> QED
      BY <1>here, <2>only, <2>at, <2>elsewhere, <3>1, <3>4
  <2>4. CASE SignReturns(x)
    <3>1. pc[x] = "signing" /\ Go(x, "appended") /\ UNCHANGED <<job, channels, onChain>>
      BY <2>4 DEF SignReturns
    <3>2. channels[c] # NoRecord /\ Shown(c) /\ ~Has(c, "closed")
      BY <1>shown, <2>at, <2>known, <3>1
    <3>3. PICK new \in Commitment :
            /\ new.by = x /\ new.sequence = job[x].sequence /\ new.cumulative = job[x].cumulative
            /\ stream' = [stream EXCEPT ![c] = Append(stream[c], new)]
      <4> DEFINE own == [by |-> x, sequence |-> job[x].sequence, cumulative |-> job[x].cumulative]
      <4>1. /\ own \in Commitment
            /\ stream' = [stream EXCEPT ![ChannelOf(x)] = Append(stream[ChannelOf(x)], own)]
        BY <2>4, SignedStep
      <4>2. own.by = x /\ own.sequence = job[x].sequence /\ own.cumulative = job[x].cumulative
        OBVIOUS
      <4> HIDE DEF own
      <4> QED
        BY <2>c, <4>1, <4>2
    <3>4. /\ job[x].amount > 0 /\ job[x].sequence = Len(stream[c])
          /\ job[x].cumulative = Charged(c) + job[x].amount
      BY <2>job, <3>1 DEF JobAt
    <3>5. /\ Ascending(c)'
          /\ Charged(c)' = Charged(c) + job[x].amount
          /\ Len(stream'[c]) = Len(stream[c]) + 1
      <4>1. Ascending(c)
        BY <1>serial DEF Serial
      <4> QED
        BY <1>signers, <3>1, <3>3, <3>4, <4>1, AppendsInOrder
    <3>6. pc'[x] = "appended" /\ At(x, c)'
      BY <1>moves, <1>names, <2>chan, <3>1 DEF At, ChannelOf
    <3>7. JobAt(x, c)' /\ ~Has(c, "closed")'
      BY <2>rest, <2>ints, <3>1, <3>2, <3>4, <3>5, <3>6 DEF JobAt, Shown, Has
    <3>8. Serial(c)'
      BY <2>alone, <3>1, <3>2, <3>5, <3>6, <3>7, LoneSerial
    <3>9. \A d \in Channel \ {c} : stream'[d] = stream[d]
      BY <3>3 DEF Typed, TypeOK
    <3> QED
      BY <1>here, <2>only, <2>at, <2>elsewhere, <3>1, <3>8, <3>9
  <2>5. CASE CommitRecorded(x)
    <3>1. pc[x] = "appended" /\ Finish(x, "committed") /\ UNCHANGED <<job, stream, onChain>>
      BY <2>5 DEF CommitRecorded
    <3>2. channels[c] # NoRecord /\ ~Has(c, "closed")
      BY <1>serial, <2>at, <2>known, <3>1 DEF Serial, Final
    <3>3. /\ channels'[c] # NoRecord
          /\ channels'[c].committed = job[x].cumulative /\ channels'[c].sequence = job[x].sequence
          /\ \A d \in Channel \ {c} : channels'[d] = channels[d]
      BY <2>5, <2>c, <3>2, RecordedStep DEF Typed
    <3>4. channels'[c].status = channels[c].status
      <4>1. channels[c] \in Record
        BY <3>2 DEF Typed, TypeOK
      <4>2. channels'[c] = [channels[c] EXCEPT !.committed = job[x].cumulative, !.sequence = job[x].sequence]
        BY <2>5, <2>c DEF CommitRecorded, Typed, TypeOK
      <4> QED
        BY <4>1, <4>2 DEF Record
    <3>5. Shown(c)' /\ ~Has(c, "closed")'
      BY <2>same, <2>job, <3>1, <3>2, <3>3, <3>4 DEF Shown, JobAt, Has
    <3>6. Serial(c)'
      BY <2>alone, <2>same, <2>ends, <3>1, <3>3, <3>5, LoneSerial
    <3> QED
      BY <1>here, <2>only, <2>at, <2>elsewhere, <3>1, <3>3, <3>6
  <2>6. CASE CloseLists(x)
    <3>1. pc[x] = "listing" /\ Go(x, "marking") /\ UNCHANGED <<channels, stream, onChain>>
      BY <2>6 DEF CloseLists
    <3>2. channels[c] # NoRecord /\ Shown(c) /\ ~Has(c, "closed")
      BY <1>shown, <2>at, <2>known, <3>1
    <3>3. pc'[x] = "marking" /\ At(x, c)'
      BY <1>moves, <1>names, <2>chan, <3>1 DEF At, ChannelOf
    <3>4. job'[x].cumulative = Charged(c)
      <4> DEFINE total == IF stream[c] = <<>> THEN 0 ELSE stream[c][Latest(stream[c])].cumulative
      <4>1. total = Charged(c)
        BY <1>signers, <1>serial, LatestTotal DEF Serial
      <4>2. job' = [job EXCEPT ![x].cumulative = total]
        BY <2>6, <2>c DEF CloseLists
      <4> HIDE DEF total
      <4>3. job'[x] = [job[x] EXCEPT !.cumulative = total]
        BY <4>2 DEF Typed, TypeOK
      <4>4. job'[x].cumulative = total
        BY <2>rest, <4>3 DEF Job
      <4> QED
        BY <4>1, <4>4
    <3>5. JobAt(x, c)' /\ Shown(c)' /\ ~Has(c, "closed")'
      BY <2>same, <3>1, <3>2, <3>3, <3>4 DEF JobAt, Shown, Has
    <3>6. Serial(c)'
      BY <2>alone, <2>same, <3>1, <3>2, <3>3, <3>5, LoneSerial
    <3> QED
      BY <1>here, <2>only, <2>at, <2>elsewhere, <3>1, <3>6
  <2>7. CASE CloseMarks(x)
    <3>1. /\ pc[x] = "marking" /\ Go(x, "settling") /\ UNCHANGED <<job, stream, onChain>>
          /\ SetStatus(c, "closing")
      BY <2>7, <2>c DEF CloseMarks
    <3>2. /\ channels'[c] # NoRecord /\ channels'[c].status = "closing" /\ Shown(c)'
          /\ \A d \in Channel \ {c} : channels'[d] = channels[d]
      BY <1>names, <2>status, <3>1 DEF ChannelStatus
    <3>3. pc'[x] = "settling" /\ At(x, c)'
      BY <1>moves, <1>names, <2>chan, <3>1 DEF At, ChannelOf
    <3>4. JobAt(x, c)' /\ ~Has(c, "closed")'
      BY <2>same, <2>job, <3>1, <3>2, <3>3 DEF JobAt, Has
    <3>5. Serial(c)'
      BY <2>alone, <2>same, <3>1, <3>2, <3>3, <3>4, LoneSerial
    <3> QED
      BY <1>here, <2>only, <2>at, <2>elsewhere, <3>1, <3>2, <3>5
  <2>8. CASE ContractSettles(x)
    <3>1. pc[x] = "settling" /\ Go(x, "settled") /\ UNCHANGED <<job, channels, stream>>
      BY <2>8 DEF ContractSettles
    <3>2. PICK paid \in Int : onChain' = [onChain EXCEPT ![c] = paid]
      BY <2>8, <2>c, <2>ints DEF ContractSettles
    <3>3. onChain'[c] # NoPayout /\ \A d \in Channel \ {c} : onChain'[d] = onChain[d]
      BY <3>2, NothingAssumption DEF Typed, TypeOK
    <3>4. channels[c] # NoRecord /\ Shown(c) /\ ~Has(c, "closed")
      BY <1>shown, <2>at, <2>known, <3>1
    <3>5. pc'[x] = "settled" /\ At(x, c)'
      BY <1>moves, <1>names, <2>chan, <3>1 DEF At, ChannelOf
    <3>6. JobAt(x, c)' /\ Shown(c)' /\ ~Has(c, "closed")'
      BY <2>same, <2>job, <3>1, <3>3, <3>4, <3>5 DEF JobAt, Has, Shown
    <3>7. Serial(c)'
      BY <2>alone, <2>same, <3>1, <3>4, <3>5, <3>6, LoneSerial
    <3> QED
      BY <1>here, <2>only, <2>at, <2>elsewhere, <3>1, <3>3, <3>7
  <2>9. CASE CloseFails(x)
    <3>1. /\ pc[x] \in Closing /\ Finish(x, "threw") /\ UNCHANGED <<job, stream, onChain>>
          /\ SetStatus(c, "open")
      BY <1>names, <2>9, <2>c DEF CloseFails, AdapterThrows
    <3>2. /\ channels'[c] # NoRecord /\ channels'[c].status = "open" /\ Shown(c)'
          /\ \A d \in Channel \ {c} : channels'[d] = channels[d]
      BY <1>names, <2>status, <3>1 DEF ChannelStatus
    <3>3. Serial(c)'
      BY <2>alone, <2>same, <2>ends, <3>1, <3>2, LoneSerial DEF Has
    <3> QED
      BY <1>here, <2>only, <2>at, <2>elsewhere, <3>1, <3>2, <3>3
  <2>10. CASE CloseReturns(x)
    <3>1. pc[x] = "settled" /\ UNCHANGED <<job, stream, onChain>> /\ job[x].cumulative = Charged(c)
      BY <2>10, <2>job DEF CloseReturns, JobAt
    <3>2. PICK status \in ChannelStatus :
            /\ SetStatus(c, status) /\ \E result : Finish(x, result)
            /\ status = "closed" => onChain[c] = job[x].cumulative
      BY <2>10, <2>c DEF CloseReturns, ChannelStatus
    <3>3. /\ channels'[c] # NoRecord /\ channels'[c].status = status /\ Shown(c)'
          /\ \A d \in Channel \ {c} : channels'[d] = channels[d]
      BY <1>names, <2>status, <3>1, <3>2
    <3>4. ~At(x, c)' /\ pc'[x] = "done"
      BY <2>ends, <3>2
    <3>5. Has(c, "closed")' => onChain'[c] = Charged(c)'
      BY <2>same, <3>1, <3>2, <3>3 DEF Has
    <3>6. Serial(c)'
      BY <2>alone, <2>same, <3>1, <3>3, <3>4, <3>5, LoneSerial
    <3> QED
      BY <1>here, <2>only, <2>at, <2>elsewhere, <3>1, <3>3, <3>6
  <2> QED
    BY <1>4, <2>1, <2>2, <2>3, <2>4, <2>5, <2>6, <2>7, <2>8, <2>9, <2>10 DEF Resume
<1>5. CASE UNCHANGED vars
  <2>1. UNCHANGED <<pc, job, channels, stream, onChain>>
    BY <1>5 DEF vars
  <2> SUFFICES ASSUME NEW c \in Channel PROVE Serial(c)'
    BY DEF SerialInv
  <2>2. \A x \in Call : At(x, c)' <=> At(x, c)
    BY <2>1 DEF At, ChannelOf
  <2> QED
    BY <1>signers, <1>serial, <2>1, <2>2, ElsewhereSerial
<1> QED
  BY <1>1, <1>2, <1>3, <1>4, <1>5 DEF Next, AllReturned

\* What the proofs about a channel without overlap rest on.
SerialChannel == Typed /\ Within /\ Signed /\ Charges /\ SerialInv

LEMMA StepKnown ==
  ASSUME Typed, Within, Signed, Charges, [Next]_vars
  PROVE  /\ Typed' /\ Within' /\ Signed' /\ Charges'
         /\ JobsKept /\ Grown /\ AppendsOne /\ Kept
<1>1. Typed' /\ Kept /\ JobsKept /\ Grown /\ AppendsOne
  BY StepType, StepJobs, StepGrown, StepAppends
<1>2. Signed'
  BY <1>1, StepSigned DEF Charges
<1> QED
  BY <1>1, <1>2, StepWithin, StepCharges

LEMMA SerialSafe ==
  ASSUME NoOverlap
  PROVE  /\ Init => SerialChannel
         /\ SerialChannel /\ [Next]_vars => SerialChannel'
<1>1. Init => SerialChannel
  BY InitType, InitWithin, InitCharges, InitRecords, InitSerial DEF SerialChannel, Charges
<1>2. ASSUME SerialChannel, [Next]_vars PROVE SerialChannel'
  <2>1. Typed /\ Within /\ Signed /\ Charges /\ SerialInv
    BY <1>2 DEF SerialChannel
  <2>2. Typed' /\ Within' /\ Signed' /\ Charges' /\ JobsKept /\ Grown
    BY <1>2, <2>1, StepKnown
  <2>3. SerialInv'
    BY <1>2, <2>1, <2>2, StepSerial
  <2> QED
    BY <2>2, <2>3 DEF SerialChannel
<1> QED
  BY <1>1, <1>2

(***************************************************************************)
(* The manager is a payment channel.                                       *)
(***************************************************************************)

\* What Ideal sees.
DepositNow == [c \in Channel |-> IF channels[c] = NoRecord THEN 0 ELSE channels[c].deposit]
PaidNow == [c \in Channel |-> IF channels[c] = NoRecord THEN 0 ELSE channels[c].committed]
PayoutNow == [c \in Channel |-> IF Has(c, "closed") THEN onChain[c] ELSE NoPayout]

LEMMA SeenBy ==
  /\ \A c \in Channel :
       /\ DepositNow[c] = IF channels[c] = NoRecord THEN 0 ELSE channels[c].deposit
       /\ PaidNow[c] = IF channels[c] = NoRecord THEN 0 ELSE channels[c].committed
       /\ PayoutNow[c] = IF Has(c, "closed") THEN onChain[c] ELSE NoPayout
  /\ \A c \in Channel :
       /\ DepositNow'[c] = IF channels'[c] = NoRecord THEN 0 ELSE channels'[c].deposit
       /\ PaidNow'[c] = IF channels'[c] = NoRecord THEN 0 ELSE channels'[c].committed
       /\ PayoutNow'[c] = IF Has(c, "closed")' THEN onChain'[c] ELSE NoPayout
<1>1. \A c \in Channel :
       /\ DepositNow[c] = IF channels[c] = NoRecord THEN 0 ELSE channels[c].deposit
       /\ PaidNow[c] = IF channels[c] = NoRecord THEN 0 ELSE channels[c].committed
       /\ PayoutNow[c] = IF Has(c, "closed") THEN onChain[c] ELSE NoPayout
  BY DEF DepositNow, PaidNow, PayoutNow
<1>2. \A c \in Channel :
       /\ DepositNow'[c] = IF channels'[c] = NoRecord THEN 0 ELSE channels'[c].deposit
       /\ PaidNow'[c] = IF channels'[c] = NoRecord THEN 0 ELSE channels'[c].committed
       /\ PayoutNow'[c] = IF Has(c, "closed")' THEN onChain'[c] ELSE NoPayout
  BY DEF DepositNow, PaidNow, PayoutNow
<1> QED
  BY <1>1, <1>2

\* A step changes what Ideal sees of one channel at most.
SeenElsewhere(c) ==
  /\ DepositNow' = [DepositNow EXCEPT ![c] = DepositNow'[c]]
  /\ PaidNow' = [PaidNow EXCEPT ![c] = PaidNow'[c]]
  /\ PayoutNow' = [PayoutNow EXCEPT ![c] = PayoutNow'[c]]

LEMMA SeenAt ==
  ASSUME NEW c \in Channel,
         \A d \in Channel \ {c} : channels'[d] = channels[d] /\ onChain'[d] = onChain[d]
  PROVE  SeenElsewhere(c)
<1>1. \A d \in Channel \ {c} :
        DepositNow'[d] = DepositNow[d] /\ PaidNow'[d] = PaidNow[d] /\ PayoutNow'[d] = PayoutNow[d]
  BY SeenBy DEF Has
<1>2. /\ DepositNow' = [d \in Channel |-> DepositNow'[d]] /\ DepositNow = [d \in Channel |-> DepositNow[d]]
      /\ PaidNow' = [d \in Channel |-> PaidNow'[d]] /\ PaidNow = [d \in Channel |-> PaidNow[d]]
      /\ PayoutNow' = [d \in Channel |-> PayoutNow'[d]] /\ PayoutNow = [d \in Channel |-> PayoutNow[d]]
  BY DEF DepositNow, PaidNow, PayoutNow
<1> QED
  BY <1>1, <1>2 DEF SeenElsewhere

\* Nothing that Ideal sees of channel c changes: neither do the rest.
LEMMA SeenSame ==
  ASSUME NEW c \in Channel, SeenElsewhere(c),
         DepositNow'[c] = DepositNow[c], PaidNow'[c] = PaidNow[c], PayoutNow'[c] = PayoutNow[c]
  PROVE  UNCHANGED <<DepositNow, PaidNow, PayoutNow>>
<1>1. /\ DepositNow = [d \in Channel |-> DepositNow[d]]
      /\ PaidNow = [d \in Channel |-> PaidNow[d]]
      /\ PayoutNow = [d \in Channel |-> PayoutNow[d]]
  BY DEF DepositNow, PaidNow, PayoutNow
<1>2. /\ DepositNow' = [DepositNow EXCEPT ![c] = DepositNow[c]]
      /\ PaidNow' = [PaidNow EXCEPT ![c] = PaidNow[c]]
      /\ PayoutNow' = [PayoutNow EXCEPT ![c] = PayoutNow[c]]
  BY DEF SeenElsewhere
<1>3. DepositNow' = DepositNow
  BY <1>1, <1>2
<1>4. PaidNow' = PaidNow
  BY <1>1, <1>2
<1>5. PayoutNow' = PayoutNow
  BY <1>1, <1>2
<1> QED
  BY <1>3, <1>4, <1>5

LEMMA ChannelStep ==
  SerialChannel /\ SerialChannel' /\ JobsKept /\ Kept /\ [Next]_vars => [Ideal!Next]_(Ideal!vars)
<1> SUFFICES ASSUME SerialChannel, SerialChannel', JobsKept, Kept, [Next]_vars
             PROVE  [Ideal!Next]_(Ideal!vars)
  OBVIOUS
<1>parts. Typed /\ Within /\ Typed' /\ Within' /\ (\A c \in Channel : Serial(c))
  BY DEF SerialChannel, SerialInv
<1>names. /\ Committing = {"signing", "appended"}
          /\ Closing = {"listing", "marking", "settling", "settled"}
          /\ Live = {"opening", "signing", "appended", "listing", "marking", "settling", "settled"}
  BY DEF Live, Committing, Closing
<1>stutter. UNCHANGED <<DepositNow, PaidNow, PayoutNow>> => UNCHANGED Ideal!vars
  BY DEF Ideal!vars, DepositNow, PaidNow, PayoutNow
<1>at. ASSUME NEW x \in Call, pc[x] \in Live
       PROVE  /\ ChannelOf(x) \in Channel /\ At(x, ChannelOf(x)) /\ JobAt(x, ChannelOf(x))
              /\ pc[x] # "opening" => channels[ChannelOf(x)] # NoRecord
              /\ ~Has(ChannelOf(x), "closed")
  <2>1. ChannelOf(x) \in Channel /\ At(x, ChannelOf(x))
    BY <1>parts, <1>at DEF Typed, TypeOK, At
  <2>2. pc[x] # "opening" => channels[ChannelOf(x)] # NoRecord
    BY <1>parts, <1>names, <1>at DEF Typed, TypeOK
  <2> QED
    BY <1>parts, <2>1, <2>2 DEF Serial, Final
<1>record. \A c \in Channel : channels[c] # NoRecord =>
             channels[c].deposit \in Int /\ channels[c].deposit > 0 /\ channels[c].committed \in Int
  <2>1. \A c \in Channel : channels[c] # NoRecord => channels[c] \in Record /\ channels[c].deposit > 0
    BY <1>parts DEF Typed, TypeOK
  <2> QED
    BY <2>1 DEF Record
<1>status. ASSUME NEW x \in Call, pc[x] \in Closing, NEW status \in ChannelStatus,
                  SetStatus(ChannelOf(x), status), UNCHANGED onChain
           PROVE  LET c == ChannelOf(x)
                  IN  /\ SeenElsewhere(c)
                      /\ DepositNow'[c] = DepositNow[c] /\ PaidNow'[c] = PaidNow[c]
                      /\ PayoutNow[c] = NoPayout
                      /\ PayoutNow'[c] = IF status = "closed" THEN onChain[c] ELSE NoPayout
  <2>1. PICK c \in Channel : c = ChannelOf(x) /\ channels[c] # NoRecord /\ ~Has(c, "closed")
    BY <1>at, <1>names, <1>status
  <2>2. /\ channels'[c] # NoRecord /\ SameNumbers(channels'[c], channels[c])
    BY <1>parts, <1>status, <2>1, StatusStep DEF Typed
  <2>3. channels[c] \in Record /\ channels'[c] = [channels[c] EXCEPT !.status = status]
    BY <1>parts, <1>status, <2>1 DEF Typed, TypeOK, SetStatus
  <2>4. channels'[c].status = status
    BY <2>3 DEF Record
  <2>5. \A d \in Channel \ {c} : channels'[d] = channels[d] /\ onChain'[d] = onChain[d]
    BY <1>parts, <1>status, <2>1 DEF SetStatus, Typed, TypeOK
  <2>6. SeenElsewhere(c)
    BY <2>5, SeenAt
  <2>7. DepositNow'[c] = DepositNow[c] /\ PaidNow'[c] = PaidNow[c]
    BY <2>1, <2>2, SeenBy DEF SameNumbers
  <2>8. PayoutNow[c] = NoPayout /\ PayoutNow'[c] = IF status = "closed" THEN onChain[c] ELSE NoPayout
    BY <1>status, <2>1, <2>2, <2>4, SeenBy DEF Has
  <2> QED
    BY <2>1, <2>6, <2>7, <2>8
<1>1. CASE UNCHANGED <<channels, onChain>>
  <2>1. UNCHANGED <<DepositNow, PaidNow, PayoutNow>>
    BY <1>1 DEF DepositNow, PaidNow, PayoutNow, Has
  <2> QED
    BY <1>stutter, <2>1
<1>2. ASSUME NEW x \in Call, OpenReturns(x) PROVE [Ideal!Next]_(Ideal!vars)
  <2>1. pc[x] = "opening" /\ UNCHANGED onChain
    BY <1>2 DEF OpenReturns
  <2>2. job[x].amount > 0
    BY <1>parts, <2>1 DEF Typed, OpeningIsNew
  <2>3. PICK c \in Channel : c = ChannelOf(x) /\ channels[c] = NoRecord
    BY <1>at, <1>names, <2>1 DEF JobAt
  <2>4. /\ channels'[c] # NoRecord /\ RecordOK(channels'[c]) /\ channels'[c].committed = 0
        /\ \A d \in Channel \ {c} : channels'[d] = channels[d]
    BY <1>2, <1>parts, <2>2, <2>3, OpenedStep DEF Typed
  <2>5. channels'[c].status = "open"
    BY <1>2, <1>parts, <2>3 DEF OpenReturns, Typed, TypeOK
  <2>6. SeenElsewhere(c)
    BY <2>1, <2>4, SeenAt
  <2>7. DepositNow[c] = 0 /\ DepositNow'[c] > 0
    BY <2>3, <2>4, SeenBy DEF RecordOK
  <2>8. PaidNow'[c] = PaidNow[c] /\ PayoutNow'[c] = PayoutNow[c]
    BY <2>3, <2>4, <2>5, SeenBy DEF Has
  <2>9. DepositNow' = [DepositNow EXCEPT ![c] = DepositNow'[c]]
    BY <2>6 DEF SeenElsewhere
  <2>10. UNCHANGED <<PaidNow, PayoutNow>>
    <3>1. PaidNow' = [PaidNow EXCEPT ![c] = PaidNow[c]] /\ PayoutNow' = [PayoutNow EXCEPT ![c] = PayoutNow[c]]
      BY <2>6, <2>8 DEF SeenElsewhere
    <3>2. PaidNow = [d \in Channel |-> PaidNow[d]] /\ PayoutNow = [d \in Channel |-> PayoutNow[d]]
      BY DEF PaidNow, PayoutNow
    <3>3. PaidNow' = PaidNow
      BY <3>1, <3>2
    <3>4. PayoutNow' = PayoutNow
      BY <3>1, <3>2
    <3> QED
      BY <3>3, <3>4
  <2>11. Ideal!Open(c)
    BY <2>7, <2>9, <2>10 DEF Ideal!Open, DepositNow, PaidNow, PayoutNow
  <2> QED
    BY <2>11 DEF Ideal!Next
<1>3. ASSUME NEW x \in Call, CommitRecorded(x) PROVE [Ideal!Next]_(Ideal!vars)
  <2>1. pc[x] = "appended" /\ UNCHANGED onChain
    BY <1>3 DEF CommitRecorded
  <2>2. PICK c \in Channel :
          /\ c = ChannelOf(x) /\ channels[c] # NoRecord /\ ~Has(c, "closed")
          /\ job[x].amount > 0 /\ job[x].cumulative = Charged(c)
          /\ channels[c].committed = Charged(c) - job[x].amount
    BY <1>at, <1>names, <2>1 DEF JobAt
  <2>3. /\ channels'[c] # NoRecord /\ channels'[c].deposit = channels[c].deposit
        /\ channels'[c].committed = job[x].cumulative
        /\ \A d \in Channel \ {c} : channels'[d] = channels[d]
    BY <1>3, <1>parts, <2>2, RecordedStep DEF Typed
  <2>4. channels'[c].status = channels[c].status
    <3>1. channels[c] \in Record
      BY <1>parts, <2>2 DEF Typed, TypeOK
    <3>2. channels'[c] = [channels[c] EXCEPT !.committed = job[x].cumulative, !.sequence = job[x].sequence]
      BY <1>3, <1>parts, <2>2 DEF CommitRecorded, Typed, TypeOK
    <3> QED
      BY <3>1, <3>2 DEF Record
  <2>5. job[x].cumulative \in 1 .. channels[c].deposit /\ job[x] \in Job
    BY <1>parts, <1>names, <2>1, <2>2 DEF Within, JobsWithin, JobWithin, Typed, TypeOK
  <2>6. job[x].amount \in Int
    BY <2>5 DEF Job
  <2>7. SeenElsewhere(c)
    BY <2>1, <2>3, SeenAt
  <2>8. PayoutNow[c] = NoPayout /\ PayoutNow'[c] = NoPayout /\ DepositNow'[c] = DepositNow[c]
    BY <2>2, <2>3, <2>4, SeenBy DEF Has
  <2>9. PaidNow'[c] \in (PaidNow[c] + 1) .. DepositNow[c]
    <3>1. PaidNow'[c] = job[x].cumulative /\ PaidNow[c] = job[x].cumulative - job[x].amount
      BY <2>2, <2>3, SeenBy
    <3>2. DepositNow[c] = channels[c].deposit /\ channels[c].deposit \in Int
      BY <1>record, <2>2, SeenBy
    <3> QED
      BY <2>2, <2>5, <2>6, <3>1, <3>2
  <2>10. PaidNow' = [PaidNow EXCEPT ![c] = PaidNow'[c]]
    BY <2>7 DEF SeenElsewhere
  <2>11. UNCHANGED <<DepositNow, PayoutNow>>
    <3>1. DepositNow' = [DepositNow EXCEPT ![c] = DepositNow[c]] /\ PayoutNow' = [PayoutNow EXCEPT ![c] = PayoutNow[c]]
      BY <2>7, <2>8 DEF SeenElsewhere
    <3>2. DepositNow = [d \in Channel |-> DepositNow[d]] /\ PayoutNow = [d \in Channel |-> PayoutNow[d]]
      BY DEF DepositNow, PayoutNow
    <3>3. DepositNow' = DepositNow
      BY <3>1, <3>2
    <3>4. PayoutNow' = PayoutNow
      BY <3>1, <3>2
    <3> QED
      BY <3>3, <3>4
  <2>12. Ideal!Pay(c)
    BY <2>8, <2>9, <2>10, <2>11 DEF Ideal!Pay, DepositNow, PaidNow, PayoutNow
  <2> QED
    BY <2>12 DEF Ideal!Next
<1>4. ASSUME NEW x \in Call, CloseMarks(x) \/ CloseFails(x) PROVE [Ideal!Next]_(Ideal!vars)
  <2>1. /\ pc[x] \in Closing /\ UNCHANGED onChain
        /\ \E status \in ChannelStatus \ {"closed"} : SetStatus(ChannelOf(x), status)
    BY <1>4, <1>names DEF CloseMarks, CloseFails, AdapterThrows, ChannelStatus
  <2>2. PICK status \in ChannelStatus : status # "closed" /\ SetStatus(ChannelOf(x), status)
    BY <2>1
  <2>3. PICK c \in Channel : c = ChannelOf(x)
    BY <1>at, <1>names, <2>1
  <2>4. /\ SeenElsewhere(c)
        /\ DepositNow'[c] = DepositNow[c] /\ PaidNow'[c] = PaidNow[c] /\ PayoutNow'[c] = PayoutNow[c]
    BY <1>status, <2>1, <2>2, <2>3
  <2> QED
    BY <1>stutter, <2>4, SeenSame
<1>5. ASSUME NEW x \in Call, CloseReturns(x) PROVE [Ideal!Next]_(Ideal!vars)
  <2>1. pc[x] = "settled" /\ UNCHANGED onChain
    BY <1>5 DEF CloseReturns
  <2>2. PICK c \in Channel :
          /\ c = ChannelOf(x) /\ At(x, c) /\ channels[c] # NoRecord /\ job[x].cumulative = Charged(c)
    BY <1>at, <1>names, <2>1 DEF JobAt
  <2>3. Shown(c)
    <3>1. \A y \in Call : At(y, c) => y = x
      BY <1>parts, <2>2 DEF Serial
    <3> QED
      BY <1>parts, <2>1, <2>2, <3>1 DEF Serial
  <2>4. PICK status \in ChannelStatus :
          SetStatus(c, status) /\ (status = "closed" => onChain[c] = job[x].cumulative)
    BY <1>5, <2>2 DEF CloseReturns, ChannelStatus
  <2>5. /\ SeenElsewhere(c)
        /\ DepositNow'[c] = DepositNow[c] /\ PaidNow'[c] = PaidNow[c] /\ PayoutNow[c] = NoPayout
        /\ PayoutNow'[c] = IF status = "closed" THEN onChain[c] ELSE NoPayout
    BY <1>status, <1>names, <2>1, <2>2, <2>4
  <2>6. CASE status # "closed"
    BY <1>stutter, <2>5, <2>6, SeenSame
  <2>7. CASE status = "closed"
    <3>1. PayoutNow'[c] = PaidNow[c] /\ DepositNow[c] > 0
      BY <1>record, <2>2, <2>3, <2>4, <2>5, <2>7, SeenBy DEF Shown
    <3>2. PayoutNow' = [PayoutNow EXCEPT ![c] = PaidNow[c]]
      BY <2>5, <3>1 DEF SeenElsewhere
    <3>3. UNCHANGED <<DepositNow, PaidNow>>
      <4>1. DepositNow' = [DepositNow EXCEPT ![c] = DepositNow[c]] /\ PaidNow' = [PaidNow EXCEPT ![c] = PaidNow[c]]
        BY <2>5 DEF SeenElsewhere
      <4>2. DepositNow = [d \in Channel |-> DepositNow[d]] /\ PaidNow = [d \in Channel |-> PaidNow[d]]
        BY DEF DepositNow, PaidNow
      <4>3. DepositNow' = DepositNow
        BY <4>1, <4>2
      <4>4. PaidNow' = PaidNow
        BY <4>1, <4>2
      <4> QED
        BY <4>3, <4>4
    <3>4. Ideal!Close(c)
      BY <2>5, <3>1, <3>2, <3>3 DEF Ideal!Close, DepositNow, PaidNow, PayoutNow
    <3> QED
      BY <3>4 DEF Ideal!Next
  <2> QED
    BY <2>6, <2>7
<1>6. ASSUME NEW x \in Call, ContractSettles(x) PROVE [Ideal!Next]_(Ideal!vars)
  <2>1. pc[x] = "settling" /\ UNCHANGED channels
    BY <1>6 DEF ContractSettles
  <2>2. PICK c \in Channel : c = ChannelOf(x) /\ ~Has(c, "closed")
    BY <1>at, <1>names, <2>1
  <2>3. \A d \in Channel \ {c} : onChain'[d] = onChain[d]
    BY <1>6, <1>parts, <2>2 DEF ContractSettles, Typed, TypeOK
  <2>4. SeenElsewhere(c)
    BY <2>1, <2>3, SeenAt
  <2>5. DepositNow'[c] = DepositNow[c] /\ PaidNow'[c] = PaidNow[c] /\ PayoutNow'[c] = PayoutNow[c]
    BY <2>1, <2>2, SeenBy DEF Has
  <2> QED
    BY <1>stutter, <2>4, <2>5, SeenSame
<1>7. UNCHANGED <<channels, onChain>> \/ \E x \in Call :
        \/ OpenReturns(x) \/ CommitRecorded(x) \/ CloseMarks(x) \/ CloseFails(x)
        \/ CloseReturns(x) \/ ContractSettles(x)
  BY DEF Next, AllReturned, vars, Resume, Open, Commit, Close, OpenFails, SignFails, SignReturns, CloseLists
<1> QED
  BY <1>1, <1>2, <1>3, <1>4, <1>5, <1>6, <1>7

\* When the calls on a channel do not overlap, the manager's record keeps the
\* promises of PaymentChannel: the total only grows and stays within the
\* deposit, closing pays out that total, and a closed channel stays closed.
THEOREM ChannelImplemented == ASSUME NoOverlap PROVE Spec => ImplementsChannel
<1>1. Init => Ideal!Init
  BY DEF Init, Ideal!Init, Has
<1>2. SerialChannel /\ SerialChannel' /\ [Next]_vars => [Ideal!Next]_(Ideal!vars)
  <2>1. SerialChannel /\ [Next]_vars => JobsKept /\ Kept
    BY StepKnown DEF SerialChannel
  <2> QED
    BY <2>1, ChannelStep
<1>3. Spec => []SerialChannel
  <2>1. Init => SerialChannel
    BY SerialSafe
  <2>2. SerialChannel /\ [Next]_vars => SerialChannel'
    BY SerialSafe
  <2> QED
    BY <2>1, <2>2, PTL DEF Spec
<1> QED
  BY <1>1, <1>2, <1>3, PTL DEF Spec, ImplementsChannel, Ideal!Spec

(***************************************************************************)
(* What was acknowledged.  A call of commit answers "committed" just when  *)
(* its commitment is in the stream and the record shows it.                *)
(***************************************************************************)

Signs(x, c) == \E i \in DOMAIN stream[c] : stream[c][i].by = x

Acked ==
  /\ \A x \in Call : pc[x] = "appended" \/ out[x] = "committed" =>
       ChannelOf(x) \in Channel /\ Signs(x, ChannelOf(x))
  /\ \A x \in Call : out[x] = "committed" => pc[x] = "done"
  /\ \A c \in Channel, x \in Call : Signs(x, c) /\ pc[x] = "done" => out[x] = "committed"

\* A call gets its result when it ends, once; "committed" is that of a commit
\* whose commitment is stored.
OutsKept ==
  \A x \in Call :
    /\ pc[x] = "done" => pc'[x] = "done" /\ out'[x] = out[x]
    /\ out'[x] = "committed" /\ out[x] # "committed" => pc[x] = "appended" /\ pc'[x] = "done"
    /\ pc[x] = "appended" /\ pc'[x] = "done" => out'[x] = "committed"
    /\ pc'[x] = "appended" /\ pc[x] # "appended" => SignReturns(x)

LEMMA StepOuts == Typed /\ [Next]_vars => OutsKept
<1> SUFFICES ASSUME Typed, [Next]_vars PROVE OutsKept
  OBVIOUS
<1>names. /\ Committing = {"signing", "appended"}
          /\ Closing = {"listing", "marking", "settling", "settled"}
          /\ Live = {"opening", "signing", "appended", "listing", "marking", "settling", "settled"}
  BY DEF Live, Committing, Closing
<1>1. CASE UNCHANGED vars
  BY <1>1 DEF vars, OutsKept
<1>2. ASSUME NEW x \in Call, Open(x) \/ Commit(x) \/ Close(x) \/ Resume(x) PROVE OutsKept
  <2>1. Only(x)
    BY <1>2, OnlyMoves
  <2>2. \A to : Go(x, to) => pc'[x] = to
    BY DEF Go, Typed, TypeOK
  <2>3. \A result : Finish(x, result) =>
          /\ pc'[x] = "done" /\ out'[x] = result
          /\ \A y \in Call \ {x} : out'[y] = out[y]
    BY <2>2 DEF Finish, Typed, TypeOK
  <2>4. pc[x] # "done"
    BY <1>2 DEF Open, Commit, Close, Resume, OpenReturns, OpenFails, SignReturns, SignFails, CommitRecorded,
                CloseLists, CloseMarks, ContractSettles, CloseFails, CloseReturns, AdapterThrows
  <2>5. CASE CommitRecorded(x)
    <3>1. pc[x] = "appended" /\ Finish(x, "committed")
      BY <2>5 DEF CommitRecorded
    <3> QED
      BY <2>1, <2>3, <2>4, <3>1 DEF OutsKept, Only
  <2>6. CASE SignReturns(x)
    <3>1. pc[x] = "signing" /\ Go(x, "appended") /\ UNCHANGED out
      BY <2>6 DEF SignReturns
    <3> QED
      BY <2>1, <2>2, <2>4, <2>6, <3>1 DEF OutsKept, Only
  <2>7. CASE ~CommitRecorded(x) /\ ~SignReturns(x)
    <3>1. pc[x] # "appended"
      BY <1>2, <2>7 DEF Open, Commit, Close, Resume, OpenReturns, OpenFails, SignFails,
         CloseLists, CloseMarks, ContractSettles, CloseFails, CloseReturns, AdapterThrows
    <3>2. \/ \E result \in Results \ {"committed"} : Finish(x, result)
          \/ UNCHANGED out /\ \E to \in Live \ {"appended"} : Go(x, to)
      BY <1>2, <1>names, <2>7 DEF Open, Commit, Close, Resume, OpenReturns, OpenFails, SignFails,
         CloseLists, CloseMarks, ContractSettles, CloseFails, CloseReturns, AdapterThrows, Results
    <3>3. \/ /\ pc'[x] = "done" /\ out'[x] # "committed" /\ \A y \in Call \ {x} : out'[y] = out[y]
          \/ UNCHANGED out /\ pc'[x] # "appended"
      BY <2>2, <2>3, <3>2
    <3> QED
      BY <2>1, <2>4, <3>1, <3>3 DEF OutsKept, Only
  <2> QED
    BY <2>5, <2>6, <2>7
<1> QED
  BY <1>1, <1>2 DEF Next, AllReturned

LEMMA StepAcked ==
  ASSUME Typed, SignersKnown, Acked, JobsKept, Grown, AppendsOne, OutsKept
  PROVE  Acked'
<1>1. \A x \in Call, c \in Channel : Signs(x, c) => Signs(x, c)'
  BY DEF Signs, Grown
<1>2. \A x \in Call : pc[x] \in {"appended", "done"} => ChannelOf(x)' = ChannelOf(x)
  BY DEF JobsKept, ChannelOf, Committing
<1>3. \A x \in Call, c \in Channel : Signs(x, c)' /\ ~Signs(x, c) => pc'[x] = "appended"
  <2>1. CASE UNCHANGED stream
    BY <2>1 DEF Signs
  <2>2. ASSUME NEW y \in Call, NEW d \in Channel, NEW new \in Commitment, new.by = y,
               pc'[y] = "appended", stream' = [stream EXCEPT ![d] = Append(stream[d], new)],
               NEW x \in Call, NEW c \in Channel, Signs(x, c)', ~Signs(x, c)
        PROVE  pc'[x] = "appended"
    <3>1. stream[d] \in Seq(Commitment) /\ stream'[d] = Append(stream[d], new)
      BY <2>2 DEF Typed, TypeOK
    <3>2. c # d => stream'[c] = stream[c]
      BY <2>2 DEF Typed, TypeOK
    <3>3. \A i \in DOMAIN stream'[d] :
            (i \in DOMAIN stream[d] /\ stream'[d][i] = stream[d][i]) \/ stream'[d][i] = new
      BY <3>1
    <3> QED
      BY <2>2, <3>2, <3>3 DEF Signs
  <2> QED
    BY <2>1, <2>2 DEF AppendsOne
<1>4. ASSUME NEW x \in Call, pc'[x] = "appended" \/ out'[x] = "committed"
      PROVE  \E c \in Channel : ChannelOf(x)' = c /\ Signs(x, c)'
  <2>1. CASE SignReturns(x)
    <3> DEFINE own == [by |-> x, sequence |-> job[x].sequence, cumulative |-> job[x].cumulative]
    <3>1. /\ ChannelOf(x) \in Channel /\ own \in Commitment
          /\ stream' = [stream EXCEPT ![ChannelOf(x)] = Append(stream[ChannelOf(x)], own)]
      BY <2>1, SignedStep
    <3>2. own.by = x
      OBVIOUS
    <3> HIDE DEF own
    <3>3. PICK c \in Channel : c = ChannelOf(x)
      BY <3>1
    <3>4. stream[c] \in Seq(Commitment) /\ stream'[c] = Append(stream[c], own)
      BY <3>1, <3>3 DEF Typed, TypeOK
    <3>5. Len(stream[c]) + 1 \in DOMAIN stream'[c] /\ stream'[c][Len(stream[c]) + 1] = own
      BY <3>4
    <3>6. job' = job
      BY <2>1 DEF SignReturns
    <3>7. ChannelOf(x)' = c /\ Signs(x, c)'
      BY <3>2, <3>3, <3>5, <3>6 DEF Signs, ChannelOf
    <3> QED
      BY <3>7
  <2>2. CASE pc[x] = "appended" \/ out[x] = "committed"
    <3>1. PICK c \in Channel : c = ChannelOf(x) /\ Signs(x, c) /\ pc[x] \in {"appended", "done"}
      BY <2>2 DEF Acked
    <3>2. ChannelOf(x)' = c /\ Signs(x, c)'
      BY <1>1, <1>2, <3>1
    <3> QED
      BY <3>2
  <2> QED
    BY <1>4, <2>1, <2>2 DEF OutsKept
<1>5. \A x \in Call : out'[x] = "committed" => pc'[x] = "done"
  BY DEF OutsKept, Acked
<1>6. ASSUME NEW c \in Channel, NEW x \in Call, Signs(x, c)', pc'[x] = "done"
      PROVE  out'[x] = "committed"
  <2>1. Signs(x, c)
    BY <1>3, <1>6
  <2>2. pc[x] \in {"appended", "done"}
    BY <2>1 DEF Signs, SignersKnown, IsSigner
  <2> QED
    BY <1>6, <2>1, <2>2 DEF OutsKept, Acked
<1>7. \A x \in Call : pc'[x] = "appended" \/ out'[x] = "committed" =>
        ChannelOf(x)' \in Channel /\ Signs(x, ChannelOf(x))'
  <2> SUFFICES ASSUME NEW x \in Call, pc'[x] = "appended" \/ out'[x] = "committed"
               PROVE  ChannelOf(x)' \in Channel /\ Signs(x, ChannelOf(x))'
    OBVIOUS
  <2>1. PICK c \in Channel : ChannelOf(x)' = c /\ Signs(x, c)'
    BY <1>4
  <2> QED
    BY <2>1 DEF Signs
<1> QED
  BY <1>5, <1>6, <1>7 DEF Acked

LEMMA InitAcked == Init => Acked
<1> SUFFICES ASSUME Init PROVE Acked
  OBVIOUS
<1>1. \A c \in Channel : DOMAIN stream[c] = {}
  BY DEF Init
<1> QED
  BY <1>1 DEF Init, Acked, Signs

\* With no call at work, what a channel acknowledged is what was signed.
LEMMA QuietAcknowledged ==
  ASSUME Typed, SignersKnown, Acked, NEW c \in Channel, Quiet(c)
  PROVE  Acknowledged(c) = Charged(c)
<1>1. stream[c] \in Seq(Commitment)
  BY DEF Typed, TypeOK
<1>2. DOMAIN stream[c] = 1 .. Len(stream[c])
  BY <1>1
<1>3. \A x : x \in SignedBy(c, Len(stream[c])) <=> Signs(x, c)
  BY <1>2 DEF SignedBy, Signs
<1>4. \A x : Signs(x, c) => x \in Call /\ pc[x] \in {"appended", "done"} /\ ChannelOf(x) = c
  BY DEF Signs, SignersKnown, IsSigner
<1>5. \A x \in Call : ChannelOf(x) = c => pc[x] # "appended"
  BY DEF Quiet, Live, Committing
<1>6. {x \in Call : out[x] = "committed" /\ ChannelOf(x) = c} = SignedBy(c, Len(stream[c]))
  BY <1>3, <1>4, <1>5 DEF Acked
<1> QED
  BY <1>6 DEF Acknowledged, AcknowledgedOn, Charged

(***************************************************************************)
(* A close without overlap reconciles.                                     *)
(***************************************************************************)

\* The total that reconciliation compares is the one close settles.
LEMMA LastIsLatest == \A s : LastCumulative(s) = s[Latest(s)].cumulative
BY DEF LastCumulative, Latest

LEMMA DriftCases ==
  ASSUME NEW s, NEW settled, NEW remainder, NEW kind
  PROVE  kind \in StreamDrift(s, settled, remainder) <=>
           \/ kind = "sequence-gap" /\ SequenceGap(s)
           \/ kind = "malformed-record" /\ LastCumulative(s) < 0
           \/ kind = "under-settled" /\ settled < LastCumulative(s)
           \/ kind = "over-settled" /\ settled > LastCumulative(s) /\ LastCumulative(s) >= 0
           \/ kind = "unexpected-remainder" /\ settled + remainder = 0 /\ LastCumulative(s) > 0
BY DEF StreamDrift, DriftKind

LEMMA InOrderNoGap ==
  ASSUME Typed, NEW c \in Channel, Ascending(c)
  PROVE  ~SequenceGap(stream[c])
<1>1. PICK s : s = stream[c]
  OBVIOUS
<1>2. s \in Seq(Commitment)
  BY <1>1 DEF Typed, TypeOK
<1>3. Len(s) \in Nat /\ DOMAIN s = 1 .. Len(s)
  BY <1>2
<1>4. \A i \in 1 .. Len(s) : s[i].sequence = i - 1
  BY <1>1, <1>3 DEF Ascending
<1>5. Numbers(s) = 0 .. (Len(s) - 1)
  <2>1. ASSUME NEW n \in 0 .. (Len(s) - 1) PROVE n \in Numbers(s)
    <3>1. n + 1 \in 1 .. Len(s) /\ s[n + 1].sequence = n
      BY <1>3, <1>4, <2>1
    <3> QED
      BY <1>3, <3>1 DEF Numbers
  <2>2. ASSUME NEW n \in Numbers(s) PROVE n \in 0 .. (Len(s) - 1)
    <3>1. PICK i \in 1 .. Len(s) : n = s[i].sequence
      BY <1>3, <2>2 DEF Numbers
    <3> QED
      BY <1>3, <1>4, <3>1
  <2> QED
    BY <2>1, <2>2
<1> QED
  BY <1>1, <1>5 DEF SequenceGap

LEMMA FinalReconciles ==
  ASSUME SerialChannel, Acked, NEW c \in Channel, Has(c, "closed")
  PROVE  onChain[c] = Acknowledged(c) /\ DriftOf(c) = {}
<1>1. Typed /\ SignersKnown /\ Serial(c) /\ CommitmentsWithinDeposit
  BY DEF SerialChannel, Signed, SerialInv, Within
<1>2. onChain[c] = Charged(c) /\ Quiet(c) /\ Ascending(c)
  BY <1>1 DEF Serial, Final, Quiet, At
<1>3. Acknowledged(c) = Charged(c)
  BY <1>1, <1>2, QuietAcknowledged
<1>4. Charged(c) \in Nat
  BY <1>1, ChargedIsNat
<1>5. /\ channels[c] # NoRecord /\ channels[c] \in Record /\ channels[c].deposit > 0
      /\ onChain[c] \in 0 .. channels[c].deposit
  BY <1>1, <1>2, <1>4, NothingAssumption DEF Typed, TypeOK, CommitmentsWithinDeposit, Has
<1>6. PICK settled, remainder :
        settled = onChain[c] /\ remainder = channels[c].deposit - onChain[c]
  OBVIOUS
<1>7. channels[c].deposit \in Int
  BY <1>5 DEF Record
<1>8. settled \in Nat /\ remainder \in Nat /\ settled + remainder > 0
  BY <1>2, <1>4, <1>5, <1>6, <1>7
<1>9. PICK s : s = stream[c]
  OBVIOUS
<1>10. ~SequenceGap(s)
  BY <1>1, <1>2, <1>9, InOrderNoGap
<1>11. (IF s = <<>> THEN 0 ELSE LastCumulative(s)) = settled
  <2>1. (IF s = <<>> THEN 0 ELSE s[Latest(s)].cumulative) = settled
    BY <1>1, <1>2, <1>6, <1>9, LatestTotal
  <2> QED
    BY <2>1, LastIsLatest
<1>12. s # <<>> => StreamDrift(s, settled, remainder) = {}
  <2> SUFFICES ASSUME s # <<>> PROVE \A kind : kind \notin StreamDrift(s, settled, remainder)
    OBVIOUS
  <2>1. LastCumulative(s) = settled
    BY <1>11
  <2>2. TAKE kind
  <2>3. kind \in StreamDrift(s, settled, remainder) <=>
          \/ kind = "sequence-gap" /\ SequenceGap(s)
          \/ kind = "malformed-record" /\ settled < 0
          \/ kind = "under-settled" /\ settled < settled
          \/ kind = "over-settled" /\ settled > settled /\ settled >= 0
          \/ kind = "unexpected-remainder" /\ settled + remainder = 0 /\ settled > 0
    BY <2>1, DriftCases
  <2> QED
    BY <1>8, <1>10, <2>3
<1>13. Drift(s, settled, remainder) = {}
  <2>1. s = <<>> => settled = 0
    BY <1>11
  <2> QED
    BY <1>8, <1>12, <2>1 DEF Drift
<1> QED
  BY <1>2, <1>3, <1>6, <1>9, <1>13 DEF DriftOf

\* When the calls on a channel do not overlap, whatever the adapter did on the
\* way, a closed channel has paid what its commits acknowledged, and
\* reconciling it raises no alarm.
THEOREM ClosesReconcile == ASSUME NoOverlap PROVE Spec => []CloseReconciles
<1>1. Init => SerialChannel /\ Acked
  BY SerialSafe, InitAcked
<1>2. SerialChannel /\ Acked /\ [Next]_vars => SerialChannel' /\ Acked'
  <2> SUFFICES ASSUME SerialChannel, Acked, [Next]_vars PROVE SerialChannel' /\ Acked'
    OBVIOUS
  <2>1. SerialChannel'
    BY SerialSafe
  <2>2. Typed /\ SignersKnown /\ JobsKept /\ Grown /\ AppendsOne /\ OutsKept
    BY StepKnown, StepOuts DEF SerialChannel, Signed
  <2>3. Acked'
    BY <2>2, StepAcked
  <2> QED
    BY <2>1, <2>3
<1>3. SerialChannel /\ Acked => CloseReconciles
  BY FinalReconciles DEF CloseReconciles
<1> QED
  BY <1>1, <1>2, <1>3, PTL DEF Spec

(***************************************************************************)
(* A close that reconciles, whether calls overlap or not.  Each commit     *)
(* adds its amount to the total of one numbered just before: with every    *)
(* number there once, the last total is the sum of all amounts signed.     *)
(***************************************************************************)

\* The total a commit numbered so starts from: nothing, or that of a
\* commitment stored.
Follows(c, number, before) ==
  IF number = 0 THEN before = 0
  ELSE \E j \in DOMAIN stream[c] :
         stream[c][j].sequence = number - 1 /\ stream[c][j].cumulative = before

NewRecords == \A c \in Channel : channels[c] # NoRecord /\ channels[c].sequence = -1 => channels[c].committed = 0

JobFollows(x) ==
  pc[x] = "signing" =>
    Follows(ChannelOf(x), job[x].sequence, job[x].cumulative - job[x].amount)

StreamFollows(c) ==
  \A i \in DOMAIN stream[c] :
    Follows(c, stream[c][i].sequence, stream[c][i].cumulative - job[stream[c][i].by].amount)

Chained ==
  /\ NewRecords
  /\ \A x \in Call : JobFollows(x)
  /\ \A c \in Channel : StreamFollows(c)

\* A close answers, and a channel is closed, after the contract paid out.
PaidOut ==
  /\ \A x \in Call : pc[x] = "settled" => onChain[ChannelOf(x)] # NoPayout
  /\ \A c \in Channel : Has(c, "closed") => onChain[c] # NoPayout

LEMMA InitChained == Init => Chained /\ PaidOut
BY DEF Init, Chained, NewRecords, JobFollows, StreamFollows, PaidOut, Has

LEMMA FollowsStays ==
  ASSUME Grown, NEW c \in Channel, NEW number, NEW before, Follows(c, number, before)
  PROVE  Follows(c, number, before)'
BY DEF Follows, Grown

LEMMA StepNewRecords ==
  ASSUME Typed, NewRecords, [Next]_vars
  PROVE  NewRecords'
<1>names. /\ Committing = {"signing", "appended"}
          /\ Closing = {"listing", "marking", "settling", "settled"}
          /\ Live = {"opening", "signing", "appended", "listing", "marking", "settling", "settled"}
  BY DEF Live, Committing, Closing
<1>1. CASE UNCHANGED channels
  BY <1>1 DEF NewRecords
<1>2. ASSUME NEW x \in Call, OpenReturns(x) PROVE NewRecords'
  <2>1. job[x].amount > 0
    BY <1>2 DEF Typed, OpeningIsNew, OpenReturns
  <2> QED
    BY <1>2, <2>1, OpenedStep DEF Typed, NewRecords
<1>3. ASSUME NEW x \in Call, CommitRecorded(x) PROVE NewRecords'
  <2>1. PICK c \in Channel :
          /\ channels'[c].sequence = job[x].sequence
          /\ \A d \in Channel \ {c} : channels'[d] = channels[d]
    BY <1>3, RecordedStep DEF Typed
  <2>2. job[x].sequence >= 0
    BY <1>3, <1>names DEF CommitRecorded, Typed, SigningIsNext
  <2>3. job[x] \in Job
    BY DEF Typed, TypeOK
  <2>4. channels'[c].sequence # -1
    BY <2>1, <2>2, <2>3 DEF Job
  <2> QED
    BY <2>1, <2>4 DEF NewRecords
<1>4. ASSUME NEW x \in Call, CloseMarks(x) \/ CloseFails(x) \/ CloseReturns(x) PROVE NewRecords'
  <2>1. pc[x] \in Closing /\ \E status \in ChannelStatus : SetStatus(ChannelOf(x), status)
    BY <1>4, <1>names DEF CloseMarks, CloseFails, CloseReturns, AdapterThrows, ChannelStatus
  <2>2. ChannelOf(x) \in Channel /\ channels[ChannelOf(x)] # NoRecord
    BY <1>names, <2>1 DEF Typed, TypeOK
  <2>3. \A d \in Channel : channels'[d] # NoRecord =>
          channels[d] # NoRecord /\ SameNumbers(channels'[d], channels[d])
    BY <2>1, <2>2, StatusStep DEF Typed
  <2> QED
    BY <2>3 DEF NewRecords, SameNumbers
<1>5. UNCHANGED channels \/ \E x \in Call :
        OpenReturns(x) \/ CommitRecorded(x) \/ CloseMarks(x) \/ CloseFails(x) \/ CloseReturns(x)
  BY DEF Next, AllReturned, vars, Resume, Open, Commit, Close, OpenFails, SignFails, SignReturns,
         CloseLists, ContractSettles
<1> QED
  BY <1>1, <1>2, <1>3, <1>4, <1>5

LEMMA StepChained ==
  ASSUME Typed, SignersKnown, JobsKept, Grown, AppendsOne, Numbered, Chained, [Next]_vars
  PROVE  Chained'
<1>names. /\ Committing = {"signing", "appended"}
          /\ Closing = {"listing", "marking", "settling", "settled"}
          /\ Live = {"opening", "signing", "appended", "listing", "marking", "settling", "settled"}
  BY DEF Live, Committing, Closing
<1>1. NewRecords'
  BY StepNewRecords DEF Chained
<1>2. ASSUME NEW x \in Call, pc'[x] = "signing" PROVE JobFollows(x)'
  <2>1. CASE pc[x] = "signing"
    <3>0. PICK c \in Channel : c = ChannelOf(x)
      BY <1>names, <2>1 DEF Typed, TypeOK
    <3>1. PICK number, before :
            number = job[x].sequence /\ before = job[x].cumulative - job[x].amount
      OBVIOUS
    <3>2. Follows(c, number, before)'
      BY <2>1, <3>0, <3>1, FollowsStays DEF Chained, JobFollows
    <3>3. job'[x] = job[x]
      BY <1>names, <2>1 DEF JobsKept
    <3> QED
      BY <3>0, <3>1, <3>2, <3>3 DEF JobFollows, ChannelOf, Follows
  <2>2. CASE pc[x] # "signing"
    <3>1. Commit(x)
      <4>1. ASSUME NEW y \in Call, Open(y) \/ Commit(y) \/ Close(y) \/ Resume(y) PROVE y = x
        <5>1. Only(y)
          BY <4>1, OnlyMoves
        <5> QED
          BY <1>2, <2>2, <5>1 DEF Only
      <4>2. \A to : Go(x, to) => pc'[x] = to
        BY DEF Go, Typed, TypeOK
      <4>3. ~Open(x) /\ ~Close(x) /\ ~Resume(x)
        BY <1>2, <4>2 DEF Open, Close, Resume, OpenReturns, OpenFails, SignReturns, SignFails,
           CommitRecorded, CloseLists, CloseMarks, ContractSettles, CloseFails, CloseReturns, Finish
      <4>4. pc' # pc
        BY <1>2, <2>2
      <4> QED
        BY <4>1, <4>3, <4>4 DEF Next, AllReturned, vars
    <3>2. PICK c \in Channel, a \in Amounts :
            \/ Finish(x, "rejected")
            \/ /\ Accepts(c, a)
               /\ job' = [job EXCEPT ![x] =
                    [chan |-> c, amount |-> a, sequence |-> channels[c].sequence + 1,
                     cumulative |-> channels[c].committed + a]]
      BY <3>1 DEF Commit
    <3>3. ~Finish(x, "rejected")
      BY <1>2 DEF Finish, Go, Typed, TypeOK
    <3>4. a \in Int /\ channels[c] # NoRecord /\ stream' = stream
      BY <3>1, <3>2, <3>3, InputAssumption DEF Accepts, IsOpen, Has, Commit
    <3>5. channels[c] \in Record /\ channels[c].sequence >= -1
      BY <3>4 DEF Typed, TypeOK
    <3>6. channels[c].sequence \in Int /\ channels[c].committed \in Int
      BY <3>5 DEF Record
    <3>7. /\ job'[x].chan = c /\ job'[x].sequence = channels[c].sequence + 1
          /\ job'[x].cumulative - job'[x].amount = channels[c].committed
      <4>1. /\ job'[x].chan = c /\ job'[x].amount = a /\ job'[x].sequence = channels[c].sequence + 1
            /\ job'[x].cumulative = channels[c].committed + a
        BY <3>2, <3>3 DEF Typed, TypeOK
      <4> QED
        BY <3>4, <3>6, <4>1
    <3>8. Follows(c, channels[c].sequence + 1, channels[c].committed)
      <4>1. CASE channels[c].sequence = -1
        BY <3>4, <4>1 DEF Follows, Chained, NewRecords
      <4>2. CASE channels[c].sequence >= 0
        BY <3>4, <3>6, <4>2 DEF Follows, Numbered, RecordNumbered
      <4> QED
        BY <3>5, <3>6, <4>1, <4>2
    <3> QED
      BY <3>4, <3>7, <3>8 DEF JobFollows, ChannelOf, Follows
  <2> QED
    BY <2>1, <2>2
<1>3. \A x \in Call : JobFollows(x)'
  BY <1>2 DEF JobFollows
<1>4. ASSUME NEW c \in Channel, NEW i \in DOMAIN stream'[c]
      PROVE  \E number, before :
               /\ number = stream'[c][i].sequence
               /\ before = stream'[c][i].cumulative - job'[stream'[c][i].by].amount
               /\ Follows(c, number, before)'
  <2>1. CASE i \in DOMAIN stream[c]
    <3>1. PICK number, before :
            /\ number = stream[c][i].sequence
            /\ before = stream[c][i].cumulative - job[stream[c][i].by].amount
      OBVIOUS
    <3>2. Follows(c, number, before)'
      BY <2>1, <3>1, FollowsStays DEF Chained, StreamFollows
    <3>3. stream'[c][i] = stream[c][i] /\ job'[stream[c][i].by] = job[stream[c][i].by]
      BY <1>names, <2>1 DEF Grown, SignersKnown, IsSigner, JobsKept
    <3> QED
      BY <3>1, <3>2, <3>3
  <2>2. CASE i \notin DOMAIN stream[c]
    <3>1. PICK x \in Call, d \in Channel, new \in Commitment :
            /\ pc[x] = "signing" /\ UNCHANGED job /\ d = ChannelOf(x)
            /\ new.by = x /\ new.cumulative = job[x].cumulative /\ new.sequence = job[x].sequence
            /\ stream' = [stream EXCEPT ![d] = Append(stream[d], new)]
      BY <2>2 DEF AppendsOne
    <3>2. d = c /\ stream'[c] = Append(stream[c], new) /\ stream[c] \in Seq(Commitment)
      BY <2>2, <3>1 DEF Typed, TypeOK
    <3>3. i = Len(stream[c]) + 1 /\ stream'[c][i] = new
      BY <2>2, <3>2
    <3>4. PICK number, before :
            number = job[x].sequence /\ before = job[x].cumulative - job[x].amount
      OBVIOUS
    <3>5. Follows(c, number, before)
      BY <3>1, <3>2, <3>4 DEF Chained, JobFollows
    <3>6. Follows(c, number, before)'
      BY <3>5, FollowsStays
    <3> QED
      BY <3>1, <3>3, <3>4, <3>6
  <2> QED
    BY <2>1, <2>2
<1>5. ASSUME NEW c \in Channel PROVE StreamFollows(c)'
  BY <1>4 DEF StreamFollows, Follows
<1> QED
  BY <1>1, <1>3, <1>5 DEF Chained

LEMMA StepPaidOut ==
  ASSUME Typed, PaidOut, [Next]_vars
  PROVE  PaidOut'
<1>names. /\ Closing = {"listing", "marking", "settling", "settled"}
          /\ Live = {"opening", "signing", "appended", "listing", "marking", "settling", "settled"}
  BY DEF Live, Committing, Closing
<1>1. ASSUME NEW c \in Channel, onChain[c] # NoPayout PROVE onChain'[c] # NoPayout
  <2>1. UNCHANGED onChain \/ \E x \in Call : ContractSettles(x)
    BY DEF Next, AllReturned, vars, Resume, Open, Commit, Close, OpenReturns, OpenFails, SignReturns,
           SignFails, CommitRecorded, CloseLists, CloseMarks, CloseFails, CloseReturns
  <2>2. ASSUME NEW x \in Call, ContractSettles(x) PROVE onChain'[c] = onChain[c]
    <3>1. ChannelOf(x) \in Channel /\ ChannelOf(x) # c
      BY <1>1, <1>names, <2>2 DEF ContractSettles, Typed, TypeOK
    <3>2. \E v : onChain' = [onChain EXCEPT ![ChannelOf(x)] = v]
      BY <2>2 DEF ContractSettles
    <3> QED
      BY <3>1, <3>2 DEF Typed, TypeOK
  <2> QED
    BY <1>1, <2>1, <2>2
<1>2. ASSUME NEW x \in Call, ContractSettles(x) PROVE onChain'[ChannelOf(x)] # NoPayout
  <2>1. ChannelOf(x) \in Channel /\ job[x].cumulative \in Int
    BY <1>names, <1>2 DEF ContractSettles, Typed, TypeOK, Job
  <2>2. \E v \in Int : onChain' = [onChain EXCEPT ![ChannelOf(x)] = v]
    BY <1>2, <2>1 DEF ContractSettles
  <2> QED
    BY <2>1, <2>2, NothingAssumption DEF Typed, TypeOK
<1>3. ASSUME NEW x \in Call, pc'[x] = "settled" PROVE onChain'[ChannelOf(x)'] # NoPayout
  <2>1. CASE pc[x] = "settled"
    <3>1. ChannelOf(x) \in Channel /\ ChannelOf(x)' = ChannelOf(x)
      BY <1>names, <2>1, StepJobs DEF Typed, TypeOK, JobsKept, ChannelOf
    <3> QED
      BY <1>1, <2>1, <3>1 DEF PaidOut
  <2>2. CASE pc[x] # "settled"
    <3>1. ASSUME NEW y \in Call, Open(y) \/ Commit(y) \/ Close(y) \/ Resume(y) PROVE y = x
      <4>1. Only(y)
        BY <3>1, OnlyMoves
      <4> QED
        BY <1>3, <2>2, <4>1 DEF Only
    <3>2. \A to : Go(x, to) => pc'[x] = to
      BY DEF Go, Typed, TypeOK
    <3>3. ~Open(x) /\ ~Commit(x) /\ ~Close(x)
      BY <1>3, <3>2 DEF Open, Commit, Close, Finish
    <3>4. pc' # pc
      BY <1>3, <2>2
    <3>5. Resume(x)
      BY <3>1, <3>3, <3>4 DEF Next, AllReturned, vars
    <3>6. ContractSettles(x)
      BY <1>3, <3>2, <3>5 DEF Resume, OpenReturns, OpenFails, SignReturns, SignFails, CommitRecorded,
         CloseLists, CloseMarks, CloseFails, CloseReturns, Finish
    <3>7. ChannelOf(x)' = ChannelOf(x)
      BY <3>6 DEF ContractSettles, ChannelOf
    <3> QED
      BY <1>2, <3>6, <3>7
  <2> QED
    BY <2>1, <2>2
<1>4. ASSUME NEW c \in Channel, Has(c, "closed")' PROVE onChain'[c] # NoPayout
  <2>1. CASE Has(c, "closed")
    BY <1>1, <2>1 DEF PaidOut
  <2>2. CASE ~Has(c, "closed")
    <3>1. channels'[c] # channels[c] /\ channels'[c] # NoRecord /\ channels'[c].status = "closed"
      BY <1>4, <2>2 DEF Has
    <3>2. PICK x \in Call : OpenReturns(x) \/ CommitRecorded(x) \/ CloseMarks(x) \/ CloseFails(x) \/ CloseReturns(x)
      BY <3>1 DEF Next, AllReturned, vars, Resume, Open, Commit, Close, OpenFails, SignFails, SignReturns,
         CloseLists, ContractSettles
    <3>3. ChannelOf(x) = c /\ ChannelOf(x) \in Channel
      <4>1. \E record : channels' = [channels EXCEPT ![ChannelOf(x)] = record]
        BY <3>2 DEF OpenReturns, CommitRecorded, CloseMarks, CloseFails, CloseReturns, SetStatus
      <4> QED
        BY <3>1, <4>1 DEF Typed, TypeOK
    <3>4. ~OpenReturns(x)
      BY <3>1, <3>3 DEF OpenReturns, Typed, TypeOK
    <3>5. CommitRecorded(x) \/ pc[x] \in Closing => channels[c] # NoRecord /\ channels[c] \in Record
      BY <1>names, <3>3 DEF Typed, TypeOK, CommitRecorded, Committing
    <3>6. ASSUME channels[c] # NoRecord, NEW status, SetStatus(c, status) PROVE channels'[c].status = status
      BY <3>6 DEF SetStatus, Typed, TypeOK, Record
    <3>7. ~CommitRecorded(x)
      <4> SUFFICES ASSUME CommitRecorded(x) PROVE FALSE
        OBVIOUS
      <4>1. channels'[c].status = channels[c].status /\ channels[c] # NoRecord
        BY <3>3, <3>5 DEF CommitRecorded, Typed, TypeOK, Record
      <4> QED
        BY <2>2, <3>1, <4>1 DEF Has
    <3>8. CloseReturns(x)
      BY <1>names, <3>1, <3>2, <3>3, <3>4, <3>5, <3>6, <3>7 DEF CloseMarks, CloseFails, AdapterThrows
    <3>9. pc[x] = "settled"
      BY <3>8 DEF CloseReturns
    <3> QED
      BY <1>1, <3>3, <3>9 DEF PaidOut
  <2> QED
    BY <2>1, <2>2
<1> QED
  BY <1>3, <1>4 DEF PaidOut

\* Numbers 0, 1, 2... without a gap are numbers without a repeat.
LEMMA NoGapNoRepeat ==
  ASSUME NEW s \in Seq(Commitment), ~SequenceGap(s)
  PROVE  /\ \A i \in DOMAIN s : s[i].sequence \in 0 .. (Len(s) - 1)
         /\ \A n \in 0 .. (Len(s) - 1) : \E i \in DOMAIN s : s[i].sequence = n
         /\ \A i, j \in DOMAIN s : s[i].sequence = s[j].sequence => i = j
<1>1. PICK n : n = Len(s)
  OBVIOUS
<1>2. n \in Nat /\ DOMAIN s = 1 .. n
  BY <1>1
<1>3. Numbers(s) = 0 .. (n - 1)
  BY <1>1 DEF SequenceGap
<1>4. \A i \in 1 .. n : s[i].sequence \in 0 .. (n - 1)
  BY <1>2, <1>3 DEF Numbers
<1>5. \A m \in 0 .. (n - 1) : \E i \in 1 .. n : s[i].sequence = m
  BY <1>2, <1>3 DEF Numbers
<1>6. PICK number : number = [i \in 1 .. n |-> s[i].sequence]
  OBVIOUS
<1>7. number \in Surjection(1 .. n, 0 .. (n - 1))
  <2>1. number \in [1 .. n -> 0 .. (n - 1)]
    BY <1>4, <1>6
  <2>2. \A m \in 0 .. (n - 1) : \E i \in 1 .. n : number[i] = m
    BY <1>5, <1>6
  <2> QED
    BY <2>1, <2>2 DEF Surjection
<1>8. /\ IsFiniteSet(1 .. n)
      /\ Cardinality(1 .. n) = Cardinality(0 .. (n - 1))
  <2>1. Cardinality(1 .. n) = n /\ IsFiniteSet(1 .. n)
    BY <1>2, FS_Interval
  <2>2. Cardinality(0 .. (n - 1)) = n
    <3>1. n - 1 \in Int /\ 0 \in Int
      BY <1>2
    <3>2. Cardinality(0 .. (n - 1)) = IF 0 > n - 1 THEN 0 ELSE n - 1 - 0 + 1
      BY <3>1, FS_Interval
    <3> QED
      BY <1>2, <3>2
  <2> QED
    BY <2>1, <2>2
<1>9. number \in Injection(1 .. n, 0 .. (n - 1))
  BY <1>7, <1>8, FS_SurjSameCardinalityImpliesInj
<1>10. \A i, j \in 1 .. n : number[i] = number[j] => i = j
  <2>1. IsInjective(number) /\ DOMAIN number = 1 .. n
    BY <1>6, <1>9 DEF Injection
  <2> QED
    BY <2>1 DEF IsInjective
<1>11. \A i, j \in 1 .. n : s[i].sequence = s[j].sequence => i = j
  BY <1>6, <1>10
<1> QED
  BY <1>1, <1>2, <1>4, <1>5, <1>11

\* Without a gap, the last total is the sum of all amounts signed.
LEMMA LastIsSum ==
  ASSUME Typed, Signed, Chained, NEW c \in Channel, stream[c] # <<>>, ~SequenceGap(stream[c])
  PROVE  LastCumulative(stream[c]) = Charged(c)
<1>1. PICK s, n : s = stream[c] /\ n = Len(s)
  OBVIOUS
<1>2. s \in Seq(Commitment) /\ n \in Nat /\ DOMAIN s = 1 .. n /\ n > 0
  <2>1. s \in Seq(Commitment) /\ s # <<>>
    BY <1>1 DEF Typed, TypeOK
  <2> QED
    BY <1>1, <2>1
<1>3. /\ \A i \in 1 .. n : s[i].sequence \in 0 .. (n - 1)
      /\ \A m \in 0 .. (n - 1) : \E i \in 1 .. n : s[i].sequence = m
      /\ \A i, j \in 1 .. n : s[i].sequence = s[j].sequence => i = j
  <2>1. ~SequenceGap(s)
    BY <1>1
  <2>2. /\ \A i \in DOMAIN s : s[i].sequence \in 0 .. (Len(s) - 1)
        /\ \A m \in 0 .. (Len(s) - 1) : \E i \in DOMAIN s : s[i].sequence = m
        /\ \A i, j \in DOMAIN s : s[i].sequence = s[j].sequence => i = j
    BY <1>2, <2>1, NoGapNoRepeat
  <2> QED
    BY <1>1, <1>2, <2>2
<1>4. PICK by, number, total :
        /\ by = [i \in 1 .. n |-> s[i].by]
        /\ number = [i \in 1 .. n |-> s[i].sequence]
        /\ total = [i \in 1 .. n |-> s[i].cumulative]
  OBVIOUS
<1>5. /\ number \in [1 .. n -> Nat]
      /\ \A i, j \in 1 .. n : number[i] = number[j] => i = j
  BY <1>2, <1>3, <1>4
<1>6. total \in [1 .. n -> Int]
  <2>1. \A i \in 1 .. n : s[i] \in Commitment
    BY <1>2
  <2>2. \A i \in 1 .. n : s[i].cumulative \in Int
    BY <2>1 DEF Commitment
  <2> QED
    BY <1>4, <2>2
<1>7. \A i, j \in 1 .. n : by[i] = by[j] => i = j
  BY <1>1, <1>2, <1>4 DEF Signed, SignedOnce
<1>8. \A i \in 1 .. n : AmountAsked[by[i]] = job[s[i].by].amount /\ AmountAsked[by[i]] \in Int
  <2>1. \A i \in 1 .. n : by[i] \in SignedBy(c, n) /\ by[i] = s[i].by
    BY <1>1, <1>4 DEF SignedBy
  <2>2. n \in 0 .. Len(stream[c])
    BY <1>1, <1>2
  <2>3. \A x \in SignedBy(c, n) : AmountAsked[x] = job[x].amount /\ AmountAsked[x] \in Nat
    BY <2>2, SomeSigners DEF Signed
  <2> QED
    BY <2>1, <2>3
<1>9. \A i \in 1 .. n : number[i] = 0 => total[i] - AmountAsked[by[i]] = 0
  <2>1. \A i \in 1 .. n : s[i].sequence = 0 => s[i].cumulative - job[s[i].by].amount = 0
    BY <1>1, <1>2 DEF Chained, StreamFollows, Follows
  <2> QED
    BY <1>4, <1>8, <2>1
<1>10. \A i \in 1 .. n : number[i] # 0 =>
         \E j \in 1 .. n : number[j] = number[i] - 1 /\ total[j] = total[i] - AmountAsked[by[i]]
  <2>1. ASSUME NEW i \in 1 .. n, number[i] # 0
        PROVE  \E j \in 1 .. n : number[j] = number[i] - 1 /\ total[j] = total[i] - AmountAsked[by[i]]
    <3>1. s[i].sequence # 0 /\ s[i].cumulative - job[s[i].by].amount = total[i] - AmountAsked[by[i]]
      BY <1>4, <1>8, <2>1
    <3>2. PICK j \in 1 .. n :
            s[j].sequence = s[i].sequence - 1 /\ s[j].cumulative = s[i].cumulative - job[s[i].by].amount
      BY <1>1, <1>2, <2>1, <3>1 DEF Chained, StreamFollows, Follows
    <3> QED
      BY <1>4, <3>1, <3>2
  <2> QED
    BY <2>1
<1>11. PICK last : last = Latest(s)
  OBVIOUS
<1>12. last \in 1 .. n /\ IsLatest(s, last)
  <2>1. \E i \in DOMAIN s : IsLatest(s, i)
    <3>1. stream[c] # <<>>
      OBVIOUS
    <3> QED
      BY <1>1, <3>1 DEF Typed, HasLatest
  <2> QED
    BY <1>2, <1>11, <2>1 DEF Latest, IsLatest
<1>13. number[last] = n - 1
  <2>1. PICK i \in 1 .. n : s[i].sequence = n - 1
    BY <1>2, <1>3
  <2>2. s[i].sequence <= s[last].sequence
    <3>1. s[i].sequence < s[last].sequence \/ s[i].sequence = s[last].sequence
      BY <1>2, <1>12 DEF IsLatest
    <3> QED
      BY <1>2, <1>3, <1>12, <3>1
  <2>3. s[last].sequence \in 0 .. (n - 1)
    BY <1>3, <1>12
  <2> QED
    BY <1>2, <1>4, <1>12, <2>1, <2>2, <2>3
<1>14. UpTo(n, by, number, number[last]) = SignedBy(c, n)
  <2>1. \A k \in 1 .. n : number[k] \in 0 .. (n - 1)
    BY <1>3, <1>4
  <2>2. \A k \in 1 .. n : number[k] <= number[last]
    BY <1>2, <1>13, <2>1
  <2>3. {k \in 1 .. n : number[k] <= number[last]} = 1 .. n
    BY <2>2
  <2>4. UpTo(n, by, number, number[last]) = {by[j] : j \in 1 .. n}
    BY <2>3 DEF UpTo
  <2> QED
    BY <1>1, <1>4, <2>4 DEF SignedBy
<1>15. total[last] = SumFunctionOnSet(AmountAsked, SignedBy(c, n))
  <2>1. IsChain(n, AmountAsked, by, number, total)
    BY <1>5, <1>6, <1>7, <1>8, <1>9, <1>10 DEF IsChain
  <2>2. total[last] = SumFunctionOnSet(AmountAsked, UpTo(n, by, number, number[last]))
    BY <1>2, <1>12, <2>1, ChainSums
  <2> QED
    BY <1>14, <2>2
<1>16. SumFunctionOnSet(AmountAsked, SignedBy(c, n)) = Charged(c)
  BY <1>1, AmountIs DEF Charged
<1>17. LastCumulative(s) = total[last]
  BY <1>4, <1>11, <1>12, LastIsLatest
<1> QED
  BY <1>1, <1>15, <1>16, <1>17

\* The alarms that tell of a lost, repeated or unpaid commitment are on.
AlarmsOn ==
  \A kind \in {"sequence-gap", "under-settled", "over-settled", "missing-commitment"} :
    kind \notin Suppressed

LEMMA CleanPays ==
  ASSUME AlarmsOn, Typed, Within, Signed, Acked, Chained, PaidOut,
         NEW c \in Channel, Has(c, "closed"), Quiet(c), DriftOf(c) = {}
  PROVE  onChain[c] = Acknowledged(c)
<1>1. Acknowledged(c) = Charged(c)
  BY QuietAcknowledged DEF Signed
<1>2. PICK s, settled, remainder :
        /\ s = stream[c] /\ settled = onChain[c]
        /\ remainder = channels[c].deposit - onChain[c]
  OBVIOUS
<1>3. channels[c] \in Record /\ settled \in 0 .. channels[c].deposit
  BY <1>2 DEF PaidOut, Within, CommitmentsWithinDeposit, Has, Typed, TypeOK
<1>4. settled \in Nat /\ remainder \in Nat
  <2>1. channels[c].deposit \in Int
    BY <1>3 DEF Record
  <2> QED
    BY <1>2, <1>3, <2>1
<1>5. (IF s = <<>> THEN {kind \in {"missing-commitment"} : settled > 0}
       ELSE StreamDrift(s, settled, remainder)) \ Suppressed = {}
  BY <1>2, <1>4 DEF DriftOf, Drift
<1>6. CASE s = <<>>
  <2>1. settled = 0
    BY <1>4, <1>5, <1>6 DEF AlarmsOn
  <2>2. SignedBy(c, Len(s)) = {}
    BY <1>6 DEF SignedBy
  <2>3. Charged(c) = 0
    BY <1>2, <2>2, SumEmpty DEF Charged, AmountOf
  <2> QED
    BY <1>1, <1>2, <2>1, <2>3
<1>7. CASE s # <<>>
  <2>1. \A kind : kind \in StreamDrift(s, settled, remainder) => kind \in Suppressed
    BY <1>5, <1>7
  <2>2. ~SequenceGap(s)
    BY <2>1, DriftCases DEF AlarmsOn
  <2>3. LastCumulative(s) = Charged(c)
    BY <1>2, <1>7, <2>2, LastIsSum
  <2>4. Charged(c) \in Nat
    BY ChargedIsNat DEF Signed
  <2>5. ~(settled < LastCumulative(s))
    BY <2>1, DriftCases DEF AlarmsOn
  <2>6. ~(settled > LastCumulative(s) /\ LastCumulative(s) >= 0)
    BY <2>1, DriftCases DEF AlarmsOn
  <2>7. settled = Charged(c)
    BY <1>4, <2>3, <2>4, <2>5, <2>6
  <2> QED
    BY <1>1, <1>2, <2>7
<1> QED
  BY <1>6, <1>7

\* However calls overlap, a closed channel that reconciles without an alarm
\* has paid exactly what its commits acknowledged: a commitment repeated, lost
\* or settled short never passes for a clean close.
THEOREM CleanClosePays == ASSUME AlarmsOn PROVE Spec => []CleanCloseIsPaid
<1> DEFINE Audited == Typed /\ Within /\ Signed /\ Charges /\ Numbered /\ Acked /\ Chained /\ PaidOut
<1>1. Init => Audited
  BY InitType, InitWithin, InitCharges, InitRecords, InitNumbered, InitAcked, InitChained DEF Charges
<1>2. Audited /\ [Next]_vars => Audited'
  <2> SUFFICES ASSUME Audited, [Next]_vars PROVE Audited'
    OBVIOUS
  <2>1. /\ Typed' /\ Within' /\ Signed' /\ Charges'
        /\ JobsKept /\ Grown /\ AppendsOne
    BY StepKnown
  <2>2. Numbered'
    BY StepNumbered
  <2>3. SignersKnown
    BY DEF Signed
  <2>4. Acked'
    BY <2>1, <2>3, StepOuts, StepAcked
  <2>5. Chained'
    BY <2>1, <2>3, StepChained
  <2>6. PaidOut'
    BY StepPaidOut
  <2> QED
    BY <2>1, <2>2, <2>4, <2>5, <2>6
<1>3. Audited => CleanCloseIsPaid
  BY CleanPays DEF CleanCloseIsPaid
<1> QED
  BY <1>1, <1>2, <1>3, PTL DEF Spec

-----------------------------------------------------------------------------
(***************************************************************************)
(* What a late commit leaves.  A commit that starts takes over the counter *)
(* and the total of the record, which so many acknowledged commits add up  *)
(* to; when it is recorded, it is one more of them.  What other commits    *)
(* wrote in between makes no difference to that.                           *)
(***************************************************************************)

\* n acknowledged commits on c asked for the total.
AddsUp(c, n, total) ==
  \E counted \in SUBSET AcknowledgedOn(c) :
    /\ IsFiniteSet(counted)
    /\ Cardinality(counted) = n
    /\ AmountOf(counted) = total

RecordAddsUp(c) ==
  channels[c] # NoRecord => AddsUp(c, channels[c].sequence + 1, channels[c].committed)

JobAddsUp(x) ==
  pc[x] \in Committing => AddsUp(ChannelOf(x), job[x].sequence, job[x].cumulative - job[x].amount)

EndedKnown == \A x \in Call : out[x] = "committed" => pc[x] = "done"

AllAddUp ==
  /\ EndedKnown
  /\ \A c \in Channel : RecordAddsUp(c)
  /\ \A x \in Call : JobAddsUp(x)

LEMMA InitAddsUp == Init => AllAddUp
BY DEF Init, AllAddUp, EndedKnown, RecordAddsUp, JobAddsUp, Committing

\* An acknowledged commit stays one, for what it asked for.
LEMMA AddsUpKept ==
  ASSUME Typed, EndedKnown, JobsKept, OutsKept, NEW c, NEW n, NEW total, AddsUp(c, n, total)
  PROVE  AddsUp(c, n, total)'
<1>1. PICK counted \in SUBSET AcknowledgedOn(c) :
        /\ IsFiniteSet(counted)
        /\ Cardinality(counted) = n
        /\ AmountOf(counted) = total
  BY DEF AddsUp
<1>2. \A x \in counted : x \in Call /\ out[x] = "committed" /\ ChannelOf(x) = c /\ pc[x] = "done"
  BY <1>1 DEF AcknowledgedOn, EndedKnown
<1>3. \A x \in counted : out'[x] = "committed" /\ job'[x] = job[x]
  BY <1>2 DEF OutsKept, JobsKept
<1>4. counted \in SUBSET AcknowledgedOn(c)'
  BY <1>2, <1>3 DEF AcknowledgedOn, ChannelOf
<1>5. PICK f, g : f = AmountAsked /\ g = AmountAsked'
  OBVIOUS
<1>6. \A x \in counted : f[x] = g[x]
  BY <1>2, <1>3, <1>5 DEF AmountAsked
<1>7. SumFunctionOnSet(f, counted) = SumFunctionOnSet(g, counted)
  BY <1>1, <1>6, SumSame
<1>8. AmountOf(counted)' = total
  BY <1>1, <1>5, <1>7 DEF AmountOf, AmountAsked
<1> QED
  BY <1>1, <1>4, <1>8 DEF AddsUp

\* A commit that is recorded is one more, on top of those it started from.
LEMMA RecordedAddsUp ==
  ASSUME Typed, AllAddUp, JobsKept, OutsKept, NEW x \in Call, CommitRecorded(x)
  PROVE  AddsUp(ChannelOf(x), job[x].sequence + 1, job[x].cumulative)'
<1>1. pc[x] = "appended" /\ Finish(x, "committed") /\ UNCHANGED job
  BY DEF CommitRecorded
<1>2. PICK c : c = ChannelOf(x)
  OBVIOUS
<1>3. job[x].sequence \in Int /\ job[x].cumulative \in Int /\ job[x].amount \in Int
  <2>1. job[x] \in Job
    BY DEF Typed, TypeOK
  <2> QED
    BY <2>1 DEF Job
<1>4. AddsUp(c, job[x].sequence, job[x].cumulative - job[x].amount)
  BY <1>1, <1>2 DEF AllAddUp, JobAddsUp, Committing
<1>5. PICK counted \in SUBSET AcknowledgedOn(c)' :
        /\ IsFiniteSet(counted)
        /\ Cardinality(counted) = job[x].sequence
        /\ AmountOf(counted) = job[x].cumulative - job[x].amount
        /\ x \notin counted
  <2>1. PICK some \in SUBSET AcknowledgedOn(c) :
          /\ IsFiniteSet(some)
          /\ Cardinality(some) = job[x].sequence
          /\ AmountOf(some) = job[x].cumulative - job[x].amount
    BY <1>4 DEF AddsUp
  <2>2. \A y \in some : y \in Call /\ out[y] = "committed" /\ ChannelOf(y) = c /\ pc[y] = "done"
    BY <2>1 DEF AcknowledgedOn, EndedKnown, AllAddUp
  <2>3. some \in SUBSET AcknowledgedOn(c)'
    BY <1>1, <2>2 DEF AcknowledgedOn, ChannelOf, OutsKept
  <2> QED
    BY <1>1, <2>1, <2>2, <2>3
<1>6. PICK more : more = counted \cup {x}
  OBVIOUS
<1>7. IsFiniteSet(more) /\ Cardinality(more) = job[x].sequence + 1
  BY <1>5, <1>6, FS_AddElement
<1>8. more \in SUBSET AcknowledgedOn(c)'
  <2>1. out'[x] = "committed"
    BY <1>1 DEF Finish, Typed, TypeOK
  <2>2. ChannelOf(x)' = c
    BY <1>1, <1>2 DEF ChannelOf
  <2> QED
    BY <1>5, <1>6, <2>1, <2>2 DEF AcknowledgedOn
<1>9. AmountOf(more) = job[x].cumulative
  <2>1. PICK f : f = AmountAsked
    OBVIOUS
  <2>2. \A y \in Call : f[y] = job[y].amount /\ f[y] \in Int
    <3>1. \A y \in Call : job[y] \in Job
      BY DEF Typed, TypeOK
    <3> QED
      BY <2>1, <3>1 DEF AmountAsked, Job
  <2>3. counted \subseteq Call
    BY <1>5 DEF AcknowledgedOn
  <2>4. SumFunctionOnSet(f, counted \cup {x}) = f[x] + SumFunctionOnSet(f, counted)
    BY <1>5, <2>2, <2>3, SumAdd
  <2>5. /\ AmountOf(more) = SumFunctionOnSet(f, counted \cup {x})
        /\ AmountOf(counted) = SumFunctionOnSet(f, counted)
    BY <1>6, <2>1, AmountIs
  <2> QED
    BY <1>3, <1>5, <2>2, <2>4, <2>5
<1>10. AmountOf(more)' = job[x].cumulative
  BY <1>1, <1>9 DEF AmountOf
<1>11. job'[x] = job[x] /\ ChannelOf(x)' = c
  BY <1>1, <1>2 DEF ChannelOf
<1> QED
  BY <1>7, <1>8, <1>10, <1>11 DEF AddsUp

\* A commit that starts, starts from the record.
LEMMA StartAddsUp ==
  ASSUME Typed, AllAddUp, JobsKept, OutsKept, NEW x \in Call, Commit(x)
  PROVE  JobAddsUp(x)'
<1>1. PICK c \in Channel, a \in Amounts :
        \/ Finish(x, "rejected")
        \/ /\ Accepts(c, a)
           /\ job' = [job EXCEPT ![x] =
                [chan |-> c, amount |-> a, sequence |-> channels[c].sequence + 1,
                 cumulative |-> channels[c].committed + a]]
           /\ Go(x, "signing")
  BY DEF Commit
<1>2. CASE Finish(x, "rejected")
  <2>1. pc'[x] = "done"
    BY <1>2 DEF Finish, Go, Typed, TypeOK
  <2> QED
    BY <2>1 DEF JobAddsUp, Committing
<1>3. CASE /\ Accepts(c, a)
           /\ job' = [job EXCEPT ![x] =
                [chan |-> c, amount |-> a, sequence |-> channels[c].sequence + 1,
                 cumulative |-> channels[c].committed + a]]
  <2>1. a \in Int /\ channels[c] # NoRecord
    BY <1>3, InputAssumption DEF Accepts, IsOpen, Has
  <2>2. channels[c] \in Record
    BY <2>1 DEF Typed, TypeOK
  <2>3. channels[c].committed \in Int
    BY <2>2 DEF Record
  <2>4. /\ job'[x].chan = c /\ job'[x].amount = a
        /\ job'[x].sequence = channels[c].sequence + 1
        /\ job'[x].cumulative = channels[c].committed + a
    BY <1>3 DEF Typed, TypeOK
  <2>5. job'[x].cumulative - job'[x].amount = channels[c].committed
    BY <2>1, <2>3, <2>4
  <2>6. PICK n, total : n = channels[c].sequence + 1 /\ total = channels[c].committed
    OBVIOUS
  <2>7. AddsUp(c, n, total)
    BY <2>1, <2>6 DEF AllAddUp, RecordAddsUp
  <2>8. AddsUp(c, n, total)'
    BY <2>7, AddsUpKept DEF AllAddUp
  <2> QED
    BY <2>4, <2>5, <2>6, <2>8 DEF JobAddsUp, ChannelOf, AddsUp
<1> QED
  BY <1>1, <1>2, <1>3

LEMMA StepAddsUp == Typed /\ AllAddUp /\ [Next]_vars => AllAddUp'
<1> SUFFICES ASSUME Typed, AllAddUp, [Next]_vars PROVE AllAddUp'
  OBVIOUS
<1>step. JobsKept /\ OutsKept
  BY StepJobs, StepOuts
<1>names. /\ Committing = {"signing", "appended"}
          /\ Live = {"opening", "signing", "appended", "listing", "marking", "settling", "settled"}
          /\ Closing = {"listing", "marking", "settling", "settled"}
  BY DEF Live, Committing, Closing
<1>ended. EndedKnown'
  BY <1>step DEF AllAddUp, EndedKnown, OutsKept
<1>kept. ASSUME NEW c \in Channel, channels[c] # NoRecord,
                channels'[c].sequence = channels[c].sequence,
                channels'[c].committed = channels[c].committed
         PROVE  RecordAddsUp(c)'
  <2>1. PICK n, total : n = channels[c].sequence + 1 /\ total = channels[c].committed
    OBVIOUS
  <2>2. AddsUp(c, n, total)
    BY <1>kept, <2>1 DEF AllAddUp, RecordAddsUp
  <2>3. AddsUp(c, n, total)'
    BY <1>step, <2>2, AddsUpKept DEF AllAddUp
  <2> QED
    BY <1>kept, <2>1, <2>3 DEF RecordAddsUp, AddsUp
<1>same. ASSUME NEW c \in Channel, channels'[c] = channels[c] PROVE RecordAddsUp(c)'
  <2>1. CASE channels[c] = NoRecord
    BY <1>same, <2>1 DEF RecordAddsUp
  <2> QED
    BY <1>same, <1>kept, <2>1
<1>others. ASSUME NEW x \in Call, pc'[x] \in Committing => pc[x] \in Committing PROVE JobAddsUp(x)'
  <2> SUFFICES ASSUME pc'[x] \in Committing
               PROVE  AddsUp(ChannelOf(x), job[x].sequence, job[x].cumulative - job[x].amount)'
    BY DEF JobAddsUp
  <2>1. pc[x] \in Committing /\ job'[x] = job[x]
    BY <1>others, <1>step DEF JobsKept
  <2>2. PICK c, n, total : c = ChannelOf(x) /\ n = job[x].sequence /\ total = job[x].cumulative - job[x].amount
    OBVIOUS
  <2>3. AddsUp(c, n, total)
    BY <2>1, <2>2 DEF AllAddUp, JobAddsUp
  <2>4. AddsUp(c, n, total)'
    BY <1>step, <2>3, AddsUpKept DEF AllAddUp
  <2> QED
    BY <2>1, <2>2, <2>4 DEF AddsUp, ChannelOf
<1>1. ASSUME NEW x \in Call, Commit(x) PROVE AllAddUp'
  <2>1. Only(x) /\ UNCHANGED channels
    BY <1>1, OnlyMoves DEF Commit
  <2>2. JobAddsUp(x)'
    BY <1>1, <1>step, StartAddsUp
  <2>3. \A y \in Call : JobAddsUp(y)'
    BY <1>others, <2>1, <2>2 DEF Only
  <2> QED
    BY <1>ended, <1>same, <2>1, <2>3 DEF AllAddUp
<1>2. ASSUME NEW x \in Call, Open(x) \/ Close(x) \/ Resume(x) PROVE \A y \in Call : JobAddsUp(y)'
  <2>1. Only(x)
    BY <1>2, OnlyMoves
  <2>2. pc'[x] \in Committing => pc[x] \in Committing
    <3>1. CASE SignReturns(x)
      BY <3>1, <1>names DEF SignReturns
    <3>2. CASE ~SignReturns(x)
      <4>1. \/ \E to \in {"opening", "listing", "marking", "settling", "settled"} : Go(x, to)
            \/ \E result \in Results : Finish(x, result)
        BY <1>2, <3>2 DEF Open, Close, Resume, OpenReturns, OpenFails, SignFails, CommitRecorded,
           CloseLists, CloseMarks, ContractSettles, CloseFails, CloseReturns, Results
      <4>2. pc'[x] \in {"opening", "listing", "marking", "settling", "settled", "done"}
        BY <4>1 DEF Go, Finish, Typed, TypeOK
      <4> QED
        BY <1>names, <4>2
    <3> QED
      BY <3>1, <3>2
  <2> QED
    BY <1>others, <2>1, <2>2 DEF Only
<1>3. ASSUME NEW x \in Call, OpenReturns(x) PROVE \A c \in Channel : RecordAddsUp(c)'
  <2>1. job[x].amount > 0
    BY <1>3 DEF OpenReturns, Typed, OpeningIsNew
  <2>2. PICK c \in Channel : c = ChannelOf(x)
    BY <1>3, <1>names DEF OpenReturns, Typed, TypeOK
  <2>3. /\ channels'[c].committed = 0 /\ channels'[c].sequence = -1
        /\ \A d \in Channel \ {c} : channels'[d] = channels[d]
    BY <1>3, <2>1, <2>2, OpenedStep DEF Typed
  <2>4. AddsUp(c, 0, 0)'
    <3>1. AmountOf({})' = 0
      <4>1. PICK g : g = AmountAsked'
        OBVIOUS
      <4>2. SumFunctionOnSet(g, {}) = 0
        BY SumEmpty
      <4> QED
        BY <4>1, <4>2 DEF AmountOf, AmountAsked
    <3> QED
      BY <3>1, FS_EmptySet DEF AddsUp
  <2>5. RecordAddsUp(c)'
    BY <2>3, <2>4 DEF RecordAddsUp, AddsUp
  <2> QED
    BY <1>same, <2>3, <2>5
<1>4. ASSUME NEW x \in Call, CommitRecorded(x) PROVE \A c \in Channel : RecordAddsUp(c)'
  <2>1. PICK c \in Channel : c = ChannelOf(x)
    BY <1>4, <1>names DEF CommitRecorded, Typed, TypeOK
  <2>2. /\ channels'[c].committed = job[x].cumulative /\ channels'[c].sequence = job[x].sequence
        /\ \A d \in Channel \ {c} : channels'[d] = channels[d]
    BY <1>4, <2>1, RecordedStep DEF Typed
  <2>3. AddsUp(ChannelOf(x), job[x].sequence + 1, job[x].cumulative)'
    BY <1>4, <1>step, RecordedAddsUp
  <2>4. job'[x] = job[x] /\ ChannelOf(x)' = c
    BY <1>4, <2>1 DEF CommitRecorded, ChannelOf
  <2>5. RecordAddsUp(c)'
    BY <2>2, <2>3, <2>4 DEF RecordAddsUp, AddsUp
  <2> QED
    BY <1>same, <2>2, <2>5
<1>5. ASSUME NEW x \in Call, CloseMarks(x) \/ CloseFails(x) \/ CloseReturns(x)
      PROVE  \A c \in Channel : RecordAddsUp(c)'
  <2>1. pc[x] \in Closing /\ \E status \in ChannelStatus : SetStatus(ChannelOf(x), status)
    BY <1>5, <1>names DEF CloseMarks, CloseFails, CloseReturns, AdapterThrows, ChannelStatus
  <2>2. ChannelOf(x) \in Channel /\ channels[ChannelOf(x)] # NoRecord
    BY <1>names, <2>1 DEF Typed, TypeOK
  <2>3. \A d \in Channel : /\ (channels'[d] = NoRecord) <=> (channels[d] = NoRecord)
                           /\ channels[d] # NoRecord => SameNumbers(channels'[d], channels[d])
    BY <2>1, <2>2, StatusStep DEF Typed
  <2> SUFFICES ASSUME NEW c \in Channel PROVE RecordAddsUp(c)'
    OBVIOUS
  <2>4. CASE channels[c] = NoRecord
    BY <2>3, <2>4 DEF RecordAddsUp
  <2>5. CASE channels[c] # NoRecord
    BY <1>kept, <2>3, <2>5 DEF SameNumbers
  <2> QED
    BY <2>4, <2>5
<1>6. ASSUME NEW x \in Call, Open(x) \/ Close(x) \/ Resume(x) PROVE AllAddUp'
  <2>1. \/ UNCHANGED channels
        \/ OpenReturns(x) \/ CommitRecorded(x) \/ CloseMarks(x) \/ CloseFails(x) \/ CloseReturns(x)
    BY <1>6 DEF Open, Close, Resume, OpenFails, SignReturns, SignFails, CloseLists, ContractSettles
  <2>2. UNCHANGED channels => \A c \in Channel : RecordAddsUp(c)'
    BY <1>same
  <2> QED
    BY <1>2, <1>3, <1>4, <1>5, <1>6, <1>ended, <2>1, <2>2 DEF AllAddUp
<1>7. CASE UNCHANGED vars
  <2>1. \A x \in Call : JobAddsUp(x)'
    BY <1>7, <1>others DEF vars
  <2>2. \A c \in Channel : RecordAddsUp(c)'
    BY <1>7, <1>same DEF vars
  <2> QED
    BY <1>ended, <2>1, <2>2 DEF AllAddUp
<1> QED
  BY <1>1, <1>6, <1>7 DEF Next, AllReturned

\* However late signatures are and in whatever order commits are recorded, the
\* record is one that acknowledged commits add up to, as many as it counts: one
\* that lost a total to a late commit has lost the count of it too.
THEOREM LateCommitsShow == Spec => []LateCommitShows
<1>1. Init => Typed /\ AllAddUp
  BY InitType, InitAddsUp
<1>2. Typed /\ AllAddUp /\ [Next]_vars => Typed' /\ AllAddUp'
  BY StepType, StepAddsUp
<1>3. AllAddUp => LateCommitShows
  BY DEF AllAddUp, RecordAddsUp, AddsUp, LateCommitShows
<1> QED
  BY <1>1, <1>2, <1>3, PTL DEF Spec

=============================================================================
