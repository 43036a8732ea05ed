--------------------------- MODULE ChannelManager ---------------------------
(***************************************************************************)
(* The MPP channel lifecycle manager of @tollway/channels (manager.ts)     *)
(* over its in-memory commitment store (store.ts).  A call of open, commit *)
(* or close is a coroutine: pc[x] names the await call x is suspended at.  *)
(* The store answers at once but its caller resumes a tick later, so other *)
(* calls may run in between; the adapter takes as long as it likes.        *)
(*                                                                         *)
(* The adapter and the channel contract are external: signing may fail, a  *)
(* settlement may be refused, pay out less than it was asked to, or get    *)
(* through with its answer lost.  Each of these takes a unit of MaxFaults. *)
(***************************************************************************)
EXTENDS Integers, Sequences, FiniteSets, FiniteSetsExt

CONSTANTS
  Call, Channel,
  Deposits,    \* what open may be asked to deposit
  Amounts,     \* what commit may be asked to pay; none below 0 parses
  Overlap,     \* may calls on one channel overlap?
  MaxFaults,   \* bound: adapter failures in one behaviour
  NoChannel, NoRecord, NoPayout

ASSUME InputAssumption ==
  /\ Deposits \subseteq Int
  /\ Amounts \subseteq Int
  /\ Overlap \in BOOLEAN
  /\ MaxFaults \in Nat

ASSUME NothingAssumption ==
  /\ NoChannel \notin Channel
  /\ NoPayout \notin Int

\* Hash, remainder and time stamps are left out of the Channel record.
ChannelStatus == {"open", "closing", "closed"}
Record == [deposit : Int, committed : Int, sequence : Int, status : ChannelStatus]

\* by, the call that had it signed, stands for the commitment blob.
Commitment == [by : Call, sequence : Int, cumulative : Int]

\* What a call carries over its awaits.
Job == [chan : Channel \cup {NoChannel}, amount : Int, sequence : Int, cumulative : Int]

ASSUME RecordAssumption == NoRecord \notin Record

VARIABLES
  pc,        \* where each call is suspended
  job,       \* its Job
  out,       \* its result
  channels,  \* the store's channel records
  stream,    \* the store's commitments, in the order they were appended
  onChain,   \* what the contract has paid out, or NoPayout
  faults     \* adapter failures so far

callVars == <<pc, job, out>>
vars == <<pc, job, out, channels, stream, onChain, faults>>

Committing == {"signing", "appended"}
Closing == {"listing", "marking", "settling", "settled"}
Live == {"opening"} \cup Committing \cup Closing
Pc == {"idle", "done"} \cup Live
Results == {"none", "opened", "committed", "closed", "rejected", "threw"}

NoJob == [chan |-> NoChannel, amount |-> 0, sequence |-> 0, cumulative |-> 0]

Go(x, to) == pc' = [pc EXCEPT ![x] = to]
Finish(x, result) == Go(x, "done") /\ out' = [out EXCEPT ![x] = result]
Fault == faults < MaxFaults /\ faults' = faults + 1
ChannelOf(x) == job[x].chan
Has(c, status) == channels[c] # NoRecord /\ channels[c].status = status
IsOpen(c) == Has(c, "open")
SetStatus(c, status) == channels' = [channels EXCEPT ![c].status = status]

\* An address no contract of the model has: Channel bounds the opens.
Unused(c) ==
  /\ channels[c] = NoRecord
  /\ \A y \in Call : ~(pc[y] = "opening" /\ ChannelOf(y) = c)

\* Callers that do not overlap their calls wait for the previous one to end.
MayCall(c) == Overlap \/ \A y \in Call : pc[y] \in Live => ChannelOf(y) # c

\* Mutant: the first commitment, not the last.
LatestIsFirst(s) == CHOOSE i \in DOMAIN s : \A j \in DOMAIN s : i <= j

\* The last of the stream sorted by sequence, which sort() does stably.
Latest(s) ==
  CHOOSE i \in DOMAIN s : \A j \in DOMAIN s :
    \/ s[j].sequence < s[i].sequence
    \/ s[j].sequence = s[i].sequence /\ j <= i

-----------------------------------------------------------------------------
(* open() *)

\* The contract is deployed at an address of its own.
Open(x) ==
  /\ pc[x] = "idle"
  /\ \E d \in Deposits :
       \/ d <= 0 /\ Finish(x, "rejected") /\ UNCHANGED job
       \/ /\ d > 0
          /\ \E c \in Channel :
               /\ Unused(c)
               /\ job' = [job EXCEPT ![x].chan = c, ![x].amount = d]
          /\ Go(x, "opening") /\ UNCHANGED out
  /\ UNCHANGED <<channels, stream, onChain, faults>>

OpenReturns(x) ==
  /\ pc[x] = "opening"
  /\ channels' = [channels EXCEPT ![ChannelOf(x)] =
       [deposit |-> job[x].amount, committed |-> 0, sequence |-> -1, status |-> "open"]]
  /\ Finish(x, "opened")
  /\ UNCHANGED <<job, stream, onChain, faults>>

OpenFails(x) ==
  /\ pc[x] = "opening"
  /\ Fault /\ Finish(x, "threw")
  /\ UNCHANGED <<job, channels, stream, onChain>>

-----------------------------------------------------------------------------
(* commit() *)

\* Mutant: a zero check only, no parse.
AcceptsUnparsed(c, a) ==
  /\ a # 0 /\ IsOpen(c)
  /\ channels[c].committed + a <= channels[c].deposit

\* Mutant: the deposit is compared with the amount, not with the new total.
AcceptsEachWithinDeposit(c, a) ==
  /\ a > 0 /\ IsOpen(c)
  /\ a <= channels[c].deposit

Accepts(c, a) ==
  /\ a > 0 /\ IsOpen(c)
  /\ channels[c].committed + a <= channels[c].deposit

\* Mutant: the sequence number is reserved before the signature is there.
CommitReserves(x) ==
  /\ pc[x] = "idle"
  /\ \E c \in Channel, a \in Amounts :
       /\ MayCall(c) /\ Accepts(c, a)
       /\ job' = [job EXCEPT ![x] =
            [chan |-> c, amount |-> a, sequence |-> channels[c].sequence + 1,
             cumulative |-> channels[c].committed + a]]
       /\ channels' = [channels EXCEPT ![c].sequence = @ + 1]
       /\ Go(x, "signing") /\ UNCHANGED out
  /\ UNCHANGED <<stream, onChain, faults>>

\* Mutant: the commitment is numbered by what is stored, not by the record.
CommitNumbersByStream(x) ==
  /\ pc[x] = "idle"
  /\ \E c \in Channel, a \in Amounts :
       /\ MayCall(c)
       /\ \/ ~Accepts(c, a) /\ Finish(x, "rejected") /\ UNCHANGED job
          \/ /\ Accepts(c, a)
             /\ job' = [job EXCEPT ![x] =
                  [chan |-> c, amount |-> a, sequence |-> Len(stream[c]),
                   cumulative |-> channels[c].committed + a]]
             /\ Go(x, "signing") /\ UNCHANGED out
  /\ UNCHANGED <<channels, stream, onChain, faults>>

\* Everything the commitment will say is computed from the record read here.
Commit(x) ==
  /\ pc[x] = "idle"
  /\ \E c \in Channel, a \in Amounts :
       /\ MayCall(c)
       /\ \/ ~Accepts(c, a) /\ Finish(x, "rejected") /\ UNCHANGED job
          \/ /\ Accepts(c, a)
             /\ job' = [job EXCEPT ![x] =
                  [chan |-> c, amount |-> a, sequence |-> channels[c].sequence + 1,
                   cumulative |-> channels[c].committed + a]]
             /\ Go(x, "signing") /\ UNCHANGED out
  /\ UNCHANGED <<channels, stream, onChain, faults>>

SignFails(x) ==
  /\ pc[x] = "signing"
  /\ Fault /\ Finish(x, "threw")
  /\ UNCHANGED <<job, channels, stream, onChain>>

\* The signature arrives and the commitment is appended, whatever has become
\* of the channel meanwhile.
SignReturns(x) ==
  /\ pc[x] = "signing"
  /\ stream' = [stream EXCEPT ![ChannelOf(x)] = Append(@,
       [by |-> x, sequence |-> job[x].sequence, cumulative |-> job[x].cumulative])]
  /\ Go(x, "appended")
  /\ UNCHANGED <<job, out, channels, onChain, faults>>

\* Mutant: the cumulative total is added to the record's instead of replacing it.
CommitRecordedAdds(x) ==
  /\ pc[x] = "appended"
  /\ channels' = [channels EXCEPT
       ![ChannelOf(x)].committed = @ + job[x].cumulative,
       ![ChannelOf(x)].sequence = job[x].sequence]
  /\ Finish(x, "committed")
  /\ UNCHANGED <<job, stream, onChain, faults>>

CommitRecorded(x) ==
  /\ pc[x] = "appended"
  /\ channels' = [channels EXCEPT
       ![ChannelOf(x)].committed = job[x].cumulative,
       ![ChannelOf(x)].sequence = job[x].sequence]
  /\ Finish(x, "committed")
  /\ UNCHANGED <<job, stream, onChain, faults>>

-----------------------------------------------------------------------------
(* close() *)

Close(x) ==
  /\ pc[x] = "idle"
  /\ \E c \in Channel :
       /\ MayCall(c)
       /\ \/ ~IsOpen(c) /\ Finish(x, "rejected") /\ UNCHANGED job
          \/ /\ IsOpen(c)
             /\ job' = [job EXCEPT ![x].chan = c]
             /\ Go(x, "listing") /\ UNCHANGED out
  /\ UNCHANGED <<channels, stream, onChain, faults>>

\* The total to settle: that of the latest commitment, 0 without one.
CloseLists(x) ==
  LET s == stream[ChannelOf(x)]
  IN /\ pc[x] = "listing"
     /\ job' = [job EXCEPT ![x].cumulative = IF s = <<>> THEN 0 ELSE s[Latest(s)].cumulative]
     /\ Go(x, "marking")
     /\ UNCHANGED <<out, channels, stream, onChain, faults>>

CloseMarks(x) ==
  /\ pc[x] = "marking"
  /\ SetStatus(ChannelOf(x), "closing")
  /\ Go(x, "settling")
  /\ UNCHANGED <<job, out, stream, onChain, faults>>

\* The contract pays out once, and no more than the commitment it is shown.
ContractSettles(x) ==
  /\ pc[x] = "settling"
  /\ onChain[ChannelOf(x)] = NoPayout
  /\ \/ /\ onChain' = [onChain EXCEPT ![ChannelOf(x)] = job[x].cumulative]
        /\ UNCHANGED faults
     \/ \E paid \in 0 .. (job[x].cumulative - 1) :
          Fault /\ onChain' = [onChain EXCEPT ![ChannelOf(x)] = paid]
  /\ Go(x, "settled")
  /\ UNCHANGED <<job, out, channels, stream>>

\* closeChannel throws: the transaction failed, the contract has paid out
\* before, or it has now and the answer is lost.
AdapterThrows(x) ==
  \/ pc[x] = "settling" /\ onChain[ChannelOf(x)] # NoPayout /\ UNCHANGED faults
  \/ pc[x] \in {"settling", "settled"} /\ Fault

\* Mutant: the rollback to open is left out.
CloseFailsSilently(x) ==
  /\ AdapterThrows(x)
  /\ Finish(x, "threw")
  /\ UNCHANGED <<job, channels, stream, onChain>>

CloseFails(x) ==
  /\ AdapterThrows(x)
  /\ SetStatus(ChannelOf(x), "open")
  /\ Finish(x, "threw")
  /\ UNCHANGED <<job, stream, onChain>>

\* Mutant: the settled amount is not compared with the commitment.
CloseTrustsAdapter(x) ==
  /\ pc[x] = "settled"
  /\ SetStatus(ChannelOf(x), "closed")
  /\ Finish(x, "closed")
  /\ UNCHANGED <<job, stream, onChain, faults>>

\* The adapter answers with what the contract paid out.
CloseReturns(x) ==
  /\ pc[x] = "settled"
  /\ \/ /\ onChain[ChannelOf(x)] = job[x].cumulative
        /\ SetStatus(ChannelOf(x), "closed") /\ Finish(x, "closed")
     \/ /\ onChain[ChannelOf(x)] # job[x].cumulative
        /\ SetStatus(ChannelOf(x), "open") /\ Finish(x, "threw")
  /\ UNCHANGED <<job, stream, onChain, faults>>

-----------------------------------------------------------------------------
Init ==
  /\ pc = [x \in Call |-> "idle"]
  /\ job = [x \in Call |-> NoJob]
  /\ out = [x \in Call |-> "none"]
  /\ channels = [c \in Channel |-> NoRecord]
  /\ stream = [c \in Channel |-> <<>>]
  /\ onChain = [c \in Channel |-> NoPayout]
  /\ faults = 0

\* What runs once the promise a call awaits has settled.
Resume(x) ==
  \/ OpenReturns(x) \/ OpenFails(x)
  \/ SignReturns(x) \/ SignFails(x) \/ CommitRecorded(x)
  \/ CloseLists(x) \/ CloseMarks(x) \/ ContractSettles(x)
  \/ CloseFails(x) \/ CloseReturns(x)

\* The model's calls run out; the manager waits for more.
AllReturned ==
  /\ \A x \in Call : pc[x] = "done"
  /\ UNCHANGED vars

Next ==
  \/ \E x \in Call : Open(x) \/ Commit(x) \/ Close(x) \/ Resume(x)
  \/ AllReturned

Spec == Init /\ [][Next]_vars

\* The store and the adapter answer every call in the end.
FairSpec == Spec /\ \A x \in Call : WF_vars(Resume(x))

-----------------------------------------------------------------------------
(* Properties. *)

\* Every variable has its shape, amounts are never negative, and a call past
\* its checks is about a channel the store knows.
TypeOK ==
  /\ pc \in [Call -> Pc]
  /\ job \in [Call -> Job]
  /\ out \in [Call -> Results]
  /\ channels \in [Channel -> Record \cup {NoRecord}]
  /\ stream \in [Channel -> Seq(Commitment)]
  /\ onChain \in [Channel -> Int \cup {NoPayout}]
  /\ faults \in Nat
  /\ \A c \in Channel : channels[c] # NoRecord =>
       channels[c].deposit > 0 /\ channels[c].committed >= 0 /\ channels[c].sequence >= -1
  /\ \A x \in Call : pc[x] \in Live => ChannelOf(x) \in Channel
  /\ \A x \in Call : pc[x] \in Committing \cup Closing => channels[ChannelOf(x)] # NoRecord

\* However commits overlap, no signed commitment and no settlement exceeds
\* the deposit, although each commit checks a record read before it signs.
CommitmentsWithinDeposit ==
  \A c \in Channel :
    /\ \A i \in DOMAIN stream[c] :
         channels[c] # NoRecord /\ stream[c][i].cumulative \in 1 .. channels[c].deposit
    /\ onChain[c] # NoPayout =>
         channels[c] # NoRecord /\ onChain[c] \in 0 .. channels[c].deposit

AmountOf(calls) == SumFunctionOnSet([x \in Call |-> job[x].amount], calls)
SignedBy(c, last) == {stream[c][i].by : i \in 1 .. last}

\* The payer is never charged more than was asked for: a commitment's total
\* is at most the sum of the amounts of the commits signed up to it.
NeverOvercharged ==
  \A c \in Channel : \A i \in DOMAIN stream[c] :
    stream[c][i].cumulative <= AmountOf(SignedBy(c, i))

\* The stream has a commitment for every sequence number up to any it
\* contains, also when signing fails, and the record's counter and total are
\* those of one commitment: reconciliation relies on both.
NoSequenceGap ==
  \A c \in Channel : channels[c] # NoRecord =>
    /\ \A i \in DOMAIN stream[c] : \A n \in 0 .. stream[c][i].sequence :
         \E j \in DOMAIN stream[c] : stream[c][j].sequence = n
    /\ channels[c].sequence >= 0 =>
         \E j \in DOMAIN stream[c] :
           /\ stream[c][j].sequence = channels[c].sequence
           /\ stream[c][j].cumulative = channels[c].committed

\* When calls on a channel do not overlap, the manager's record is a payment
\* channel: the total only grows, closing pays it, and closed is final.
Ideal == INSTANCE PaymentChannel WITH
  deposit <- [c \in Channel |-> IF channels[c] = NoRecord THEN 0 ELSE channels[c].deposit],
  paid <- [c \in Channel |-> IF channels[c] = NoRecord THEN 0 ELSE channels[c].committed],
  payout <- [c \in Channel |-> IF Has(c, "closed") THEN onChain[c] ELSE NoPayout]
ImplementsChannel == Ideal!Spec

\* A channel never stays "closing", which refuses commits and closes alike:
\* whatever the adapter does, it is closed or usable again.
ClosingEnds ==
  \A c \in Channel :
    Has(c, "closing") ~> Has(c, "open") \/ Has(c, "closed")

\* manager.ts:207 "Transition to closing before reaching the adapter so a
\* concurrent close on the same channel sees the in-progress state and bails."
OneCloseReachesAdapter ==
  \A x, y \in Call :
    /\ pc[x] \in {"settling", "settled"} /\ pc[y] \in {"settling", "settled"}
    /\ ChannelOf(x) = ChannelOf(y)
    => x = y

=============================================================================
