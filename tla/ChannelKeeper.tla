---------------------------- MODULE ChannelKeeper -----------------------------
(***************************************************************************)
(* The channel manager used the way its interface is meant to be: a keeper *)
(* asks shouldClose() of every channel again and again, and calls close()  *)
(* on those it said yes to, an await later.  The keeper is external; it    *)
(* makes one call of close() at a time and forgets how the last one ended. *)
(* The dashboard shows the records while all this goes on.                 *)
(***************************************************************************)
EXTENDS ChannelManager, ClosePolicy

CONSTANTS
  Keeper,    \* the call that is the keeper's
  Policies,  \* close policies the manager may be created with
  Horizon    \* bound: seconds beyond which no idle limit is

ASSUME KeeperAssumption ==
  /\ Keeper \in Call
  /\ Policies \subseteq [drawdown : Int \cup {Unset}, idle : Int \cup {Unset}]
  /\ Horizon \in Nat
  /\ \A p \in Policies : p.idle # Unset => p.idle <= Horizon

VARIABLES
  policy,   \* the manager's
  quiet,    \* seconds since each channel was opened or last committed to
  verdict   \* what shouldClose() told the keeper last

keeperVars == <<policy, quiet, verdict>>
allVars == <<vars, keeperVars>>

Verdicts == {"none", "yes", "no", "throws"}
Known == {c \in Channel : channels[c] # NoRecord}
Asked(c) == ShouldClose(channels[c], policy, quiet[c])

KeeperInit ==
  /\ Init
  /\ policy \in Policies
  /\ quiet = [c \in Channel |-> 0]
  /\ verdict = [c \in Channel |-> "none"]

Called ==
  /\ \E x \in Call \ {Keeper} : Open(x) \/ Commit(x)
  /\ UNCHANGED keeperVars

\* Mutant: every write to the record or the stream is a sign of life.
StampsAlways(x) == IF ChannelOf(x) = NoChannel THEN quiet ELSE [quiet EXCEPT ![ChannelOf(x)] = 0]

\* openedAt and lastCommitAt are written with the record.
Stamps(x) ==
  IF out[x] = "none" /\ out'[x] \in {"opened", "committed"}
  THEN [quiet EXCEPT ![ChannelOf(x)] = 0] ELSE quiet

Resumed ==
  \E x \in Call :
    /\ Resume(x)
    /\ quiet' = Stamps(x)
    /\ UNCHANGED <<policy, verdict>>

Second ==
  /\ quiet' = [c \in Channel |-> IF c \in Known /\ quiet[c] < Horizon THEN quiet[c] + 1 ELSE quiet[c]]
  /\ UNCHANGED <<vars, policy, verdict>>

Ask(c) ==
  /\ c \in Known
  /\ verdict' = [verdict EXCEPT ![c] = Asked(c)]
  /\ UNCHANGED <<vars, policy, quiet>>

\* The answer may be old by now.
KeeperCloses(c) ==
  /\ verdict[c] = "yes"
  /\ Close(Keeper)
  /\ IF IsOpen(c) THEN ChannelOf(Keeper)' = c ELSE out'[Keeper] = "rejected"
  /\ verdict' = [verdict EXCEPT ![c] = "none"]
  /\ UNCHANGED <<policy, quiet>>

KeeperReturns ==
  /\ pc[Keeper] = "done"
  /\ Go(Keeper, "idle")
  /\ job' = [job EXCEPT ![Keeper] = NoJob]
  /\ out' = [out EXCEPT ![Keeper] = "none"]
  /\ UNCHANGED <<channels, stream, onChain, faults, keeperVars>>

KeeperNext ==
  \/ Called \/ Resumed \/ Second
  \/ \E c \in Channel : Ask(c) \/ KeeperCloses(c)
  \/ KeeperReturns

KeeperSpec == KeeperInit /\ [][KeeperNext]_allVars

\* Time passes, and the keeper goes on asking and acting on the answers.
KeeperFairSpec ==
  /\ KeeperSpec
  /\ WF_allVars(Resumed) /\ WF_allVars(Second) /\ WF_allVars(KeeperReturns)
  /\ \A c \in Channel : WF_allVars(Ask(c)) /\ WF_allVars(KeeperCloses(c))

-----------------------------------------------------------------------------
(* Properties. *)

\* shouldClose() decides the drawdown exactly, for a threshold of up to six
\* digits: no channel is called due below it or overdue at it.
DrawdownIsExact ==
  \A c \in Known :
    policy.drawdown \in 0 .. ThresholdUnit /\ policy.drawdown % (ThresholdUnit \div SCALE) = 0 =>
      (DrawdownReached(channels[c], policy.drawdown) <=>
         channels[c].committed * ThresholdUnit >= channels[c].deposit * policy.drawdown)

\* Another open channel.
OtherRows ==
  {[deposit |-> d, committed |-> n, sequence |-> 0, status |-> "open"] :
     d \in {e \in Deposits \cup {2} : e > 0}, n \in 0 .. 2}

\* What the dashboard flags, the keeper is told to close, and no open channel
\* that is flagged is shown below one that is not, whatever else is shown.
FlagsAreTrue ==
  \A c \in Known : policy.drawdown \in 0 .. ThresholdUnit =>
    /\ isNearingClose(channels[c], policy.drawdown) => Asked(c) = "yes"
    /\ \A row \in OtherRows :
         LET rows == SortedRows(<<row, channels[c]>>)
             Flagged(i) == isNearingClose(rows[i], policy.drawdown)
         IN rows[1].status = "open" /\ Flagged(2) => Flagged(1)

\* Whether a limit is near is told exactly, by the manager and by the dashboard.
DrawdownIsTold == DrawdownIsExact /\ FlagsAreTrue

\* A channel that should close goes on to be one that should, as time passes
\* and other channels are worked on, until a commit to it lands or its close
\* has begun: the answer the keeper acts on is stale for no other reason.
DueUntilUsed ==
  [][\A c \in Known :
       Asked(c) = "yes" =>
         \/ Asked(c)' = "yes"
         \/ ~IsOpen(c)'
         \/ \E x \in Call : ChannelOf(x) = c /\ out[x] # "committed" /\ out'[x] = "committed"]_allVars

CommitUnderWay(c) == \E x \in Call : pc[x] \in Committing /\ ChannelOf(x) = c

\* A channel that reaches the threshold, with no older commit to take the total
\* back, gets settled, and so does every channel under an idle limit, busy as it
\* may have been; a settlement that fails is tried again.  If nothing failed the
\* channel ends closed.
DueChannelSettles ==
  \A c \in Channel :
    (/\ IsOpen(c)
     /\ \/ Asked(c) = "yes" /\ ~CommitUnderWay(c)
        \/ policy.drawdown = Unset /\ policy.idle # Unset /\ policy.idle >= 0)
    ~> (Has(c, "closed") \/ (faults > 0 /\ onChain[c] # NoPayout))

=============================================================================
