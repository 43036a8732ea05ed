---------------------------- MODULE PolicyEngine ----------------------------
(***************************************************************************)
(* The policy engine of @tollway/core (policy.ts): spend counters and a    *)
(* window of recent payments in memory, check() before a payment and       *)
(* record() after it.  Both run to their end without awaiting, so each is  *)
(* one step.  AgentClient composes the engine with the pay() calls.        *)
(***************************************************************************)
EXTENDS Integers, Sequences, FiniteSetsExt, SequencesExt, ModelRouter

CONSTANTS
  Asset, Payee,
  EnabledModels,      \* the models policy.perModel does not disable
  MinChannelDeposit, DailyBudget, TotalBudget,
  ServiceCap,         \* [Payee -> cap]
  RequestsPerMinute, MaxSpendPerMinute,
  NoLimit,            \* a limit the policy leaves out
  Minute, Day         \* 60_000 and 86_400_000 ms, in ticks of the clock

Limit == Nat \cup {NoLimit}

ASSUME PolicyAssumption ==
  /\ EnabledModels \subseteq Model
  /\ {MinChannelDeposit, DailyBudget, TotalBudget,
      RequestsPerMinute, MaxSpendPerMinute} \subseteq Limit
  /\ ServiceCap \in [Payee -> Limit]
  /\ Minute \in Nat /\ Day \in Nat \ {0}
  /\ NoLimit \notin Int

\* An amount that does not parse is negative; the resource is left out.
Intent == [payee : Payee, asset : Asset, amount : Int, model : Model]

VARIABLES
  now,          \* the clock
  dailySpend, totalSpend, serviceSpend,
  lastResetDay,
  recent        \* anomalySamples; requestTimestamps is their time stamps

spendVars == <<totalSpend, serviceSpend>>
engineVars == <<dailySpend, spendVars, lastResetDay, recent>>

Today == now \div Day
Within(limit, amount) == limit # NoLimit => amount <= limit

\* resetDailyIfNeeded()
FreshDailySpend == IF Today = lastResetDay THEN dailySpend ELSE [a \in Asset |-> 0]

\* Mutant: a sample that is exactly a minute old is dropped too.
PrunedEarly(samples) == SelectSeq(samples, LAMBDA s : s.ts > now - Minute)

\* pruneWindow(): drops samples from the front until one is recent enough.
Pruned(samples) ==
  LET kept == {i \in DOMAIN samples : samples[i].ts >= now - Minute}
  IN IF kept = {} THEN <<>>
     ELSE SubSeq(samples, CHOOSE i \in kept : \A j \in kept : i <= j, Len(samples))

RecentSpend(asset) ==
  LET samples == Pruned(recent)
  IN SumFunctionOnSet([i \in DOMAIN samples |-> samples[i].amount],
                      {i \in DOMAIN samples : samples[i].asset = asset})

-----------------------------------------------------------------------------
(* check(): the rules, in the order of the code. *)

\* parseAmount() of the payment's amount; check() throws when it fails, before
\* it looks at any rule.
Parses(i) == i.amount >= 0

\* Mutant: the cap is compared with the payment alone.
BudgetsAllowForgettingService(i) ==
  /\ Within(DailyBudget, FreshDailySpend[i.asset] + i.amount)
  /\ Within(TotalBudget, totalSpend[i.asset] + i.amount)
  /\ Within(ServiceCap[i.payee], i.amount)

ModelAllows(i) ==
  /\ i.model \in EnabledModels
  /\ i.model = "mpp-channel" /\ MinChannelDeposit # NoLimit => i.amount >= MinChannelDeposit

BudgetsAllow(i) ==
  /\ Within(DailyBudget, FreshDailySpend[i.asset] + i.amount)
  /\ Within(TotalBudget, totalSpend[i.asset] + i.amount)
  /\ Within(ServiceCap[i.payee], serviceSpend[<<i.payee, i.asset>>] + i.amount)

WindowsAllow(i) ==
  /\ RequestsPerMinute # NoLimit => Len(Pruned(recent)) < RequestsPerMinute
  /\ Within(MaxSpendPerMinute, RecentSpend(i.asset) + i.amount)

Allows(i) == ModelAllows(i) /\ BudgetsAllow(i) /\ WindowsAllow(i)

\* What check() does to the engine, whatever it decides and also when it throws.
Check(i) ==
  /\ dailySpend' = FreshDailySpend
  /\ lastResetDay' = Today
  /\ recent' = IF /\ Parses(i) /\ ModelAllows(i) /\ BudgetsAllow(i)
                  /\ {RequestsPerMinute, MaxSpendPerMinute} # {NoLimit}
               THEN Pruned(recent) ELSE recent
  /\ UNCHANGED spendVars

-----------------------------------------------------------------------------
(* record() *)

\* Mutant: record() adds to whatever day the counter was last reset on.
RecordWithoutReset(i) ==
  /\ dailySpend' = [dailySpend EXCEPT ![i.asset] = @ + i.amount]
  /\ totalSpend' = [totalSpend EXCEPT ![i.asset] = @ + i.amount]
  /\ serviceSpend' = [serviceSpend EXCEPT ![<<i.payee, i.asset>>] = @ + i.amount]
  /\ recent' = Pruned(Append(recent, [amount |-> i.amount, asset |-> i.asset, ts |-> now]))
  /\ UNCHANGED lastResetDay

Record(i) ==
  /\ dailySpend' = [FreshDailySpend EXCEPT ![i.asset] = @ + i.amount]
  /\ lastResetDay' = Today
  /\ totalSpend' = [totalSpend EXCEPT ![i.asset] = @ + i.amount]
  /\ serviceSpend' = [serviceSpend EXCEPT ![<<i.payee, i.asset>>] = @ + i.amount]
  /\ recent' = Pruned(Append(recent, [amount |-> i.amount, asset |-> i.asset, ts |-> now]))

EngineInit ==
  /\ now = 0
  /\ dailySpend = [a \in Asset |-> 0]
  /\ totalSpend = [a \in Asset |-> 0]
  /\ serviceSpend = [pa \in Payee \X Asset |-> 0]
  /\ lastResetDay = 0
  /\ recent = <<>>

=============================================================================
