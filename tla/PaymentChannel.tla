--------------------------- MODULE PaymentChannel ---------------------------
(***************************************************************************)
(* What a one-way payment channel promises its two parties: what has been  *)
(* paid into it only grows, stays within the deposit, and is what the      *)
(* counterparty receives when the channel closes, which is final.          *)
(***************************************************************************)
EXTENDS Naturals

CONSTANTS Channel, NoPayout

VARIABLES
  deposit,   \* 0 until the channel is open
  paid,      \* the total of the payments made through it
  payout     \* what closing it paid out, or NoPayout

vars == <<deposit, paid, payout>>

Init ==
  /\ deposit = [c \in Channel |-> 0]
  /\ paid = [c \in Channel |-> 0]
  /\ payout = [c \in Channel |-> NoPayout]

Open(c) ==
  /\ deposit[c] = 0
  /\ deposit'[c] > 0
  /\ deposit' = [deposit EXCEPT ![c] = deposit'[c]]
  /\ UNCHANGED <<paid, payout>>

Pay(c) ==
  /\ payout[c] = NoPayout
  /\ paid'[c] \in (paid[c] + 1) .. deposit[c]
  /\ paid' = [paid EXCEPT ![c] = paid'[c]]
  /\ UNCHANGED <<deposit, payout>>

Close(c) ==
  /\ deposit[c] > 0 /\ payout[c] = NoPayout
  /\ payout' = [payout EXCEPT ![c] = paid[c]]
  /\ UNCHANGED <<deposit, paid>>

Next == \E c \in Channel : Open(c) \/ Pay(c) \/ Close(c)

Spec == Init /\ [][Next]_vars

=============================================================================
