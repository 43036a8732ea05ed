---------------------------- MODULE ChargeLedger ----------------------------
(***************************************************************************)
(* What the duplicate protection of the payment gate promises, without     *)
(* caches, locks or in-flight maps.  A payment k may be charged while the  *)
(* system has been charged no more often than it has lost the memory of k; *)
(* a request is granted access only for a payment that has been charged.   *)
(***************************************************************************)
EXTENDS Naturals

CONSTANTS Request, Key

VARIABLES
  charges,   \* times each payment moved money
  lost,      \* times the memory of it was destroyed
  granted    \* <<request, payment>> pairs served

vars == <<charges, lost, granted>>

Init ==
  /\ charges = [k \in Key |-> 0]
  /\ lost = [k \in Key |-> 0]
  /\ granted = {}

Charge(k) ==
  /\ charges[k] <= lost[k]
  /\ charges' = [charges EXCEPT ![k] = @ + 1]
  /\ UNCHANGED <<lost, granted>>

\* The environment destroys memory of any payments, in any amount.
Forget ==
  /\ \A k \in Key : lost'[k] >= lost[k]
  /\ UNCHANGED <<charges, granted>>

Grant(r, k) ==
  /\ charges[k] > 0
  /\ granted' = granted \cup {<<r, k>>}
  /\ UNCHANGED <<charges, lost>>

Next ==
  \/ \E k \in Key : Charge(k)
  \/ Forget
  \/ \E r \in Request, k \in Key : Grant(r, k)

Spec == Init /\ [][Next]_vars

=============================================================================
