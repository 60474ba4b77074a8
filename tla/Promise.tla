------------------------------ MODULE Promise -------------------------------
(***************************************************************************)
(* What placing an order promises, for each idempotency key: what was      *)
(* accepted is not changed, the supplier is asked at most once and never   *)
(* after the order is settled, and an order is settled once, by evidence   *)
(* that agrees with the obligation the supplier holds.                     *)
(***************************************************************************)
EXTENDS Naturals

CONSTANTS Keys, Payloads, References, FailureCodes, None

VARIABLES
    accepted,   \* what each key was first accepted for
    attempts,   \* purchases asked of the supplier
    owed,       \* the supplier holds an obligation
    outcome     \* the evidence the order was settled by

vars == <<accepted, attempts, owed, outcome>>

Init ==
    /\ accepted = [k \in Keys |-> None]
    /\ attempts = [k \in Keys |-> 0]
    /\ owed = [k \in Keys |-> FALSE]
    /\ outcome = [k \in Keys |-> None]

Accept(k) ==
    /\ accepted[k] = None
    /\ \E p \in Payloads : accepted' = [accepted EXCEPT ![k] = p]
    /\ UNCHANGED <<attempts, owed, outcome>>

Attempt(k) ==
    /\ accepted[k] # None
    /\ attempts[k] = 0
    /\ outcome[k] = None
    /\ attempts' = [attempts EXCEPT ![k] = 1]
    /\ \E holds \in BOOLEAN : owed' = [owed EXCEPT ![k] = holds]
    /\ UNCHANGED <<accepted, outcome>>

Settle(k) ==
    /\ accepted[k] # None
    /\ outcome[k] = None
    /\ \E e \in IF owed[k] THEN References ELSE FailureCodes :
          outcome' = [outcome EXCEPT ![k] = e]
    /\ UNCHANGED <<accepted, attempts, owed>>

Next == \E k \in Keys : Accept(k) \/ Attempt(k) \/ Settle(k)

Spec == Init /\ [][Next]_vars

=============================================================================
