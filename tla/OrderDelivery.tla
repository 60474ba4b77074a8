--------------------------- MODULE OrderDelivery ----------------------------
(***************************************************************************)
(* OrderService.deliver on top of Orders: notifications of a succeeded     *)
(* order, each an attempt row of its own with its own delivery key.        *)
(* Couriers are the concurrent calls of deliver.                           *)
(***************************************************************************)
EXTENDS Orders, Sequences

CONSTANTS
    Couriers,       \* concurrent calls of deliver
    MaxDeliveries   \* bound on the attempts per order

ASSUME DeliveryAssumption == MaxDeliveries \in Nat

VARIABLES
    deliveries,     \* status of each delivery attempt, by attempt_number
    notices,        \* what the sink received, in order: [number, took]
    at, job, told   \* each courier: where it waits, its [key, number], the sink's reply

ledger   == <<deliveries, notices>>
errands  == <<at, job, told>>
dvars    == <<ledger, errands>>

DeliveryState == {"PENDING", "SUCCEEDED", "FAILED"}

Jobs == [key : Keys, number : 1..MaxDeliveries]

Leave(d) ==
    /\ at' = [at EXCEPT ![d] = "idle"]
    /\ job' = [job EXCEPT ![d] = None]
    /\ told' = [told EXCEPT ![d] = FALSE]

\* Mutant: a retry takes up the last attempt again instead of a fresh number.
DeliverAgain(d, k) ==
    /\ at[d] = "idle"
    /\ safe
    /\ state[k] = "SUCCEEDED"
    /\ deliveries' = [deliveries EXCEPT ![k] = IF @ = <<>> THEN <<"PENDING">>
                                               ELSE [@ EXCEPT ![Len(@)] = "PENDING"]]
    /\ at' = [at EXCEPT ![d] = "send"]
    /\ job' = [job EXCEPT ![d] = [key |-> k, number |-> Len(deliveries'[k])]]
    /\ UNCHANGED <<notices, told>>

\* create_delivery_attempt: under the lock of the order, the next number.
Deliver(d, k) ==
    /\ at[d] = "idle"
    /\ safe
    /\ state[k] = "SUCCEEDED"
    /\ Len(deliveries[k]) < MaxDeliveries
    /\ deliveries' = [deliveries EXCEPT ![k] = Append(@, "PENDING")]
    /\ at' = [at EXCEPT ![d] = "send"]
    /\ job' = [job EXCEPT ![d] = [key |-> k, number |-> Len(deliveries'[k])]]
    /\ UNCHANGED <<notices, told>>

\* The runtime turned unsafe: the call raises and its attempt stays PENDING.
HoldBack(d) ==
    /\ at[d] = "send"
    /\ ~safe
    /\ Leave(d)
    /\ UNCHANGED ledger

\* The sink is called.  It may have taken a notice it fails to confirm (failure,
\* exception, cancellation), it never confirms one it has not taken.
Send(d) ==
    LET k == job[d].key
    IN  /\ at[d] = "send"
        /\ safe
        /\ \E took, confirms \in BOOLEAN :
              /\ confirms => took
              /\ notices' = [notices EXCEPT
                                ![k] = Append(@, [number |-> job[d].number, took |-> took])]
              /\ told' = [told EXCEPT ![d] = confirms]
        /\ at' = [at EXCEPT ![d] = "finish"]
        /\ UNCHANGED <<deliveries, job>>

\* finish_delivery: a result is written over PENDING only.
Finish(d) ==
    LET k == job[d].key
        n == job[d].number
    IN  /\ at[d] = "finish"
        /\ IF deliveries[k][n] = "PENDING"
           THEN deliveries' = [deliveries EXCEPT
                                  ![k][n] = IF told[d] THEN "SUCCEEDED" ELSE "FAILED"]
           ELSE UNCHANGED deliveries
        /\ Leave(d)
        /\ UNCHANGED notices

CourierCrash(d) ==
    /\ at[d] # "idle"
    /\ Leave(d)
    /\ UNCHANGED ledger

DeliveryInit ==
    /\ Init
    /\ deliveries = [k \in Keys |-> <<>>]
    /\ notices = [k \in Keys |-> <<>>]
    /\ at = [d \in Couriers |-> "idle"]
    /\ job = [d \in Couriers |-> None]
    /\ told = [d \in Couriers |-> FALSE]

DeliveryNext ==
    \/ Next /\ UNCHANGED dvars
    \/ /\ \E d \in Couriers :
             \/ \E k \in Keys : Deliver(d, k)
             \/ HoldBack(d) \/ Send(d) \/ Finish(d) \/ CourierCrash(d)
       /\ UNCHANGED vars

DeliverySpec == DeliveryInit /\ [][DeliveryNext]_<<vars, dvars>>

\* Couriers owe nobody progress; the calls, operators and customers of Orders do.
FairDeliverySpec == DeliverySpec /\ CallFairness /\ RecoveryFairness /\ RetryFairness

-----------------------------------------------------------------------------

DeliveryTypeOK ==
    /\ deliveries \in [Keys -> Seq(DeliveryState)]
    /\ \A k \in Keys : \A i \in DOMAIN notices[k] :
          notices[k][i] \in [number : 1..MaxDeliveries, took : BOOLEAN]
    /\ at \in [Couriers -> {"idle", "send", "finish"}]
    /\ job \in [Couriers -> Jobs \cup {None}]
    /\ told \in [Couriers -> BOOLEAN]

\* Whatever couriers race or crash, no delivery key reaches the sink twice: a
\* crashed attempt is abandoned, and the next deliver takes a fresh number.
DeliveryKeyIsSentOnce ==
    \A k \in Keys : \A i, j \in DOMAIN notices[k] :
        notices[k][i].number = notices[k][j].number => i = j

\* Nobody is notified of an order the supplier does not owe.
NoticeMeansOwed == \A k \in Keys : notices[k] # <<>> => owed[k]

\* An attempt recorded as SUCCEEDED is one whose own notice the sink has taken: no courier
\* records its answer on the attempt of another.
DeliveredIsTaken ==
    \A k \in Keys : \A n \in DOMAIN deliveries[k] :
        deliveries[k][n] = "SUCCEEDED" =>
            \E i \in DOMAIN notices[k] : notices[k][i].number = n /\ notices[k][i].took

=============================================================================
