---------------------------- MODULE OrdersProofs ----------------------------
(***************************************************************************)
(* Proofs about Orders and OrderDelivery, for any number of calls, keys,   *)
(* requests, offers, suppliers, couriers and attempts to deliver.          *)
(***************************************************************************)
EXTENDS OrderDelivery, SequenceTheorems, TLAPS

\* A payload made from the draft of a call is a payload.
LEMMA PayloadType == \A d \in Drafts : PayloadOf(d) \in Payloads
  BY DEF Payloads

LEMMA PlacesDistinct ==
  /\ Placing \subseteq Places /\ Dispatching \subseteq Places /\ Recovering \subseteq Places
  /\ Placing \cap Dispatching = {} /\ Placing \cap Recovering = {}
  /\ Dispatching \cap Recovering = {}
  /\ "idle" \notin Placing \cup Dispatching \cup Recovering
  BY DEF Placing, Dispatching, Recovering, Places

-----------------------------------------------------------------------------

LEMMA TypeInit == Init => TypeOK
  BY EvidenceAssumption, PlacesDistinct
  DEF Init, TypeOK, Places, Placing, Answers, Unclear

LEMMA TypeStep == TypeOK /\ [Next]_vars => TypeOK'
<1> SUFFICES ASSUME TypeOK, [Next]_vars
             PROVE  TypeOK'
  OBVIOUS
<1> USE EvidenceAssumption DEF TypeOK
<1>1. ASSUME NEW c \in Calls, NEW k \in Keys, NEW r \in Requests, PlaceOrder(c, k, r)
      PROVE  TypeOK'
  BY <1>1 DEF PlaceOrder, Enter, Catalogs, Drafts, Places, Placing, store, supplier
<1>2. ASSUME NEW c \in Calls, NEW k \in Keys, Recover(c, k)
      PROVE  TypeOK'
  BY <1>2 DEF Recover, Enter, Places, Placing, Recovering, store, supplier
<1>3. ASSUME NEW c \in Calls, Crash(c)
      PROVE  TypeOK'
  BY <1>3 DEF Crash, Return, Answers, Unclear, Places, Placing, store, supplier
<1>4. ASSUME NEW c \in Calls, ReadDetail(c)
      PROVE  TypeOK'
  BY <1>4 DEF ReadDetail, Goto, Return, Answers, Unclear, Places, Placing, store, supplier
<1>5. ASSUME NEW c \in Calls, Prepare(c)
      PROVE  TypeOK'
  BY <1>5, PayloadType
  DEF Prepare, InsertPrepared, Goto, Return, Answers, Unclear, Places, Placing,
      PurchaseState, store, supplier
<1>6. ASSUME NEW c \in Calls, Claim(c)
      PROVE  TypeOK'
  BY <1>6 DEF Claim, SetPurchaseState, Goto, Return, Answers, Unclear, Places, Placing,
              Dispatching, PurchaseState, store, supplier
<1>7. ASSUME NEW c \in Calls, WithdrawDispatch(c)
      PROVE  TypeOK'
  BY <1>7 DEF WithdrawDispatch, Return, Answers, Unclear, Places, Placing, store, supplier
<1>8. ASSUME NEW c \in Calls, Purchase(c)
      PROVE  TypeOK'
  BY <1>8 DEF Purchase, Hear, Answers, Unclear, Places, Placing, Dispatching, store
<1>9. ASSUME NEW c \in Calls, RecordPurchase(c)
      PROVE  TypeOK'
  BY <1>9 DEF RecordPurchase, RecordTerminal, RecordUnknown, SetPurchaseState, Return,
              Answers, Unclear, Places, Placing, PurchaseState, store, supplier
<1>10. ASSUME NEW c \in Calls, MarkUnknown(c)
       PROVE  TypeOK'
  BY <1>10 DEF MarkUnknown, RecordUnknown, SetPurchaseState, Goto, Return, Answers, Unclear,
               Places, Placing, Recovering, PurchaseState, store, supplier
<1>11. ASSUME NEW c \in Calls, BeginReconciliation(c)
       PROVE  TypeOK'
  BY <1>11 DEF BeginReconciliation, SetPurchaseState, Goto, Return, Answers, Unclear,
               Places, Placing, Recovering, PurchaseState, store, supplier
<1>12. ASSUME NEW c \in Calls, Reconcile(c)
       PROVE  TypeOK'
  BY <1>12 DEF Reconcile, Hear, Return, Evidence, Answers, Unclear, Places, Placing,
               Recovering, store, supplier
<1>13. ASSUME NEW c \in Calls, RecordVerdict(c)
       PROVE  TypeOK'
  <2>1. answer[c] \in Evidence \/ answer[c] = None
    BY <1>13 DEF Answers, Unclear
  <2> QED
    BY <1>13, <2>1 DEF RecordVerdict, RecordTerminal, SetPurchaseState, Return,
               Answers, Unclear, Places, Placing, PurchaseState, store, supplier
<1>14. CASE CatalogChanges
  BY <1>14 DEF CatalogChanges, store, supplier, locals
<1>15. CASE RuntimeFlips
  BY <1>15 DEF RuntimeFlips, store, supplier, locals
<1>16. CASE UNCHANGED vars
  BY <1>16 DEF vars, store, supplier, locals
<1> QED
  BY <1>1, <1>2, <1>3, <1>4, <1>5, <1>6, <1>7, <1>8, <1>9, <1>10, <1>11, <1>12, <1>13,
     <1>14, <1>15, <1>16
  DEF Next, Start, Step

\* Every variable keeps its type, whatever the calls do.
THEOREM TypeCorrect == Spec => []TypeOK
  BY TypeInit, TypeStep, PTL DEF Spec

-----------------------------------------------------------------------------
(* Strengthening for the properties that hold under any use of recover. *)

\* At most one call at a time has the authority to purchase an order.
OneDispatcher ==
    \A c, d \in Calls :
        pc[c] \in Dispatching /\ pc[d] \in Dispatching /\ key[c] = key[d] => c = d

\* Nobody has that authority before the claim, and nothing was asked or is owed.
NothingBeforeClaim ==
    \A k \in Keys : state[k] \in {"ABSENT", "PREPARED"} => purchases[k] = 0 /\ ~BeingDispatched(k)

\* The authority is unused until the supplier is called.
AuthorityIsUnused == \A c \in Calls : pc[c] = "purchase" => purchases[key[c]] = 0

\* A success a call has heard of, and not recorded yet, is one that is owed.
SuccessHeardIsOwed ==
    \A c \in Calls :
        pc[c] \in {"record", "verdict"} /\ answer[c] \in References => owed[key[c]]

OrdersInv ==
    /\ TypeOK
    /\ AtMostOnePurchase
    /\ SucceededIsOwed
    /\ OneDispatcher
    /\ NothingBeforeClaim
    /\ AuthorityIsUnused
    /\ SuccessHeardIsOwed

LEMMA OrdersInvInit == Init => OrdersInv
<1> SUFFICES ASSUME Init PROVE OrdersInv
  OBVIOUS
<1>1. TypeOK
  BY TypeInit
<1> QED
  BY <1>1 DEF Init, OrdersInv, AtMostOnePurchase, SucceededIsOwed, OneDispatcher,
     NothingBeforeClaim, AuthorityIsUnused, SuccessHeardIsOwed, BeingDispatched, Dispatching

LEMMA OrdersInvStep == OrdersInv /\ [Next]_vars => OrdersInv'
<1> SUFFICES ASSUME OrdersInv, [Next]_vars
             PROVE  OrdersInv'
  OBVIOUS
<1>0. TypeOK'
  BY TypeStep DEF OrdersInv
<1> USE EvidenceAssumption, <1>0
    DEF OrdersInv, TypeOK, AtMostOnePurchase, SucceededIsOwed, OneDispatcher,
        NothingBeforeClaim, AuthorityIsUnused, SuccessHeardIsOwed, BeingDispatched, Dispatching
<1>1. ASSUME NEW c \in Calls, NEW k \in Keys, NEW r \in Requests, PlaceOrder(c, k, r)
      PROVE  OrdersInv'
  BY <1>1 DEF PlaceOrder, Enter, store, supplier
<1>2. ASSUME NEW c \in Calls, NEW k \in Keys, Recover(c, k)
      PROVE  OrdersInv'
  BY <1>2 DEF Recover, Enter, store, supplier
<1>3. ASSUME NEW c \in Calls, Crash(c)
      PROVE  OrdersInv'
  BY <1>3 DEF Crash, Return, store, supplier
<1>4. ASSUME NEW c \in Calls, ReadDetail(c)
      PROVE  OrdersInv'
  BY <1>4 DEF ReadDetail, Goto, Return, store, supplier
<1>5. ASSUME NEW c \in Calls, Prepare(c)
      PROVE  OrdersInv'
  BY <1>5 DEF Prepare, InsertPrepared, Goto, Return, store, supplier
<1>6. ASSUME NEW c \in Calls, Claim(c)
      PROVE  OrdersInv'
  BY <1>6 DEF Claim, SetPurchaseState, Goto, Return, store, supplier
<1>7. ASSUME NEW c \in Calls, WithdrawDispatch(c)
      PROVE  OrdersInv'
  BY <1>7 DEF WithdrawDispatch, Return, store, supplier
<1>8. ASSUME NEW c \in Calls, Purchase(c)
      PROVE  OrdersInv'
  BY <1>8 DEF Purchase, Hear, store
<1>9. ASSUME NEW c \in Calls, RecordPurchase(c)
      PROVE  OrdersInv'
  BY <1>9 DEF RecordPurchase, RecordTerminal, RecordUnknown, SetPurchaseState, Return,
              Evidence, store, supplier
<1>10. ASSUME NEW c \in Calls, MarkUnknown(c)
       PROVE  OrdersInv'
  BY <1>10 DEF MarkUnknown, RecordUnknown, SetPurchaseState, Goto, Return, store, supplier
<1>11. ASSUME NEW c \in Calls, BeginReconciliation(c)
       PROVE  OrdersInv'
  BY <1>11 DEF BeginReconciliation, SetPurchaseState, Goto, Return, store, supplier
<1>12. ASSUME NEW c \in Calls, Reconcile(c)
       PROVE  OrdersInv'
  BY <1>12 DEF Reconcile, Hear, Return, Evidence, store, supplier
<1>13. ASSUME NEW c \in Calls, RecordVerdict(c)
       PROVE  OrdersInv'
  BY <1>13 DEF RecordVerdict, RecordTerminal, SetPurchaseState, Return, store, supplier
<1>14. CASE CatalogChanges
  BY <1>14 DEF CatalogChanges, store, supplier, locals
<1>15. CASE RuntimeFlips
  BY <1>15 DEF RuntimeFlips, store, supplier, locals
<1>16. CASE UNCHANGED vars
  BY <1>16 DEF vars, store, supplier, locals
<1> QED
  BY <1>1, <1>2, <1>3, <1>4, <1>5, <1>6, <1>7, <1>8, <1>9, <1>10, <1>11, <1>12, <1>13,
     <1>14, <1>15, <1>16
  DEF Next, Start, Step

THEOREM OrdersInvariant == Spec => []OrdersInv
  BY OrdersInvInit, OrdersInvStep, PTL DEF Spec

\* Whatever races, crashes and retries there are, one key never leads to two
\* purchases at the supplier.
THEOREM PurchasedAtMostOnce == Spec => []AtMostOnePurchase
<1>1. OrdersInv => AtMostOnePurchase
  BY DEF OrdersInv
<1> QED
  BY <1>1, OrdersInvariant, PTL

\* No order is recorded as SUCCEEDED that the supplier does not owe.
THEOREM SucceededOrdersAreOwed == Spec => []SucceededIsOwed
<1>1. OrdersInv => SucceededIsOwed
  BY DEF OrdersInv
<1> QED
  BY <1>1, OrdersInvariant, PTL

-----------------------------------------------------------------------------
(* Strengthening for the properties that need operators to leave an order  *)
(* alone while a live call is dispatching it.                              *)

\* A dispatcher's order is DISPATCHING until that dispatcher records.
DispatcherOwnsRow == \A c \in Calls : pc[c] \in Dispatching => state[key[c]] = "DISPATCHING"

\* Recovery and dispatch of one order exclude each other, because nothing makes an
\* order that was once claimed PREPARED again.
RecoveryIsAlone ==
    \A c \in Calls : pc[c] \in Recovering =>
        state[key[c]] \notin {"ABSENT", "PREPARED"} /\ ~BeingDispatched(key[c])

\* A failure a call has heard of, and not recorded yet, is one of an order not owed.
FailureHeardIsNotOwed ==
    \A c \in Calls :
        pc[c] \in {"record", "verdict"} /\ answer[c] \in FailureCodes => ~owed[key[c]]

\* A verdict is evidence.
VerdictIsEvidence == \A c \in Calls : pc[c] = "verdict" => answer[c] \in Evidence

\* A row has evidence exactly when it is final, and a payload once it exists.
RowIsCoherent ==
    \A k \in Keys : /\ evidence[k] = None <=> state[k] \notin Final
                    /\ payload[k] = None <=> state[k] = "ABSENT"

\* An obligation comes from a purchase.
OwedWasPurchased == \A k \in Keys : owed[k] => purchases[k] # 0

SupervisedInv ==
    /\ OrdersInv
    /\ DispatcherOwnsRow
    /\ RecoveryIsAlone
    /\ FailureHeardIsNotOwed
    /\ VerdictIsEvidence
    /\ RowIsCoherent
    /\ OwedWasPurchased
    /\ FailedSafeIsNotOwed

LEMMA SupervisedInvInit == Init => SupervisedInv
<1> SUFFICES ASSUME Init PROVE SupervisedInv
  OBVIOUS
<1>1. OrdersInv
  BY OrdersInvInit
<1> QED
  BY <1>1 DEF Init, SupervisedInv, DispatcherOwnsRow, RecoveryIsAlone, FailureHeardIsNotOwed,
     VerdictIsEvidence, RowIsCoherent, OwedWasPurchased, FailedSafeIsNotOwed,
     BeingDispatched, Dispatching, Recovering, Final

LEMMA SupervisedInvStep ==
  ASSUME LiveRecovery = FALSE
  PROVE  SupervisedInv /\ [Next]_vars => SupervisedInv'
<1> SUFFICES ASSUME SupervisedInv, [Next]_vars
             PROVE  SupervisedInv'
  OBVIOUS
<1>0. OrdersInv'
  BY OrdersInvStep DEF SupervisedInv
<1> USE EvidenceAssumption, AbsentAssumption, PayloadType, <1>0
    DEF SupervisedInv, OrdersInv, TypeOK, OneDispatcher, NothingBeforeClaim,
        DispatcherOwnsRow, RecoveryIsAlone, FailureHeardIsNotOwed, VerdictIsEvidence,
        RowIsCoherent, OwedWasPurchased, FailedSafeIsNotOwed,
        BeingDispatched, Dispatching, Recovering, Final
<1>1. ASSUME NEW c \in Calls, NEW k \in Keys, NEW r \in Requests, PlaceOrder(c, k, r)
      PROVE  SupervisedInv'
  BY <1>1 DEF PlaceOrder, Enter, store, supplier
<1>2. ASSUME NEW c \in Calls, NEW k \in Keys, Recover(c, k)
      PROVE  SupervisedInv'
  BY <1>2 DEF Recover, Enter, store, supplier
<1>3. ASSUME NEW c \in Calls, Crash(c)
      PROVE  SupervisedInv'
  BY <1>3 DEF Crash, Return, store, supplier
<1>4. ASSUME NEW c \in Calls, ReadDetail(c)
      PROVE  SupervisedInv'
  BY <1>4 DEF ReadDetail, Goto, Return, store, supplier
<1>5. ASSUME NEW c \in Calls, Prepare(c)
      PROVE  SupervisedInv'
  BY <1>5 DEF Prepare, InsertPrepared, Placing, Goto, Return, store, supplier
<1>6. ASSUME NEW c \in Calls, Claim(c)
      PROVE  SupervisedInv'
  BY <1>6 DEF Claim, SetPurchaseState, Goto, Return, store, supplier
<1>7. ASSUME NEW c \in Calls, WithdrawDispatch(c)
      PROVE  SupervisedInv'
  BY <1>7 DEF WithdrawDispatch, Return, store, supplier
<1>8. ASSUME NEW c \in Calls, Purchase(c)
      PROVE  SupervisedInv'
  BY <1>8 DEF Purchase, Hear, store
<1>9. ASSUME NEW c \in Calls, RecordPurchase(c)
      PROVE  SupervisedInv'
  BY <1>9 DEF RecordPurchase, RecordTerminal, RecordUnknown, SetPurchaseState, Return,
              Evidence, store, supplier
<1>10. ASSUME NEW c \in Calls, MarkUnknown(c)
      PROVE  SupervisedInv'
  BY <1>10 DEF MarkUnknown, RecordUnknown, SetPurchaseState, Goto, Return, store, supplier
<1>11. ASSUME NEW c \in Calls, BeginReconciliation(c)
      PROVE  SupervisedInv'
  BY <1>11 DEF BeginReconciliation, SetPurchaseState, Goto, Return, store, supplier
<1>12. ASSUME NEW c \in Calls, Reconcile(c)
      PROVE  SupervisedInv'
  BY <1>12 DEF Reconcile, Hear, Return, Evidence, store, supplier
<1>13. ASSUME NEW c \in Calls, RecordVerdict(c)
      PROVE  SupervisedInv'
  BY <1>13 DEF RecordVerdict, RecordTerminal, Evidence, SetPurchaseState, Return, store, supplier
<1>14. CASE CatalogChanges
  BY <1>14 DEF CatalogChanges, store, supplier, locals
<1>15. CASE RuntimeFlips
  BY <1>15 DEF RuntimeFlips, store, supplier, locals
<1>16. CASE UNCHANGED vars
  BY <1>16 DEF vars, store, supplier, locals
<1> QED
  BY <1>1, <1>2, <1>3, <1>4, <1>5, <1>6, <1>7, <1>8, <1>9, <1>10, <1>11, <1>12, <1>13, <1>14, <1>15, <1>16
  DEF Next, Start, Step

\* When operators leave orders alone that are being dispatched, no order shown as
\* FAILED_SAFE is one the supplier holds an obligation for.
THEOREM FailedSafeOrdersAreNotOwed ==
  ASSUME LiveRecovery = FALSE
  PROVE  Spec => []FailedSafeIsNotOwed
<1>1. SupervisedInv /\ [Next]_vars => SupervisedInv'
  BY SupervisedInvStep
<1>2. SupervisedInv => FailedSafeIsNotOwed
  BY DEF SupervisedInv
<1> QED
  BY <1>1, <1>2, SupervisedInvInit, PTL DEF Spec

\* Under the same discipline a dispatcher that comes back with evidence records it
\* (_dispatch_once): no recovery has meanwhile moved its order elsewhere.
THEOREM DispatchersRecordTheirEvidence ==
  ASSUME LiveRecovery = FALSE
  PROVE  Spec => EvidenceIsRecorded
<1> DEFINE Recorded == \A c \in Calls :
                          RecordPurchase(c) /\ answer[c] \in Evidence => evidence'[key[c]] = answer[c]
<1>1. SupervisedInv => Recorded
  <2> SUFFICES ASSUME SupervisedInv, NEW c \in Calls, RecordPurchase(c), answer[c] \in Evidence
               PROVE  evidence'[key[c]] = answer[c]
    OBVIOUS
  <2>1. pc[c] \in Dispatching /\ key[c] \in Keys /\ evidence \in [Keys -> Evidence \cup {None}]
    BY DEF RecordPurchase, Dispatching, SupervisedInv, OrdersInv, TypeOK
  <2>2. state[key[c]] = "DISPATCHING"
    BY <2>1 DEF SupervisedInv, DispatcherOwnsRow
  <2> QED
    BY <2>1, <2>2 DEF RecordPurchase, RecordTerminal, SetPurchaseState
<1>2. SupervisedInv /\ [Next]_vars => SupervisedInv'
  BY SupervisedInvStep
<1>3. SupervisedInv => [Recorded]_vars
  BY <1>1
<1> QED
  BY <1>2, <1>3, SupervisedInvInit, PTL DEF Spec, EvidenceIsRecorded

-----------------------------------------------------------------------------
(* The implementation of Promise. *)

LEMMA PromiseInit == Init => PromiseOfOrders!Init
  BY DEF Init, PromiseOfOrders!Init

LEMMA PromiseStep ==
  SupervisedInv /\ [Next]_vars => [PromiseOfOrders!Next]_(PromiseOfOrders!vars)
<1> DEFINE Moves == [PromiseOfOrders!Next]_(PromiseOfOrders!vars)
<1> SUFFICES ASSUME SupervisedInv, [Next]_vars
             PROVE  Moves
  OBVIOUS
<1>a. ASSUME UNCHANGED <<payload, purchases, owed, evidence>>
      PROVE  Moves
  BY <1>a DEF PromiseOfOrders!vars
<1> USE EvidenceAssumption, PayloadType, <1>a
    DEF SupervisedInv, OrdersInv, TypeOK, RowIsCoherent, Final
<1>b. ASSUME NEW k \in Keys, evidence[k] = None, NEW s, SetPurchaseState(k, s, None),
             UNCHANGED supplier
      PROVE  Moves
  BY <1>b DEF SetPurchaseState, supplier
<1>c. ASSUME NEW k \in Keys, NEW e \in Evidence, RecordTerminal(k, e), UNCHANGED supplier,
             state[k] # "ABSENT", e \in References <=> owed[k]
      PROVE  Moves
  <2>1. CASE state[k] \in {"DISPATCHING", "RECONCILING"}
    <3>1. e \in IF owed[k] THEN References ELSE FailureCodes
      BY <1>c DEF Evidence
    <3>2. PromiseOfOrders!Settle(k)
      BY <1>c, <2>1, <3>1
      DEF RecordTerminal, SetPurchaseState, supplier, PromiseOfOrders!Settle
    <3> QED
      BY <3>2 DEF PromiseOfOrders!Next
  <2>2. CASE state[k] \notin {"DISPATCHING", "RECONCILING"}
    BY <1>c, <2>2 DEF RecordTerminal, store, supplier
  <2> QED
    BY <2>1, <2>2
<1>d. ASSUME NEW k \in Keys, RecordUnknown(k), UNCHANGED supplier
      PROVE  Moves
  BY <1>b, <1>d DEF RecordUnknown, store, supplier
<1>1. ASSUME NEW c \in Calls, Start(c) \/ Crash(c) \/ ReadDetail(c) \/ WithdrawDispatch(c)
                                \/ Reconcile(c)
      PROVE  Moves
  BY <1>1 DEF Start, PlaceOrder, Recover, Crash, ReadDetail, WithdrawDispatch, Reconcile,
              store, supplier
<1>2. ASSUME NEW c \in Calls, Prepare(c)
      PROVE  Moves
  <2>1. CASE state[key[c]] = "ABSENT"
    <3>1. PromiseOfOrders!Accept(key[c])
      BY <1>2, <2>1 DEF Prepare, InsertPrepared, Placing, supplier, PromiseOfOrders!Accept
    <3> QED
      BY <1>2, <3>1 DEF Prepare, PromiseOfOrders!Next
  <2>2. CASE state[key[c]] # "ABSENT"
    BY <1>2, <2>2 DEF Prepare, store, supplier
  <2> QED
    BY <2>1, <2>2
<1>3. ASSUME NEW c \in Calls, Claim(c)
      PROVE  Moves
  BY <1>3, <1>b DEF Claim, store, supplier
<1>4. ASSUME NEW c \in Calls, Purchase(c)
      PROVE  Moves
  <2>1. /\ key[c] \in Keys
        /\ payload[key[c]] # None /\ evidence[key[c]] = None /\ purchases[key[c]] = 0
    BY <1>4 DEF Purchase, AuthorityIsUnused, DispatcherOwnsRow, Dispatching
  <2>2. purchases' = [purchases EXCEPT ![key[c]] = 1]
    BY <1>4, <2>1 DEF Purchase
  <2>3. \E holds \in BOOLEAN : owed' = [owed EXCEPT ![key[c]] = holds]
    BY <1>4 DEF Purchase
  <2>4. PromiseOfOrders!Attempt(key[c])
    BY <1>4, <2>1, <2>2, <2>3 DEF Purchase, store, PromiseOfOrders!Attempt
  <2> QED
    BY <2>1, <2>4 DEF PromiseOfOrders!Next
<1>5. ASSUME NEW c \in Calls, RecordPurchase(c)
      PROVE  Moves
  <2>1. CASE answer[c] \in Evidence
    BY <1>5, <2>1, <1>c
    DEF RecordPurchase, Evidence, DispatcherOwnsRow, Dispatching, SuccessHeardIsOwed,
        FailureHeardIsNotOwed
  <2>2. CASE answer[c] \notin Evidence
    BY <1>5, <2>2, <1>d DEF RecordPurchase
  <2> QED
    BY <2>1, <2>2
<1>6. ASSUME NEW c \in Calls, MarkUnknown(c)
      PROVE  Moves
  BY <1>6, <1>d DEF MarkUnknown
<1>7. ASSUME NEW c \in Calls, BeginReconciliation(c)
      PROVE  Moves
  BY <1>7, <1>b DEF BeginReconciliation, store, supplier
<1>8. ASSUME NEW c \in Calls, RecordVerdict(c)
      PROVE  Moves
  BY <1>8, <1>c
  DEF RecordVerdict, Evidence, VerdictIsEvidence, RecoveryIsAlone, Recovering,
      SuccessHeardIsOwed, FailureHeardIsNotOwed
<1>9. CASE CatalogChanges \/ RuntimeFlips \/ UNCHANGED vars
  BY <1>9 DEF CatalogChanges, RuntimeFlips, vars, store, supplier
<1> QED
  BY <1>1, <1>2, <1>3, <1>4, <1>5, <1>6, <1>7, <1>8, <1>9 DEF Next, Step

\* When operators leave orders alone that are being dispatched, the service keeps
\* the promise its callers rely on.
THEOREM OrdersKeepPromise ==
  ASSUME LiveRecovery = FALSE
  PROVE  Spec => KeepsPromise
<1>1. SupervisedInv /\ [Next]_vars => SupervisedInv'
  BY SupervisedInvStep
<1> QED
  BY <1>1, SupervisedInvInit, PromiseInit, PromiseStep, PTL
  DEF Spec, KeepsPromise, PromiseOfOrders!Spec

-----------------------------------------------------------------------------
(* The payload a call purchases is its own caller's. *)

CallerInv ==
    /\ TypeOK
    /\ \A c \in Calls : pc[c] \in {"prepare", "claim", "purchase"} =>
          draft[c] \in Drafts /\ draft[c].offer.price <= draft[c].request.cap
    /\ \A c \in Calls : pc[c] \in {"claim", "purchase"} =>
          state[key[c]] # "ABSENT" /\ payload[key[c]] = PayloadOf(draft[c])

LEMMA CallerInvStep == CallerInv /\ [Next]_vars => CallerInv'
<1> SUFFICES ASSUME CallerInv, [Next]_vars
             PROVE  CallerInv'
  OBVIOUS
<1>0. TypeOK'
  BY TypeStep DEF CallerInv
<1> USE EvidenceAssumption, <1>0 DEF CallerInv, TypeOK, Placing
<1>1. ASSUME NEW c \in Calls, NEW k \in Keys, NEW r \in Requests, PlaceOrder(c, k, r)
      PROVE  CallerInv'
  BY <1>1 DEF PlaceOrder, Enter, store, supplier
<1>2. ASSUME NEW c \in Calls, NEW k \in Keys, Recover(c, k)
      PROVE  CallerInv'
  BY <1>2 DEF Recover, Enter, store, supplier
<1>3. ASSUME NEW c \in Calls, Crash(c)
      PROVE  CallerInv'
  BY <1>3 DEF Crash, Return, store, supplier
<1>4. ASSUME NEW c \in Calls, ReadDetail(c)
      PROVE  CallerInv'
  BY <1>4 DEF ReadDetail, Acceptable, Goto, Return, store, supplier
<1>5. ASSUME NEW c \in Calls, Prepare(c)
      PROVE  CallerInv'
  BY <1>5 DEF Prepare, InsertPrepared, Goto, Return, store, supplier
<1>6. ASSUME NEW c \in Calls, Claim(c)
      PROVE  CallerInv'
  BY <1>6 DEF Claim, SetPurchaseState, Goto, Return, store, supplier
<1>7. ASSUME NEW c \in Calls, WithdrawDispatch(c)
      PROVE  CallerInv'
  BY <1>7 DEF WithdrawDispatch, Return, store, supplier
<1>8. ASSUME NEW c \in Calls, Purchase(c)
      PROVE  CallerInv'
  BY <1>8 DEF Purchase, Hear, store
<1>9. ASSUME NEW c \in Calls, RecordPurchase(c)
      PROVE  CallerInv'
  BY <1>9 DEF RecordPurchase, RecordTerminal, RecordUnknown, SetPurchaseState, Return,
              store, supplier
<1>10. ASSUME NEW c \in Calls, MarkUnknown(c)
      PROVE  CallerInv'
  BY <1>10 DEF MarkUnknown, RecordUnknown, SetPurchaseState, Goto, Return, store, supplier
<1>11. ASSUME NEW c \in Calls, BeginReconciliation(c)
      PROVE  CallerInv'
  BY <1>11 DEF BeginReconciliation, SetPurchaseState, Goto, Return, store, supplier
<1>12. ASSUME NEW c \in Calls, Reconcile(c)
      PROVE  CallerInv'
  BY <1>12 DEF Reconcile, Hear, Return, store, supplier
<1>13. ASSUME NEW c \in Calls, RecordVerdict(c)
      PROVE  CallerInv'
  BY <1>13 DEF RecordVerdict, RecordTerminal, SetPurchaseState, Return, store, supplier
<1>14. CASE CatalogChanges
  BY <1>14 DEF CatalogChanges, store, supplier, locals
<1>15. CASE RuntimeFlips
  BY <1>15 DEF RuntimeFlips, store, supplier, locals
<1>16. CASE UNCHANGED vars
  BY <1>16 DEF vars, store, supplier, locals
<1> QED
  BY <1>1, <1>2, <1>3, <1>4, <1>5, <1>6, <1>7, <1>8, <1>9, <1>10, <1>11, <1>12, <1>13, <1>14, <1>15, <1>16
  DEF Next, Start, Step

\* No call purchases for another caller's request, or above its own caller's cap.
THEOREM PurchasesAreTheCallers == Spec => []PurchaseIsTheCallersRequest
<1>1. Init => CallerInv
  BY TypeInit DEF Init, CallerInv
<1>2. CallerInv => PurchaseIsTheCallersRequest
  <2> SUFFICES ASSUME CallerInv, NEW c \in Calls, pc[c] = "purchase"
               PROVE  /\ payload[key[c]].request = draft[c].request
                      /\ payload[key[c]].price <= draft[c].request.cap
    BY DEF PurchaseIsTheCallersRequest
  <2>1. payload[key[c]] = PayloadOf(draft[c])
    BY DEF CallerInv
  <2>2. /\ PayloadOf(draft[c]).request = draft[c].request
        /\ PayloadOf(draft[c]).price = draft[c].offer.price
    BY DEF PayloadOf
  <2>3. draft[c].offer.price <= draft[c].request.cap
    BY DEF CallerInv
  <2> QED
    BY <2>1, <2>2, <2>3
<1> QED
  BY <1>1, <1>2, CallerInvStep, PTL DEF Spec

-----------------------------------------------------------------------------
(* Delivery *)

\* A behaviour with couriers is one of the order service: they only read its tables.
LEMMA DeliveryKeepsOrders == DeliverySpec => Spec
<1>1. DeliveryInit => Init
  BY DEF DeliveryInit
<1>2. [DeliveryNext]_<<vars, dvars>> => [Next]_vars
  BY DEF DeliveryNext
<1> QED
  BY <1>1, <1>2, PTL DEF DeliverySpec, Spec

\* A courier that is not idle works on an attempt that has its row.
CouriersAreEmployed ==
    \A d \in Couriers : at[d] # "idle" =>
        job[d] \in Jobs /\ job[d].number \in 1..Len(deliveries[job[d].key])

\* The sink has only seen attempts that have their row.
NoticesAreOfAttempts ==
    \A k \in Keys : \A i \in DOMAIN notices[k] : notices[k][i].number \in 1..Len(deliveries[k])

\* The attempt of a courier that is about to send is its own, and the sink has not seen it.
SendersAreFirst ==
    /\ \A d \in Couriers : at[d] = "send" =>
          \A i \in DOMAIN notices[job[d].key] : notices[job[d].key][i].number # job[d].number
    /\ \A d, e \in Couriers :
          at[d] = "send" /\ at[e] = "send" /\ job[d] = job[e] => d = e

Notices == [number : 1..MaxDeliveries, took : BOOLEAN]

DeliveryTypes ==
    /\ DeliveryTypeOK
    /\ notices \in [Keys -> Seq(Notices)]
    /\ \A k \in Keys : Len(deliveries[k]) <= MaxDeliveries
    /\ CouriersAreEmployed

DeliveryInv ==
    /\ DeliveryTypes
    /\ NoticesAreOfAttempts /\ SendersAreFirst /\ DeliveryKeyIsSentOnce

LEMMA DeliveryInvInit == DeliveryInit => DeliveryInv
  BY DeliveryAssumption
  DEF DeliveryInit, DeliveryInv, DeliveryTypes, DeliveryTypeOK, CouriersAreEmployed,
      NoticesAreOfAttempts, SendersAreFirst, DeliveryKeyIsSentOnce, Notices

LEMMA DeliveryInvStep == DeliveryInv /\ [DeliveryNext]_<<vars, dvars>> => DeliveryInv'
<1> SUFFICES ASSUME DeliveryInv, [DeliveryNext]_<<vars, dvars>>
             PROVE  DeliveryInv'
  OBVIOUS
<1> USE DeliveryAssumption
    DEF DeliveryInv, DeliveryTypes, DeliveryTypeOK, CouriersAreEmployed, NoticesAreOfAttempts,
        SendersAreFirst, DeliveryKeyIsSentOnce, DeliveryState
<1>1. ASSUME NEW d \in Couriers, NEW k \in Keys, Deliver(d, k)
      PROVE  DeliveryInv'
  <2> DEFINE n == Len(deliveries[k]) + 1
  <2>1. /\ deliveries' = [deliveries EXCEPT ![k] = Append(deliveries[k], "PENDING")]
        /\ deliveries'[k] \in Seq(DeliveryState) /\ Len(deliveries'[k]) = n
        /\ n \in 1..MaxDeliveries
    BY <1>1 DEF Deliver
  <2>2. [key |-> k, number |-> n] \in Jobs
    BY <2>1 DEF Jobs
  <2>3. /\ job' = [job EXCEPT ![d] = [key |-> k, number |-> n]]
        /\ at' = [at EXCEPT ![d] = "send"]
        /\ UNCHANGED <<notices, told>>
    BY <1>1, <2>1 DEF Deliver
  <2>4. \A l \in Keys : Len(deliveries'[l]) \in Nat /\ Len(deliveries[l]) <= Len(deliveries'[l])
    BY <2>1
  <2>5. \A e \in Couriers : at[e] = "send" => job[e] # [key |-> k, number |-> n]
    BY DEF Jobs
  <2>a. DeliveryTypes'
    BY <2>1, <2>2, <2>3, <2>4 DEF Jobs
  <2>b. NoticesAreOfAttempts'
    BY <2>3, <2>4 DEF Notices
  <2>c. SendersAreFirst'
    <3>1. \A i \in DOMAIN notices[k] : notices[k][i].number # n
      OBVIOUS
    <3> QED
      BY <2>2, <2>3, <2>5, <3>1 DEF Jobs
  <2> QED
    BY <2>3, <2>a, <2>b, <2>c
<1>2. ASSUME NEW d \in Couriers, HoldBack(d)
      PROVE  DeliveryInv'
  BY <1>2 DEF HoldBack, Leave, ledger
<1>3. ASSUME NEW d \in Couriers, Send(d)
      PROVE  DeliveryInv'
  <2>1. PICK k \in Keys, n \in 1..MaxDeliveries : job[d] = [key |-> k, number |-> n]
    BY <1>3 DEF Send, Jobs
  <2>0. job[d].key = k /\ job[d].number = n
    BY <2>1
  <2>2. PICK took, confirms \in BOOLEAN :
          /\ notices' = [notices EXCEPT ![k] = Append(notices[k], [number |-> n, took |-> took])]
          /\ told' = [told EXCEPT ![d] = confirms]
    BY <1>3, <2>0 DEF Send
  <2>3. /\ at[d] = "send" /\ at' = [at EXCEPT ![d] = "finish"]
        /\ UNCHANGED <<deliveries, job>>
    BY <1>3 DEF Send
  <2>4. n \in 1..Len(deliveries[k]) /\ \A i \in DOMAIN notices[k] : notices[k][i].number # n
    BY <2>0, <2>3
  <2> DEFINE notice == [number |-> n, took |-> took]
             next   == Len(notices[k]) + 1
  <2>5. notice \in Notices /\ notice.number = n
    BY DEF Notices
  <2>6. /\ Append(notices[k], notice) \in Seq(Notices)
        /\ DOMAIN Append(notices[k], notice) = DOMAIN notices[k] \cup {next}
        /\ \A i \in DOMAIN notices[k] : Append(notices[k], notice)[i] = notices[k][i]
        /\ Append(notices[k], notice)[next] = notice
    <3> HIDE DEF notice
    <3> QED
      BY <2>5, AppendProperties
  <2>7. /\ notices' \in [Keys -> Seq(Notices)]
        /\ DOMAIN notices'[k] = DOMAIN notices[k] \cup {next}
        /\ \A i \in DOMAIN notices[k] : notices'[k][i] = notices[k][i]
        /\ notices'[k][next].number = n
        /\ \A l \in Keys \ {k} : notices'[l] = notices[l]
    <3> HIDE DEF notice, next
    <3> QED
      BY <2>2, <2>5, <2>6 DEF notice
  <2> HIDE DEF notice, next
  <2>a. DeliveryTypes'
    <3>1. \A l \in Keys : \A i \in DOMAIN notices'[l] : notices'[l][i] \in Notices
      BY <2>7
    <3>2. /\ at' \in [Couriers -> {"idle", "send", "finish"}]
          /\ told' \in [Couriers -> BOOLEAN]
      BY <2>2, <2>3
    <3>3. \A e \in Couriers : at'[e] # "idle" => at[e] # "idle"
      BY <2>3
    <3> QED
      BY <2>3, <2>7, <3>1, <3>2, <3>3 DEF Notices
  <2>8. /\ \A l \in Keys \ {k} : DOMAIN notices'[l] = DOMAIN notices[l]
        /\ \A l \in Keys : \A i \in DOMAIN notices[l] : notices'[l][i] = notices[l][i]
    BY <2>7
  <2>b. NoticesAreOfAttempts'
    <3> SUFFICES ASSUME NEW l \in Keys, NEW i \in DOMAIN notices'[l]
                 PROVE  notices'[l][i].number \in 1..Len(deliveries[l])
      BY <2>3
    <3>1. CASE i \in DOMAIN notices[l]
      BY <3>1, <2>8
    <3>2. CASE l = k /\ i = next
      BY <3>2, <2>4, <2>7
    <3> QED
      BY <3>1, <3>2, <2>7, <2>8
  <2>c. SendersAreFirst'
    <3> SUFFICES ASSUME NEW e \in Couriers, at'[e] = "send"
                 PROVE  /\ at[e] = "send" /\ e # d
                        /\ \A i \in DOMAIN notices'[job[e].key] :
                              notices'[job[e].key][i].number # job[e].number
      BY <2>3
    <3>1. at[e] = "send" /\ e # d
      BY <2>3
    <3>2. job[e] # job[d] /\ job[e] \in Jobs
      BY <2>3, <3>1
    <3>3. job[e].key = k => job[e].number # n
      BY <2>1, <3>2 DEF Jobs
    <3>4. job[e].key \in Keys
      BY <3>2 DEF Jobs
    <3>5. ASSUME NEW i \in DOMAIN notices'[job[e].key]
          PROVE  notices'[job[e].key][i].number # job[e].number
      <4>1. CASE i \in DOMAIN notices[job[e].key]
        BY <4>1, <2>8, <3>1, <3>4
      <4>2. CASE job[e].key = k /\ i = next
        BY <4>2, <2>7, <3>3
      <4> QED
        BY <4>1, <4>2, <2>7, <2>8, <3>4
    <3> QED
      BY <3>1, <3>5
  <2>d. DeliveryKeyIsSentOnce'
    <3> SUFFICES ASSUME NEW l \in Keys, NEW i \in DOMAIN notices'[l], NEW j \in DOMAIN notices'[l],
                        notices'[l][i].number = notices'[l][j].number
                 PROVE  i = j
      OBVIOUS
    <3>1. CASE l = k
      BY <3>1, <2>4, <2>7
    <3>2. CASE l # k
      BY <3>2, <2>7, <2>8
    <3> QED
      BY <3>1, <3>2
  <2> QED
    BY <2>a, <2>b, <2>c, <2>d
<1>4. ASSUME NEW d \in Couriers, Finish(d)
      PROVE  DeliveryInv'
  <2>1. PICK k \in Keys, n \in 1..MaxDeliveries :
            job[d] = [key |-> k, number |-> n] /\ n \in 1..Len(deliveries[k])
    BY <1>4 DEF Finish, Jobs
  <2>2. deliveries' = deliveries \/ \E s \in DeliveryState :
          deliveries' = [deliveries EXCEPT ![k] = [deliveries[k] EXCEPT ![n] = s]]
    BY <1>4, <2>1 DEF Finish
  <2>3. \A s \in DeliveryState :
          LET written == [deliveries[k] EXCEPT ![n] = s]
          IN  written \in Seq(DeliveryState) /\ Len(written) = Len(deliveries[k])
    BY <2>1, ExceptSeq
  <2>4. /\ deliveries' \in [Keys -> Seq(DeliveryState)]
        /\ \A l \in Keys : Len(deliveries'[l]) = Len(deliveries[l])
    BY <2>2, <2>3
  <2>5. /\ at' = [at EXCEPT ![d] = "idle"] /\ job' = [job EXCEPT ![d] = None]
        /\ told' = [told EXCEPT ![d] = FALSE] /\ notices' = notices
    BY <1>4 DEF Finish, Leave
  <2> QED
    BY <2>4, <2>5 DEF Jobs
<1>5. ASSUME NEW d \in Couriers, CourierCrash(d)
      PROVE  DeliveryInv'
  BY <1>5 DEF CourierCrash, Leave, ledger
<1>6. CASE UNCHANGED dvars
  BY <1>6 DEF dvars, ledger, errands
<1> QED
  BY <1>1, <1>2, <1>3, <1>4, <1>5, <1>6 DEF DeliveryNext

LEMMA Delivery == DeliverySpec => []DeliveryInv
  BY DeliveryInvInit, DeliveryInvStep, PTL DEF DeliverySpec

\* Whatever couriers race or crash, the sink sees no delivery key twice.
THEOREM DeliveryKeysAreSentOnce == DeliverySpec => []DeliveryKeyIsSentOnce
<1>1. DeliveryInv => DeliveryKeyIsSentOnce
  BY DEF DeliveryInv
<1> QED
  BY <1>1, Delivery, PTL

\* What the supplier owes it goes on owing.
LEMMA ObligationsStay ==
  ASSUME TypeOK, [Next]_vars, NEW k \in Keys, owed[k]
  PROVE  owed'[k]
<1>1. ASSUME NEW c \in Calls, Purchase(c)
      PROVE  owed'[k]
  BY <1>1 DEF Purchase, TypeOK
<1>2. CASE UNCHANGED owed
  BY <1>2
<1> QED
  BY <1>1, <1>2
  DEF Next, Start, Step, vars, store, supplier, PlaceOrder, Recover, Crash, ReadDetail, Prepare,
      Claim, WithdrawDispatch, RecordPurchase, MarkUnknown, BeginReconciliation, Reconcile,
      RecordVerdict, CatalogChanges, RuntimeFlips, RecordTerminal, RecordUnknown,
      SetPurchaseState, InsertPrepared

\* A courier that is about to send has seen the order succeed.
SendersSawSuccess == \A d \in Couriers : at[d] = "send" => owed[job[d].key]

\* The sink is told only of orders the supplier owes, across crashes of couriers and calls.
THEOREM NoticesAreOfOwedOrders == DeliverySpec => []NoticeMeansOwed
<1> DEFINE Told == SendersSawSuccess /\ NoticeMeansOwed
<1>1. DeliveryInit => Told
  BY DEF DeliveryInit, SendersSawSuccess, NoticeMeansOwed
<1>2. OrdersInv /\ DeliveryInv /\ Told /\ [DeliveryNext]_<<vars, dvars>> => Told'
  <2> SUFFICES ASSUME OrdersInv, DeliveryInv, Told, [DeliveryNext]_<<vars, dvars>>
               PROVE  Told'
    OBVIOUS
  <2> USE DEF SendersSawSuccess, NoticeMeansOwed, DeliveryInv, DeliveryTypes, DeliveryTypeOK,
              CouriersAreEmployed
  <2>1. ASSUME NEW d \in Couriers, NEW k \in Keys, Deliver(d, k), UNCHANGED vars
        PROVE  Told'
    <3>1. owed[k]
      BY <2>1 DEF Deliver, OrdersInv, SucceededIsOwed
    <3>2. job'[d].key = k /\ \A e \in Couriers \ {d} : job'[e] = job[e] /\ at'[e] = at[e]
      BY <2>1 DEF Deliver
    <3> QED
      BY <2>1, <3>1, <3>2 DEF Deliver, vars, supplier
  <2>2. ASSUME NEW d \in Couriers, HoldBack(d) \/ Finish(d) \/ CourierCrash(d), UNCHANGED vars
        PROVE  Told'
    <3>1. /\ notices' = notices
          /\ \A e \in Couriers : at'[e] = "send" => at[e] = "send" /\ job'[e] = job[e]
      BY <2>2 DEF HoldBack, Finish, CourierCrash, Leave, ledger
    <3> QED
      BY <2>2, <3>1 DEF vars, supplier
  <2>3. ASSUME NEW d \in Couriers, Send(d), UNCHANGED vars
        PROVE  Told'
    <3>1. owed[job[d].key] /\ job' = job
      BY <2>3 DEF Send
    <3>2. \A k \in Keys : notices'[k] # <<>> => notices[k] # <<>> \/ k = job[d].key
      BY <2>3 DEF Send
    <3>3. \A e \in Couriers : at'[e] = "send" => at[e] = "send"
      BY <2>3 DEF Send
    <3> QED
      BY <2>3, <3>1, <3>2, <3>3 DEF vars, supplier
  <2>4. CASE [Next]_vars /\ UNCHANGED dvars
    <3>1. \A k \in Keys : owed[k] => owed'[k]
      BY <2>4, ObligationsStay DEF OrdersInv
    <3>2. \A d \in Couriers : at[d] = "send" => job[d].key \in Keys
      BY DEF Jobs
    <3> QED
      BY <2>4, <3>1, <3>2 DEF dvars, ledger, errands
  <2> QED
    BY <2>1, <2>2, <2>3, <2>4 DEF DeliveryNext
<1>3. DeliverySpec => []OrdersInv
  BY OrdersInvariant, DeliveryKeepsOrders, PTL
<1>4. Told => NoticeMeansOwed
  OBVIOUS
<1> HIDE DEF Told
<1> QED
  BY <1>1, <1>2, <1>3, <1>4, Delivery, PTL DEF DeliverySpec

\* The notice that the attempt of number n to deliver order k is about was taken.
Taken(k, n) == \E i \in DOMAIN notices[k] : notices[k][i].number = n /\ notices[k][i].took

\* What a courier was told and has not recorded yet is true of its own notice.
ConfirmedIsTaken ==
    \A d \in Couriers : at[d] = "finish" /\ told[d] => Taken(job[d].key, job[d].number)

\* The sink forgets no notice.
LEMMA TakenStays ==
  ASSUME DeliveryInv, [DeliveryNext]_<<vars, dvars>>, NEW k \in Keys, NEW n, Taken(k, n)
  PROVE  Taken(k, n)'
<1>1. CASE notices' = notices
  BY <1>1 DEF Taken
<1>2. ASSUME NEW d \in Couriers, Send(d)
      PROVE  Taken(k, n)'
  <2>1. notices' = notices \/ \E notice \in Notices :
          notices' = [notices EXCEPT ![job[d].key] = Append(notices[job[d].key], notice)]
    BY <1>2 DEF Send, Notices, DeliveryInv, DeliveryTypes, CouriersAreEmployed, Jobs
  <2>2. CASE k # job[d].key
    BY <2>1, <2>2 DEF Taken, DeliveryInv, DeliveryTypes
  <2>3. CASE k = job[d].key
    <3>1. ASSUME NEW notice \in Notices, notices' = [notices EXCEPT ![k] = Append(notices[k], notice)]
          PROVE  \A i \in DOMAIN notices[k] : i \in DOMAIN notices'[k] /\ notices'[k][i] = notices[k][i]
      <4>1. notices[k] \in Seq(Notices) /\ notices'[k] = Append(notices[k], notice)
        BY <3>1 DEF DeliveryInv, DeliveryTypes
      <4> QED
        BY <4>1, AppendProperties
    <3> QED
      BY <1>1, <2>1, <2>3, <3>1 DEF Taken
  <2> QED
    BY <2>2, <2>3
<1> QED
  BY <1>1, <1>2 DEF DeliveryNext, Deliver, HoldBack, Finish, CourierCrash, dvars, ledger

\* An attempt is recorded as SUCCEEDED only if the sink has taken its notice, whatever couriers race,
\* crash or are held back (finish_delivery).
THEOREM DeliveriesWereTaken == DeliverySpec => []DeliveredIsTaken
<1> DEFINE Honest == ConfirmedIsTaken /\ DeliveredIsTaken
<1>1. DeliveryInit => Honest
  BY DEF DeliveryInit, ConfirmedIsTaken, DeliveredIsTaken
<1>2. DeliveryInv /\ Honest /\ [DeliveryNext]_<<vars, dvars>> => Honest'
  <2> SUFFICES ASSUME DeliveryInv, Honest, [DeliveryNext]_<<vars, dvars>>
               PROVE  Honest'
    OBVIOUS
  <2>1. \A k \in Keys : \A n : Taken(k, n) => Taken(k, n)'
    BY TakenStays
  <2>2. /\ deliveries \in [Keys -> Seq(DeliveryState)]
        /\ at \in [Couriers -> {"idle", "send", "finish"}] /\ told \in [Couriers -> BOOLEAN]
        /\ job \in [Couriers -> Jobs \cup {None}] /\ notices \in [Keys -> Seq(Notices)]
        /\ \A d \in Couriers : at[d] # "idle" =>
              /\ job[d] \in Jobs /\ job[d].key \in Keys /\ job[d].number \in 1..MaxDeliveries
              /\ job[d].number \in 1..Len(deliveries[job[d].key])
    BY DEF DeliveryInv, DeliveryTypes, DeliveryTypeOK, CouriersAreEmployed, Jobs
  <2>3. \A d \in Couriers : at[d] = "finish" /\ told[d] => Taken(job[d].key, job[d].number)
    BY DEF ConfirmedIsTaken
  <2>4. \A k \in Keys : \A n \in DOMAIN deliveries[k] : deliveries[k][n] = "SUCCEEDED" => Taken(k, n)
    BY DEF DeliveredIsTaken, Taken
  \* A step that confirms nothing and writes no success keeps what was recorded.
  <2>5. ASSUME \A d \in Couriers : at'[d] = "finish" /\ told'[d] =>
                  at[d] = "finish" /\ told[d] /\ job'[d] = job[d],
               \A k \in Keys : \A n \in DOMAIN deliveries'[k] : deliveries'[k][n] = "SUCCEEDED" =>
                  n \in DOMAIN deliveries[k] /\ deliveries[k][n] = "SUCCEEDED"
        PROVE  Honest'
    <3>1. ConfirmedIsTaken'
      <4> SUFFICES ASSUME NEW d \in Couriers, at'[d] = "finish", told'[d]
                   PROVE  Taken(job[d].key, job[d].number)'
        BY DEF ConfirmedIsTaken
      <4>1. at[d] = "finish" /\ told[d] /\ job'[d] = job[d]
        BY <2>5
      <4>2. job[d].key \in Keys /\ Taken(job[d].key, job[d].number)
        BY <2>2, <2>3, <4>1
      <4> QED
        BY <2>1, <4>1, <4>2 DEF Taken
    <3>2. \A k \in Keys : \A n \in DOMAIN deliveries'[k] : deliveries'[k][n] = "SUCCEEDED" => Taken(k, n)'
      BY <2>1, <2>4, <2>5
    <3> QED
      BY <3>1, <3>2 DEF DeliveredIsTaken, Taken
  <2>6. ASSUME NEW d \in Couriers, NEW k \in Keys, Deliver(d, k)
        PROVE  Honest'
    <3>1. deliveries' = [deliveries EXCEPT ![k] = Append(deliveries[k], "PENDING")]
      BY <2>6 DEF Deliver
    <3>2. \A n \in DOMAIN deliveries'[k] :
            \/ n \in DOMAIN deliveries[k] /\ deliveries'[k][n] = deliveries[k][n]
            \/ deliveries'[k][n] = "PENDING"
      <4>1. deliveries[k] \in Seq(DeliveryState) /\ "PENDING" \in DeliveryState
        BY <2>2 DEF DeliveryState
      <4>2. deliveries'[k] = Append(deliveries[k], "PENDING")
        BY <2>2, <3>1
      <4> QED
        BY <4>1, <4>2, AppendProperties
    <3>3. \A l \in Keys \ {k} : deliveries'[l] = deliveries[l]
      BY <2>2, <3>1
    <3>4. \A e \in Couriers : at'[e] = "finish" /\ told'[e] =>
             at[e] = "finish" /\ told[e] /\ job'[e] = job[e]
      BY <2>2, <2>6 DEF Deliver
    <3> QED
      BY <2>5, <3>2, <3>3, <3>4
  <2>7. ASSUME NEW d \in Couriers, HoldBack(d) \/ CourierCrash(d)
        PROVE  Honest'
    BY <2>2, <2>5, <2>7 DEF HoldBack, CourierCrash, Leave, ledger
  <2>8. ASSUME NEW d \in Couriers, Send(d)
        PROVE  Honest'
    <3>1. PICK took, confirms \in BOOLEAN :
            /\ confirms => took
            /\ notices' = [notices EXCEPT ![job[d].key] =
                              Append(notices[job[d].key], [number |-> job[d].number, took |-> took])]
            /\ told' = [told EXCEPT ![d] = confirms]
      BY <2>8 DEF Send
    <3> DEFINE notice == [number |-> job[d].number, took |-> took]
    <3>2. job[d].key \in Keys /\ notice \in Notices /\ notice.number = job[d].number /\ notice.took = took
      BY <2>2, <2>8 DEF Send, Notices
    <3>3. notices' = [notices EXCEPT ![job[d].key] = Append(notices[job[d].key], notice)]
      BY <3>1
    <3> HIDE DEF notice
    <3>4. took => Taken(job[d].key, job[d].number)'
      <4>1. notices[job[d].key] \in Seq(Notices)
        BY <2>2, <3>2
      <4>2. notices'[job[d].key] = Append(notices[job[d].key], notice)
        BY <2>2, <3>2, <3>3
      <4>3. \E i \in DOMAIN notices'[job[d].key] : notices'[job[d].key][i] = notice
        BY <3>2, <4>1, <4>2, AppendProperties
      <4>4. job' = job
        BY <2>8 DEF Send
      <4> QED
        BY <3>2, <4>3, <4>4 DEF Taken
    <3>5. deliveries' = deliveries /\ job' = job
          /\ \A e \in Couriers \ {d} : at'[e] = at[e] /\ told'[e] = told[e]
      BY <2>2, <2>8, <3>1 DEF Send
    <3>6. ConfirmedIsTaken'
      <4> SUFFICES ASSUME NEW e \in Couriers, at'[e] = "finish", told'[e]
                   PROVE  Taken(job[e].key, job[e].number)'
        BY DEF ConfirmedIsTaken
      <4>1. CASE e = d
        BY <2>2, <3>1, <3>4, <4>1
      <4>2. CASE e # d
        <5>1. at[e] = "finish" /\ told[e] /\ job[e].key \in Keys
          BY <2>2, <3>5, <4>2
        <5>2. Taken(job[e].key, job[e].number)
          BY <2>3, <5>1
        <5> QED
          BY <2>1, <3>5, <5>1, <5>2 DEF Taken
      <4> QED
        BY <4>1, <4>2
    <3>7. DeliveredIsTaken'
      BY <2>1, <2>4, <3>5 DEF DeliveredIsTaken, Taken
    <3> QED
      BY <3>6, <3>7
  <2>9. ASSUME NEW d \in Couriers, Finish(d)
        PROVE  Honest'
    <3> DEFINE k == job[d].key
               n == job[d].number
               s == IF told[d] THEN "SUCCEEDED" ELSE "FAILED"
    <3>1. at[d] = "finish" /\ k \in Keys /\ n \in 1..Len(deliveries[k])
      BY <2>2, <2>9 DEF Finish
    <3>2. \/ deliveries' = deliveries
          \/ deliveries' = [deliveries EXCEPT ![k] = [deliveries[k] EXCEPT ![n] = s]]
      BY <2>2, <2>9, <3>1 DEF Finish
    <3>3. /\ notices' = notices
          /\ \A e \in Couriers : at'[e] = "finish" /\ told'[e] =>
                at[e] = "finish" /\ told[e] /\ job'[e] = job[e]
      BY <2>2, <2>9 DEF Finish, Leave
    <3>4. s = "SUCCEEDED" => Taken(k, n)
      BY <2>2, <2>3, <3>1
    <3>5. CASE deliveries' = deliveries
      BY <2>5, <3>3, <3>5
    <3>6. CASE deliveries' = [deliveries EXCEPT ![k] = [deliveries[k] EXCEPT ![n] = s]]
      <4> HIDE DEF s, k, n
      <4>1. deliveries[k] \in Seq(DeliveryState) /\ deliveries'[k] = [deliveries[k] EXCEPT ![n] = s]
            /\ \A l \in Keys \ {k} : deliveries'[l] = deliveries[l]
        BY <2>2, <3>1, <3>6
      <4>2. \A m \in DOMAIN deliveries'[k] :
               m \in DOMAIN deliveries[k] /\ (m # n => deliveries'[k][m] = deliveries[k][m])
               /\ (m = n => deliveries'[k][m] = s)
        BY <3>1, <4>1
      <4>3. \A l \in Keys : \A m \in DOMAIN deliveries'[l] : deliveries'[l][m] = "SUCCEEDED" => Taken(l, m)
        BY <2>4, <3>1, <3>4, <4>1, <4>2
      <4>4. DeliveredIsTaken'
        BY <3>3, <4>3 DEF DeliveredIsTaken, Taken
      <4>5. ConfirmedIsTaken'
        BY <2>3, <3>3 DEF ConfirmedIsTaken, Taken
      <4> QED
        BY <4>4, <4>5
    <3> QED
      BY <3>2, <3>5, <3>6
  <2>10. CASE UNCHANGED dvars
    BY <2>2, <2>5, <2>10 DEF dvars, ledger, errands
  <2> QED
    BY <2>6, <2>7, <2>8, <2>9, <2>10 DEF DeliveryNext
<1>3. Honest => DeliveredIsTaken
  OBVIOUS
<1> HIDE DEF Honest
<1> QED
  BY <1>1, <1>2, <1>3, Delivery, PTL DEF DeliverySpec

=============================================================================
