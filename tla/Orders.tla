------------------------------- MODULE Orders -------------------------------
(***************************************************************************)
(* The purchase half of src/nyan_shop_bot/orders: OrderService.place_order *)
(* and OrderService.recover running concurrently, in several processes,    *)
(* over the PostgreSQL order tables and one supplier port.                 *)
(*                                                                         *)
(* A call is a coroutine that gives way at every await, so a step here is  *)
(* the code between two awaits; a repository method is one transaction     *)
(* under the row lock of its order, hence one step.  The intent row and    *)
(* its only supplier attempt are written together by every transaction:    *)
(* they are one row here.  A call that raises, is refused or answers its   *)
(* caller goes back to "idle"; what distinguishes these is not state.      *)
(***************************************************************************)
EXTENDS Naturals

CONSTANTS
    Calls,          \* concurrent calls of the service; each has its own process
    Keys,           \* idempotency keys; the intent and request ids derive from them
    Requests,       \* OrderRequest: [customer, quantity, currency, cap]
    Offers,         \* what the catalog says of the variant: [currency, price,
                    \*   available, approved, supplier]
    Port,           \* Port[c]: supplier code of the port injected in c's service
    Capable,        \* supplier codes with idempotent_purchase
    Reconciles,     \* supplier codes with reconciliation
    References,     \* supplier order references
    FailureCodes,   \* SafeFailureCode
    None,           \* absent value
    LiveRecovery    \* whether recover may be called while another process is
                    \*   still dispatching the order (the code does not prevent it)

Evidence == References \cup FailureCodes

ASSUME EvidenceAssumption ==
    /\ References \cap FailureCodes = {}
    /\ None \notin Evidence
    /\ None \notin Keys

ASSUME DisciplineAssumption == LiveRecovery \in BOOLEAN

VARIABLES
    catalog,        \* the reader's answer: [fresh, offer]
    safe,           \* the three runtime modes have their safe values
    state,          \* purchase_state of each order, "ABSENT" before its insert
    payload,        \* its canonical payload
    evidence,       \* its supplier_order_reference or failure_code
    purchases,      \* how often the supplier was asked to purchase for a key
    owed,           \* the supplier holds an obligation for the key
    pc, key, draft, answer  \* each call: where it waits, and its locals

store    == <<state, payload, evidence>>
supplier == <<purchases, owed>>
locals   == <<pc, key, draft, answer>>
vars     == <<catalog, safe, store, supplier, locals>>

-----------------------------------------------------------------------------
(* Types *)

PurchaseState == {"PREPARED", "DISPATCHING", "SUCCEEDED", "FAILED_SAFE",
                  "UNKNOWN", "RECONCILING"}
Final == {"SUCCEEDED", "FAILED_SAFE"}
Ambiguous == {"DISPATCHING", "UNKNOWN", "RECONCILING"}

Drafts == [request : Requests, offer : Offers]

\* CanonicalPurchasePayload: the caller's request with the server's price and
\* mapping.  Stock is not part of it.
PayloadOf(d) == [request  |-> d.request,
                 price    |-> d.offer.price,
                 supplier |-> d.offer.supplier]
Payloads == {PayloadOf(d) : d \in Drafts}

ASSUME AbsentAssumption == None \notin Payloads

Catalogs == [fresh : BOOLEAN, offer : Offers \cup {None}]

Placing    == {"detail", "prepare", "claim"}
Dispatching == {"purchase", "record"}
Recovering == {"unknown", "begin", "reconcile", "verdict"}
Places     == {"idle"} \cup Placing \cup Dispatching \cup Recovering

\* An answer with no terminal evidence: accepted, an exception, a cancellation.
Unclear == None
Answers == Evidence \cup {Unclear}

-----------------------------------------------------------------------------
(* Calls *)

Goto(c, place) ==
    /\ pc' = [pc EXCEPT ![c] = place]
    /\ UNCHANGED <<key, draft, answer>>

Return(c) ==
    /\ pc' = [pc EXCEPT ![c] = "idle"]
    /\ key' = [key EXCEPT ![c] = None]
    /\ draft' = [draft EXCEPT ![c] = None]
    /\ answer' = [answer EXCEPT ![c] = None]

Enter(c, place, k, d) ==
    /\ pc[c] = "idle"
    /\ pc' = [pc EXCEPT ![c] = place]
    /\ key' = [key EXCEPT ![c] = k]
    /\ draft' = [draft EXCEPT ![c] = d]
    /\ UNCHANGED answer

Hear(c, place, a) ==
    /\ pc' = [pc EXCEPT ![c] = place]
    /\ answer' = [answer EXCEPT ![c] = a]
    /\ UNCHANGED <<key, draft>>

-----------------------------------------------------------------------------
(* Repository transactions on the row of order k *)

SetPurchaseState(k, s, e) ==
    /\ state' = [state EXCEPT ![k] = s]
    /\ evidence' = [evidence EXCEPT ![k] = e]
    /\ UNCHANGED payload

InsertPrepared(k, p) ==
    /\ state' = [state EXCEPT ![k] = "PREPARED"]
    /\ payload' = [payload EXCEPT ![k] = p]
    /\ UNCHANGED evidence

\* Mutant: a DISPATCHING order is taken to be somebody else's and left as it is.
RecordUnknownNever(k) == UNCHANGED store

\* record_unknown.  UNKNOWN and RECONCILING are returned as they are, any other
\* state is an OrderStateConflict; neither writes.
RecordUnknown(k) ==
    IF state[k] = "DISPATCHING" THEN SetPurchaseState(k, "UNKNOWN", None)
                                ELSE UNCHANGED store

\* Mutant: the state of the row is not looked at.
RecordTerminalBlindly(k, e) ==
    SetPurchaseState(k, IF e \in References THEN "SUCCEEDED" ELSE "FAILED_SAFE", e)

\* record_success and record_safe_failure.  The same final state again is
\* either returned or, with other metadata, a conflict; neither writes.
RecordTerminal(k, e) ==
    IF state[k] \in {"DISPATCHING", "RECONCILING"}
    THEN SetPurchaseState(k, IF e \in References THEN "SUCCEEDED" ELSE "FAILED_SAFE", e)
    ELSE UNCHANGED store

-----------------------------------------------------------------------------
(* place_order *)

\* Up to the answer of read_catalog.
PlaceOrder(c, k, r) ==
    /\ safe
    /\ Port[c] \in Capable
    /\ catalog.fresh
    /\ catalog.offer # None
    /\ Enter(c, "detail", k, [request |-> r, offer |-> catalog.offer])
    /\ UNCHANGED <<catalog, safe, store, supplier>>

\* Every check between the two catalog reads and the persistence of the order.
Acceptable(c, r, o) ==
    /\ o.currency = r.currency
    /\ o.price <= r.cap
    /\ r.quantity <= o.available
    /\ o.approved
    /\ o.supplier = Port[c]

\* From the answer of get_product to the call of repository.prepare.
ReadDetail(c) ==
    /\ pc[c] = "detail"
    /\ IF /\ catalog.offer = draft[c].offer
          /\ Acceptable(c, draft[c].request, draft[c].offer)
          /\ safe
       THEN Goto(c, "prepare")
       ELSE Return(c)
    /\ UNCHANGED <<catalog, safe, store, supplier>>

\* Mutant: same_canonical_request is not asked of an existing row.
PrepareAnyPayload(c) ==
    LET k == key[c]
    IN  /\ pc[c] = "prepare"
        /\ IF state[k] = "ABSENT" THEN InsertPrepared(k, PayloadOf(draft[c]))
                                   ELSE UNCHANGED store
        /\ IF safe /\ state'[k] = "PREPARED" THEN Goto(c, "claim") ELSE Return(c)
        /\ UNCHANGED <<catalog, safe, supplier>>

\* Mutant: only the call that inserted the row goes on to dispatch it.
PrepareNewOnly(c) ==
    LET k == key[c]
    IN  /\ pc[c] = "prepare"
        /\ IF state[k] = "ABSENT"
           THEN InsertPrepared(k, PayloadOf(draft[c])) /\ Goto(c, "claim")
           ELSE UNCHANGED store /\ Return(c)
        /\ UNCHANGED <<catalog, safe, supplier>>

\* repository.prepare, and the checks at the head of _dispatch_once.
Prepare(c) ==
    LET k == key[c]
        p == PayloadOf(draft[c])
    IN  /\ pc[c] = "prepare"
        /\ IF state[k] = "ABSENT" THEN InsertPrepared(k, p) ELSE UNCHANGED store
        /\ IF safe /\ state'[k] = "PREPARED" /\ payload'[k] = p
           THEN Goto(c, "claim")
           ELSE Return(c)
        /\ UNCHANGED <<catalog, safe, supplier>>

\* Mutant: the row is moved without looking at its state under the lock.
ClaimBlindly(c) ==
    /\ pc[c] = "claim"
    /\ SetPurchaseState(key[c], "DISPATCHING", None)
    /\ Goto(c, "purchase")
    /\ UNCHANGED <<catalog, safe, supplier>>

\* claim_prepared: only the call that moved the row may go on.
Claim(c) ==
    /\ pc[c] = "claim"
    /\ IF state[key[c]] = "PREPARED"
       THEN SetPurchaseState(key[c], "DISPATCHING", None) /\ Goto(c, "purchase")
       ELSE UNCHANGED store /\ Return(c)
    /\ UNCHANGED <<catalog, safe, supplier>>

\* The checks after the claim; they raise and leave the row DISPATCHING.
WithdrawDispatch(c) ==
    /\ pc[c] = "purchase"
    /\ ~safe \/ payload[key[c]].supplier # Port[c]
    /\ Return(c)
    /\ UNCHANGED <<catalog, safe, store, supplier>>

\* supplier.purchase.  The supplier is truthful: success is reported only of an
\* obligation it holds, a safe failure only when it holds none.
Purchase(c) ==
    LET k == key[c]
    IN  /\ pc[c] = "purchase"
        /\ safe /\ payload[k].supplier = Port[c]
        /\ purchases' = [purchases EXCEPT ![k] = @ + 1]
        /\ \E a \in Answers, holds \in BOOLEAN :
              /\ owed[k] => holds
              /\ a \in References => holds
              /\ a \in FailureCodes => ~holds
              /\ owed' = [owed EXCEPT ![k] = holds]
              /\ Hear(c, "record", a)
        /\ UNCHANGED <<catalog, safe, store>>

\* Mutants: an answer without evidence taken for a success, or for a safe failure.
RecordUnclearAsSuccess(c) ==
    /\ pc[c] = "record"
    /\ IF answer[c] \in Evidence THEN RecordTerminal(key[c], answer[c])
                                 ELSE SetPurchaseState(key[c], "SUCCEEDED", None)
    /\ Return(c)
    /\ UNCHANGED <<catalog, safe, supplier>>

RecordUnclearAsFailure(c) ==
    /\ pc[c] = "record"
    /\ IF answer[c] \in Evidence THEN RecordTerminal(key[c], answer[c])
                                 ELSE SetPurchaseState(key[c], "FAILED_SAFE", None)
    /\ Return(c)
    /\ UNCHANGED <<catalog, safe, supplier>>

\* The end of _dispatch_once.
RecordPurchase(c) ==
    /\ pc[c] = "record"
    /\ IF answer[c] \in Evidence THEN RecordTerminal(key[c], answer[c])
                                 ELSE RecordUnknown(key[c])
    /\ Return(c)
    /\ UNCHANGED <<catalog, safe, supplier>>

-----------------------------------------------------------------------------
(* recover *)

BeingDispatched(k) == \E c \in Calls : key[c] = k /\ pc[c] \in Dispatching

\* get, and the branches on the state it saw.
Recover(c, k) ==
    /\ safe
    /\ LiveRecovery \/ ~BeingDispatched(k)
    /\ \/ state[k] = "DISPATCHING" /\ Enter(c, "unknown", k, None)
       \/ state[k] \in {"UNKNOWN", "RECONCILING"} /\ Enter(c, "begin", k, None)
    /\ UNCHANGED <<catalog, safe, store, supplier>>

MarkUnknown(c) ==
    /\ pc[c] = "unknown"
    /\ RecordUnknown(key[c])
    /\ IF state[key[c]] \in Ambiguous THEN Goto(c, "begin") ELSE Return(c)
    /\ UNCHANGED <<catalog, safe, supplier>>

\* begin_reconciliation, and the checks before the supplier is asked.
BeginReconciliation(c) ==
    LET k == key[c]
    IN  /\ pc[c] = "begin"
        /\ IF state[k] = "UNKNOWN" THEN SetPurchaseState(k, "RECONCILING", None)
                                   ELSE UNCHANGED store
        /\ IF /\ state[k] \in {"UNKNOWN", "RECONCILING"}
              /\ Port[c] \in Reconciles
              /\ payload[k].supplier = Port[c]
              /\ safe
           THEN Goto(c, "reconcile")
           ELSE Return(c)
        /\ UNCHANGED <<catalog, safe, supplier>>

\* supplier.reconcile of a truthful supplier: what it says is so when it says it.
Reconcile(c) ==
    /\ pc[c] = "reconcile"
    /\ \/ \E e \in IF owed[key[c]] THEN References ELSE FailureCodes :
             Hear(c, "verdict", e)
       \/ Return(c)     \* unresolved, or an exception
    /\ UNCHANGED <<catalog, safe, store, supplier>>

RecordVerdict(c) ==
    /\ pc[c] = "verdict"
    /\ RecordTerminal(key[c], answer[c])
    /\ Return(c)
    /\ UNCHANGED <<catalog, safe, supplier>>

-----------------------------------------------------------------------------
(* The world around the calls *)

\* The process dies, or the call is cancelled outside supplier.purchase.
Crash(c) ==
    /\ pc[c] # "idle"
    /\ Return(c)
    /\ UNCHANGED <<catalog, safe, store, supplier>>

CatalogChanges ==
    /\ catalog' \in Catalogs
    /\ UNCHANGED <<safe, store, supplier, locals>>

RuntimeFlips ==
    /\ safe' = ~safe
    /\ UNCHANGED <<catalog, store, supplier, locals>>

-----------------------------------------------------------------------------

Init ==
    /\ catalog \in Catalogs
    /\ safe = TRUE
    /\ state = [k \in Keys |-> "ABSENT"]
    /\ payload = [k \in Keys |-> None]
    /\ evidence = [k \in Keys |-> None]
    /\ purchases = [k \in Keys |-> 0]
    /\ owed = [k \in Keys |-> FALSE]
    /\ pc = [c \in Calls |-> "idle"]
    /\ key = [c \in Calls |-> None]
    /\ draft = [c \in Calls |-> None]
    /\ answer = [c \in Calls |-> None]

\* What the event loop runs of a call that has started.
Step(c) ==
    \/ ReadDetail(c) \/ Prepare(c) \/ Claim(c)
    \/ WithdrawDispatch(c) \/ Purchase(c) \/ RecordPurchase(c)
    \/ MarkUnknown(c) \/ BeginReconciliation(c) \/ Reconcile(c) \/ RecordVerdict(c)

Start(c) ==
    \E k \in Keys : \/ \E r \in Requests : PlaceOrder(c, k, r)
                    \/ Recover(c, k)

Next ==
    \/ \E c \in Calls : Start(c) \/ Step(c) \/ Crash(c)
    \/ CatalogChanges
    \/ RuntimeFlips

Spec == Init /\ [][Next]_vars

-----------------------------------------------------------------------------
(* What must be true *)

TypeOK ==
    /\ catalog \in Catalogs
    /\ safe \in BOOLEAN
    /\ state \in [Keys -> PurchaseState \cup {"ABSENT"}]
    /\ payload \in [Keys -> Payloads \cup {None}]
    /\ evidence \in [Keys -> Evidence \cup {None}]
    /\ purchases \in [Keys -> Nat]
    /\ owed \in [Keys -> BOOLEAN]
    /\ pc \in [Calls -> Places]
    /\ key \in [Calls -> Keys \cup {None}]
    /\ draft \in [Calls -> Drafts \cup {None}]
    /\ answer \in [Calls -> Answers]
    /\ \A c \in Calls : pc[c] # "idle" => key[c] \in Keys
    /\ \A c \in Calls : pc[c] \in Placing => draft[c] \in Drafts

\* Whatever calls race, crash or are retried with the same key, the supplier is
\* asked to purchase at most once for it (claim_prepared commits DISPATCHING
\* before it hands out the authority to purchase, and nothing leads back).
AtMostOnePurchase == \A k \in Keys : purchases[k] <= 1

\* An order shown as SUCCEEDED is one the supplier has taken an obligation for:
\* a late or repeated answer cannot be recorded on an order it is not about.
SucceededIsOwed == \A k \in Keys : state[k] = "SUCCEEDED" => owed[k]

\* An order shown as FAILED_SAFE has no obligation with the supplier, now or later.
FailedSafeIsNotOwed == \A k \in Keys : state[k] = "FAILED_SAFE" => ~owed[k]

\* A call that is about to purchase does so for the request of its own caller, at
\* a price within that caller's cap, although the row it claimed may have been
\* inserted by another call with the same key (IdempotencyConflict in prepare).
PurchaseIsTheCallersRequest ==
    \A c \in Calls : pc[c] = "purchase" =>
        /\ payload[key[c]].request = draft[c].request
        /\ payload[key[c]].price <= draft[c].request.cap

\* A dispatcher that comes back with terminal evidence finds its order still
\* DISPATCHING, so the evidence is recorded and not lost in an OrderStateConflict.
EvidenceIsRecorded ==
    [][\A c \in Calls :
          RecordPurchase(c) /\ answer[c] \in Evidence => evidence'[key[c]] = answer[c]]_vars

\* The obligation a caller relies on (see Promise): one attempt at most, an
\* outcome that agrees with what the supplier holds, and that never changes.
PromiseOfOrders == INSTANCE Promise WITH
    accepted <- payload,
    attempts <- purchases,
    outcome  <- evidence

KeepsPromise == PromiseOfOrders!Spec

-----------------------------------------------------------------------------
(* Progress, under assumptions on operators, customers and the supplier *)

\* The runtime does not stay unsafe, an operator keeps asking for the recovery of an
\* ambiguous order, crashes do not always strike at the same place and the supplier
\* does not evade forever.
RecoveryFairness ==
    /\ WF_vars(RuntimeFlips /\ safe')
    /\ \A k \in Keys :
          /\ SF_vars(\E c \in Calls : Recover(c, k))
          /\ SF_vars(\E c \in Calls : key[c] = k /\ MarkUnknown(c))
          /\ SF_vars(\E c \in Calls : key[c] = k /\ BeginReconciliation(c) /\ pc'[c] = "reconcile")
          /\ SF_vars(\E c \in Calls : key[c] = k /\ Reconcile(c) /\ pc'[c] = "verdict")
          /\ SF_vars(\E c \in Calls : key[c] = k /\ RecordVerdict(c))

\* Live calls run on unless they crash.
CallFairness == \A c \in Calls : WF_vars(Step(c))

\* An order left DISPATCHING by a crash, or UNKNOWN by an ambiguous answer, is
\* eventually settled by recover, without a second purchase.
AmbiguousSettles == \A k \in Keys : (state[k] \in Ambiguous) ~> (state[k] \in Final)

\* A customer keeps sending the request of a PREPARED order with its key, and
\* crashes do not always strike at the same place.
RetryFairness ==
    \A k \in Keys :
        /\ SF_vars(\E c \in Calls : /\ state[k] = "PREPARED"
                                    /\ PlaceOrder(c, k, payload[k].request))
        /\ SF_vars(\E c \in Calls : /\ state[k] = "PREPARED" /\ key[c] = k
                                    /\ pc[c] = "detail" /\ draft[c].request = payload[k].request
                                    /\ ReadDetail(c) /\ pc'[c] = "prepare")
        /\ SF_vars(\E c \in Calls : key[c] = k /\ Prepare(c) /\ pc'[c] = "claim")
        /\ SF_vars(\E c \in Calls : key[c] = k /\ Claim(c))

FairSpec == Spec /\ CallFairness /\ RecoveryFairness /\ RetryFairness

\* The catalog still says what it said when the order of k was prepared.
SameOffer(k) ==
    /\ catalog.fresh
    /\ catalog.offer # None
    /\ \E c \in Calls : Acceptable(c, payload[k].request, catalog.offer)
    /\ payload[k] = PayloadOf([request |-> payload[k].request, offer |-> catalog.offer])

\* recover refuses a PREPARED order (OrderStateConflict), so an order whose call
\* died before the claim moves on only by a retry of place_order, and that only as
\* long as the price it was prepared at still stands: then it does move on.
PreparedResumes ==
    \A k \in Keys : []<>~(state[k] = "PREPARED" /\ safe /\ SameOffer(k))

=============================================================================
