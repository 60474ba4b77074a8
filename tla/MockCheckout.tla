----------------------------- MODULE MockCheckout -----------------------------
(***************************************************************************)
(* The checkout of the admin page (features/mock-checkout/MockCheckout.tsx *)
(* over mock-checkout-api.ts) and the routes it talks to                   *)
(* (orders/mock_checkout.py).  The component lives while its view is open; *)
(* its requests do not end with it, and a request may be served after the  *)
(* page gave up on it.  What the order service does inside a request is    *)
(* Orders; here it is one step that a crash of the server may cut short.   *)
(***************************************************************************)
EXTENDS Naturals, FiniteSets

CONSTANTS
    Keys,           \* what crypto.randomUUID may return
    MaxMounts,      \* bound on how often the view is opened
    MaxRequests,    \* bound on the clicks that start a request
    None

Scenarios == {"success", "failed_safe", "unknown"}
Evidence  == {"unresolved", "confirmed_success", "confirmed_out_of_stock"}
States    == {"PREPARED", "DISPATCHING", "SUCCEEDED", "FAILED_SAFE", "RECONCILING", "UNKNOWN"}
Final     == {"SUCCEEDED", "FAILED_SAFE"}
Mounts    == 1..MaxMounts

\* What the page asks for, and what it may be answered.
Requests == [n : Nat, what : {"place"}, key : Keys, with : Scenarios]
       \cup [n : Nat, what : {"reconcile"}, key : Keys, with : Evidence]
       \cup [n : Nat, what : {"refresh", "history"}, key : {None}, with : {None}]
Orders   == [Keys -> States \cup {None}]
Replies  == [order : States \cup {None}, orders : Orders]
Pending  == [key : Keys, scenario : Scenarios]
Results  == [key : Keys, state : States]

ASSUME CheckoutAssumption ==
    /\ MaxMounts \in Nat /\ MaxRequests \in Nat
    /\ None \notin Keys \cup States \cup Requests \cup Replies \cup Pending \cup Results

VARIABLES
    mount, mounts,  \* the mount of the component that is open, 0 for none; how many there were
    form,           \* its state: [loaded, orders, pending, result, submitted, locked]
    waiting, reply, \* the request its continuation waits for; the answer to it, once served
    wire,           \* requests the server may still serve
    state, purchases,   \* server: orders by key, and how often each was dispatched
    drawn, told,    \* history: the mount that drew a key, keys whose order it was told of
    cycles, sent    \* history: clicks on "new order" by mount, requests sent

page   == <<mount, mounts, form>>
net    == <<waiting, reply, wire>>
server == <<state, purchases>>
cvars  == <<page, net, server, drawn, told, cycles, sent>>

Nothing == [k \in Keys |-> None]

\* A component that was just mounted.
Blank == [loaded |-> FALSE, orders |-> Nothing, pending |-> None, result |-> None,
          submitted |-> FALSE, locked |-> FALSE]

-----------------------------------------------------------------------------
(* The component *)

OpenCheckout ==
    /\ mount = 0 /\ mounts < MaxMounts
    /\ mounts' = mounts + 1
    /\ mount' = mounts'
    /\ UNCHANGED <<form, net, server, drawn, told, cycles, sent>>

\* Another view is chosen or the tab is closed: the state of the component is gone, and
\* its continuation has nothing left to change.
LeaveCheckout ==
    /\ mount # 0
    /\ mount' = 0
    /\ form' = Blank
    /\ waiting' = None /\ reply' = None
    /\ UNCHANGED <<mounts, wire, server, drawn, told, cycles, sent>>

\* fetch: n tells two requests of the same content apart.
Request(what, key, with) == [n |-> sent + 1, what |-> what, key |-> key, with |-> with]

Send(request) ==
    /\ sent < MaxRequests
    /\ sent' = sent + 1
    /\ waiting' = request
    /\ reply' = None
    /\ wire' = wire \cup {request}

refresh ==
    /\ mount # 0 /\ ~form.locked
    /\ form' = [form EXCEPT !.locked = TRUE]
    /\ Send(Request("refresh", None, None))
    /\ UNCHANGED <<mount, mounts, server, drawn, told, cycles>>

\* Mutant: a retry draws a key of its own.
submitAnew(key, scenario) ==
    /\ form.loaded /\ ~form.locked /\ ~form.submitted
    /\ drawn[key] = 0
    /\ drawn' = [drawn EXCEPT ![key] = mount]
    /\ form' = [form EXCEPT !.locked = TRUE, !.pending = [key |-> key, scenario |-> scenario]]
    /\ Send(Request("place", key, scenario))
    /\ UNCHANGED <<mount, mounts, server, told, cycles>>

\* A fresh key for a fresh order, the pending one for a retry.
submit(key, scenario) ==
    /\ form.loaded /\ ~form.locked /\ ~form.submitted
    /\ IF form.pending = None
       THEN drawn[key] = 0 /\ drawn' = [drawn EXCEPT ![key] = mount]
       ELSE form.pending = [key |-> key, scenario |-> scenario] /\ UNCHANGED drawn
    /\ form' = [form EXCEPT !.locked = TRUE, !.pending = [key |-> key, scenario |-> scenario]]
    /\ Send(Request("place", key, scenario))
    /\ UNCHANGED <<mount, mounts, server, told, cycles>>

\* The buttons of an order whose outcome the history shows as open.
reconcile(key, evidence) ==
    /\ form.loaded /\ ~form.locked
    /\ form.orders[key] \in {"UNKNOWN", "RECONCILING"}
    /\ form' = [form EXCEPT !.locked = TRUE]
    /\ Send(Request("reconcile", key, evidence))
    /\ UNCHANGED <<mount, mounts, server, drawn, told, cycles>>

\* Mutant: "new order" is also there while an answer is outstanding.
newOrderAnyTime ==
    /\ form.loaded
    /\ form.pending # None
    /\ form' = [form EXCEPT !.pending = None, !.result = None, !.submitted = FALSE]
    /\ UNCHANGED <<mount, mounts, net, server, drawn, told, cycles, sent>>

\* Offered once an order was submitted, even while its history is being read.
newOrder ==
    /\ form.submitted
    /\ form' = [form EXCEPT !.pending = None, !.result = None, !.submitted = FALSE]
    /\ cycles' = [cycles EXCEPT ![mount] = @ + 1]
    /\ UNCHANGED <<mount, mounts, net, server, drawn, told, sent>>

-----------------------------------------------------------------------------
(* The server *)

Outcome(scenario) ==
    CASE scenario = "success"     -> "SUCCEEDED"
      [] scenario = "failed_safe" -> "FAILED_SAFE"
      [] OTHER                    -> "UNKNOWN"

Verdict(evidence) ==
    CASE evidence = "confirmed_success"      -> "SUCCEEDED"
      [] evidence = "confirmed_out_of_stock" -> "FAILED_SAFE"
      [] OTHER                               -> "RECONCILING"

\* POST /orders: an order that is not dispatched yet is dispatched, once; a crash leaves
\* it prepared or dispatching.
checkout(r) ==
    IF state[r.key] \in {None, "PREPARED"}
    THEN \/ /\ state' = [state EXCEPT ![r.key] = "PREPARED"]
            /\ UNCHANGED purchases
         \/ /\ state' \in {[state EXCEPT ![r.key] = s] : s \in {"DISPATCHING", Outcome(r.with)}}
            /\ purchases' = [purchases EXCEPT ![r.key] = @ + 1]
    ELSE UNCHANGED server

\* Mutant: evidence is written over a result that is final.
overrule(r) ==
    /\ state' = [state EXCEPT ![r.key] = Verdict(r.with)]
    /\ UNCHANGED purchases

\* POST /orders/{intent_id}/reconcile: evidence settles an order that is not final.
settle(r) ==
    /\ state' = IF state[r.key] \in Final THEN state
                ELSE [state EXCEPT ![r.key] = Verdict(r.with)]
    /\ UNCHANGED purchases

\* A request is served, and its answer reaches a page that still waits for it or is lost;
\* the answers of GET are the orders as they are now.
Serve(r) ==
    /\ wire' = wire \ {r}
    /\ CASE r.what = "place"     -> checkout(r)
         [] r.what = "reconcile" -> settle(r)
         [] OTHER                -> UNCHANGED server
    /\ reply' \in {reply} \cup {[order |-> IF r.key = None THEN None ELSE state'[r.key],
                                 orders |-> state'] : w \in {waiting} \cap {r}}
    /\ UNCHANGED <<page, waiting, drawn, told, cycles, sent>>

\* 401, 403, 409, 503 or a connection that is refused: nothing happens on the server.
Refuse(r) ==
    /\ wire' = wire \ {r}
    /\ UNCHANGED <<page, waiting, reply, server, drawn, told, cycles, sent>>

-----------------------------------------------------------------------------
(* The continuations *)

Unlocked(f) == [f EXCEPT !.locked = FALSE]

\* A request fails for the page: the catch clause, then finally.
Failure ==
    /\ waiting # None
    /\ waiting' = None /\ reply' = None
    /\ form' = Unlocked(form)
    /\ UNCHANGED <<mount, mounts, wire, server, drawn, told, cycles, sent>>

\* The history that is read after an order was placed or reconciled.
ReadHistory ==
    /\ waiting' = [waiting EXCEPT !.what = "history", !.key = None, !.with = None]
    /\ wire' = wire \cup {waiting'}
    /\ UNCHANGED sent

\* refresh has its answers, or the history came that a placed or reconciled order is
\* followed by.
Refreshed ==
    /\ waiting.what \in {"refresh", "history"}
    /\ form' = Unlocked([form EXCEPT !.loaded = TRUE, !.orders = reply.orders])
    /\ waiting' = None
    /\ UNCHANGED <<wire, told>>

Placed ==
    /\ waiting.what = "place"
    /\ form' = [form EXCEPT !.result = [key |-> waiting.key, state |-> reply.order],
                            !.submitted = TRUE, !.pending = None]
    /\ told' = told \cup {waiting.key}
    /\ ReadHistory

Reconciled ==
    /\ waiting.what = "reconcile"
    /\ form' = [form EXCEPT !.result = [key |-> waiting.key, state |-> reply.order]]
    /\ ReadHistory
    /\ UNCHANGED told

Continue ==
    /\ reply # None
    /\ reply' = None
    /\ Refreshed \/ Placed \/ Reconciled
    /\ UNCHANGED <<mount, mounts, server, drawn, cycles, sent>>

-----------------------------------------------------------------------------

CheckoutInit ==
    /\ mount = 0 /\ mounts = 0
    /\ form = Blank
    /\ waiting = None /\ reply = None /\ wire = {}
    /\ state = Nothing
    /\ purchases = [k \in Keys |-> 0]
    /\ drawn = [k \in Keys |-> 0]
    /\ told = {}
    /\ cycles = [m \in Mounts |-> 0]
    /\ sent = 0

CheckoutNext ==
    \/ OpenCheckout \/ LeaveCheckout
    \/ refresh
    \/ \E k \in Keys : \E s \in Scenarios : submit(k, s)
    \/ \E k \in Keys : \E e \in Evidence : reconcile(k, e)
    \/ newOrder
    \/ \E r \in wire : Serve(r) \/ Refuse(r)
    \/ Failure
    \/ Continue

CheckoutSpec == CheckoutInit /\ [][CheckoutNext]_cvars

-----------------------------------------------------------------------------

CheckoutTypeOK ==
    /\ mount \in 0..MaxMounts /\ mounts \in 0..MaxMounts
    /\ form \in [loaded : BOOLEAN, orders : Orders, pending : Pending \cup {None},
                 result : Results \cup {None}, submitted : BOOLEAN, locked : BOOLEAN]
    /\ waiting \in Requests \cup {None} /\ reply \in Replies \cup {None}
    /\ wire \subseteq Requests
    /\ state \in Orders /\ purchases \in [Keys -> Nat]
    /\ drawn \in [Keys -> 0..MaxMounts] /\ told \subseteq Keys
    /\ cycles \in [Mounts -> Nat] /\ sent \in Nat

\* An order the server holds, and that the open page drew the key of but was never told
\* about, is the one its retry button would send again: no lost answer, late request or
\* "new order" makes the page forget a key the server may have acted on.
UntoldOrderIsPending ==
    \A k \in Keys : mount # 0 /\ drawn[k] = mount /\ state[k] # None /\ k \notin told =>
        form.pending # None /\ form.pending.key = k

\* While the view stays open, one order is created for each explicit new-order cycle,
\* counting the first.
OneOrderPerCycle ==
    \A m \in Mounts :
        Cardinality({k \in Keys : drawn[k] = m /\ state[k] # None}) <= 1 + cycles[m]

\* An outcome the page shows as final is the one the server holds, however late the
\* answer that told of it.
ShownFinalIsFinal ==
    /\ \A k \in Keys : form.orders[k] \in Final => state[k] = form.orders[k]
    /\ form.result # None /\ form.result.state \in Final =>
            state[form.result.key] = form.result.state

=============================================================================
