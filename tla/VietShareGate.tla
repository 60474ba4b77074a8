---------------------------- MODULE VietShareGate ----------------------------
(***************************************************************************)
(* The PostgreSQL write gate of suppliers/vietshare/pg_gate.py with the    *)
(* tables of migration 20260925_0004: a control row the owner arms for one *)
(* capped test, a journal of tests, the reserved signing attempts, and the *)
(* executor that claims, posts to the supplier and finishes.               *)
(*                                                                         *)
(* Every gate method is one transaction that first locks the control row.  *)
(* The journal's identity columns are immutable and rows are not deleted   *)
(* (triggers), so the stored body is the one prepare wrote and the hash    *)
(* and body checks of claim cannot fail here.                              *)
(***************************************************************************)
EXTENDS Integers

CONSTANTS
    Executors,      \* concurrent calls of VietSharePgOfflineExecutor.submit
    Tests,          \* test ids
    Intents,        \* CappedTestIntent: [test, key, spend, cap, wallet, operator],
                    \*   spend being quantity * max_unit_price
    Operators,
    Nonces,         \* bounds the number of attempts
    Stamps,         \* signing timestamps
    Totals,         \* totals the supplier may report
    MaxTime,        \* bound on the database clock
    None

Keys == {i.key : i \in Intents}

GateState == {"PREPARED", "DISPATCHING", "UNKNOWN", "RECONCILING", "SUCCEEDED"}

VARIABLES
    control,        \* the singleton control row: [enabled, operators, approved]
    intent, state, retry, code, error,  \* the journal, by test
    attempts,       \* signing attempts: [nonce, test, stamp, outcome]
    now,            \* the database clock
    asked,          \* supplier: the keys it has seen a request for
    owes,           \* supplier: the total of the order it holds for a key, or None
    holdUntil,      \* supplier: when the wait of its last in-progress answer ends
    at, job, reply, \* each executor: where it is, its [test, nonce], the response
    dispatches      \* history: claims since the owner last armed the gate

journal  == <<intent, state, retry, code, error>>
supplier == <<asked, owes, holdUntil>>
locals   == <<at, job, reply>>
vars     == <<control, journal, attempts, now, supplier, locals, dispatches>>

Unresolved == {"DISPATCHING", "UNKNOWN", "RECONCILING"}
Frozen     == {"IDEMPOTENCY_MISMATCH", "SPEND_CAP_EXCEEDED"}
Errors     == Frozen \cup {"OTHER"}

ASSUME AmountsAssumption ==
    Totals \subseteq Nat /\ \A i \in Intents : i.spend \in Nat /\ i.cap \in Nat
ASSUME NoneAssumption ==
    None \notin Intents /\ None \notin GateState /\ None \notin Errors /\ None \notin Nat

ApprovalOf(i) == [test |-> i.test, spend |-> i.spend, cap |-> i.cap, wallet |-> i.wallet]
Approvals == {ApprovalOf(i) : i \in {j \in Intents : j.spend <= j.cap}}

\* What the executor tells apart in a response.  "unclear" is any failure of the
\* transport, an unreadable answer, or a status with no rule of its own; the error
\* code is any word the supplier wrote.  Whatever it answers, the supplier may ask for
\* a wait (Retry-After, 0 for none).
Replies == [kind : {"progress"}, delay : 0..1, code : Errors]
    \cup [kind : {"completed"}, delay : 0..1, total : Totals]
    \cup [kind : {"replayed", "mismatch"}, delay : 0..1]
    \cup [kind : {"unclear"}, delay : 0..1, code : Errors \ {"IDEMPOTENCY_MISMATCH"}]

-----------------------------------------------------------------------------
(* Preparation and approval *)

\* prepare: a fresh test and key, or nothing (the same intent again is returned,
\* any other overlap is an error).
Prepare(i) ==
    /\ i.spend <= i.cap
    /\ \A t \in Tests : intent[t] # None => t # i.test /\ intent[t].key # i.key
    /\ intent' = [intent EXCEPT ![i.test] = i]
    /\ state' = [state EXCEPT ![i.test] = "PREPARED"]
    /\ UNCHANGED <<control, retry, code, error, attempts, now, supplier, locals, dispatches>>

\* The owner arms the gate; the database refuses an incomplete arm.
Arm(a, ops) ==
    /\ ops # {}
    /\ control' = [enabled |-> TRUE, operators |-> ops, approved |-> a]
    /\ dispatches' = 0
    /\ UNCHANGED <<journal, attempts, now, supplier, locals>>

\* The owner disarms the gate, or removes operators from it.
Disarm(ops) ==
    /\ control' = [control EXCEPT !.enabled = FALSE, !.operators = ops]
    /\ UNCHANGED <<journal, attempts, now, supplier, locals, dispatches>>

-----------------------------------------------------------------------------
(* submit *)

Return(e) ==
    /\ at' = [at EXCEPT ![e] = "idle"]
    /\ job' = [job EXCEPT ![e] = None]
    /\ reply' = [reply EXCEPT ![e] = None]

\* The signing attempt is new: its nonce everywhere, its timestamp for the test.
FreshAuth(t, nonce, stamp) ==
    \A a \in attempts : a.nonce # nonce /\ ~(a.test = t /\ a.stamp = stamp)

\* The control row approves this very test, and this operator of it.
Approved(t, operator) ==
    /\ intent[t] # None
    /\ control.enabled
    /\ operator = intent[t].operator
    /\ operator \in control.operators
    /\ control.approved = ApprovalOf(intent[t])

\* Mutants: a frozen result, or a dispatch nobody finished, is dispatched again.
DispatchableFrozen(t) == state[t] \in {"PREPARED", "RECONCILING"}
DispatchableCrashed(t) ==
    state[t] \in {"PREPARED", "RECONCILING", "DISPATCHING"} /\ error[t] \notin Frozen

Dispatchable(t) == state[t] \in {"PREPARED", "RECONCILING"} /\ error[t] \notin Frozen

\* Mutant: Retry-After is recorded and never looked at.
RetryIgnored(t) == TRUE

RetryElapsed(t) == retry[t] # None => retry[t] <= now

\* Mutant: other tests are not looked at.
OthersIgnored(t) == TRUE

\* The query of claim, with the partial unique index behind it.
OthersResolved(t) == \A u \in Tests \ {t} : state[u] \notin Unresolved

\* claim: the dispatch is durable before the transport sees a request.
Claim(e, t, operator, nonce, stamp) ==
    /\ at[e] = "idle"
    /\ Approved(t, operator) /\ Dispatchable(t) /\ RetryElapsed(t) /\ OthersResolved(t)
    /\ FreshAuth(t, nonce, stamp)
    /\ attempts' = attempts \cup
          {[nonce |-> nonce, test |-> t, stamp |-> stamp, outcome |-> None]}
    /\ state' = [state EXCEPT ![t] = "DISPATCHING"]
    /\ retry' = [retry EXCEPT ![t] = None]
    /\ at' = [at EXCEPT ![e] = "send"]
    /\ job' = [job EXCEPT ![e] = [test |-> t, nonce |-> nonce]]
    /\ dispatches' = dispatches + 1
    /\ UNCHANGED <<control, intent, code, error, now, supplier, reply>>

\* transport.send.  The supplier holds one order per key and never drops it; a
\* completed answer reports the order it holds, any other tells nothing about it.
Send(e) ==
    LET k == intent[job[e].test].key
    IN  /\ at[e] = "send"
        /\ \E r \in Replies :
              /\ r.kind = "completed" => owes[k] \in {None, r.total}
              /\ owes' = [owes EXCEPT ![k] = IF r.kind = "completed" THEN r.total ELSE @]
              /\ holdUntil' = [holdUntil EXCEPT
                                  ![k] = IF r.kind = "progress" THEN now + r.delay ELSE @]
              /\ reply' = [reply EXCEPT ![e] = r]
        /\ asked' = asked \cup {k}
        /\ at' = [at EXCEPT ![e] = "finish"]
        /\ UNCHANGED <<control, journal, attempts, now, job, dispatches>>

\* The supplier acts on a request it answered otherwise, or whose answer was lost, at
\* any later time.
Late(k) ==
    /\ k \in asked /\ owes[k] = None
    /\ \E total \in Totals : owes' = [owes EXCEPT ![k] = total]
    /\ UNCHANGED <<control, journal, attempts, now, asked, holdUntil, locals, dispatches>>

\* Mutants of the classification: a state of the offline adapter's journal; a failed
\* transport taken for a test that was never sent; any completed order a success.
OutcomeInProgress(t, r) ==
    [state |-> IF r.kind = "unclear" THEN "UNKNOWN" ELSE "IN_PROGRESS",
     error |-> "OTHER", code |-> FALSE]
OutcomeUnsent(t, r) ==
    [state |-> IF r.kind = "unclear" THEN "PREPARED" ELSE "RECONCILING",
     error |-> "OTHER", code |-> FALSE]
OutcomeUncapped(t, r) ==
    [state |-> IF r.kind = "completed" THEN "SUCCEEDED" ELSE "UNKNOWN",
     error |-> "OTHER", code |-> r.kind = "completed"]

\* How submit classifies a response r to test t.
Outcome(t, r) ==
    LET Is(s, err, coded) == [state |-> s, error |-> err, code |-> coded]
    IN  CASE r.kind = "progress" -> Is("RECONCILING", r.code, FALSE)
          [] r.kind = "replayed" -> Is("RECONCILING", "OTHER", FALSE)
          [] r.kind = "mismatch" -> Is("RECONCILING", "IDEMPOTENCY_MISMATCH", FALSE)
          [] r.kind = "unclear"  -> Is("UNKNOWN", r.code, FALSE)
          [] r.kind = "completed" ->
                IF r.total > intent[t].cap
                THEN Is("RECONCILING", "SPEND_CAP_EXCEEDED", TRUE)
                ELSE Is("SUCCEEDED", None, TRUE)

\* Mutant: the gate is left armed for the next dispatch.
DisarmAfterNothing == control' = control

DisarmAfterDispatch == control' = [control EXCEPT !.enabled = FALSE]

\* submit passes finish a delay for an in-progress answer only; the Retry-After of any
\* other is recorded with the attempt as evidence, and no claim looks at it.
RetryNotBefore(r) == IF r.kind = "progress" THEN now + r.delay ELSE None

\* finish: the row and the attempt are closed and the gate disarmed together, or
\* nothing is written.
Finish(e) ==
    LET t == job[e].test
        o == Outcome(t, reply[e])
        open == {a \in attempts : a.test = t /\ a.nonce = job[e].nonce /\ a.outcome = None}
    IN  /\ at[e] = "finish"
        /\ IF state[t] = "DISPATCHING" /\ open # {}
           THEN /\ state' = [state EXCEPT ![t] = o.state]
                /\ retry' = [retry EXCEPT ![t] = RetryNotBefore(reply[e])]
                /\ code' = [code EXCEPT ![t] = o.code]
                /\ error' = [error EXCEPT ![t] = o.error]
                /\ attempts' = (attempts \ open)
                                 \cup {[a EXCEPT !.outcome = o.state] : a \in open}
                /\ DisarmAfterDispatch
           ELSE UNCHANGED <<state, retry, code, error, attempts, control>>
        /\ Return(e)
        /\ UNCHANGED <<intent, now, supplier, dispatches>>

\* The process dies or the call is cancelled: the test stays DISPATCHING.
Crash(e) ==
    /\ at[e] # "idle"
    /\ Return(e)
    /\ UNCHANGED <<control, journal, attempts, now, supplier, dispatches>>

-----------------------------------------------------------------------------

\* mark_reconciling: the only way out of UNKNOWN, and no dispatch by itself.
MarkReconciling(t, operator) ==
    /\ intent[t] # None
    /\ operator \in control.operators
    /\ operator = intent[t].operator
    /\ state[t] = "UNKNOWN"
    /\ state' = [state EXCEPT ![t] = "RECONCILING"]
    /\ UNCHANGED <<control, intent, retry, code, error, attempts, now, supplier, locals,
                   dispatches>>

Tick ==
    /\ now < MaxTime
    /\ now' = now + 1
    /\ UNCHANGED <<control, journal, attempts, supplier, locals, dispatches>>

Init ==
    /\ control = [enabled |-> FALSE, operators |-> {}, approved |-> None]
    /\ intent = [t \in Tests |-> None]
    /\ state = [t \in Tests |-> None]
    /\ retry = [t \in Tests |-> None]
    /\ code = [t \in Tests |-> FALSE]
    /\ error = [t \in Tests |-> None]
    /\ attempts = {}
    /\ now = 0
    /\ asked = {}
    /\ owes = [k \in Keys |-> None]
    /\ holdUntil = [k \in Keys |-> 0]
    /\ at = [e \in Executors |-> "idle"]
    /\ job = [e \in Executors |-> None]
    /\ reply = [e \in Executors |-> None]
    /\ dispatches = 0

Next ==
    \/ \E i \in Intents : Prepare(i)
    \/ \E ops \in SUBSET Operators : Disarm(ops) \/ \E a \in Approvals : Arm(a, ops)
    \/ \E e \in Executors :
          \/ \E t \in Tests, o \in Operators, n \in Nonces, s \in Stamps : Claim(e, t, o, n, s)
          \/ Send(e) \/ Finish(e) \/ Crash(e)
    \/ \E t \in Tests, o \in Operators : MarkReconciling(t, o)
    \/ \E k \in Keys : Late(k)
    \/ Tick

Spec == Init /\ [][Next]_vars

-----------------------------------------------------------------------------

TypeOK ==
    /\ control \in [enabled : BOOLEAN, operators : SUBSET Operators,
                    approved : Approvals \cup {None}]
    /\ intent \in [Tests -> Intents \cup {None}]
    /\ state \in [Tests -> GateState \cup {None}]
    /\ retry \in [Tests -> Nat \cup {None}]
    /\ code \in [Tests -> BOOLEAN]
    /\ error \in [Tests -> Errors \cup {None}]
    /\ attempts \subseteq [nonce : Nonces, test : Tests, stamp : Stamps,
                           outcome : GateState \cup {None}]
    /\ now \in Nat
    /\ asked \subseteq Keys
    /\ owes \in [Keys -> Totals \cup {None}]
    /\ holdUntil \in [Keys -> Nat]
    /\ at \in [Executors -> {"idle", "send", "finish"}]
    /\ job \in [Executors -> [test : Tests, nonce : Nonces] \cup {None}]
    /\ reply \in [Executors -> Replies \cup {None}]
    /\ dispatches \in Nat

\* While the fate of one test is open, no other test is dispatched: the supplier may
\* owe at most one order the journal does not account for.
OneUnresolvedTest ==
    \A t, u \in Tests : state[t] \in Unresolved /\ state[u] \in Unresolved => t = u

\* The two tables agree: a signing attempt is open exactly while its test is
\* DISPATCHING, and a test has at most one, whatever dies in between.
OpenAttemptIsTheDispatch ==
    /\ \A t \in Tests :
          state[t] = "DISPATCHING" <=> \E a \in attempts : a.test = t /\ a.outcome = None
    /\ \A a, b \in attempts : a.outcome = None /\ b.outcome = None => a = b

\* One deliberate arming of the gate is good for one dispatch, although the gate stays
\* enabled from the claim to the finish and the finish may never come.
OneDispatchPerArming == dispatches <= 1

\* A SUCCEEDED test is one the supplier reports an order for, within the cap.
SucceededIsWithinCap ==
    \A t \in Tests : state[t] = "SUCCEEDED" =>
        /\ owes[intent[t].key] # None
        /\ owes[intent[t].key] <= intent[t].cap

\* The supplier owes nothing for a test nobody dispatched, and an order the journal
\* does not show as a success belongs to the one unresolved test, however late the
\* supplier acts on a request whose answer was lost.
OwedIsAccountedFor ==
    \A k \in Keys : owes[k] # None =>
        \E t \in Tests : /\ intent[t] # None /\ intent[t].key = k
                         /\ state[t] \in Unresolved \cup {"SUCCEEDED"}

\* A test frozen by IDEMPOTENCY_MISMATCH or SPEND_CAP_EXCEEDED is neither dispatched
\* again nor called a success, by no later arming or investigation.
FrozenStaysFrozen ==
    [][\A t \in Tests : error[t] \in Frozen =>
          error'[t] = error[t] /\ state'[t] \notin {"DISPATCHING", "SUCCEEDED"}]_vars

\* No request reaches the supplier before the Retry-After of its last in-progress answer
\* (202, REQUEST_IN_PROGRESS) has elapsed.  A Retry-After of any other answer (429, 503,
\* REPLAYED_REQUEST) holds nothing back, and nothing is said of it.
InProgressWaitIsHonoured ==
    \A e \in Executors : at[e] = "send" => holdUntil[intent[job[e].test].key] <= now

=============================================================================
