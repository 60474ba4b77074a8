----------------------------- MODULE WriteJournal -----------------------------
(***************************************************************************)
(* The offline write path of suppliers/vietshare: SqliteWriteJournal       *)
(* (write_journal.py) and the adapter that submits from it                 *)
(* (write_orders.py).  Each journal method is a transaction of its own, so *)
(* a submit is begin_attempt, reserve_auth, the request, finish_attempt,   *)
(* and other processes may run between them.                               *)
(***************************************************************************)
EXTENDS Integers, FiniteSets

CONSTANTS
    Callers,        \* concurrent calls of the adapter
    Requests,       \* inputs of prepare: [op, key, body]
    RequestNonces,  \* bounds the number of signed requests
    Delays,         \* Retry-After values the supplier may give, 0 for none
    MaxClock,       \* bound on the clock
    LiveRecovery,   \* operations an operator may recover while they are being dispatched
    Nil

Operations == {r.op : r \in Requests}
OrderKeys  == {r.key : r \in Requests}

Resumable == {"PREPARED", "UNKNOWN", "IN_PROGRESS", "REPLAYED_REQUEST"}
Settled   == {"COMPLETED", "MISMATCH", "REJECTED"}

\* What submit tells apart in a response; "refused" is a 4xx with an error code,
\* "unclear" a failed transport or an answer it cannot use.  Whatever the supplier
\* answers, it may ask for a wait.
Answers == [kind : {"progress", "completed", "replayed", "mismatch", "refused", "unclear"},
            delay : Delays]

ASSUME DisciplineAssumption == LiveRecovery \subseteq Operations
ASSUME TimeAssumption == Delays \subseteq Nat /\ 0 \in Delays /\ MaxClock \in Nat
ASSUME NilAssumption ==
    Nil \notin Requests \cup Answers \cup Nat \cup Resumable \cup Settled \cup {"DISPATCHING"}

VARIABLES
    request, status, waitUntil,  \* vietshare_writes, by operation: the stored request,
                            \*   its state, retry_not_before
    auths,          \* vietshare_auth_attempts: [nonce, op, stamp]
    clock,
    where, attempt, answer, \* each caller: where it is, its [op, nonce, stamp], the
                    \*   response
    sought,         \* supplier: keys with a request it has not refused
    holds,          \* supplier: keys it holds an order for
    sent,           \* history: how often a nonce has been on the wire
    told            \* history: when the wait ends that an in-progress answer asked for,
                    \*   the last one a caller lived to hear of

rows   == <<request, status, waitUntil, auths>>
calls  == <<where, attempt, answer>>
supply == <<sought, holds, sent>>
jvars  == <<rows, clock, calls, supply, told>>

-----------------------------------------------------------------------------

\* prepare: a fresh operation and key; the same request again changes nothing and any
\* other overlap is a conflict.
PrepareRequest(r) ==
    /\ \A p \in Operations : request[p] # Nil => p # r.op /\ request[p].key # r.key
    /\ request' = [request EXCEPT ![r.op] = r]
    /\ status' = [status EXCEPT ![r.op] = "PREPARED"]
    /\ UNCHANGED <<waitUntil, auths, clock, calls, supply, told>>

\* Mutant: the deadline is not looked at.
BeginnableEarly(op) == status[op] \in Resumable

Beginnable(op) == status[op] \in Resumable /\ (waitUntil[op] # Nil => waitUntil[op] <= clock)

\* begin_attempt, with the clock read before it.  retry_not_before stays.
BeginAttempt(c, op) ==
    /\ where[c] = "idle"
    /\ Beginnable(op)
    /\ status' = [status EXCEPT ![op] = "DISPATCHING"]
    /\ where' = [where EXCEPT ![c] = "sign"]
    /\ attempt' = [attempt EXCEPT ![c] = [op |-> op, nonce |-> Nil, stamp |-> clock]]
    /\ UNCHANGED <<request, waitUntil, auths, clock, answer, supply, told>>

\* Mutant: freshness is remembered by the process, not by the journal.
UnusedInProcess(op, nonce, stamp) == \A d \in Callers : attempt[d] # Nil => attempt[d].nonce # nonce

Unused(op, nonce, stamp) == \A a \in auths : a.nonce # nonce /\ ~(a.op = op /\ a.stamp = stamp)

\* _request: reserve_auth, or finish UNKNOWN without a request.
Sign(c, nonce) ==
    LET j == attempt[c]
    IN  /\ where[c] = "sign"
        /\ IF Unused(j.op, nonce, j.stamp)
           THEN /\ auths' = auths \cup {[nonce |-> nonce, op |-> j.op, stamp |-> j.stamp]}
                /\ attempt' = [attempt EXCEPT ![c].nonce = nonce]
                /\ where' = [where EXCEPT ![c] = "send"]
                /\ UNCHANGED answer
           ELSE /\ where' = [where EXCEPT ![c] = "finish"]
                /\ answer' = [answer EXCEPT ![c] = [kind |-> "unclear", delay |-> 0]]
                /\ UNCHANGED <<auths, attempt>>
        /\ UNCHANGED <<request, status, waitUntil, clock, supply, told>>

\* transport.send.  The supplier holds at most one order for a key, reports it as
\* completed only if it holds it, and takes nothing for a request it refuses.
SendRequest(c) ==
    LET k == request[attempt[c].op].key
    IN  /\ where[c] = "send"
        /\ \E r \in Answers :
              /\ answer' = [answer EXCEPT ![c] = r]
              /\ sought' = IF r.kind = "refused" THEN sought ELSE sought \cup {k}
              /\ holds' = IF r.kind = "completed" THEN holds \cup {k} ELSE holds
        /\ sent' = [sent EXCEPT ![attempt[c].nonce] = @ + 1]
        /\ where' = [where EXCEPT ![c] = "finish"]
        /\ UNCHANGED <<rows, clock, attempt, told>>

\* The supplier acts later on a request it did not refuse.
TakesLate(k) ==
    /\ k \in sought \ holds
    /\ holds' = holds \cup {k}
    /\ UNCHANGED <<rows, clock, calls, sought, sent, told>>

\* Mutants: an unclear answer taken for a refusal, or for a completed order; a state of
\* the PostgreSQL gate.
StateAfterRefused(r) ==
    CASE r.kind = "progress" -> "IN_PROGRESS"  [] r.kind = "replayed" -> "REPLAYED_REQUEST"
      [] r.kind = "mismatch" -> "MISMATCH"     [] r.kind = "completed" -> "COMPLETED"
      [] OTHER -> "REJECTED"
StateAfterCompleted(r) ==
    CASE r.kind = "progress" -> "IN_PROGRESS"  [] r.kind = "replayed" -> "REPLAYED_REQUEST"
      [] r.kind = "mismatch" -> "MISMATCH"     [] r.kind = "refused" -> "REJECTED"
      [] OTHER -> "COMPLETED"
StateAfterReconciling(r) == IF r.kind = "completed" THEN "COMPLETED" ELSE "RECONCILING"

StateAfter(r) ==
    CASE r.kind = "progress"  -> "IN_PROGRESS"
      [] r.kind = "replayed"  -> "REPLAYED_REQUEST"
      [] r.kind = "mismatch"  -> "MISMATCH"
      [] r.kind = "completed" -> "COMPLETED"
      [] r.kind = "refused"   -> "REJECTED"
      [] r.kind = "unclear"   -> "UNKNOWN"

\* received_at + (retry_after or 1.0): no wait given, or none at all, is a second.  The
\* wait any other answer asks for is parsed and returned, but never stored: such an
\* operation can be resumed at once.
Deadline(r) ==
    IF r.kind # "progress" THEN Nil
    ELSE clock + (IF r.delay = 0 THEN 1 ELSE r.delay)

CallEnds(c) ==
    /\ where' = [where EXCEPT ![c] = "idle"]
    /\ attempt' = [attempt EXCEPT ![c] = Nil]
    /\ answer' = [answer EXCEPT ![c] = Nil]

Active(op) == status[op] = "DISPATCHING"

\* finish_attempt knows the operation, not the attempt: it writes for whoever is
\* dispatching, or raises.
FinishAttempt(c) ==
    LET op == attempt[c].op
    IN  /\ where[c] = "finish"
        /\ IF Active(op)
           THEN /\ status' = [status EXCEPT ![op] = StateAfter(answer[c])]
                /\ waitUntil' = [waitUntil EXCEPT ![op] = Deadline(answer[c])]
           ELSE UNCHANGED <<status, waitUntil>>
        /\ CallEnds(c)
        /\ told' = [told EXCEPT ![op] = IF answer[c].kind = "progress"
                                        THEN clock + answer[c].delay ELSE @]
        /\ UNCHANGED <<request, auths, clock, supply>>

\* The process dies, or the call is cancelled.
CallDies(c) ==
    /\ where[c] # "idle"
    /\ CallEnds(c)
    /\ UNCHANGED <<rows, clock, supply, told>>

\* mark_interrupted_unknown, which the operator calls after making sure that the old
\* dispatcher has stopped, except for those of LiveRecovery.  The deadline stays.
MarkInterrupted(op) ==
    /\ op \in LiveRecovery \/ \A c \in Callers : where[c] # "idle" => attempt[c].op # op
    /\ status[op] = "DISPATCHING"
    /\ status' = [status EXCEPT ![op] = "UNKNOWN"]
    /\ UNCHANGED <<request, waitUntil, auths, clock, calls, supply, told>>

\* get_delivered_order: a signed GET of a completed order, which writes nothing else.
Lookup(op, nonce) ==
    /\ status[op] = "COMPLETED"
    /\ Unused(op, nonce, clock)
    /\ auths' = auths \cup {[nonce |-> nonce, op |-> op, stamp |-> clock]}
    /\ sent' = [sent EXCEPT ![nonce] = @ + 1]
    /\ UNCHANGED <<request, status, waitUntil, clock, calls, sought, holds, told>>

ClockTicks ==
    /\ clock < MaxClock
    /\ clock' = clock + 1
    /\ UNCHANGED <<rows, calls, supply, told>>

JournalInit ==
    /\ request = [p \in Operations |-> Nil]
    /\ status = [p \in Operations |-> Nil]
    /\ waitUntil = [p \in Operations |-> Nil]
    /\ auths = {}
    /\ clock = 0
    /\ where = [c \in Callers |-> "idle"]
    /\ attempt = [c \in Callers |-> Nil]
    /\ answer = [c \in Callers |-> Nil]
    /\ sought = {}
    /\ holds = {}
    /\ sent = [n \in RequestNonces |-> 0]
    /\ told = [p \in Operations |-> 0]

JournalNext ==
    \/ \E r \in Requests : PrepareRequest(r)
    \/ \E c \in Callers :
          \/ \E p \in Operations : BeginAttempt(c, p)
          \/ \E n \in RequestNonces : Sign(c, n)
          \/ SendRequest(c) \/ FinishAttempt(c) \/ CallDies(c)
    \/ \E k \in OrderKeys : TakesLate(k)
    \/ \E p \in Operations : MarkInterrupted(p) \/ \E n \in RequestNonces : Lookup(p, n)
    \/ ClockTicks

JournalSpec == JournalInit /\ [][JournalNext]_jvars

-----------------------------------------------------------------------------

JournalTypeOK ==
    /\ request \in [Operations -> Requests \cup {Nil}]
    /\ status \in [Operations -> Resumable \cup Settled \cup {"DISPATCHING", Nil}]
    /\ waitUntil \in [Operations -> Nat \cup {Nil}]
    /\ auths \subseteq [nonce : RequestNonces, op : Operations, stamp : Nat]
    /\ clock \in Nat
    /\ where \in [Callers -> {"idle", "sign", "send", "finish"}]
    /\ attempt \in [Callers -> [op : Operations, nonce : RequestNonces \cup {Nil}, stamp : Nat]
                             \cup {Nil}]
    /\ answer \in [Callers -> Answers \cup {Nil}]
    /\ sought \subseteq OrderKeys /\ holds \subseteq OrderKeys
    /\ sent \in [RequestNonces -> Nat]
    /\ told \in [Operations -> Nat]

\* An operation has one dispatcher, from begin_attempt to finish_attempt, provided
\* operators do what mark_interrupted_unknown asks of them.
OneDispatcher ==
    \A c, d \in Callers :
        where[c] # "idle" /\ where[d] # "idle" /\ attempt[c].op = attempt[d].op /\ attempt[c].op \notin LiveRecovery
            => c = d

\* No signed request goes out twice, not even after a crash between the reservation and
\* the request, or next to a delivery lookup.
NonceIsSentOnce == \A n \in RequestNonces : sent[n] <= 1

\* COMPLETED is written only when the supplier holds the order, whoever's answer
\* finish_attempt wrote.
CompletedIsOwed == \A p \in Operations : status[p] = "COMPLETED" => request[p].key \in holds

\* An operation that was refused at its only attempt has no order at the supplier.
\* (After an earlier attempt without a clear answer it may have one.)
RefusedAtOnceIsNotOwed ==
    \A p \in Operations :
        status[p] = "REJECTED" /\ Cardinality({a \in auths : a.op = p}) = 1 =>
            request[p].key \notin holds

\* No request goes out before the wait is over that the last in-progress answer (202,
\* REQUEST_IN_PROGRESS) asked for, as far as a caller lived to record it: the deadline
\* survives crashes, restarts and recoveries.  The waits that other answers ask for (429,
\* 503, REPLAYED_REQUEST) are dropped, and nothing is said of them.
InProgressDeadlineIsHonoured ==
    \A c \in Callers :
        where[c] = "send" /\ attempt[c].op \notin LiveRecovery => told[attempt[c].op] <= clock

=============================================================================
