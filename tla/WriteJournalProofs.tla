-------------------------- MODULE WriteJournalProofs --------------------------
(***************************************************************************)
(* Proofs about the offline write journal, for any number of callers,      *)
(* operations, nonces and waits, and any use of live recovery; and what    *)
(* holds of gate and journal holds of the two next to each other.          *)
(***************************************************************************)
EXTENDS VietShareWrites, FiniteSetTheorems, TLAPS

-----------------------------------------------------------------------------
(* Types, and what the locals of a caller refer to *)

Attempts == [op : Operations, nonce : RequestNonces \cup {Nil}, stamp : Nat]

\* A caller that is not idle works for an operation that was prepared; one that is about
\* to send has a nonce, one that is about to finish an answer.
CallersAreEmployed ==
    \A c \in Callers : where[c] # "idle" =>
        /\ attempt[c] \in Attempts /\ request[attempt[c].op] # Nil
        /\ where[c] = "send" => attempt[c].nonce \in RequestNonces
        /\ where[c] = "finish" => answer[c] \in Answers

\* A row has a state from prepare on, and the request it was prepared with.
RowsAreCoherent ==
    \A p \in Operations : /\ request[p] = Nil <=> status[p] = Nil
                          /\ request[p] # Nil => request[p].op = p

\* No two operations share a key.
KeysAreDistinct ==
    \A p, q \in Operations :
        request[p] # Nil /\ request[q] # Nil /\ request[p].key = request[q].key => p = q

BasicInv ==
    /\ JournalTypeOK /\ CallersAreEmployed /\ RowsAreCoherent /\ KeysAreDistinct
    /\ IsFiniteSet(auths)

LEMMA RequestTypes == \A r \in Requests : r.op \in Operations /\ r.key \in OrderKeys
  BY DEF Operations, OrderKeys

LEMMA StateAfterTypes ==
  ASSUME NEW r \in Answers
  PROVE  /\ StateAfter(r) \in Resumable \cup Settled
         /\ StateAfter(r) = "COMPLETED" <=> r.kind = "completed"
         /\ StateAfter(r) = "REJECTED" <=> r.kind = "refused"
  BY DEF StateAfter, Answers, Resumable, Settled

LEMMA UnclearIsAnAnswer == [kind |-> "unclear", delay |-> 0] \in Answers
  BY TimeAssumption DEF Answers

LEMMA DeadlineTypes ==
  ASSUME clock \in Nat, NEW r \in Answers
  PROVE  /\ Deadline(r) \in Nat \cup {Nil}
         /\ r.delay \in Nat /\ clock + r.delay \in Nat
         /\ r.kind = "progress" => Deadline(r) \in Nat /\ clock + r.delay <= Deadline(r)
<1>1. r.delay \in Nat
  BY TimeAssumption DEF Answers
<1> QED
  BY <1>1 DEF Deadline

LEMMA BasicInit == JournalInit => BasicInv
  BY FS_EmptySet
  DEF JournalInit, BasicInv, JournalTypeOK, CallersAreEmployed, RowsAreCoherent,
      KeysAreDistinct

\* Every transaction of the journal and every step of a caller keeps the types.
LEMMA TypeStep == BasicInv /\ [JournalNext]_jvars => JournalTypeOK'
<1> SUFFICES ASSUME BasicInv, [JournalNext]_jvars
             PROVE  JournalTypeOK'
  OBVIOUS
<1> USE DEF BasicInv, JournalTypeOK, CallersAreEmployed
<1>1. ASSUME NEW r \in Requests, PrepareRequest(r)
      PROVE  JournalTypeOK'
  BY <1>1, RequestTypes DEF PrepareRequest, calls, supply, Resumable
<1>2. ASSUME NEW c \in Callers, NEW p \in Operations, BeginAttempt(c, p)
      PROVE  JournalTypeOK'
  BY <1>2 DEF BeginAttempt, supply
<1>3. ASSUME NEW c \in Callers, NEW n \in RequestNonces, Sign(c, n)
      PROVE  JournalTypeOK'
  <2>1. attempt[c] \in Attempts
    BY <1>3 DEF Sign
  <2>2. CASE Unused(attempt[c].op, n, attempt[c].stamp)
    <3>1. auths' \subseteq [nonce : RequestNonces, op : Operations, stamp : Nat]
      BY <1>3, <2>1, <2>2 DEF Sign, Attempts
    <3>2. [attempt[c] EXCEPT !.nonce = n] \in Attempts
      BY <2>1 DEF Attempts
    <3>3. attempt' = [attempt EXCEPT ![c] = [attempt[c] EXCEPT !.nonce = n]]
      BY <1>3, <2>2 DEF Sign
    <3> QED
      BY <1>3, <2>2, <3>1, <3>2, <3>3 DEF Sign, Attempts, supply
  <2>3. CASE ~Unused(attempt[c].op, n, attempt[c].stamp)
    BY <1>3, <2>3, UnclearIsAnAnswer DEF Sign, supply
  <2> QED
    BY <2>2, <2>3
<1>4. ASSUME NEW c \in Callers, SendRequest(c)
      PROVE  JournalTypeOK'
  <2>1. request[attempt[c].op].key \in OrderKeys
    BY <1>4, RequestTypes DEF SendRequest, Attempts
  <2>2. PICK r \in Answers :
           /\ answer' = [answer EXCEPT ![c] = r]
           /\ sought' \subseteq sought \cup {request[attempt[c].op].key}
           /\ holds' \subseteq holds \cup {request[attempt[c].op].key}
    BY <1>4 DEF SendRequest
  <2> QED
    BY <1>4, <2>1, <2>2 DEF SendRequest, rows
<1>5. ASSUME NEW c \in Callers, FinishAttempt(c)
      PROVE  JournalTypeOK'
  <2>1. answer[c] \in Answers /\ attempt[c].op \in Operations
    BY <1>5 DEF FinishAttempt, Attempts
  <2>2. StateAfter(answer[c]) \in Resumable \cup Settled /\ Deadline(answer[c]) \in Nat \cup {Nil}
          /\ (answer[c].kind = "progress" => clock + answer[c].delay \in Nat)
    BY <2>1, StateAfterTypes, DeadlineTypes
  <2> QED
    BY <1>5, <2>1, <2>2 DEF FinishAttempt, CallEnds, supply
<1>6. ASSUME NEW c \in Callers, CallDies(c)
      PROVE  JournalTypeOK'
  BY <1>6 DEF CallDies, CallEnds, rows, supply
<1>7. ASSUME NEW k \in OrderKeys, TakesLate(k)
      PROVE  JournalTypeOK'
  BY <1>7 DEF TakesLate, rows, calls
<1>8. ASSUME NEW p \in Operations, MarkInterrupted(p)
      PROVE  JournalTypeOK'
  BY <1>8 DEF MarkInterrupted, calls, supply, Resumable
<1>9. ASSUME NEW p \in Operations, NEW n \in RequestNonces, Lookup(p, n)
      PROVE  JournalTypeOK'
  BY <1>9 DEF Lookup, calls
<1>10. CASE ClockTicks
  BY <1>10 DEF ClockTicks, rows, calls, supply
<1>11. CASE UNCHANGED jvars
  BY <1>11 DEF jvars, rows, calls, supply
<1> QED
  BY <1>1, <1>2, <1>3, <1>4, <1>5, <1>6, <1>7, <1>8, <1>9, <1>10, <1>11 DEF JournalNext

LEMMA BasicStep == BasicInv /\ [JournalNext]_jvars => BasicInv'
<1> SUFFICES ASSUME BasicInv, [JournalNext]_jvars
             PROVE  BasicInv'
  OBVIOUS
<1>0. JournalTypeOK'
  BY TypeStep
<1> USE NilAssumption, <1>0
    DEF BasicInv, JournalTypeOK, CallersAreEmployed, RowsAreCoherent, KeysAreDistinct
<1>1. ASSUME NEW r \in Requests, PrepareRequest(r)
      PROVE  BasicInv'
  <2>1. r # Nil /\ r.op \in Operations /\ "PREPARED" # Nil
    BY RequestTypes DEF Resumable
  <2> QED
    BY <1>1, <2>1 DEF PrepareRequest, calls, supply
<1>2. ASSUME NEW c \in Callers, NEW p \in Operations, BeginAttempt(c, p)
      PROVE  BasicInv'
  <2>1. request[p] # Nil
    BY <1>2 DEF BeginAttempt, Beginnable, Resumable
  <2> QED
    BY <1>2, <2>1 DEF BeginAttempt, Attempts, supply
<1>3. ASSUME NEW c \in Callers, NEW n \in RequestNonces, Sign(c, n)
      PROVE  BasicInv'
  <2>1. attempt[c] \in Attempts /\ request[attempt[c].op] # Nil
    BY <1>3 DEF Sign
  <2>2. CASE Unused(attempt[c].op, n, attempt[c].stamp)
    <3> DEFINE new == [nonce |-> n, op |-> attempt[c].op, stamp |-> attempt[c].stamp]
    <3>3. auths' = auths \cup {new}
      BY <1>3, <2>2 DEF Sign
    <3>1. IsFiniteSet(auths')
      <4> HIDE DEF new
      <4> QED
        BY <3>3, FS_AddElement
    <3>2. attempt' = [attempt EXCEPT ![c] =
                        [op |-> attempt[c].op, nonce |-> n, stamp |-> attempt[c].stamp]]
      BY <1>3, <2>1, <2>2 DEF Sign, Attempts
    <3> QED
      BY <1>3, <2>1, <2>2, <3>1, <3>2 DEF Sign, Attempts, supply
  <2>3. CASE ~Unused(attempt[c].op, n, attempt[c].stamp)
    BY <1>3, <2>1, <2>3, UnclearIsAnAnswer DEF Sign, supply
  <2> QED
    BY <2>2, <2>3
<1>4. ASSUME NEW c \in Callers, SendRequest(c)
      PROVE  BasicInv'
  BY <1>4 DEF SendRequest, rows
<1>5. ASSUME NEW c \in Callers, FinishAttempt(c)
      PROVE  BasicInv'
  <2>1. answer[c] \in Answers
    BY <1>5 DEF FinishAttempt
  <2>2. StateAfter(answer[c]) # Nil
    BY <2>1, StateAfterTypes
  <2> QED
    BY <1>5, <2>2 DEF FinishAttempt, CallEnds, Active, supply
<1>6. ASSUME NEW c \in Callers, CallDies(c)
      PROVE  BasicInv'
  BY <1>6 DEF CallDies, CallEnds, rows, supply
<1>7. ASSUME NEW k \in OrderKeys, TakesLate(k)
      PROVE  BasicInv'
  BY <1>7 DEF TakesLate, rows, calls
<1>8. ASSUME NEW p \in Operations, MarkInterrupted(p)
      PROVE  BasicInv'
  BY <1>8 DEF MarkInterrupted, calls, supply, Resumable
<1>9. ASSUME NEW p \in Operations, NEW n \in RequestNonces, Lookup(p, n)
      PROVE  BasicInv'
  BY <1>9, FS_AddElement DEF Lookup, calls
<1>10. CASE ClockTicks
  BY <1>10 DEF ClockTicks, rows, calls, supply
<1>11. CASE UNCHANGED jvars
  BY <1>11 DEF jvars, rows, calls, supply
<1> QED
  BY <1>1, <1>2, <1>3, <1>4, <1>5, <1>6, <1>7, <1>8, <1>9, <1>10, <1>11 DEF JournalNext

LEMMA Basic == JournalSpec => []BasicInv
  BY BasicInit, BasicStep, PTL DEF JournalSpec

\* Every variable keeps its type, whatever callers and operators do.
THEOREM JournalTypes == JournalSpec => []JournalTypeOK
<1>1. BasicInv => JournalTypeOK
  BY DEF BasicInv
<1> QED
  BY <1>1, Basic, PTL

-----------------------------------------------------------------------------
(* Nonces: a request is signed once and sent once *)

\* A nonce that was on the wire is in the journal, where no later signature draws it.
SentIsReserved == \A n \in RequestNonces : sent[n] # 0 => \E a \in auths : a.nonce = n

\* The signature of the caller is in the journal, for its operation.
Signed(c) == \E a \in auths : a.nonce = attempt[c].nonce /\ a.op = attempt[c].op

\* Who is about to send has a nonce of its own that nobody has sent.
SignedIsUnsent ==
    /\ \A c \in Callers : where[c] = "send" => sent[attempt[c].nonce] = 0 /\ Signed(c)
    /\ \A c, d \in Callers :
          where[c] = "send" /\ where[d] = "send" /\ attempt[c].nonce = attempt[d].nonce => c = d

\* Who was refused has sent its request.
RefusedWasSent ==
    \A c \in Callers : where[c] = "finish" /\ answer[c].kind = "refused" =>
        attempt[c].nonce \in RequestNonces /\ sent[attempt[c].nonce] # 0 /\ Signed(c)

SigningInv == NonceIsSentOnce /\ SentIsReserved /\ SignedIsUnsent /\ RefusedWasSent

LEMMA SigningInit == JournalInit => SigningInv
  BY DEF JournalInit, SigningInv, NonceIsSentOnce, SentIsReserved, SignedIsUnsent, RefusedWasSent

LEMMA SigningStep == BasicInv /\ SigningInv /\ [JournalNext]_jvars => SigningInv'
<1> SUFFICES ASSUME BasicInv, SigningInv, [JournalNext]_jvars
             PROVE  SigningInv'
  OBVIOUS
<1>0. BasicInv'
  BY BasicStep
<1> USE DEF BasicInv, JournalTypeOK, CallersAreEmployed,
            SigningInv, NonceIsSentOnce, SentIsReserved, SignedIsUnsent, RefusedWasSent, Signed
<1>1. ASSUME NEW r \in Requests, PrepareRequest(r)
      PROVE  SigningInv'
  BY <1>1 DEF PrepareRequest, calls, supply
<1>2. ASSUME NEW c \in Callers, NEW p \in Operations, BeginAttempt(c, p)
      PROVE  SigningInv'
  BY <1>2 DEF BeginAttempt, supply
<1>3. ASSUME NEW c \in Callers, NEW n \in RequestNonces, Sign(c, n)
      PROVE  SigningInv'
  <2>1. attempt[c] \in Attempts
    BY <1>3 DEF Sign
  <2>2. CASE Unused(attempt[c].op, n, attempt[c].stamp)
    <3>1. sent[n] = 0
      BY <2>2 DEF Unused
    <3>2. attempt' = [attempt EXCEPT ![c] =
                        [op |-> attempt[c].op, nonce |-> n, stamp |-> attempt[c].stamp]]
      BY <1>3, <2>1, <2>2 DEF Sign, Attempts
    <3>3. auths' = auths \cup {[nonce |-> n, op |-> attempt[c].op, stamp |-> attempt[c].stamp]}
      BY <1>3, <2>2 DEF Sign
    <3>4. \A d \in Callers : where[d] = "send" => attempt[d].nonce # n
      BY <2>2 DEF Unused
    <3> QED
      BY <1>3, <2>2, <3>1, <3>2, <3>3, <3>4 DEF Sign, supply
  <2>3. CASE ~Unused(attempt[c].op, n, attempt[c].stamp)
    BY <1>3, <2>3 DEF Sign, supply
  <2> QED
    BY <2>2, <2>3
<1>4. ASSUME NEW c \in Callers, SendRequest(c)
      PROVE  SigningInv'
  <2>1. where[c] = "send" /\ attempt[c].nonce \in RequestNonces /\ sent[attempt[c].nonce] + 1 = 1
    BY <1>4 DEF SendRequest
  <2>2. sent' = [sent EXCEPT ![attempt[c].nonce] = 1]
    BY <1>4, <2>1 DEF SendRequest
  <2> QED
    BY <1>4, <2>1, <2>2 DEF SendRequest, rows
<1>5. ASSUME NEW c \in Callers, FinishAttempt(c)
      PROVE  SigningInv'
  BY <1>5 DEF FinishAttempt, CallEnds, supply
<1>6. ASSUME NEW c \in Callers, CallDies(c)
      PROVE  SigningInv'
  BY <1>6 DEF CallDies, CallEnds, rows, supply
<1>7. ASSUME NEW k \in OrderKeys, TakesLate(k)
      PROVE  SigningInv'
  BY <1>7 DEF TakesLate, rows, calls
<1>8. ASSUME NEW p \in Operations, MarkInterrupted(p)
      PROVE  SigningInv'
  BY <1>8 DEF MarkInterrupted, calls, supply
<1>9. ASSUME NEW p \in Operations, NEW n \in RequestNonces, Lookup(p, n)
      PROVE  SigningInv'
  <2>1. sent[n] = 0 /\ \A a \in auths : a.nonce # n
    BY <1>9 DEF Lookup, Unused
  <2>2. sent' = [sent EXCEPT ![n] = 1]
    BY <1>9, <2>1 DEF Lookup
  <2>3. /\ auths \subseteq auths' /\ \E a \in auths' : a.nonce = n
        /\ \A m \in RequestNonces : m # n => sent'[m] = sent[m]
        /\ \A d \in Callers : where[d] = "send" => attempt[d].nonce # n
    <3>1. auths \subseteq auths' /\ [nonce |-> n, op |-> p, stamp |-> clock] \in auths'
      BY <1>9 DEF Lookup
    <3>2. \A m \in RequestNonces : m # n => sent'[m] = sent[m]
      BY <2>2
    <3>3. \A d \in Callers : where[d] = "send" => attempt[d].nonce # n
      BY <2>1
    <3> QED
      BY <3>1, <3>2, <3>3
  <2>4. sent'[n] = 1
    BY <2>2
  <2> QED
    BY <1>9, <2>1, <2>3, <2>4 DEF Lookup, calls
<1>10. CASE ClockTicks
  BY <1>10 DEF ClockTicks, rows, calls, supply
<1>11. CASE UNCHANGED jvars
  BY <1>11 DEF jvars, rows, calls, supply
<1> QED
  BY <1>1, <1>2, <1>3, <1>4, <1>5, <1>6, <1>7, <1>8, <1>9, <1>10, <1>11 DEF JournalNext

LEMMA Signing == JournalSpec => []SigningInv
  BY SigningInit, SigningStep, Basic, PTL DEF JournalSpec

\* No signed request goes out twice, however many callers crash between the reservation
\* and the request.
THEOREM NoncesAreSentOnce == JournalSpec => []NonceIsSentOnce
<1>1. SigningInv => NonceIsSentOnce
  BY DEF SigningInv
<1> QED
  BY <1>1, Signing, PTL

-----------------------------------------------------------------------------
(* What the supplier was asked for and holds *)

\* What the supplier was asked for, without refusing, is the key of an operation that has
\* sent a signed request; what it holds it was asked for.
SoughtWasSent ==
    /\ holds \subseteq sought
    /\ \A k \in sought : \E p \in Operations : request[p] # Nil /\ request[p].key = k
    /\ \A p \in Operations : request[p] # Nil /\ request[p].key \in sought =>
          \E a \in auths : a.op = p /\ sent[a.nonce] # 0

\* Who hears "completed" works for an order the supplier holds.
HeardCompletedIsHeld ==
    \A c \in Callers : where[c] = "finish" /\ answer[c].kind = "completed" =>
        request[attempt[c].op].key \in holds

\* Who hears "refused" although the supplier was asked for the order is not the only one
\* to have signed for it.
RefusalOfSought ==
    \A c \in Callers :
        where[c] = "finish" /\ answer[c].kind = "refused" /\ request[attempt[c].op].key \in sought =>
            \E a \in auths : a.op = attempt[c].op /\ a.nonce # attempt[c].nonce

\* The same once the refusal is recorded.
RejectionOfSought ==
    \A p \in Operations : status[p] = "REJECTED" =>
        /\ \E a \in auths : a.op = p /\ sent[a.nonce] # 0
        /\ request[p].key \in sought => \E a, b \in auths : a.op = p /\ b.op = p /\ a # b

SupplyInv ==
    /\ SoughtWasSent /\ HeardCompletedIsHeld /\ RefusalOfSought /\ RejectionOfSought
    /\ CompletedIsOwed

LEMMA SupplyInit == JournalInit => SupplyInv
  BY NilAssumption
  DEF JournalInit, SupplyInv, SoughtWasSent, HeardCompletedIsHeld, RefusalOfSought,
      RejectionOfSought, CompletedIsOwed, Settled

LEMMA SupplyStep == BasicInv /\ SigningInv /\ SupplyInv /\ [JournalNext]_jvars => SupplyInv'
<1> SUFFICES ASSUME BasicInv, SigningInv, SupplyInv, [JournalNext]_jvars
             PROVE  SupplyInv'
  OBVIOUS
<1>0. BasicInv'
  BY BasicStep
<1> USE DEF BasicInv, JournalTypeOK, CallersAreEmployed,
            SupplyInv, SoughtWasSent, HeardCompletedIsHeld, RefusalOfSought,
            RejectionOfSought, CompletedIsOwed
<1>1. ASSUME NEW r \in Requests, PrepareRequest(r)
      PROVE  SupplyInv'
  <2>1. r.op \in Operations /\ r.key \notin sought
    BY <1>1, RequestTypes DEF PrepareRequest
  <2>2. /\ request' = [request EXCEPT ![r.op] = r]
        /\ status' = [status EXCEPT ![r.op] = "PREPARED"]
        /\ request[r.op] = Nil /\ r # Nil
    BY <1>1, <2>1, NilAssumption DEF PrepareRequest
  <2> QED
    BY <1>1, <2>1, <2>2 DEF PrepareRequest, calls, supply
<1>2. ASSUME NEW c \in Callers, NEW p \in Operations, BeginAttempt(c, p)
      PROVE  SupplyInv'
  BY <1>2 DEF BeginAttempt, supply
<1>3. ASSUME NEW c \in Callers, NEW n \in RequestNonces, Sign(c, n)
      PROVE  SupplyInv'
  <2>1. attempt[c] \in Attempts
    BY <1>3 DEF Sign
  <2>2. CASE Unused(attempt[c].op, n, attempt[c].stamp)
    <3>1. auths \subseteq auths'
      BY <1>3, <2>2 DEF Sign
    <3>2. \A d \in Callers : where'[d] = "finish" =>
             where[d] = "finish" /\ attempt'[d] = attempt[d] /\ answer'[d] = answer[d]
      BY <1>3, <2>2 DEF Sign
    <3> QED
      BY <1>3, <3>1, <3>2 DEF Sign, supply
  <2>3. CASE ~Unused(attempt[c].op, n, attempt[c].stamp)
    BY <1>3, <2>3 DEF Sign, supply
  <2> QED
    BY <2>2, <2>3
<1>4. ASSUME NEW c \in Callers, SendRequest(c)
      PROVE  SupplyInv'
  <2> DEFINE p == attempt[c].op
             k == request[p].key
             n == attempt[c].nonce
  <2>1. /\ where[c] = "send" /\ p \in Operations /\ n \in RequestNonces /\ request[p] # Nil
        /\ sent[n] = 0 /\ \E a \in auths : a.op = p /\ a.nonce = n
    BY <1>4 DEF SendRequest, Attempts, SigningInv, SignedIsUnsent, Signed
  <2>2. PICK r \in Answers :
          /\ answer' = [answer EXCEPT ![c] = r]
          /\ sought' = IF r.kind = "refused" THEN sought ELSE sought \cup {k}
          /\ holds' = IF r.kind = "completed" THEN holds \cup {k} ELSE holds
    BY <1>4 DEF SendRequest
  <2>3. /\ sent' = [sent EXCEPT ![n] = 1]
        /\ where' = [where EXCEPT ![c] = "finish"]
        /\ UNCHANGED <<request, status, auths, attempt>>
    BY <1>4, <2>1 DEF SendRequest, rows
  <2>4. \A m \in RequestNonces : sent[m] # 0 => sent'[m] # 0 /\ m # n
    BY <2>1, <2>3
  <2>5. \A a \in auths : a.nonce \in RequestNonces
    OBVIOUS
  <2>6. \A q \in Operations : request[q] # Nil /\ request[q].key = k => q = p
    BY <2>1 DEF KeysAreDistinct
  <2>7. \A d \in Callers : where[d] = "finish" /\ answer[d].kind = "refused" =>
           attempt[d].nonce \in RequestNonces /\ attempt[d].nonce # n
    BY <2>1 DEF SigningInv, RefusedWasSent
  <2>8. sent'[n] # 0
    BY <2>1, <2>3
  <2>a. SoughtWasSent'
    BY <2>1, <2>2, <2>3, <2>4, <2>5, <2>6, <2>8
  <2>b. HeardCompletedIsHeld'
    BY <2>1, <2>2, <2>3
  <2>c. RefusalOfSought'
    <3> SUFFICES ASSUME NEW d \in Callers, where'[d] = "finish", answer'[d].kind = "refused",
                        request[attempt[d].op].key \in sought'
                 PROVE  \E a \in auths : a.op = attempt[d].op /\ a.nonce # attempt[d].nonce
      BY <2>3
    <3>1. CASE d = c
      BY <3>1, <2>1, <2>2, <2>4, <2>5
    <3>2. CASE d # c
      <4>1. where[d] = "finish" /\ answer[d].kind = "refused"
        BY <3>2, <2>2, <2>3
      <4>2. CASE request[attempt[d].op].key \in sought
        BY <4>1, <4>2
      <4>3. CASE request[attempt[d].op].key = k
        <5>1. attempt[d].op = p
          BY <4>1, <4>3, <2>6 DEF Attempts
        <5> QED
          BY <5>1, <4>1, <2>1, <2>7
      <4> QED
        BY <4>2, <4>3, <2>2
    <3> QED
      BY <3>1, <3>2
  <2>d. RejectionOfSought'
    <3> SUFFICES ASSUME NEW q \in Operations, status[q] = "REJECTED"
                 PROVE  /\ \E a \in auths : a.op = q /\ sent'[a.nonce] # 0
                        /\ request[q].key \in sought' =>
                              \E a, b \in auths : a.op = q /\ b.op = q /\ a # b
      BY <2>3
    <3>1. PICK a \in auths : a.op = q /\ sent[a.nonce] # 0
      OBVIOUS
    <3>2. sent'[a.nonce] # 0 /\ a.nonce # n
      BY <3>1, <2>4, <2>5
    <3>3. request[q] # Nil
      BY NilAssumption DEF RowsAreCoherent, Settled
    <3>4. CASE request[q].key \in sought
      BY <3>1, <3>2, <3>4
    <3>5. CASE request[q].key = k
      <4>1. q = p
        BY <3>3, <3>5, <2>6
      <4> QED
        BY <4>1, <3>1, <3>2, <2>1
    <3> QED
      BY <3>1, <3>2, <3>4, <3>5, <2>2
  <2>e. CompletedIsOwed'
    BY <2>2, <2>3
  <2> QED
    BY <2>a, <2>b, <2>c, <2>d, <2>e
<1>5. ASSUME NEW c \in Callers, FinishAttempt(c)
      PROVE  SupplyInv'
  <2> DEFINE p == attempt[c].op
             r == answer[c]
  <2>1. where[c] = "finish" /\ p \in Operations /\ r \in Answers /\ request[p] # Nil
    BY <1>5 DEF FinishAttempt, Attempts
  <2>2. /\ UNCHANGED <<request, auths, sought, holds, sent>>
        /\ \A d \in Callers : where'[d] = "finish" =>
              where[d] = "finish" /\ attempt'[d] = attempt[d] /\ answer'[d] = answer[d]
        /\ status' = status \/ status' = [status EXCEPT ![p] = StateAfter(r)]
    BY <1>5 DEF FinishAttempt, CallEnds, supply
  <2>3. /\ StateAfter(r) = "COMPLETED" => request[p].key \in holds
        /\ StateAfter(r) = "REJECTED" => r.kind = "refused"
    BY <2>1, StateAfterTypes
  <2>4. CompletedIsOwed'
    BY <2>2, <2>3
  <2>5. RejectionOfSought'
    <3>1. StateAfter(r) = "REJECTED" =>
            /\ \E a \in auths : a.op = p /\ sent[a.nonce] # 0
            /\ request[p].key \in sought => \E a, b \in auths : a.op = p /\ b.op = p /\ a # b
      BY <2>1, <2>3 DEF SigningInv, RefusedWasSent, Signed
    <3> QED
      BY <2>2, <3>1
  <2> QED
    BY <2>2, <2>4, <2>5
<1>6. ASSUME NEW c \in Callers, CallDies(c)
      PROVE  SupplyInv'
  BY <1>6 DEF CallDies, CallEnds, rows, supply
<1>7. ASSUME NEW k \in OrderKeys, TakesLate(k)
      PROVE  SupplyInv'
  BY <1>7 DEF TakesLate, rows, calls
<1>8. ASSUME NEW p \in Operations, MarkInterrupted(p)
      PROVE  SupplyInv'
  BY <1>8 DEF MarkInterrupted, calls, supply
<1>9. ASSUME NEW p \in Operations, NEW n \in RequestNonces, Lookup(p, n)
      PROVE  SupplyInv'
  <2>1. /\ auths \subseteq auths' /\ UNCHANGED <<request, status, calls, sought, holds>>
        /\ \A a \in auths : sent[a.nonce] # 0 => sent'[a.nonce] # 0
    BY <1>9 DEF Lookup
  <2> QED
    BY <2>1 DEF calls
<1>10. CASE ClockTicks
  BY <1>10 DEF ClockTicks, rows, calls, supply
<1>11. CASE UNCHANGED jvars
  BY <1>11 DEF jvars, rows, calls, supply
<1> QED
  BY <1>1, <1>2, <1>3, <1>4, <1>5, <1>6, <1>7, <1>8, <1>9, <1>10, <1>11 DEF JournalNext

LEMMA Supply == JournalSpec => []SupplyInv
  BY SupplyInit, SupplyStep, Basic, Signing, PTL DEF JournalSpec

\* COMPLETED is written only for orders the supplier holds, whoever's answer
\* finish_attempt wrote, live recovery or not.
THEOREM CompletedOrdersAreOwed == JournalSpec => []CompletedIsOwed
<1>1. SupplyInv => CompletedIsOwed
  BY DEF SupplyInv
<1> QED
  BY <1>1, Supply, PTL

\* An operation refused at its only attempt has no order at the supplier, and will have none.
THEOREM RefusedOrdersAreNotOwed == JournalSpec => []RefusedAtOnceIsNotOwed
<1>1. BasicInv /\ SupplyInv => RefusedAtOnceIsNotOwed
  <2> SUFFICES ASSUME BasicInv, SupplyInv, NEW p \in Operations, status[p] = "REJECTED",
                      Cardinality({a \in auths : a.op = p}) = 1, request[p].key \in holds
               PROVE  FALSE
    BY DEF RefusedAtOnceIsNotOwed
  <2> DEFINE signed == {a \in auths : a.op = p}
  <2>1. PICK a, b \in auths : a.op = p /\ b.op = p /\ a # b
    BY DEF SupplyInv, RejectionOfSought, SoughtWasSent
  <2>2. IsFiniteSet(signed)
    BY FS_Subset DEF BasicInv
  <2>3. PICK x : signed = {x}
    <3> HIDE DEF signed
    <3> QED
      BY <2>2, FS_Singleton DEF signed
  <2> QED
    BY <2>1, <2>3
<1> QED
  BY <1>1, Basic, Supply, PTL

-----------------------------------------------------------------------------
(* The wait the supplier asked for *)

\* Without live recovery an operation that a caller works for stays DISPATCHING, and it was
\* begun after the wait that was last heard of.
DispatchIsDue ==
    \A c \in Callers : where[c] # "idle" /\ attempt[c].op \notin LiveRecovery =>
        status[attempt[c].op] = "DISPATCHING" /\ told[attempt[c].op] <= clock

\* The deadline in the journal covers a wait that is not over.
WaitIsStored ==
    \A p \in Operations \ LiveRecovery :
        told[p] <= clock \/ (waitUntil[p] \in Nat /\ told[p] <= waitUntil[p])

WaitInv == OneDispatcher /\ DispatchIsDue /\ WaitIsStored

LEMMA WaitInit == JournalInit => WaitInv
  BY DEF JournalInit, WaitInv, OneDispatcher, DispatchIsDue, WaitIsStored

LEMMA WaitStep == BasicInv /\ WaitInv /\ [JournalNext]_jvars => WaitInv'
<1> SUFFICES ASSUME BasicInv, WaitInv, [JournalNext]_jvars
             PROVE  WaitInv'
  OBVIOUS
<1>0. BasicInv'
  BY BasicStep
<1> USE DEF BasicInv, JournalTypeOK, CallersAreEmployed, Attempts,
            WaitInv, OneDispatcher, DispatchIsDue, WaitIsStored
<1>1. ASSUME NEW r \in Requests, PrepareRequest(r)
      PROVE  WaitInv'
  <2>1. \A c \in Callers : where[c] # "idle" => attempt[c].op # r.op
    BY <1>1 DEF PrepareRequest
  <2> QED
    BY <1>1, <2>1 DEF PrepareRequest, calls, supply
<1>2. ASSUME NEW c \in Callers, NEW p \in Operations, BeginAttempt(c, p)
      PROVE  WaitInv'
  <2>1. \A d \in Callers : where[d] # "idle" /\ p \notin LiveRecovery => attempt[d].op # p
    BY <1>2 DEF BeginAttempt, Beginnable, Resumable
  <2>2. p \notin LiveRecovery => told[p] <= clock
    BY <1>2, NilAssumption DEF BeginAttempt, Beginnable
  <2>3. /\ attempt' = [attempt EXCEPT ![c] = [op |-> p, nonce |-> Nil, stamp |-> clock]]
        /\ where' = [where EXCEPT ![c] = "sign"]
        /\ status' = [status EXCEPT ![p] = "DISPATCHING"]
        /\ UNCHANGED <<waitUntil, clock, told>>
    BY <1>2 DEF BeginAttempt
  <2> QED
    BY <2>1, <2>2, <2>3
<1>3. ASSUME NEW c \in Callers, NEW n \in RequestNonces, Sign(c, n)
      PROVE  WaitInv'
  <2>1. /\ where[c] # "idle" /\ where' \in {[where EXCEPT ![c] = l] : l \in {"send", "finish"}}
        /\ \A d \in Callers : where[d] # "idle" => attempt'[d].op = attempt[d].op
        /\ UNCHANGED <<status, waitUntil, clock, told>>
    BY <1>3 DEF Sign
  <2> QED
    BY <2>1
<1>4. ASSUME NEW c \in Callers, SendRequest(c)
      PROVE  WaitInv'
  BY <1>4 DEF SendRequest, rows
<1>5. ASSUME NEW c \in Callers, FinishAttempt(c)
      PROVE  WaitInv'
  <2> DEFINE p == attempt[c].op
             r == answer[c]
  <2>1. where[c] = "finish" /\ p \in Operations /\ r \in Answers
    BY <1>5 DEF FinishAttempt
  <2>2. /\ where' = [where EXCEPT ![c] = "idle"]
        /\ \A d \in Callers : d # c => attempt'[d] = attempt[d]
        /\ clock' = clock
        /\ \A q \in Operations : q # p =>
              status'[q] = status[q] /\ told'[q] = told[q] /\ waitUntil'[q] = waitUntil[q]
    BY <1>5 DEF FinishAttempt, CallEnds
  <2>3. \A d \in Callers : where'[d] # "idle" /\ attempt'[d].op \notin LiveRecovery =>
            d # c /\ where[d] # "idle" /\ attempt[d].op # p
    BY <2>1, <2>2
  <2>4. ASSUME p \notin LiveRecovery
        PROVE  told'[p] <= clock' \/ (waitUntil'[p] \in Nat /\ told'[p] <= waitUntil'[p])
    <3>1. Active(p) /\ told[p] <= clock
      BY <2>1, <2>4 DEF Active
    <3>2. waitUntil'[p] = Deadline(r)
      BY <1>5, <2>1, <3>1 DEF FinishAttempt
    <3>3. told'[p] = IF r.kind = "progress" THEN clock + r.delay ELSE told[p]
      BY <1>5, <2>1 DEF FinishAttempt
    <3> QED
      BY <3>1, <3>2, <3>3, <2>1, <2>2, DeadlineTypes
  <2> QED
    BY <2>2, <2>3, <2>4
<1>6. ASSUME NEW c \in Callers, CallDies(c)
      PROVE  WaitInv'
  BY <1>6 DEF CallDies, CallEnds, rows, supply
<1>7. ASSUME NEW k \in OrderKeys, TakesLate(k)
      PROVE  WaitInv'
  BY <1>7 DEF TakesLate, rows, calls
<1>8. ASSUME NEW p \in Operations, MarkInterrupted(p)
      PROVE  WaitInv'
  BY <1>8 DEF MarkInterrupted, calls, supply
<1>9. ASSUME NEW p \in Operations, NEW n \in RequestNonces, Lookup(p, n)
      PROVE  WaitInv'
  BY <1>9 DEF Lookup, calls
<1>10. CASE ClockTicks
  BY <1>10 DEF ClockTicks, rows, calls, supply
<1>11. CASE UNCHANGED jvars
  BY <1>11 DEF jvars, rows, calls, supply
<1> QED
  BY <1>1, <1>2, <1>3, <1>4, <1>5, <1>6, <1>7, <1>8, <1>9, <1>10, <1>11 DEF JournalNext

LEMMA Waits == JournalSpec => []WaitInv
  BY WaitInit, WaitStep, Basic, PTL DEF JournalSpec

\* An operation has one dispatcher from begin_attempt to finish_attempt, provided that
\* operators make sure of its death before mark_interrupted_unknown.
THEOREM DispatchersAreAlone == JournalSpec => []OneDispatcher
<1>1. WaitInv => OneDispatcher
  BY DEF WaitInv
<1> QED
  BY <1>1, Waits, PTL

\* No request goes out before the wait of the last in-progress answer that a caller lived
\* to record is over.
THEOREM InProgressDeadlinesAreHonoured == JournalSpec => []InProgressDeadlineIsHonoured
<1>1. WaitInv => InProgressDeadlineIsHonoured
  BY DEF WaitInv, DispatchIsDue, InProgressDeadlineIsHonoured
<1> QED
  BY <1>1, Waits, PTL

-----------------------------------------------------------------------------
(* The two write paths *)

\* Both write paths keep their specifications next to each other: what is proved of the
\* gate and of the journal holds of every behaviour of the two.
LEMMA WritePathsAreIndependent == WritesSpec => Spec /\ JournalSpec
<1>1. WritesInit => Init /\ JournalInit
  BY DEF WritesInit
<1>2. [WritesNext]_<<path, vars, jvars>> => [Next]_vars /\ [JournalNext]_jvars
  BY DEF WritesNext, Gate, Offline
<1> QED
  BY <1>1, <1>2, PTL DEF WritesSpec, Spec, JournalSpec

=============================================================================
