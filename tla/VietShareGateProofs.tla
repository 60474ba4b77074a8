------------------------- MODULE VietShareGateProofs -------------------------
(***************************************************************************)
(* Proofs about the VietShare write gate, for any number of tests,         *)
(* executors, operators and attempts.                                      *)
(***************************************************************************)
EXTENDS VietShareGate, TLAPS

\* An executor that is not idle works for a test, with a nonce it reserved.
Employed ==
    \A e \in Executors : at[e] # "idle" =>
        job[e] \in [test : Tests, nonce : Nonces] /\ intent[job[e].test] # None

\* An executor about to finish has heard something.
Heard == \A e \in Executors : at[e] = "finish" => reply[e] \in Replies

\* A test has a state once it is prepared, and the intent it was prepared with.
RowIsCoherent ==
    \A t \in Tests : /\ intent[t] = None <=> state[t] = None
                     /\ intent[t] # None => intent[t].test = t

\* What submit can make of a response.
LEMMA OutcomeType ==
  ASSUME NEW t, NEW r \in Replies
  PROVE  LET o == Outcome(t, r)
         IN  /\ o.state \in {"UNKNOWN", "RECONCILING", "SUCCEEDED"}
             /\ o.error \in Errors \cup {None} /\ o.code \in BOOLEAN
             /\ o.state = "SUCCEEDED" =>
                   r.kind = "completed" /\ ~(r.total > intent[t].cap) /\ o.error = None
  BY DEF Outcome, Replies, Errors, Frozen

\* Types, and what the locals of an executor refer to.
BasicInv == TypeOK /\ Employed /\ Heard /\ RowIsCoherent

\* The empty tables satisfy the basic invariant.
LEMMA BasicInit == Init => BasicInv
  BY NoneAssumption DEF Init, BasicInv, TypeOK, Employed, Heard, RowIsCoherent

\* Every gate transaction and every step of an executor keeps the types.
LEMMA TypeStep == BasicInv /\ [Next]_vars => TypeOK'
<1> SUFFICES ASSUME BasicInv, [Next]_vars
             PROVE  TypeOK'
  OBVIOUS
<1> USE DEF BasicInv, TypeOK, Employed, Heard
<1>1. ASSUME NEW i \in Intents, Prepare(i)
      PROVE  TypeOK'
  BY <1>1 DEF Prepare, GateState, supplier, locals
<1>2. ASSUME NEW a \in Approvals, NEW ops \in SUBSET Operators, Arm(a, ops)
      PROVE  TypeOK'
  BY <1>2 DEF Arm, journal, supplier, locals
<1>3. ASSUME NEW ops \in SUBSET Operators, Disarm(ops)
      PROVE  TypeOK'
  BY <1>3 DEF Disarm, journal, supplier, locals
<1>4. ASSUME NEW e \in Executors, NEW t \in Tests, NEW o \in Operators,
            NEW n \in Nonces, NEW s \in Stamps, Claim(e, t, o, n, s)
      PROVE  TypeOK'
  <2>1. attempts' \subseteq [nonce : Nonces, test : Tests, stamp : Stamps,
                              outcome : GateState \cup {None}]
    BY <1>4 DEF Claim
  <2>2. job' \in [Executors -> [test : Tests, nonce : Nonces] \cup {None}]
    BY <1>4 DEF Claim
  <2> QED
    BY <1>4, <2>1, <2>2 DEF Claim, GateState, supplier
<1>5. ASSUME NEW e \in Executors, Send(e)
      PROVE  TypeOK'
  <2> DEFINE k == intent[job[e].test].key
  <2>1. PICK r \in Replies :
           /\ owes' = [owes EXCEPT ![k] = IF r.kind = "completed" THEN r.total ELSE @]
           /\ holdUntil' = [holdUntil EXCEPT
                               ![k] = IF r.kind = "progress" THEN now + r.delay ELSE @]
           /\ reply' = [reply EXCEPT ![e] = r]
    BY <1>5 DEF Send
  <2>2. (r.kind = "progress" => r.delay \in Nat) /\ (r.kind = "completed" => r.total \in Totals)
    BY DEF Replies
  <2>3. k \in Keys
    BY <1>5 DEF Send, Keys
  <2>4. (IF r.kind = "progress" THEN now + r.delay ELSE holdUntil[k]) \in Nat
    BY <2>2, <2>3
  <2>5. /\ holdUntil' \in [Keys -> Nat]
        /\ owes' \in [Keys -> Totals \cup {None}]
        /\ reply' \in [Executors -> Replies \cup {None}]
    BY <2>1, <2>2, <2>4
  <2> QED
    BY <1>5, <2>3, <2>5 DEF Send, journal
<1>6. ASSUME NEW e \in Executors, Finish(e)
      PROVE  TypeOK'
  <2> DEFINE t == job[e].test
             r == reply[e]
             o == Outcome(t, r)
             open == {a \in attempts : a.test = t /\ a.nonce = job[e].nonce /\ a.outcome = None}
  <2>1. CASE state[t] = "DISPATCHING" /\ open # {}
    <3>1. t \in Tests /\ r \in Replies
      BY <1>6 DEF Finish
    <3>2. o.state \in GateState /\ o.error \in Errors \cup {None} /\ o.code \in BOOLEAN
      BY <3>1, OutcomeType DEF GateState
    <3>3. r.kind = "progress" => now + r.delay \in Nat
      BY <3>1 DEF Replies
    <3>4. attempts' = (attempts \ open) \cup {[a EXCEPT !.outcome = o.state] : a \in open}
      BY <1>6, <2>1 DEF Finish
    <3>5. attempts' \subseteq [nonce : Nonces, test : Tests, stamp : Stamps,
                                outcome : GateState \cup {None}]
      BY <3>2, <3>4
    <3>6. control' \in [enabled : BOOLEAN, operators : SUBSET Operators,
                        approved : Approvals \cup {None}]
      BY <1>6, <2>1 DEF Finish, DisarmAfterDispatch
    <3>7. /\ state' = [state EXCEPT ![t] = o.state]
          /\ retry' = [retry EXCEPT ![t] = IF r.kind = "progress" THEN now + r.delay ELSE None]
          /\ code' = [code EXCEPT ![t] = o.code]
          /\ error' = [error EXCEPT ![t] = o.error]
      BY <1>6, <2>1 DEF Finish, RetryNotBefore
    <3>8. retry' \in [Tests -> Nat \cup {None}]
      BY <3>3, <3>7
    <3>9. /\ state' \in [Tests -> GateState \cup {None}]
          /\ code' \in [Tests -> BOOLEAN]
          /\ error' \in [Tests -> Errors \cup {None}]
      BY <3>2, <3>7
    <3> HIDE DEF o
    <3> QED
      BY <1>6, <3>5, <3>6, <3>8, <3>9 DEF Finish, Return, supplier
  <2>2. CASE ~(state[t] = "DISPATCHING" /\ open # {})
    BY <1>6, <2>2 DEF Finish, Return, supplier
  <2> QED
    BY <2>1, <2>2
<1>7. ASSUME NEW e \in Executors, Crash(e)
      PROVE  TypeOK'
  BY <1>7 DEF Crash, Return, journal, supplier
<1>8. ASSUME NEW t \in Tests, NEW o \in Operators, MarkReconciling(t, o)
      PROVE  TypeOK'
  BY <1>8 DEF MarkReconciling, GateState, supplier, locals
<1>9. ASSUME NEW k \in Keys, Late(k)
      PROVE  TypeOK'
  BY <1>9 DEF Late, journal, locals
<1>10. ASSUME Tick
      PROVE  TypeOK'
  BY <1>10 DEF Tick, journal, supplier, locals
<1>11. CASE UNCHANGED vars
  BY <1>11 DEF vars, journal, supplier, locals
<1> QED
  BY <1>1, <1>2, <1>3, <1>4, <1>5, <1>6, <1>7, <1>8, <1>9, <1>10, <1>11 DEF Next

\* Every step keeps executors employed, answers heard and rows coherent.
LEMMA BasicRest == BasicInv /\ [Next]_vars => Employed' /\ Heard' /\ RowIsCoherent'
<1> SUFFICES ASSUME BasicInv, [Next]_vars
             PROVE  Employed' /\ Heard' /\ RowIsCoherent'
  OBVIOUS
<1> USE DEF BasicInv, TypeOK, Employed, Heard, RowIsCoherent, GateState
<1>1. ASSUME NEW i \in Intents, Prepare(i)
      PROVE  Employed' /\ Heard' /\ RowIsCoherent'
  BY <1>1, NoneAssumption DEF Prepare, supplier, locals
<1>2. ASSUME NEW a \in Approvals, NEW ops \in SUBSET Operators, Arm(a, ops)
      PROVE  Employed' /\ Heard' /\ RowIsCoherent'
  BY <1>2 DEF Arm, journal, supplier, locals
<1>3. ASSUME NEW ops \in SUBSET Operators, Disarm(ops)
      PROVE  Employed' /\ Heard' /\ RowIsCoherent'
  BY <1>3 DEF Disarm, journal, supplier, locals
<1>4. ASSUME NEW e \in Executors, NEW t \in Tests, NEW o \in Operators,
            NEW n \in Nonces, NEW s \in Stamps, Claim(e, t, o, n, s)
      PROVE  Employed' /\ Heard' /\ RowIsCoherent'
  BY <1>4, NoneAssumption DEF Claim, supplier, Approved
<1>5. ASSUME NEW e \in Executors, Send(e)
      PROVE  Employed' /\ Heard' /\ RowIsCoherent'
  BY <1>5 DEF Send, journal
<1>6. ASSUME NEW e \in Executors, Finish(e)
      PROVE  Employed' /\ Heard' /\ RowIsCoherent'
  <2>1. job[e].test \in Tests /\ reply[e] \in Replies
    BY <1>6 DEF Finish
  <2>2. Outcome(job[e].test, reply[e]).state # None
    BY <2>1, OutcomeType, NoneAssumption DEF GateState
  <2>3. /\ at' = [at EXCEPT ![e] = "idle"] /\ job' = [job EXCEPT ![e] = None]
        /\ reply' = [reply EXCEPT ![e] = None] /\ intent' = intent
    BY <1>6 DEF Finish, Return
  <2>4. \/ state' = state
        \/ /\ state[job[e].test] = "DISPATCHING"
           /\ state' = [state EXCEPT ![job[e].test] = Outcome(job[e].test, reply[e]).state]
    BY <1>6 DEF Finish
  <2>5. Employed' /\ Heard'
    BY <2>3
  <2>6. RowIsCoherent'
    BY <2>1, <2>2, <2>3, <2>4, NoneAssumption
  <2> QED
    BY <2>5, <2>6
<1>7. ASSUME NEW e \in Executors, Crash(e)
      PROVE  Employed' /\ Heard' /\ RowIsCoherent'
  BY <1>7 DEF Crash, Return, journal, supplier
<1>8. ASSUME NEW t \in Tests, NEW o \in Operators, MarkReconciling(t, o)
      PROVE  Employed' /\ Heard' /\ RowIsCoherent'
  BY <1>8, NoneAssumption DEF MarkReconciling, supplier, locals
<1>9. ASSUME NEW k \in Keys, Late(k)
      PROVE  Employed' /\ Heard' /\ RowIsCoherent'
  BY <1>9 DEF Late, journal, locals
<1>10. ASSUME Tick
      PROVE  Employed' /\ Heard' /\ RowIsCoherent'
  BY <1>10 DEF Tick, journal, supplier, locals
<1>11. CASE UNCHANGED vars
  BY <1>11 DEF vars, journal, supplier, locals
<1> QED
  BY <1>1, <1>2, <1>3, <1>4, <1>5, <1>6, <1>7, <1>8, <1>9, <1>10, <1>11 DEF Next

\* The basic invariant is inductive.
LEMMA BasicStep == BasicInv /\ [Next]_vars => BasicInv'
  BY TypeStep, BasicRest DEF BasicInv

-----------------------------------------------------------------------------
(* The dispatch discipline *)

\* An executor at work holds the open attempt of the test that is being dispatched.
HoldsDispatch ==
    \A e \in Executors : at[e] # "idle" =>
        /\ state[job[e].test] = "DISPATCHING"
        /\ \E a \in attempts : a.test = job[e].test /\ a.nonce = job[e].nonce /\ a.outcome = None

\* At most one executor is at work.
SoleExecutor == \A d, e \in Executors : at[d] # "idle" /\ at[e] # "idle" => d = e

\* An arming is spent by the disarm of finish, or the test it dispatched still is out.
ArmingIsSpent ==
    dispatches = 0 \/ ~control.enabled \/ \E t \in Tests : state[t] = "DISPATCHING"

\* The inductive invariant of claim, finish and arming.
Discipline ==
    /\ BasicInv
    /\ OneUnresolvedTest
    /\ OpenAttemptIsTheDispatch
    /\ HoldsDispatch
    /\ SoleExecutor
    /\ OneDispatchPerArming
    /\ ArmingIsSpent

\* A claim finds nothing out: no test being dispatched, no open attempt, no executor
\* at work.
LEMMA ClaimFindsQuiet ==
  ASSUME Discipline, NEW e \in Executors, NEW t \in Tests, NEW o \in Operators,
         NEW n \in Nonces, NEW s \in Stamps, Claim(e, t, o, n, s)
  PROVE  /\ \A u \in Tests : state[u] # "DISPATCHING"
         /\ \A a \in attempts : a.outcome # None
         /\ \A d \in Executors : at[d] = "idle"
<1> USE DEF Discipline, BasicInv, TypeOK
<1>1. \A u \in Tests : state[u] # "DISPATCHING"
  BY DEF Claim, Dispatchable, OthersResolved, Unresolved
<1>2. \A a \in attempts : a.outcome # None
  BY <1>1 DEF OpenAttemptIsTheDispatch
<1>3. \A d \in Executors : at[d] = "idle"
  BY <1>1 DEF Employed, HoldsDispatch
<1> QED
  BY <1>1, <1>2, <1>3

\* Only claim makes a test unresolved, and it has looked at all the others.
LEMMA OneUnresolvedStep == Discipline /\ [Next]_vars => OneUnresolvedTest'
<1> SUFFICES ASSUME Discipline, [Next]_vars
             PROVE  OneUnresolvedTest'
  OBVIOUS
<1> USE DEF Discipline, BasicInv, TypeOK, Employed, Heard, RowIsCoherent, GateState,
        OneUnresolvedTest, Unresolved, OpenAttemptIsTheDispatch, HoldsDispatch,
        SoleExecutor, OneDispatchPerArming, ArmingIsSpent
<1>1. ASSUME NEW i \in Intents, Prepare(i)
      PROVE  OneUnresolvedTest'
  BY <1>1 DEF Prepare, supplier, locals
<1>2. ASSUME NEW a \in Approvals, NEW ops \in SUBSET Operators, Arm(a, ops)
      PROVE  OneUnresolvedTest'
  BY <1>2 DEF Arm, journal, supplier, locals
<1>3. ASSUME NEW ops \in SUBSET Operators, Disarm(ops)
      PROVE  OneUnresolvedTest'
  BY <1>3 DEF Disarm, journal, supplier, locals
<1>4. ASSUME NEW e \in Executors, NEW t \in Tests, NEW o \in Operators,
            NEW n \in Nonces, NEW s \in Stamps, Claim(e, t, o, n, s)
      PROVE  OneUnresolvedTest'
  BY <1>4 DEF Claim, supplier, Approved, Dispatchable, OthersResolved, FreshAuth
<1>5. ASSUME NEW e \in Executors, Send(e)
      PROVE  OneUnresolvedTest'
  BY <1>5 DEF Send, journal
<1>6. ASSUME NEW e \in Executors, Finish(e)
      PROVE  OneUnresolvedTest'
  BY <1>6 DEF Finish, Return, supplier, DisarmAfterDispatch
<1>7. ASSUME NEW e \in Executors, Crash(e)
      PROVE  OneUnresolvedTest'
  BY <1>7 DEF Crash, Return, journal, supplier
<1>8. ASSUME NEW t \in Tests, NEW o \in Operators, MarkReconciling(t, o)
      PROVE  OneUnresolvedTest'
  BY <1>8 DEF MarkReconciling, supplier, locals
<1>9. ASSUME NEW k \in Keys, Late(k)
      PROVE  OneUnresolvedTest'
  BY <1>9 DEF Late, journal, locals
<1>10. ASSUME Tick
      PROVE  OneUnresolvedTest'
  BY <1>10 DEF Tick, journal, supplier, locals
<1>11. CASE UNCHANGED vars
  BY <1>11 DEF vars, journal, supplier, locals
<1> QED
  BY <1>1, <1>2, <1>3, <1>4, <1>5, <1>6, <1>7, <1>8, <1>9, <1>10, <1>11 DEF Next

\* claim opens the one attempt of the test it dispatches; finish closes both.
LEMMA OpenAttemptStep == Discipline /\ [Next]_vars => OpenAttemptIsTheDispatch'
<1> SUFFICES ASSUME Discipline, [Next]_vars
             PROVE  OpenAttemptIsTheDispatch'
  OBVIOUS
<1> USE DEF Discipline, BasicInv, TypeOK, Employed, Heard, RowIsCoherent, GateState,
        OneUnresolvedTest, Unresolved, OpenAttemptIsTheDispatch, HoldsDispatch,
        SoleExecutor, OneDispatchPerArming, ArmingIsSpent
<1>1. ASSUME NEW i \in Intents, Prepare(i)
      PROVE  OpenAttemptIsTheDispatch'
  BY <1>1, NoneAssumption DEF Prepare, supplier, locals
<1>2. ASSUME NEW a \in Approvals, NEW ops \in SUBSET Operators, Arm(a, ops)
      PROVE  OpenAttemptIsTheDispatch'
  BY <1>2 DEF Arm, journal, supplier, locals
<1>3. ASSUME NEW ops \in SUBSET Operators, Disarm(ops)
      PROVE  OpenAttemptIsTheDispatch'
  BY <1>3 DEF Disarm, journal, supplier, locals
<1>4. ASSUME NEW e \in Executors, NEW t \in Tests, NEW o \in Operators,
            NEW n \in Nonces, NEW s \in Stamps, Claim(e, t, o, n, s)
      PROVE  OpenAttemptIsTheDispatch'
  <2>1. /\ \A u \in Tests : state[u] # "DISPATCHING"
        /\ \A a \in attempts : a.outcome # None
        /\ \A d \in Executors : at[d] = "idle"
    BY <1>4, ClaimFindsQuiet
  <2> DEFINE new == [nonce |-> n, test |-> t, stamp |-> s, outcome |-> None]
  <2>2. /\ attempts' = attempts \cup {new} /\ state' = [state EXCEPT ![t] = "DISPATCHING"]
        /\ at' = [at EXCEPT ![e] = "send"] /\ job' = [job EXCEPT ![e] = [test |-> t, nonce |-> n]]
    BY <1>4 DEF Claim
  <2>3. /\ new \in attempts'
        /\ \A a \in attempts' : a.outcome = None => a = new
    BY <2>1, <2>2
  <2>4. \A u \in Tests : state'[u] = "DISPATCHING" <=> u = t
    BY <2>1, <2>2
  <2> HIDE DEF new
  <2>5. new.test = t /\ new.outcome = None
    BY DEF new
  <2> QED
    BY <2>3, <2>4, <2>5
<1>5. ASSUME NEW e \in Executors, Send(e)
      PROVE  OpenAttemptIsTheDispatch'
  BY <1>5 DEF Send, journal
<1>6. ASSUME NEW e \in Executors, Finish(e)
      PROVE  OpenAttemptIsTheDispatch'
  <2> DEFINE t == job[e].test
             s == Outcome(t, reply[e]).state
             open == {a \in attempts : a.test = t /\ a.nonce = job[e].nonce /\ a.outcome = None}
  <2>1. t \in Tests /\ state[t] = "DISPATCHING" /\ open # {}
    BY <1>6 DEF Finish
  <2>2. reply[e] \in Replies
    BY <1>6 DEF Finish
  <2>3. s \in {"UNKNOWN", "RECONCILING", "SUCCEEDED"}
    BY <2>2, OutcomeType
  <2>4. /\ state' = [state EXCEPT ![t] = s]
        /\ attempts' = (attempts \ open) \cup {[a EXCEPT !.outcome = s] : a \in open}
    BY <1>6, <2>1 DEF Finish
  <2> HIDE DEF s
  <2>5. \A a \in attempts \ open : a.outcome # None
    BY <2>1
  <2>6. \A a \in {[a EXCEPT !.outcome = s] : a \in open} : a.outcome # None
    BY <2>3, NoneAssumption
  <2>7. \A a \in attempts' : a.outcome # None
    BY <2>4, <2>5, <2>6
  <2>8. \A u \in Tests : state'[u] # "DISPATCHING"
    BY <2>1, <2>3, <2>4
  <2> QED
    BY <2>7, <2>8
<1>7. ASSUME NEW e \in Executors, Crash(e)
      PROVE  OpenAttemptIsTheDispatch'
  BY <1>7 DEF Crash, Return, journal, supplier
<1>8. ASSUME NEW t \in Tests, NEW o \in Operators, MarkReconciling(t, o)
      PROVE  OpenAttemptIsTheDispatch'
  BY <1>8 DEF MarkReconciling, supplier, locals
<1>9. ASSUME NEW k \in Keys, Late(k)
      PROVE  OpenAttemptIsTheDispatch'
  BY <1>9 DEF Late, journal, locals
<1>10. ASSUME Tick
      PROVE  OpenAttemptIsTheDispatch'
  BY <1>10 DEF Tick, journal, supplier, locals
<1>11. CASE UNCHANGED vars
  BY <1>11 DEF vars, journal, supplier, locals
<1> QED
  BY <1>1, <1>2, <1>3, <1>4, <1>5, <1>6, <1>7, <1>8, <1>9, <1>10, <1>11 DEF Next

\* claim lets an executor in when nothing is out; only its own finish or its death ends that.
LEMMA HoldsStep == Discipline /\ [Next]_vars => HoldsDispatch' /\ SoleExecutor'
<1> SUFFICES ASSUME Discipline, [Next]_vars
             PROVE  HoldsDispatch' /\ SoleExecutor'
  OBVIOUS
<1> USE DEF Discipline, BasicInv, TypeOK, Employed, Heard, RowIsCoherent, GateState,
        OneUnresolvedTest, Unresolved, OpenAttemptIsTheDispatch, HoldsDispatch,
        SoleExecutor, OneDispatchPerArming, ArmingIsSpent
<1>1. ASSUME NEW i \in Intents, Prepare(i)
      PROVE  HoldsDispatch' /\ SoleExecutor'
  BY <1>1 DEF Prepare, supplier, locals
<1>2. ASSUME NEW a \in Approvals, NEW ops \in SUBSET Operators, Arm(a, ops)
      PROVE  HoldsDispatch' /\ SoleExecutor'
  BY <1>2 DEF Arm, journal, supplier, locals
<1>3. ASSUME NEW ops \in SUBSET Operators, Disarm(ops)
      PROVE  HoldsDispatch' /\ SoleExecutor'
  BY <1>3 DEF Disarm, journal, supplier, locals
<1>4. ASSUME NEW e \in Executors, NEW t \in Tests, NEW o \in Operators,
            NEW n \in Nonces, NEW s \in Stamps, Claim(e, t, o, n, s)
      PROVE  HoldsDispatch' /\ SoleExecutor'
  <2>1. /\ \A u \in Tests : state[u] # "DISPATCHING"
        /\ \A a \in attempts : a.outcome # None
        /\ \A d \in Executors : at[d] = "idle"
    BY <1>4, ClaimFindsQuiet
  <2> DEFINE new == [nonce |-> n, test |-> t, stamp |-> s, outcome |-> None]
  <2>2. /\ attempts' = attempts \cup {new} /\ state' = [state EXCEPT ![t] = "DISPATCHING"]
        /\ at' = [at EXCEPT ![e] = "send"] /\ job' = [job EXCEPT ![e] = [test |-> t, nonce |-> n]]
    BY <1>4 DEF Claim
  <2>3. /\ new \in attempts'
        /\ \A a \in attempts' : a.outcome = None => a = new
    BY <2>1, <2>2
  <2>4. new.test = t /\ new.nonce = n /\ new.outcome = None
    OBVIOUS
  <2> HIDE DEF new
  <2>5. \A d \in Executors : at'[d] # "idle" => d = e
    BY <2>1, <2>2
  <2>6. job'[e].test = t /\ job'[e].nonce = n /\ state'[t] = "DISPATCHING"
    BY <2>2
  <2> QED
    BY <2>3, <2>4, <2>5, <2>6
<1>5. ASSUME NEW e \in Executors, Send(e)
      PROVE  HoldsDispatch' /\ SoleExecutor'
  BY <1>5 DEF Send, journal
<1>6. ASSUME NEW e \in Executors, Finish(e)
      PROVE  HoldsDispatch' /\ SoleExecutor'
  BY <1>6 DEF Finish, Return, supplier, DisarmAfterDispatch
<1>7. ASSUME NEW e \in Executors, Crash(e)
      PROVE  HoldsDispatch' /\ SoleExecutor'
  BY <1>7 DEF Crash, Return, journal, supplier
<1>8. ASSUME NEW t \in Tests, NEW o \in Operators, MarkReconciling(t, o)
      PROVE  HoldsDispatch' /\ SoleExecutor'
  BY <1>8 DEF MarkReconciling, supplier, locals
<1>9. ASSUME NEW k \in Keys, Late(k)
      PROVE  HoldsDispatch' /\ SoleExecutor'
  BY <1>9 DEF Late, journal, locals
<1>10. ASSUME Tick
      PROVE  HoldsDispatch' /\ SoleExecutor'
  BY <1>10 DEF Tick, journal, supplier, locals
<1>11. CASE UNCHANGED vars
  BY <1>11 DEF vars, journal, supplier, locals
<1> QED
  BY <1>1, <1>2, <1>3, <1>4, <1>5, <1>6, <1>7, <1>8, <1>9, <1>10, <1>11 DEF Next

\* A second claim after one arming would need the gate enabled and the first test back.
LEMMA ArmingStep == Discipline /\ [Next]_vars => OneDispatchPerArming' /\ ArmingIsSpent'
<1> SUFFICES ASSUME Discipline, [Next]_vars
             PROVE  OneDispatchPerArming' /\ ArmingIsSpent'
  OBVIOUS
<1> USE DEF Discipline, BasicInv, TypeOK, Employed, Heard, RowIsCoherent, GateState,
        OneUnresolvedTest, Unresolved, OpenAttemptIsTheDispatch, HoldsDispatch,
        SoleExecutor, OneDispatchPerArming, ArmingIsSpent
<1>1. ASSUME NEW i \in Intents, Prepare(i)
      PROVE  OneDispatchPerArming' /\ ArmingIsSpent'
  BY <1>1, NoneAssumption DEF Prepare, supplier, locals
<1>2. ASSUME NEW a \in Approvals, NEW ops \in SUBSET Operators, Arm(a, ops)
      PROVE  OneDispatchPerArming' /\ ArmingIsSpent'
  BY <1>2 DEF Arm, journal, supplier, locals
<1>3. ASSUME NEW ops \in SUBSET Operators, Disarm(ops)
      PROVE  OneDispatchPerArming' /\ ArmingIsSpent'
  BY <1>3 DEF Disarm, journal, supplier, locals
<1>4. ASSUME NEW e \in Executors, NEW t \in Tests, NEW o \in Operators,
            NEW n \in Nonces, NEW s \in Stamps, Claim(e, t, o, n, s)
      PROVE  OneDispatchPerArming' /\ ArmingIsSpent'
  BY <1>4 DEF Claim, supplier, Approved, Dispatchable, OthersResolved, FreshAuth
<1>5. ASSUME NEW e \in Executors, Send(e)
      PROVE  OneDispatchPerArming' /\ ArmingIsSpent'
  BY <1>5 DEF Send, journal
<1>6. ASSUME NEW e \in Executors, Finish(e)
      PROVE  OneDispatchPerArming' /\ ArmingIsSpent'
  BY <1>6 DEF Finish, Return, supplier, DisarmAfterDispatch
<1>7. ASSUME NEW e \in Executors, Crash(e)
      PROVE  OneDispatchPerArming' /\ ArmingIsSpent'
  BY <1>7 DEF Crash, Return, journal, supplier
<1>8. ASSUME NEW t \in Tests, NEW o \in Operators, MarkReconciling(t, o)
      PROVE  OneDispatchPerArming' /\ ArmingIsSpent'
  BY <1>8 DEF MarkReconciling, supplier, locals
<1>9. ASSUME NEW k \in Keys, Late(k)
      PROVE  OneDispatchPerArming' /\ ArmingIsSpent'
  BY <1>9 DEF Late, journal, locals
<1>10. ASSUME Tick
      PROVE  OneDispatchPerArming' /\ ArmingIsSpent'
  BY <1>10 DEF Tick, journal, supplier, locals
<1>11. CASE UNCHANGED vars
  BY <1>11 DEF vars, journal, supplier, locals
<1> QED
  BY <1>1, <1>2, <1>3, <1>4, <1>5, <1>6, <1>7, <1>8, <1>9, <1>10, <1>11 DEF Next

\* The dispatch discipline is inductive.
LEMMA DisciplineStep == Discipline /\ [Next]_vars => Discipline'
<1> SUFFICES ASSUME Discipline, [Next]_vars
             PROVE  Discipline'
  OBVIOUS
<1>1. BasicInv'
  BY BasicStep DEF Discipline
<1> QED
  BY <1>1, OneUnresolvedStep, OpenAttemptStep, HoldsStep, ArmingStep DEF Discipline

\* An empty, disarmed gate satisfies the discipline.
LEMMA DisciplineInit == Init => Discipline
  BY BasicInit, NoneAssumption
  DEF Init, Discipline, OneUnresolvedTest, Unresolved, OpenAttemptIsTheDispatch, HoldsDispatch,
      SoleExecutor, OneDispatchPerArming, ArmingIsSpent, GateState

\* The discipline of claim and finish holds in every state.
THEOREM DisciplineInvariant == Spec => []Discipline
  BY DisciplineInit, DisciplineStep, PTL DEF Spec

\* Every row the gate writes has the values its columns and the executor expect.
THEOREM GateTypeCorrect == Spec => []TypeOK
  BY DisciplineInvariant, PTL DEF Discipline, BasicInv

\* At most one test is ever unresolved (the query of claim under the control row's lock).
THEOREM OneTestAtATime == Spec => []OneUnresolvedTest
  BY DisciplineInvariant, PTL DEF Discipline

\* Journal and attempt table agree at every commit of claim and finish.
THEOREM AttemptsFollowDispatches == Spec => []OpenAttemptIsTheDispatch
  BY DisciplineInvariant, PTL DEF Discipline

\* One arming of the control row lets one claim through.
THEOREM OneClaimPerArming == Spec => []OneDispatchPerArming
  BY DisciplineInvariant, PTL DEF Discipline

-----------------------------------------------------------------------------
(* The ledger: what the supplier owes and when it may be asked *)

\* No two tests share an Idempotency-Key.
KeysAreDistinct ==
    \A t, u \in Tests : intent[t] # None /\ intent[u] # None /\ intent[t].key = intent[u].key
                            => t = u

\* The supplier was asked only about tests that have been dispatched.
AskedIsDispatched ==
    \A k \in asked : \E t \in Tests :
        intent[t] # None /\ intent[t].key = k /\ state[t] \in Unresolved \cup {"SUCCEEDED"}

\* Without a request the supplier owes nothing and asks nobody to wait.
UnaskedIsIdle ==
    \A k \in Keys : k \notin asked => owes[k] = None /\ holdUntil[k] = 0

\* A completed answer on its way to finish names the order the supplier holds.
HeardIsOwed ==
    \A e \in Executors : at[e] = "finish" /\ reply[e].kind = "completed" =>
        owes[intent[job[e].test].key] = reply[e].total

\* A frozen test is neither out nor settled.
FrozenIsParked ==
    \A t \in Tests : error[t] \in Frozen => state[t] \in {"UNKNOWN", "RECONCILING"}

\* What the journal knows about the supplier, on top of the discipline.
Ledger ==
    /\ Discipline
    /\ KeysAreDistinct
    /\ AskedIsDispatched
    /\ UnaskedIsIdle
    /\ HeardIsOwed
    /\ FrozenIsParked
    /\ SucceededIsWithinCap

\* Amounts are numbers.
LEMMA Amounts ==
  /\ \A x \in Totals : x \in Nat /\ x # None
  /\ \A i \in Intents : i.cap \in Nat
  BY NoneAssumption, AmountsAssumption

\* In the discipline finish always finds its dispatch and writes the outcome.
LEMMA FinishWrites ==
  ASSUME Discipline, NEW e \in Executors, Finish(e)
  PROVE  LET t == job[e].test
             o == Outcome(t, reply[e])
         IN  /\ at[e] = "finish" /\ t \in Tests /\ intent[t] \in Intents
             /\ reply[e] \in Replies /\ state[t] = "DISPATCHING"
             /\ state' = [state EXCEPT ![t] = o.state]
             /\ error' = [error EXCEPT ![t] = o.error]
             /\ retry' = [retry EXCEPT ![t] = IF reply[e].kind = "progress"
                                               THEN now + reply[e].delay ELSE None]
             /\ at' = [at EXCEPT ![e] = "idle"] /\ job' = [job EXCEPT ![e] = None]
             /\ reply' = [reply EXCEPT ![e] = None]
             /\ UNCHANGED <<intent, now, asked, owes, holdUntil>>
  BY DEF Finish, RetryNotBefore, Return, supplier, Discipline, BasicInv, TypeOK, Employed, Heard, HoldsDispatch

\* prepare refuses a key that another test has.
LEMMA KeysStep == Ledger /\ [Next]_vars => KeysAreDistinct'
<1> SUFFICES ASSUME Ledger, [Next]_vars
             PROVE  KeysAreDistinct'
  OBVIOUS
<1> USE DEF Ledger, Discipline, BasicInv, TypeOK, Employed, Heard, RowIsCoherent,
        GateState, Unresolved, KeysAreDistinct, AskedIsDispatched, UnaskedIsIdle,
        HeardIsOwed, FrozenIsParked, SucceededIsWithinCap, HoldsDispatch
<1>1. ASSUME NEW i \in Intents, Prepare(i)
      PROVE  KeysAreDistinct'
  BY <1>1 DEF Prepare, supplier, locals, Keys
<1>2. ASSUME NEW a \in Approvals, NEW ops \in SUBSET Operators, Arm(a, ops)
      PROVE  KeysAreDistinct'
  BY <1>2 DEF Arm, journal, supplier, locals
<1>3. ASSUME NEW ops \in SUBSET Operators, Disarm(ops)
      PROVE  KeysAreDistinct'
  BY <1>3 DEF Disarm, journal, supplier, locals
<1>4. ASSUME NEW e \in Executors, NEW t \in Tests, NEW o \in Operators,
            NEW n \in Nonces, NEW s \in Stamps, Claim(e, t, o, n, s)
      PROVE  KeysAreDistinct'
  BY <1>4 DEF Claim, supplier, Approved, Dispatchable
<1>5. ASSUME NEW e \in Executors, Send(e)
      PROVE  KeysAreDistinct'
  BY <1>5 DEF Send, journal
<1>6. ASSUME NEW e \in Executors, Finish(e)
      PROVE  KeysAreDistinct'
  BY <1>6 DEF Finish, Return, supplier, DisarmAfterDispatch
<1>7. ASSUME NEW e \in Executors, Crash(e)
      PROVE  KeysAreDistinct'
  BY <1>7 DEF Crash, Return, journal, supplier
<1>8. ASSUME NEW t \in Tests, NEW o \in Operators, MarkReconciling(t, o)
      PROVE  KeysAreDistinct'
  BY <1>8 DEF MarkReconciling, supplier, locals
<1>9. ASSUME NEW k \in Keys, Late(k)
      PROVE  KeysAreDistinct'
  BY <1>9 DEF Late, journal, locals
<1>10. ASSUME Tick
      PROVE  KeysAreDistinct'
  BY <1>10 DEF Tick, journal, supplier, locals
<1>11. CASE UNCHANGED vars
  BY <1>11 DEF vars, journal, supplier, locals
<1> QED
  BY <1>1, <1>2, <1>3, <1>4, <1>5, <1>6, <1>7, <1>8, <1>9, <1>10, <1>11 DEF Next

\* A test the supplier was asked about stays unresolved or is a success.
LEMMA AskedStep == Ledger /\ [Next]_vars => AskedIsDispatched'
<1> SUFFICES ASSUME Ledger, [Next]_vars
             PROVE  AskedIsDispatched'
  OBVIOUS
<1> USE DEF Ledger, Discipline, BasicInv, TypeOK, Employed, Heard, RowIsCoherent,
        GateState, Unresolved, KeysAreDistinct, AskedIsDispatched, UnaskedIsIdle,
        HeardIsOwed, FrozenIsParked, SucceededIsWithinCap, HoldsDispatch
<1>1. ASSUME NEW i \in Intents, Prepare(i)
      PROVE  AskedIsDispatched'
  BY <1>1 DEF Prepare, supplier, locals, Keys
<1>2. ASSUME NEW a \in Approvals, NEW ops \in SUBSET Operators, Arm(a, ops)
      PROVE  AskedIsDispatched'
  BY <1>2 DEF Arm, journal, supplier, locals
<1>3. ASSUME NEW ops \in SUBSET Operators, Disarm(ops)
      PROVE  AskedIsDispatched'
  BY <1>3 DEF Disarm, journal, supplier, locals
<1>4. ASSUME NEW e \in Executors, NEW t \in Tests, NEW o \in Operators,
            NEW n \in Nonces, NEW s \in Stamps, Claim(e, t, o, n, s)
      PROVE  AskedIsDispatched'
  BY <1>4 DEF Claim, supplier, Approved, Dispatchable
<1>5. ASSUME NEW e \in Executors, Send(e)
      PROVE  AskedIsDispatched'
  BY <1>5 DEF Send, journal
<1>6. ASSUME NEW e \in Executors, Finish(e)
      PROVE  AskedIsDispatched'
  <2> DEFINE t == job[e].test
             o == Outcome(t, reply[e])
  <2>1. /\ at[e] = "finish" /\ t \in Tests /\ intent[t] \in Intents
        /\ reply[e] \in Replies /\ state[t] = "DISPATCHING"
        /\ state' = [state EXCEPT ![t] = o.state]
        /\ error' = [error EXCEPT ![t] = o.error]
        /\ UNCHANGED <<intent, asked, owes>>
    BY <1>6, FinishWrites
  <2>2. /\ o.state \in {"UNKNOWN", "RECONCILING", "SUCCEEDED"}
        /\ o.state = "SUCCEEDED" =>
              reply[e].kind = "completed" /\ ~(reply[e].total > intent[t].cap) /\ o.error = None
    BY <2>1, OutcomeType
  <2> HIDE DEF o
  <2> QED
    BY <2>1, <2>2
<1>7. ASSUME NEW e \in Executors, Crash(e)
      PROVE  AskedIsDispatched'
  BY <1>7 DEF Crash, Return, journal, supplier
<1>8. ASSUME NEW t \in Tests, NEW o \in Operators, MarkReconciling(t, o)
      PROVE  AskedIsDispatched'
  BY <1>8 DEF MarkReconciling, supplier, locals
<1>9. ASSUME NEW k \in Keys, Late(k)
      PROVE  AskedIsDispatched'
  BY <1>9 DEF Late, journal, locals
<1>10. ASSUME Tick
      PROVE  AskedIsDispatched'
  BY <1>10 DEF Tick, journal, supplier, locals
<1>11. CASE UNCHANGED vars
  BY <1>11 DEF vars, journal, supplier, locals
<1> QED
  BY <1>1, <1>2, <1>3, <1>4, <1>5, <1>6, <1>7, <1>8, <1>9, <1>10, <1>11 DEF Next

\* Orders and deadlines of a key begin with a request.
LEMMA UnaskedStep == Ledger /\ [Next]_vars => UnaskedIsIdle'
<1> SUFFICES ASSUME Ledger, [Next]_vars
             PROVE  UnaskedIsIdle'
  OBVIOUS
<1> USE DEF Ledger, Discipline, BasicInv, TypeOK, Employed, Heard, RowIsCoherent,
        GateState, Unresolved, KeysAreDistinct, AskedIsDispatched, UnaskedIsIdle,
        HeardIsOwed, FrozenIsParked, SucceededIsWithinCap, HoldsDispatch
<1>1. ASSUME NEW i \in Intents, Prepare(i)
      PROVE  UnaskedIsIdle'
  BY <1>1 DEF Prepare, supplier, locals, Keys
<1>2. ASSUME NEW a \in Approvals, NEW ops \in SUBSET Operators, Arm(a, ops)
      PROVE  UnaskedIsIdle'
  BY <1>2 DEF Arm, journal, supplier, locals
<1>3. ASSUME NEW ops \in SUBSET Operators, Disarm(ops)
      PROVE  UnaskedIsIdle'
  BY <1>3 DEF Disarm, journal, supplier, locals
<1>4. ASSUME NEW e \in Executors, NEW t \in Tests, NEW o \in Operators,
            NEW n \in Nonces, NEW s \in Stamps, Claim(e, t, o, n, s)
      PROVE  UnaskedIsIdle'
  BY <1>4 DEF Claim, supplier, Approved, Dispatchable
<1>5. ASSUME NEW e \in Executors, Send(e)
      PROVE  UnaskedIsIdle'
  BY <1>5 DEF Send, journal
<1>6. ASSUME NEW e \in Executors, Finish(e)
      PROVE  UnaskedIsIdle'
  BY <1>6 DEF Finish, Return, supplier, DisarmAfterDispatch
<1>7. ASSUME NEW e \in Executors, Crash(e)
      PROVE  UnaskedIsIdle'
  BY <1>7 DEF Crash, Return, journal, supplier
<1>8. ASSUME NEW t \in Tests, NEW o \in Operators, MarkReconciling(t, o)
      PROVE  UnaskedIsIdle'
  BY <1>8 DEF MarkReconciling, supplier, locals
<1>9. ASSUME NEW k \in Keys, Late(k)
      PROVE  UnaskedIsIdle'
  BY <1>9 DEF Late, journal, locals
<1>10. ASSUME Tick
      PROVE  UnaskedIsIdle'
  BY <1>10 DEF Tick, journal, supplier, locals
<1>11. CASE UNCHANGED vars
  BY <1>11 DEF vars, journal, supplier, locals
<1> QED
  BY <1>1, <1>2, <1>3, <1>4, <1>5, <1>6, <1>7, <1>8, <1>9, <1>10, <1>11 DEF Next

\* The order a completed answer names does not go away before finish.
LEMMA HeardStep == Ledger /\ [Next]_vars => HeardIsOwed'
<1> SUFFICES ASSUME Ledger, [Next]_vars
             PROVE  HeardIsOwed'
  OBVIOUS
<1> USE DEF Ledger, Discipline, BasicInv, TypeOK, Employed, Heard, RowIsCoherent,
        GateState, Unresolved, KeysAreDistinct, AskedIsDispatched, UnaskedIsIdle,
        HeardIsOwed, FrozenIsParked, SucceededIsWithinCap, HoldsDispatch
<1>1. ASSUME NEW i \in Intents, Prepare(i)
      PROVE  HeardIsOwed'
  BY <1>1 DEF Prepare, supplier, locals, Keys
<1>2. ASSUME NEW a \in Approvals, NEW ops \in SUBSET Operators, Arm(a, ops)
      PROVE  HeardIsOwed'
  BY <1>2 DEF Arm, journal, supplier, locals
<1>3. ASSUME NEW ops \in SUBSET Operators, Disarm(ops)
      PROVE  HeardIsOwed'
  BY <1>3 DEF Disarm, journal, supplier, locals
<1>4. ASSUME NEW e \in Executors, NEW t \in Tests, NEW o \in Operators,
            NEW n \in Nonces, NEW s \in Stamps, Claim(e, t, o, n, s)
      PROVE  HeardIsOwed'
  BY <1>4 DEF Claim, supplier, Approved, Dispatchable
<1>5. ASSUME NEW e \in Executors, Send(e)
      PROVE  HeardIsOwed'
  <2> DEFINE k == intent[job[e].test].key
  <2>1. PICK r \in Replies :
           /\ owes' = [owes EXCEPT ![k] = IF r.kind = "completed" THEN r.total ELSE @]
           /\ reply' = [reply EXCEPT ![e] = r]
    BY <1>5 DEF Send
  <2>2. \A d \in Executors : at'[d] = "finish" => d = e
    BY <1>5 DEF Send, SoleExecutor
  <2>3. k \in Keys /\ UNCHANGED <<intent, job>>
    BY <1>5 DEF Send, Keys, journal
  <2> QED
    BY <2>1, <2>2, <2>3
<1>6. ASSUME NEW e \in Executors, Finish(e)
      PROVE  HeardIsOwed'
  BY <1>6 DEF Finish, Return, supplier, DisarmAfterDispatch
<1>7. ASSUME NEW e \in Executors, Crash(e)
      PROVE  HeardIsOwed'
  BY <1>7 DEF Crash, Return, journal, supplier
<1>8. ASSUME NEW t \in Tests, NEW o \in Operators, MarkReconciling(t, o)
      PROVE  HeardIsOwed'
  BY <1>8 DEF MarkReconciling, supplier, locals
<1>9. ASSUME NEW k \in Keys, Late(k)
      PROVE  HeardIsOwed'
  <2>1. \A e \in Executors : at[e] = "finish" /\ reply[e].kind = "completed" =>
           reply[e].total # None
    <3>1. \A r \in Replies : r.kind = "completed" => r.total \in Totals
      BY DEF Replies
    <3>2. \A total \in Totals : total # None
      BY NoneAssumption, AmountsAssumption
    <3>3. \A e \in Executors : at[e] = "finish" => reply[e] \in Replies
      BY DEF Heard
    <3> QED
      BY <3>1, <3>2, <3>3
  <2>2. owes[k] = None /\ \E total \in Totals : owes' = [owes EXCEPT ![k] = total]
    BY <1>9 DEF Late
  <2>3. UNCHANGED <<intent, at, job, reply>>
    BY <1>9 DEF Late, journal, locals
  <2> QED
    BY <2>1, <2>2, <2>3
<1>10. ASSUME Tick
      PROVE  HeardIsOwed'
  BY <1>10 DEF Tick, journal, supplier, locals
<1>11. CASE UNCHANGED vars
  BY <1>11 DEF vars, journal, supplier, locals
<1> QED
  BY <1>1, <1>2, <1>3, <1>4, <1>5, <1>6, <1>7, <1>8, <1>9, <1>10, <1>11 DEF Next

\* A freezing error is only written with a state that claim looks at again.
LEMMA FrozenStep == Ledger /\ [Next]_vars => FrozenIsParked'
<1> SUFFICES ASSUME Ledger, [Next]_vars
             PROVE  FrozenIsParked'
  OBVIOUS
<1> USE DEF Ledger, Discipline, BasicInv, TypeOK, Employed, Heard, RowIsCoherent,
        GateState, Unresolved, KeysAreDistinct, AskedIsDispatched, UnaskedIsIdle,
        HeardIsOwed, FrozenIsParked, SucceededIsWithinCap, HoldsDispatch
<1>1. ASSUME NEW i \in Intents, Prepare(i)
      PROVE  FrozenIsParked'
  BY <1>1, NoneAssumption DEF Prepare, supplier, locals, Keys
<1>2. ASSUME NEW a \in Approvals, NEW ops \in SUBSET Operators, Arm(a, ops)
      PROVE  FrozenIsParked'
  BY <1>2 DEF Arm, journal, supplier, locals
<1>3. ASSUME NEW ops \in SUBSET Operators, Disarm(ops)
      PROVE  FrozenIsParked'
  BY <1>3 DEF Disarm, journal, supplier, locals
<1>4. ASSUME NEW e \in Executors, NEW t \in Tests, NEW o \in Operators,
            NEW n \in Nonces, NEW s \in Stamps, Claim(e, t, o, n, s)
      PROVE  FrozenIsParked'
  BY <1>4 DEF Claim, supplier, Approved, Dispatchable
<1>5. ASSUME NEW e \in Executors, Send(e)
      PROVE  FrozenIsParked'
  BY <1>5 DEF Send, journal
<1>6. ASSUME NEW e \in Executors, Finish(e)
      PROVE  FrozenIsParked'
  <2> DEFINE t == job[e].test
             o == Outcome(t, reply[e])
  <2>1. /\ at[e] = "finish" /\ t \in Tests /\ intent[t] \in Intents
        /\ reply[e] \in Replies /\ state[t] = "DISPATCHING"
        /\ state' = [state EXCEPT ![t] = o.state]
        /\ error' = [error EXCEPT ![t] = o.error]
        /\ UNCHANGED <<intent, asked, owes>>
    BY <1>6, FinishWrites
  <2>2. /\ o.state \in {"UNKNOWN", "RECONCILING", "SUCCEEDED"}
        /\ o.state = "SUCCEEDED" =>
              reply[e].kind = "completed" /\ ~(reply[e].total > intent[t].cap) /\ o.error = None
    BY <2>1, OutcomeType
  <2> HIDE DEF o
  <2>3. o.error \in Frozen => o.error # None
    BY NoneAssumption DEF Errors
  <2> QED
    BY <2>1, <2>2, <2>3
<1>7. ASSUME NEW e \in Executors, Crash(e)
      PROVE  FrozenIsParked'
  BY <1>7 DEF Crash, Return, journal, supplier
<1>8. ASSUME NEW t \in Tests, NEW o \in Operators, MarkReconciling(t, o)
      PROVE  FrozenIsParked'
  BY <1>8 DEF MarkReconciling, supplier, locals
<1>9. ASSUME NEW k \in Keys, Late(k)
      PROVE  FrozenIsParked'
  BY <1>9 DEF Late, journal, locals
<1>10. ASSUME Tick
      PROVE  FrozenIsParked'
  BY <1>10 DEF Tick, journal, supplier, locals
<1>11. CASE UNCHANGED vars
  BY <1>11 DEF vars, journal, supplier, locals
<1> QED
  BY <1>1, <1>2, <1>3, <1>4, <1>5, <1>6, <1>7, <1>8, <1>9, <1>10, <1>11 DEF Next

\* finish writes SUCCEEDED only for a completed answer within the cap.
LEMMA SucceededStep == Ledger /\ [Next]_vars => SucceededIsWithinCap'
<1> SUFFICES ASSUME Ledger, [Next]_vars
             PROVE  SucceededIsWithinCap'
  OBVIOUS
<1> USE DEF Ledger, Discipline, BasicInv, TypeOK, Employed, Heard, RowIsCoherent,
        GateState, Unresolved, KeysAreDistinct, AskedIsDispatched, UnaskedIsIdle,
        HeardIsOwed, FrozenIsParked, SucceededIsWithinCap, HoldsDispatch
<1>1. ASSUME NEW i \in Intents, Prepare(i)
      PROVE  SucceededIsWithinCap'
  BY <1>1 DEF Prepare, supplier, locals, Keys
<1>2. ASSUME NEW a \in Approvals, NEW ops \in SUBSET Operators, Arm(a, ops)
      PROVE  SucceededIsWithinCap'
  BY <1>2 DEF Arm, journal, supplier, locals
<1>3. ASSUME NEW ops \in SUBSET Operators, Disarm(ops)
      PROVE  SucceededIsWithinCap'
  BY <1>3 DEF Disarm, journal, supplier, locals
<1>4. ASSUME NEW e \in Executors, NEW t \in Tests, NEW o \in Operators,
            NEW n \in Nonces, NEW s \in Stamps, Claim(e, t, o, n, s)
      PROVE  SucceededIsWithinCap'
  BY <1>4 DEF Claim, supplier, Approved, Dispatchable
<1>5. ASSUME NEW e \in Executors, Send(e)
      PROVE  SucceededIsWithinCap'
  BY <1>5 DEF Send, journal
<1>6. ASSUME NEW e \in Executors, Finish(e)
      PROVE  SucceededIsWithinCap'
  <2> DEFINE t == job[e].test
             o == Outcome(t, reply[e])
  <2>1. /\ at[e] = "finish" /\ t \in Tests /\ intent[t] \in Intents
        /\ reply[e] \in Replies /\ state[t] = "DISPATCHING"
        /\ state' = [state EXCEPT ![t] = o.state]
        /\ error' = [error EXCEPT ![t] = o.error]
        /\ UNCHANGED <<intent, asked, owes>>
    BY <1>6, FinishWrites
  <2>2. /\ o.state \in {"UNKNOWN", "RECONCILING", "SUCCEEDED"}
        /\ o.state = "SUCCEEDED" =>
              reply[e].kind = "completed" /\ ~(reply[e].total > intent[t].cap) /\ o.error = None
    BY <2>1, OutcomeType
  <2> HIDE DEF o
  <2>3. o.state = "SUCCEEDED" =>
           owes[intent[t].key] = reply[e].total /\ reply[e].total \in Totals
    BY <2>1, <2>2 DEF Replies
  <2>4. intent[t].cap \in Nat /\ \A x \in Totals : x \in Nat /\ x # None
    BY <2>1, Amounts
  <2>5. o.state = "SUCCEEDED" =>
           owes[intent[t].key] # None /\ owes[intent[t].key] <= intent[t].cap
    BY <2>2, <2>3, <2>4
  <2> QED
    BY <2>1, <2>5
<1>7. ASSUME NEW e \in Executors, Crash(e)
      PROVE  SucceededIsWithinCap'
  BY <1>7 DEF Crash, Return, journal, supplier
<1>8. ASSUME NEW t \in Tests, NEW o \in Operators, MarkReconciling(t, o)
      PROVE  SucceededIsWithinCap'
  BY <1>8 DEF MarkReconciling, supplier, locals
<1>9. ASSUME NEW k \in Keys, Late(k)
      PROVE  SucceededIsWithinCap'
  BY <1>9 DEF Late, journal, locals
<1>10. ASSUME Tick
      PROVE  SucceededIsWithinCap'
  BY <1>10 DEF Tick, journal, supplier, locals
<1>11. CASE UNCHANGED vars
  BY <1>11 DEF vars, journal, supplier, locals
<1> QED
  BY <1>1, <1>2, <1>3, <1>4, <1>5, <1>6, <1>7, <1>8, <1>9, <1>10, <1>11 DEF Next

\* The ledger invariant is inductive.
LEMMA LedgerStep == Ledger /\ [Next]_vars => Ledger'
<1> SUFFICES ASSUME Ledger, [Next]_vars
             PROVE  Ledger'
  OBVIOUS
<1>1. Discipline'
  BY DisciplineStep DEF Ledger
<1> QED
  BY <1>1, KeysStep, AskedStep, UnaskedStep, HeardStep, FrozenStep, SucceededStep DEF Ledger

\* With nothing prepared and nothing asked the ledger is right.
LEMMA LedgerInit == Init => Ledger
  BY DisciplineInit, NoneAssumption
  DEF Init, Ledger, KeysAreDistinct, AskedIsDispatched, UnaskedIsIdle, HeardIsOwed,
      FrozenIsParked, Frozen, Errors, SucceededIsWithinCap, GateState

\* The ledger of journal and supplier agrees in every state.
THEOREM LedgerInvariant == Spec => []Ledger
  BY LedgerInit, LedgerStep, PTL DEF Spec

\* SUCCEEDED is written only for an order the supplier reported within the cap.
THEOREM SuccessIsCapped == Spec => []SucceededIsWithinCap
  BY LedgerInvariant, PTL DEF Ledger

\* An order exists only where a request went, and that row is not PREPARED.
LEMMA LedgerAccounts == Ledger => OwedIsAccountedFor
  BY DEF Ledger, AskedIsDispatched, UnaskedIsIdle, OwedIsAccountedFor

\* Every order the supplier holds, however late it made it, has a journal row that is a
\* success or still under investigation.
THEOREM OrdersAreAccountedFor == Spec => []OwedIsAccountedFor
  BY LedgerInvariant, LedgerAccounts, PTL

-----------------------------------------------------------------------------

\* The step of FrozenStaysFrozen: a frozen test keeps its error and is not moved on.
FrozenUntouched ==
    \A t \in Tests : error[t] \in Frozen =>
        error'[t] = error[t] /\ state'[t] \notin {"DISPATCHING", "SUCCEEDED"}

\* Neither claim nor finish touches a frozen test.
LEMMA FrozenUntouchedStep == Ledger /\ [Next]_vars => FrozenUntouched
<1> SUFFICES ASSUME Ledger, [Next]_vars
             PROVE  FrozenUntouched
  OBVIOUS
<1> USE DEF Ledger, Discipline, BasicInv, TypeOK, GateState, RowIsCoherent,
        FrozenIsParked, FrozenUntouched
<1>1. ASSUME NEW i \in Intents, Prepare(i)
      PROVE  FrozenUntouched
  BY <1>1 DEF Prepare, supplier, locals
<1>2. ASSUME NEW a \in Approvals, NEW ops \in SUBSET Operators, Arm(a, ops)
      PROVE  FrozenUntouched
  BY <1>2 DEF Arm, journal, supplier, locals
<1>3. ASSUME NEW ops \in SUBSET Operators, Disarm(ops)
      PROVE  FrozenUntouched
  BY <1>3 DEF Disarm, journal, supplier, locals
<1>4. ASSUME NEW e \in Executors, NEW t \in Tests, NEW o \in Operators,
            NEW n \in Nonces, NEW s \in Stamps, Claim(e, t, o, n, s)
      PROVE  FrozenUntouched
  BY <1>4 DEF Claim, supplier, Dispatchable
<1>5. ASSUME NEW e \in Executors, Send(e)
      PROVE  FrozenUntouched
  BY <1>5 DEF Send, journal
<1>6. ASSUME NEW e \in Executors, Finish(e)
      PROVE  FrozenUntouched
  <2>1. /\ job[e].test \in Tests /\ state[job[e].test] = "DISPATCHING"
        /\ state' = [state EXCEPT ![job[e].test] = Outcome(job[e].test, reply[e]).state]
        /\ error' = [error EXCEPT ![job[e].test] = Outcome(job[e].test, reply[e]).error]
    BY <1>6, FinishWrites
  <2>2. error[job[e].test] \notin Frozen
    BY <2>1
  <2> QED
    BY <2>1, <2>2
<1>7. ASSUME NEW e \in Executors, Crash(e)
      PROVE  FrozenUntouched
  BY <1>7 DEF Crash, Return, journal, supplier
<1>8. ASSUME NEW t \in Tests, NEW o \in Operators, MarkReconciling(t, o)
      PROVE  FrozenUntouched
  BY <1>8 DEF MarkReconciling, supplier, locals
<1>9. ASSUME NEW k \in Keys, Late(k)
      PROVE  FrozenUntouched
  BY <1>9 DEF Late, journal, locals
<1>10. ASSUME Tick
      PROVE  FrozenUntouched
  BY <1>10 DEF Tick, journal, supplier, locals
<1>11. CASE UNCHANGED vars
  BY <1>11 DEF vars, journal, supplier, locals
<1> QED
  BY <1>1, <1>2, <1>3, <1>4, <1>5, <1>6, <1>7, <1>8, <1>9, <1>10, <1>11 DEF Next

\* No later arming or investigation moves a frozen test.
THEOREM FrozenTestsStay == Spec => FrozenStaysFrozen
<1>1. Ledger /\ [Next]_vars => [FrozenUntouched]_vars
  BY FrozenUntouchedStep
<1> QED
  BY <1>1, LedgerInvariant, PTL DEF Spec, FrozenStaysFrozen, FrozenUntouched

-----------------------------------------------------------------------------
(* Retry-After *)

\* The stored deadline of a test that may be claimed covers the supplier's.
DeadlineIsKept ==
    \A t \in Tests : state[t] \in {"PREPARED", "UNKNOWN", "RECONCILING"} =>
        \/ holdUntil[intent[t].key] <= now
        \/ retry[t] # None /\ holdUntil[intent[t].key] <= retry[t]

\* On the way to finish, only an in-progress answer sets a deadline.
DeadlineIsHeard ==
    \A e \in Executors : at[e] = "finish" =>
        \/ holdUntil[intent[job[e].test].key] <= now
        \/ /\ reply[e].kind = "progress"
           /\ holdUntil[intent[job[e].test].key] <= now + reply[e].delay

\* The inductive invariant of the deadlines.
Punctual == Ledger /\ DeadlineIsKept /\ DeadlineIsHeard /\ InProgressWaitIsHonoured

\* Times are numbers, of keys the supplier knows.
LEMMA Clocks ==
  ASSUME Discipline
  PROVE  /\ now \in Nat
         /\ \A t \in Tests : intent[t] # None =>
               intent[t].key \in Keys /\ holdUntil[intent[t].key] \in Nat
         /\ \A t \in Tests : retry[t] # None => retry[t] \in Nat
         /\ \A t \in Tests : state[t] # None => intent[t] # None
         /\ \A e \in Executors : at[e] # "idle" =>
               job[e].test \in Tests /\ intent[job[e].test] # None
         /\ \A e \in Executors : at[e] = "finish" /\ reply[e].kind = "progress" =>
               reply[e].delay \in Nat
  BY DEF Discipline, BasicInv, TypeOK, Keys, RowIsCoherent, Employed, Heard, Replies

\* What a request and its answer do to the supplier's deadline of the key.
LEMMA SendWrites ==
  ASSUME Discipline, NEW e \in Executors, Send(e)
  PROVE  LET k == intent[job[e].test].key
         IN  /\ at[e] = "send" /\ k \in Keys /\ job[e].test \in Tests
             /\ \E r \in Replies :
                   /\ holdUntil' = [holdUntil EXCEPT
                                       ![k] = IF r.kind = "progress" THEN now + r.delay ELSE @]
                   /\ reply' = [reply EXCEPT ![e] = r]
             /\ at' = [at EXCEPT ![e] = "finish"]
             /\ UNCHANGED <<intent, state, retry, now, job>>
  BY DEF Send, journal, Keys, Discipline, BasicInv, TypeOK, Employed

\* finish stores what it heard, and requests of other tests move no deadline of this one.
LEMMA KeptStep == Punctual /\ [Next]_vars => DeadlineIsKept'
<1> SUFFICES ASSUME Punctual, [Next]_vars
             PROVE  DeadlineIsKept'
  OBVIOUS
<1>1. ASSUME NEW i \in Intents, Prepare(i)
      PROVE  DeadlineIsKept'
  BY <1>1, NoneAssumption DEF Prepare, supplier, locals, Keys, UnaskedIsIdle, AskedIsDispatched,
      Punctual, Ledger, Discipline, BasicInv, TypeOK, Employed, Heard, RowIsCoherent,
      GateState, DeadlineIsKept, DeadlineIsHeard, InProgressWaitIsHonoured
<1>2. ASSUME NEW a \in Approvals, NEW ops \in SUBSET Operators, Arm(a, ops)
      PROVE  DeadlineIsKept'
  BY <1>2 DEF Arm, journal, supplier, locals,
      Punctual, Ledger, Discipline, BasicInv, TypeOK, Employed, Heard, RowIsCoherent,
      GateState, DeadlineIsKept, DeadlineIsHeard, InProgressWaitIsHonoured
<1>3. ASSUME NEW ops \in SUBSET Operators, Disarm(ops)
      PROVE  DeadlineIsKept'
  BY <1>3 DEF Disarm, journal, supplier, locals,
      Punctual, Ledger, Discipline, BasicInv, TypeOK, Employed, Heard, RowIsCoherent,
      GateState, DeadlineIsKept, DeadlineIsHeard, InProgressWaitIsHonoured
<1>4. ASSUME NEW e \in Executors, NEW t \in Tests, NEW o \in Operators,
            NEW n \in Nonces, NEW s \in Stamps, Claim(e, t, o, n, s)
      PROVE  DeadlineIsKept'
  <2>1. state' = [state EXCEPT ![t] = "DISPATCHING"] /\ retry' = [retry EXCEPT ![t] = None]
    BY <1>4 DEF Claim
  <2>2. UNCHANGED <<intent, holdUntil, now>>
    BY <1>4 DEF Claim, supplier
  <2> QED
    BY <2>1, <2>2 DEF Punctual, Ledger, Discipline, BasicInv, TypeOK, DeadlineIsKept
<1>5. ASSUME NEW e \in Executors, Send(e)
      PROVE  DeadlineIsKept'
  <2>1. /\ now \in Nat
        /\ \A u \in Tests : intent[u] # None =>
              intent[u].key \in Keys /\ holdUntil[intent[u].key] \in Nat
        /\ \A u \in Tests : retry[u] # None => retry[u] \in Nat
        /\ \A u \in Tests : state[u] # None => intent[u] # None
        /\ \A d \in Executors : at[d] # "idle" =>
              job[d].test \in Tests /\ intent[job[d].test] # None
        /\ \A d \in Executors : at[d] = "finish" /\ reply[d].kind = "progress" =>
              reply[d].delay \in Nat
    BY Clocks DEF Punctual, Ledger
  <2> DEFINE k == intent[job[e].test].key
  <2>2. PICK r \in Replies :
           /\ holdUntil' = [holdUntil EXCEPT
                               ![k] = IF r.kind = "progress" THEN now + r.delay ELSE @]
           /\ reply' = [reply EXCEPT ![e] = r]
    BY <1>5, SendWrites DEF Punctual, Ledger
  <2>3. /\ at[e] = "send" /\ k \in Keys /\ job[e].test \in Tests
        /\ at' = [at EXCEPT ![e] = "finish"]
        /\ UNCHANGED <<intent, state, retry, now, job>>
    BY <1>5, SendWrites DEF Punctual, Ledger
  <2>4. state[job[e].test] = "DISPATCHING"
    BY <2>3 DEF Punctual, Ledger, Discipline, HoldsDispatch
  <2>5. \A t \in Tests : state[t] \in {"PREPARED", "UNKNOWN", "RECONCILING"} =>
           intent[t] # None /\ intent[t].key # k
    BY <2>1, <2>3, <2>4, NoneAssumption DEF Punctual, Ledger, KeysAreDistinct, GateState
  <2>6. \A t \in Tests : state[t] \in {"PREPARED", "UNKNOWN", "RECONCILING"} =>
           holdUntil'[intent[t].key] = holdUntil[intent[t].key]
    BY <2>1, <2>2, <2>5 DEF Punctual, Ledger, Discipline, BasicInv, TypeOK
  <2> QED
    BY <2>3, <2>6 DEF Punctual, DeadlineIsKept
<1>6. ASSUME NEW e \in Executors, Finish(e)
      PROVE  DeadlineIsKept'
  <2>1. /\ now \in Nat
        /\ \A u \in Tests : intent[u] # None =>
              intent[u].key \in Keys /\ holdUntil[intent[u].key] \in Nat
        /\ \A u \in Tests : retry[u] # None => retry[u] \in Nat
        /\ \A u \in Tests : state[u] # None => intent[u] # None
        /\ \A d \in Executors : at[d] # "idle" =>
              job[d].test \in Tests /\ intent[job[d].test] # None
        /\ \A d \in Executors : at[d] = "finish" /\ reply[d].kind = "progress" =>
              reply[d].delay \in Nat
    BY Clocks DEF Punctual, Ledger
  <2> DEFINE t == job[e].test
             o == Outcome(t, reply[e])
  <2>2. /\ at[e] = "finish" /\ t \in Tests
        /\ state' = [state EXCEPT ![t] = o.state]
        /\ retry' = [retry EXCEPT ![t] = IF reply[e].kind = "progress"
                                          THEN now + reply[e].delay ELSE None]
        /\ UNCHANGED <<intent, now, holdUntil>>
    BY <1>6, FinishWrites DEF Punctual, Ledger
  <2> HIDE DEF o
  <2>3. reply[e].kind = "progress" => now + reply[e].delay # None
    <3>1. now + reply[e].delay \in Nat \/ reply[e].kind # "progress"
      BY <2>1, <2>2
    <3> QED
      BY <3>1, NoneAssumption
  <2>4. \/ holdUntil[intent[t].key] <= now
        \/ /\ reply[e].kind = "progress"
           /\ holdUntil[intent[t].key] <= now + reply[e].delay
    BY <2>2 DEF Punctual, DeadlineIsHeard
  <2>5. ASSUME NEW u \in Tests, u # t, state'[u] \in {"PREPARED", "UNKNOWN", "RECONCILING"}
        PROVE  \/ holdUntil'[intent'[u].key] <= now'
               \/ retry'[u] # None /\ holdUntil'[intent'[u].key] <= retry'[u]
    BY <2>2, <2>5 DEF Punctual, Ledger, Discipline, BasicInv, TypeOK, DeadlineIsKept
  <2>6. \/ holdUntil'[intent'[t].key] <= now'
        \/ retry'[t] # None /\ holdUntil'[intent'[t].key] <= retry'[t]
    BY <2>2, <2>3, <2>4 DEF Punctual, Ledger, Discipline, BasicInv, TypeOK
  <2> QED
    BY <2>5, <2>6 DEF DeadlineIsKept
<1>7. ASSUME NEW e \in Executors, Crash(e)
      PROVE  DeadlineIsKept'
  BY <1>7 DEF Crash, Return, journal, supplier,
      Punctual, Ledger, Discipline, BasicInv, TypeOK, Employed, Heard, RowIsCoherent,
      GateState, DeadlineIsKept, DeadlineIsHeard, InProgressWaitIsHonoured
<1>8. ASSUME NEW t \in Tests, NEW o \in Operators, MarkReconciling(t, o)
      PROVE  DeadlineIsKept'
  BY <1>8 DEF MarkReconciling, supplier, locals,
      Punctual, Ledger, Discipline, BasicInv, TypeOK, Employed, Heard, RowIsCoherent,
      GateState, DeadlineIsKept, DeadlineIsHeard, InProgressWaitIsHonoured
<1>9. ASSUME NEW k \in Keys, Late(k)
      PROVE  DeadlineIsKept'
  BY <1>9 DEF Late, journal, locals,
      Punctual, Ledger, Discipline, BasicInv, TypeOK, Employed, Heard, RowIsCoherent,
      GateState, DeadlineIsKept, DeadlineIsHeard, InProgressWaitIsHonoured
<1>10. ASSUME Tick
      PROVE  DeadlineIsKept'
  <2>1. /\ now \in Nat
        /\ \A u \in Tests : intent[u] # None =>
              intent[u].key \in Keys /\ holdUntil[intent[u].key] \in Nat
        /\ \A u \in Tests : retry[u] # None => retry[u] \in Nat
        /\ \A u \in Tests : state[u] # None => intent[u] # None
        /\ \A d \in Executors : at[d] # "idle" =>
              job[d].test \in Tests /\ intent[job[d].test] # None
        /\ \A d \in Executors : at[d] = "finish" /\ reply[d].kind = "progress" =>
              reply[d].delay \in Nat
    BY Clocks DEF Punctual, Ledger
  <2>2. now' = now + 1 /\ UNCHANGED <<intent, state, retry, holdUntil, at, job, reply>>
    BY <1>10 DEF Tick, journal, supplier, locals
  <2> QED
    BY <2>1, <2>2, NoneAssumption DEF Punctual, DeadlineIsKept, GateState
<1>11. CASE UNCHANGED vars
  BY <1>11 DEF vars, journal, supplier, locals,
      Punctual, Ledger, Discipline, BasicInv, TypeOK, Employed, Heard, RowIsCoherent,
      GateState, DeadlineIsKept, DeadlineIsHeard, InProgressWaitIsHonoured
<1> QED
  BY <1>1, <1>2, <1>3, <1>4, <1>5, <1>6, <1>7, <1>8, <1>9, <1>10, <1>11 DEF Next

\* A request leaves after the old deadline, so only its answer sets a new one.
LEMMA HeardDeadlineStep == Punctual /\ [Next]_vars => DeadlineIsHeard'
<1> SUFFICES ASSUME Punctual, [Next]_vars
             PROVE  DeadlineIsHeard'
  OBVIOUS
<1>1. ASSUME NEW i \in Intents, Prepare(i)
      PROVE  DeadlineIsHeard'
  BY <1>1 DEF Prepare, supplier, locals, Keys, UnaskedIsIdle, AskedIsDispatched,
      Punctual, Ledger, Discipline, BasicInv, TypeOK, Employed, Heard, RowIsCoherent,
      GateState, DeadlineIsKept, DeadlineIsHeard, InProgressWaitIsHonoured
<1>2. ASSUME NEW a \in Approvals, NEW ops \in SUBSET Operators, Arm(a, ops)
      PROVE  DeadlineIsHeard'
  BY <1>2 DEF Arm, journal, supplier, locals,
      Punctual, Ledger, Discipline, BasicInv, TypeOK, Employed, Heard, RowIsCoherent,
      GateState, DeadlineIsKept, DeadlineIsHeard, InProgressWaitIsHonoured
<1>3. ASSUME NEW ops \in SUBSET Operators, Disarm(ops)
      PROVE  DeadlineIsHeard'
  BY <1>3 DEF Disarm, journal, supplier, locals,
      Punctual, Ledger, Discipline, BasicInv, TypeOK, Employed, Heard, RowIsCoherent,
      GateState, DeadlineIsKept, DeadlineIsHeard, InProgressWaitIsHonoured
<1>4. ASSUME NEW e \in Executors, NEW t \in Tests, NEW o \in Operators,
            NEW n \in Nonces, NEW s \in Stamps, Claim(e, t, o, n, s)
      PROVE  DeadlineIsHeard'
  BY <1>4 DEF Claim, supplier, RetryElapsed, Approved, Dispatchable,
      Punctual, Ledger, Discipline, BasicInv, TypeOK, Employed, Heard, RowIsCoherent,
      GateState, DeadlineIsKept, DeadlineIsHeard, InProgressWaitIsHonoured
<1>5. ASSUME NEW e \in Executors, Send(e)
      PROVE  DeadlineIsHeard'
  <2>1. /\ now \in Nat
        /\ \A u \in Tests : intent[u] # None =>
              intent[u].key \in Keys /\ holdUntil[intent[u].key] \in Nat
        /\ \A u \in Tests : retry[u] # None => retry[u] \in Nat
        /\ \A u \in Tests : state[u] # None => intent[u] # None
        /\ \A d \in Executors : at[d] # "idle" =>
              job[d].test \in Tests /\ intent[job[d].test] # None
        /\ \A d \in Executors : at[d] = "finish" /\ reply[d].kind = "progress" =>
              reply[d].delay \in Nat
    BY Clocks DEF Punctual, Ledger
  <2> DEFINE k == intent[job[e].test].key
  <2>2. PICK r \in Replies :
           /\ holdUntil' = [holdUntil EXCEPT
                               ![k] = IF r.kind = "progress" THEN now + r.delay ELSE @]
           /\ reply' = [reply EXCEPT ![e] = r]
    BY <1>5, SendWrites DEF Punctual, Ledger
  <2>3. /\ at[e] = "send" /\ k \in Keys /\ job[e].test \in Tests
        /\ at' = [at EXCEPT ![e] = "finish"]
        /\ UNCHANGED <<intent, state, retry, now, job>>
    BY <1>5, SendWrites DEF Punctual, Ledger
  <2>4. holdUntil[k] <= now
    BY <2>3 DEF Punctual, InProgressWaitIsHonoured
  <2>5. \A d \in Executors : at'[d] = "finish" => d = e
    BY <2>3 DEF Punctual, Ledger, Discipline, BasicInv, TypeOK, SoleExecutor
  <2>6. reply'[e] = r /\ holdUntil'[k] = IF r.kind = "progress" THEN now + r.delay ELSE holdUntil[k]
    BY <2>2, <2>3 DEF Punctual, Ledger, Discipline, BasicInv, TypeOK
  <2>7. r.kind = "progress" => now + r.delay \in Nat
    BY <2>1 DEF Replies
  <2>8. \/ holdUntil'[k] <= now
        \/ r.kind = "progress" /\ holdUntil'[k] <= now + r.delay
    BY <2>4, <2>6, <2>7
  <2> QED
    BY <2>3, <2>5, <2>6, <2>8 DEF DeadlineIsHeard
<1>6. ASSUME NEW e \in Executors, Finish(e)
      PROVE  DeadlineIsHeard'
  BY <1>6 DEF Finish, Return, supplier,
      Punctual, Ledger, Discipline, BasicInv, TypeOK, Employed, Heard, RowIsCoherent,
      GateState, DeadlineIsKept, DeadlineIsHeard, InProgressWaitIsHonoured
<1>7. ASSUME NEW e \in Executors, Crash(e)
      PROVE  DeadlineIsHeard'
  BY <1>7 DEF Crash, Return, journal, supplier,
      Punctual, Ledger, Discipline, BasicInv, TypeOK, Employed, Heard, RowIsCoherent,
      GateState, DeadlineIsKept, DeadlineIsHeard, InProgressWaitIsHonoured
<1>8. ASSUME NEW t \in Tests, NEW o \in Operators, MarkReconciling(t, o)
      PROVE  DeadlineIsHeard'
  BY <1>8 DEF MarkReconciling, supplier, locals,
      Punctual, Ledger, Discipline, BasicInv, TypeOK, Employed, Heard, RowIsCoherent,
      GateState, DeadlineIsKept, DeadlineIsHeard, InProgressWaitIsHonoured
<1>9. ASSUME NEW k \in Keys, Late(k)
      PROVE  DeadlineIsHeard'
  BY <1>9 DEF Late, journal, locals,
      Punctual, Ledger, Discipline, BasicInv, TypeOK, Employed, Heard, RowIsCoherent,
      GateState, DeadlineIsKept, DeadlineIsHeard, InProgressWaitIsHonoured
<1>10. ASSUME Tick
      PROVE  DeadlineIsHeard'
  <2>1. /\ now \in Nat
        /\ \A u \in Tests : intent[u] # None =>
              intent[u].key \in Keys /\ holdUntil[intent[u].key] \in Nat
        /\ \A u \in Tests : retry[u] # None => retry[u] \in Nat
        /\ \A u \in Tests : state[u] # None => intent[u] # None
        /\ \A d \in Executors : at[d] # "idle" =>
              job[d].test \in Tests /\ intent[job[d].test] # None
        /\ \A d \in Executors : at[d] = "finish" /\ reply[d].kind = "progress" =>
              reply[d].delay \in Nat
    BY Clocks DEF Punctual, Ledger
  <2>2. now' = now + 1 /\ UNCHANGED <<intent, state, retry, holdUntil, at, job, reply>>
    BY <1>10 DEF Tick, journal, supplier, locals
  <2> QED
    BY <2>1, <2>2, NoneAssumption DEF Punctual, DeadlineIsHeard
<1>11. CASE UNCHANGED vars
  BY <1>11 DEF vars, journal, supplier, locals,
      Punctual, Ledger, Discipline, BasicInv, TypeOK, Employed, Heard, RowIsCoherent,
      GateState, DeadlineIsKept, DeadlineIsHeard, InProgressWaitIsHonoured
<1> QED
  BY <1>1, <1>2, <1>3, <1>4, <1>5, <1>6, <1>7, <1>8, <1>9, <1>10, <1>11 DEF Next

\* claim has compared the stored deadline with the database clock.
LEMMA HonouredStep == Punctual /\ [Next]_vars => InProgressWaitIsHonoured'
<1> SUFFICES ASSUME Punctual, [Next]_vars
             PROVE  InProgressWaitIsHonoured'
  OBVIOUS
<1>1. ASSUME NEW i \in Intents, Prepare(i)
      PROVE  InProgressWaitIsHonoured'
  BY <1>1 DEF Prepare, supplier, locals, Keys, UnaskedIsIdle, AskedIsDispatched,
      Punctual, Ledger, Discipline, BasicInv, TypeOK, Employed, Heard, RowIsCoherent,
      GateState, DeadlineIsKept, DeadlineIsHeard, InProgressWaitIsHonoured
<1>2. ASSUME NEW a \in Approvals, NEW ops \in SUBSET Operators, Arm(a, ops)
      PROVE  InProgressWaitIsHonoured'
  BY <1>2 DEF Arm, journal, supplier, locals,
      Punctual, Ledger, Discipline, BasicInv, TypeOK, Employed, Heard, RowIsCoherent,
      GateState, DeadlineIsKept, DeadlineIsHeard, InProgressWaitIsHonoured
<1>3. ASSUME NEW ops \in SUBSET Operators, Disarm(ops)
      PROVE  InProgressWaitIsHonoured'
  BY <1>3 DEF Disarm, journal, supplier, locals,
      Punctual, Ledger, Discipline, BasicInv, TypeOK, Employed, Heard, RowIsCoherent,
      GateState, DeadlineIsKept, DeadlineIsHeard, InProgressWaitIsHonoured
<1>4. ASSUME NEW e \in Executors, NEW t \in Tests, NEW o \in Operators,
            NEW n \in Nonces, NEW s \in Stamps, Claim(e, t, o, n, s)
      PROVE  InProgressWaitIsHonoured'
  <2>1. /\ now \in Nat
        /\ \A u \in Tests : intent[u] # None =>
              intent[u].key \in Keys /\ holdUntil[intent[u].key] \in Nat
        /\ \A u \in Tests : retry[u] # None => retry[u] \in Nat
        /\ \A u \in Tests : state[u] # None => intent[u] # None
        /\ \A d \in Executors : at[d] # "idle" =>
              job[d].test \in Tests /\ intent[job[d].test] # None
        /\ \A d \in Executors : at[d] = "finish" /\ reply[d].kind = "progress" =>
              reply[d].delay \in Nat
    BY Clocks DEF Punctual, Ledger
  <2>2. holdUntil[intent[t].key] <= now
    BY <1>4, <2>1, NoneAssumption
    DEF Claim, Dispatchable, RetryElapsed, Approved, Punctual, DeadlineIsKept
  <2>3. /\ at' = [at EXCEPT ![e] = "send"] /\ job' = [job EXCEPT ![e] = [test |-> t, nonce |-> n]]
        /\ UNCHANGED <<intent, holdUntil, now>>
    BY <1>4 DEF Claim, supplier
  <2>4. \A d \in Executors : at'[d] = "send" => d = e \/ (at[d] = "send" /\ job'[d] = job[d])
    BY <2>3 DEF Punctual, Ledger, Discipline, BasicInv, TypeOK
  <2>5. job'[e].test = t
    BY <2>3 DEF Punctual, Ledger, Discipline, BasicInv, TypeOK
  <2> QED
    BY <2>2, <2>3, <2>4, <2>5 DEF Punctual, InProgressWaitIsHonoured
<1>5. ASSUME NEW e \in Executors, Send(e)
      PROVE  InProgressWaitIsHonoured'
  BY <1>5 DEF Send, journal, SoleExecutor, HoldsDispatch, Keys,
      Punctual, Ledger, Discipline, BasicInv, TypeOK, Employed, Heard, RowIsCoherent,
      GateState, DeadlineIsKept, DeadlineIsHeard, InProgressWaitIsHonoured
<1>6. ASSUME NEW e \in Executors, Finish(e)
      PROVE  InProgressWaitIsHonoured'
  BY <1>6 DEF Finish, Return, supplier,
      Punctual, Ledger, Discipline, BasicInv, TypeOK, Employed, Heard, RowIsCoherent,
      GateState, DeadlineIsKept, DeadlineIsHeard, InProgressWaitIsHonoured
<1>7. ASSUME NEW e \in Executors, Crash(e)
      PROVE  InProgressWaitIsHonoured'
  BY <1>7 DEF Crash, Return, journal, supplier,
      Punctual, Ledger, Discipline, BasicInv, TypeOK, Employed, Heard, RowIsCoherent,
      GateState, DeadlineIsKept, DeadlineIsHeard, InProgressWaitIsHonoured
<1>8. ASSUME NEW t \in Tests, NEW o \in Operators, MarkReconciling(t, o)
      PROVE  InProgressWaitIsHonoured'
  BY <1>8 DEF MarkReconciling, supplier, locals,
      Punctual, Ledger, Discipline, BasicInv, TypeOK, Employed, Heard, RowIsCoherent,
      GateState, DeadlineIsKept, DeadlineIsHeard, InProgressWaitIsHonoured
<1>9. ASSUME NEW k \in Keys, Late(k)
      PROVE  InProgressWaitIsHonoured'
  BY <1>9 DEF Late, journal, locals,
      Punctual, Ledger, Discipline, BasicInv, TypeOK, Employed, Heard, RowIsCoherent,
      GateState, DeadlineIsKept, DeadlineIsHeard, InProgressWaitIsHonoured
<1>10. ASSUME Tick
      PROVE  InProgressWaitIsHonoured'
  <2>1. /\ now \in Nat
        /\ \A u \in Tests : intent[u] # None =>
              intent[u].key \in Keys /\ holdUntil[intent[u].key] \in Nat
        /\ \A u \in Tests : retry[u] # None => retry[u] \in Nat
        /\ \A u \in Tests : state[u] # None => intent[u] # None
        /\ \A d \in Executors : at[d] # "idle" =>
              job[d].test \in Tests /\ intent[job[d].test] # None
        /\ \A d \in Executors : at[d] = "finish" /\ reply[d].kind = "progress" =>
              reply[d].delay \in Nat
    BY Clocks DEF Punctual, Ledger
  <2>2. now' = now + 1 /\ UNCHANGED <<intent, state, retry, holdUntil, at, job, reply>>
    BY <1>10 DEF Tick, journal, supplier, locals
  <2> QED
    BY <2>1, <2>2, NoneAssumption DEF Punctual, InProgressWaitIsHonoured
<1>11. CASE UNCHANGED vars
  BY <1>11 DEF vars, journal, supplier, locals,
      Punctual, Ledger, Discipline, BasicInv, TypeOK, Employed, Heard, RowIsCoherent,
      GateState, DeadlineIsKept, DeadlineIsHeard, InProgressWaitIsHonoured
<1> QED
  BY <1>1, <1>2, <1>3, <1>4, <1>5, <1>6, <1>7, <1>8, <1>9, <1>10, <1>11 DEF Next

\* Nobody waits at the start.
LEMMA PunctualInit == Init => Punctual
  BY LedgerInit, NoneAssumption
  DEF Init, Punctual, DeadlineIsKept, DeadlineIsHeard, InProgressWaitIsHonoured, GateState

\* Stored deadlines cover the deadlines of the supplier in every state.
THEOREM PunctualInvariant == Spec => []Punctual
<1>1. Punctual /\ [Next]_vars => Punctual'
  BY LedgerStep, KeptStep, HeardDeadlineStep, HonouredStep DEF Punctual
<1> QED
  BY <1>1, PunctualInit, PTL DEF Spec

\* No request goes out before the Retry-After of the last in-progress answer.
THEOREM InProgressWaitsAreHonoured == Spec => []InProgressWaitIsHonoured
  BY PunctualInvariant, PTL DEF Punctual

=============================================================================
