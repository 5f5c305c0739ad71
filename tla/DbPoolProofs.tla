----------------------------- MODULE DbPoolProofs -----------------------------
(***************************************************************************)
(* Proofs about DbPool: its types, that connections are accounted for, and *)
(* that no session fails without a reason within its own life.             *)
(***************************************************************************)
EXTENDS DbPool, FiniteSetTheorems, TLAPS

\* Beyond what is to be shown: a cut connection and an unusable session have
\* met an outage or a crowd, and while the database is down everyone has.
Reasons ==
  \A a \in Actors :
    /\ conn[a] # "none" => Running(a)
    /\ conn[a] = "up" => dbUp
    /\ a \in broken => pc[a] \in {"open", "commit"}
    /\ conn[a] = "cut" \/ a \in broken => a \in excused
    /\ ~dbUp /\ Running(a) => a \in excused
    /\ answer[a] = "db_error" => a \in excused

Inv == TypeOK /\ Reasons

\* The definitions every step is made of.
USE DEF At, Goto, Answers, Keeps, Running

LEMMA InitInv == Init => Inv
  BY PoolAssumption DEF Init, Inv, TypeOK, Reasons, Statements

LEMMA StartInv ==
  ASSUME Inv, NEW a \in Actors, NEW step \in Statements, Start(a, step)
  PROVE  Inv'
  BY DEF Start, Inv, TypeOK, Reasons, Statements

\* Whoever fails is excused by then.
LEMMA FailInv ==
  ASSUME Inv, NEW a \in Actors, pc[a] \in Statements, Fail(a),
         excused' = excused \cup {a}
  PROVE  Inv'
<1>1. TypeOK'
  BY DEF Fail, FailRequest, FailConnect, FailFrame, FailProbe, Inv, TypeOK, Statements
<1>2. Reasons'
  BY PoolAssumption
     DEF Fail, FailRequest, FailConnect, FailFrame, FailProbe, Inv, TypeOK, Reasons, Statements
<1> QED BY <1>1, <1>2 DEF Inv

\* A pool that looks full is full of other running tasks.
LEMMA FullIsCrowd ==
  ASSUME Inv, NEW a \in Actors, Wants(a), ~Free
  PROVE  Cardinality(Crowd(a)) >= Capacity
<1>1. Crowd(a) = InUse
  BY DEF Crowd, InUse, Wants, Inv, Reasons
<1>2. IsFiniteSet(Actors) /\ InUse \subseteq Actors
  BY PoolAssumption DEF Actors, InUse
<1>3. Cardinality(InUse) \in Nat
  BY <1>2, FS_Subset, FS_CardinalityType
<1> QED BY <1>1, <1>3, PoolAssumption DEF Free

LEMMA CheckoutFailsInv ==
  ASSUME Inv, NEW a \in Actors, CheckoutFails(a)
  PROVE  Inv'
<1>1. pc[a] \in Statements /\ Fail(a)
  BY DEF CheckoutFails, Wants
<1>2. excused' = excused \cup {a}
  <2>1. CASE ~dbUp
    BY <2>1, <1>1 DEF CheckoutFails, Inv, Reasons, TypeOK, Statements
  <2>2. CASE ~Free
    BY <2>2, FullIsCrowd DEF CheckoutFails
  <2> QED BY <2>1, <2>2 DEF CheckoutFails
<1> QED BY <1>1, <1>2, FailInv

LEMMA ExecuteFailsInv ==
  ASSUME Inv, NEW a \in Actors, ExecuteFails(a)
  PROVE  Inv'
<1>1. excused' = excused \cup {a}
  BY DEF ExecuteFails, Inv, Reasons
<1> QED BY <1>1, FailInv DEF ExecuteFails

LEMMA ExecuteInv ==
  ASSUME Inv, NEW a \in Actors, Execute(a)
  PROVE  Inv'
  BY DEF Execute, Succeed, Inv, TypeOK, Reasons, Statements

LEMMA EndInv ==
  ASSUME Inv, NEW a \in Actors, End(a), Answers(a, "ok") \/ UNCHANGED answer
  PROVE  Inv'
  BY DEF End, Inv, TypeOK, Reasons, Statements

LEMMA CheckoutInv ==
  ASSUME Inv, NEW a \in Actors, Checkout(a)
  PROVE  Inv'
  BY DEF Checkout, Wants, Inv, TypeOK, Reasons, Statements

LEMMA OutageInv == ASSUME Inv, Outage PROVE Inv'
<1>1. outages' \in 0 .. MaxOutages
  BY PoolAssumption DEF Outage, Inv, TypeOK
<1>2. TypeOK'
  BY <1>1 DEF Outage, Inv, TypeOK
<1>3. Reasons'
  BY DEF Outage, Inv, TypeOK, Reasons
<1> QED BY <1>2, <1>3 DEF Inv

\* One step per action.
LEMMA StepInv == Inv /\ [Next]_vars => Inv'
<1> SUFFICES ASSUME Inv, [Next]_vars PROVE Inv'
  OBVIOUS
<1>1. ASSUME NEW a \in Actors, Open(a) \/ Serve(a) \/ Probe(a) PROVE Inv'
  BY <1>1, StartInv DEF Open, Serve, Probe, Statements
<1>2. ASSUME NEW a \in Actors, Statement(a) PROVE Inv'
  BY <1>2, CheckoutInv, CheckoutFailsInv, ExecuteInv, ExecuteFailsInv DEF Statement
<1>3. ASSUME NEW a \in Actors, Leave(a) \/ Finish(a) PROVE Inv'
  BY <1>3, EndInv DEF Leave, Finish
<1>4. ASSUME NEW a \in Actors, Frame(a) \/ Write(a) PROVE Inv'
  BY <1>4 DEF Frame, Write, Inv, TypeOK, Reasons, Statements
<1>5. CASE Recover
  BY <1>5 DEF Recover, sessions, Inv, TypeOK, Reasons
<1>6. CASE UNCHANGED vars
  BY <1>6 DEF vars, sessions, Inv, TypeOK, Reasons
<1> QED BY <1>1, <1>2, <1>3, <1>4, <1>5, <1>6, OutageInv DEF Next, Step

\* Type correctness of the sessions and their pool for all constants.
THEOREM TypeCorrect == Spec => []TypeOK
<1>1. Inv => TypeOK
  BY DEF Inv
<1> QED BY <1>1, InitInv, StepInv, PTL DEF Spec

\* No session fails without a reason that lies within its own life, for any
\* number of tasks, any pool and any outages.
THEOREM Reasonable == Spec => []FailuresHaveReasons
<1>1. Inv => FailuresHaveReasons
  BY DEF Inv, Reasons, FailuresHaveReasons
<1> QED BY <1>1, InitInv, StepInv, PTL DEF Spec

------------------------------------------------------------------------------
(* The limit of the pool *)

Bounded == Cardinality(InUse) <= Capacity

LEMMA Sized ==
  ASSUME Inv, NEW S, S \subseteq Actors
  PROVE  IsFiniteSet(S) /\ Cardinality(S) \in Nat
  BY PoolAssumption, FS_Subset, FS_CardinalityType DEF Actors

\* Every step but Checkout takes nothing.
LEMMA OnlyCheckoutTakes ==
  ASSUME Inv, [Next]_vars, \A a \in Actors : ~Checkout(a)
  PROVE  InUse' \subseteq InUse
<1>1. ASSUME NEW a \in Actors, Open(a) \/ Serve(a) \/ Probe(a) PROVE InUse' \subseteq InUse
  BY <1>1 DEF Open, Serve, Probe, Start, InUse
<1>2. ASSUME NEW a \in Actors, Statement(a) PROVE InUse' \subseteq InUse
  BY <1>2
     DEF Statement, CheckoutFails, ExecuteFails, Fail, FailRequest, FailConnect, FailFrame,
         FailProbe, Execute, Succeed, InUse, Inv, TypeOK
<1>3. ASSUME NEW a \in Actors, Leave(a) \/ Finish(a) PROVE InUse' \subseteq InUse
  BY <1>3 DEF Leave, Finish, End, InUse, Inv, TypeOK
<1>4. ASSUME NEW a \in Actors, Frame(a) \/ Write(a) PROVE InUse' \subseteq InUse
  BY <1>4 DEF Frame, Write, InUse
<1>5. CASE Outage
  BY <1>5 DEF Outage, InUse
<1>6. CASE Recover \/ UNCHANGED vars
  BY <1>6 DEF Recover, vars, sessions, InUse
<1> QED BY <1>1, <1>2, <1>3, <1>4, <1>5, <1>6 DEF Next, Step

LEMMA StepBounded == Inv /\ Bounded /\ [Next]_vars => Bounded'
<1> SUFFICES ASSUME Inv, Bounded, [Next]_vars PROVE Bounded'
  OBVIOUS
<1>0. InUse \subseteq Actors
  BY DEF InUse
<1>1. CASE \E a \in Actors : Checkout(a)
  <2>1. PICK a \in Actors : Checkout(a)
    BY <1>1
  <2>2. InUse' = InUse \cup {a} /\ a \notin InUse
    BY <2>1 DEF Checkout, Wants, InUse, Inv, TypeOK
  <2>3. Cardinality(InUse') = Cardinality(InUse) + 1
    BY <2>2, <1>0, Sized, FS_AddElement
  <2> QED BY <2>1, <2>3, <1>0, Sized, PoolAssumption DEF Checkout, Free, Bounded
<1>2. CASE \A a \in Actors : ~Checkout(a)
  <2>1. InUse' \subseteq InUse
    BY <1>2, OnlyCheckoutTakes
  <2>2. Cardinality(InUse') <= Cardinality(InUse)
    BY <2>1, <1>0, Sized, FS_Subset
  <2>3. Cardinality(InUse') \in Nat /\ Cardinality(InUse) \in Nat
    BY <2>1, <1>0, Sized
  <2> QED BY <2>2, <2>3, PoolAssumption DEF Bounded
<1> QED BY <1>1, <1>2

\* Connections belong to running tasks, are no more than the database was
\* promised, and are alive only while it is.
THEOREM Accounted == Spec => []SlotsAccounted
<1>1. Init => Bounded
  <2>1. ASSUME Init PROVE InUse = {}
    BY <2>1 DEF Init, InUse
  <2> QED BY <2>1, FS_EmptySet, PoolAssumption DEF Bounded
<1>2. Inv /\ Bounded => SlotsAccounted
  BY DEF Inv, Reasons, Bounded, SlotsAccounted, InUse
<1> QED BY <1>1, <1>2, InitInv, StepInv, StepBounded, PTL DEF Spec
==============================================================================
