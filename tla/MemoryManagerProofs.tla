------------------------ MODULE MemoryManagerProofs ------------------------
(***************************************************************************)
(* The symbol lock is on whenever two threads can intern, for any number   *)
(* of threads.                                                             *)
(*                                                                         *)
(* The flag follows the count, except inside a critical section, where it  *)
(* still has the value for the count before: the invariant says which      *)
(* value that is for a constructor and for a destructor.                   *)
(***************************************************************************)
EXTENDS MemoryManager, FiniteSetTheorems, TLAPS

\* The mutex is held by the thread that is inside a critical section.
MutexInv == \A t \in Thread : pc[t] \in {"constructing", "destroying"} <=> mutex = t

CountInv == active = Cardinality(Registered)

\* The count symLock was last set for.
CountSeen == IF mutex = Nobody THEN active
             ELSE IF pc[mutex] = "constructing" THEN active - 1 ELSE active + 1

LockInv == symLock <=> CountSeen >= 2

IInv == TypeOK /\ MutexInv /\ CountInv /\ LockInv

-----------------------------------------------------------------------------
\* The registered threads can be counted.
LEMMA RegisteredFinite == IsFiniteSet(Registered) /\ Cardinality(Registered) \in Nat
<1>1. Registered \in SUBSET Thread
  BY DEF Registered
<1> QED
  BY <1>1, ThreadAssumption, FS_Subset, FS_CardinalityType

\* Sets with two and with three different members.
LEMMA AtLeastTwo ==
  ASSUME NEW S, IsFiniteSet(S), NEW a \in S, NEW b \in S, a # b
  PROVE  Cardinality(S) \in Nat /\ Cardinality(S) >= 2
<1>1. IsFiniteSet({a}) /\ Cardinality({a}) = 1
  BY FS_Singleton
<1>2. b \notin {a}
  OBVIOUS
<1>3. Cardinality({a} \cup {b}) = 2
  <2>1. Cardinality({a} \cup {b}) = Cardinality({a}) + 1
    BY <1>1, <1>2, FS_AddElement
  <2> QED
    BY <1>1, <2>1
<1>4. {a} \cup {b} \in SUBSET S
  OBVIOUS
<1>5. Cardinality({a} \cup {b}) <= Cardinality(S)
  BY <1>4, FS_Subset
<1>6. Cardinality(S) \in Nat
  BY FS_CardinalityType
<1> QED
  BY <1>3, <1>5, <1>6

LEMMA AtLeastThree ==
  ASSUME NEW S, IsFiniteSet(S), NEW a \in S, NEW b \in S, NEW c \in S,
         a # b, c \notin {a, b}
  PROVE  Cardinality(S) \in Nat /\ Cardinality(S) >= 3
<1>1. IsFiniteSet(S \ {c}) /\ Cardinality(S \ {c}) = Cardinality(S) - 1
  BY FS_RemoveElement
<1>2. Cardinality(S \ {c}) >= 2
  BY <1>1, AtLeastTwo
<1>3. Cardinality(S) \in Nat
  BY FS_CardinalityType
<1> QED
  BY <1>1, <1>2, <1>3

LEMMA InitInv == Init => IInv
<1> SUFFICES ASSUME Init PROVE IInv
  OBVIOUS
<1>1. Registered = {}
  BY DEF Init, Registered
<1>2. active = Cardinality(Registered)
  BY <1>1, FS_EmptySet DEF Init
<1>3. TypeOK
  BY ThreadAssumption DEF Init, TypeOK, PC
<1>4. MutexInv
  BY ThreadAssumption DEF Init, MutexInv
<1>5. LockInv
  BY DEF Init, LockInv, CountSeen
<1> QED
  BY <1>2, <1>3, <1>4, <1>5 DEF IInv, CountInv

\* Steps that leave the manager's variables and who is registered alone.
LEMMA OutsideInv ==
  ASSUME IInv, TypeOK', UNCHANGED <<mutex, active, symLock>>, Registered' = Registered,
         \A t \in Thread : \A p \in {"constructing", "destroying"} :
            pc'[t] = p <=> pc[t] = p
  PROVE  IInv'
BY ThreadAssumption DEF IInv, TypeOK, MutexInv, CountInv, LockInv, CountSeen

LEMMA StepInv == IInv /\ [Next]_vars => IInv'
<1> SUFFICES ASSUME IInv, [Next]_vars PROVE IInv'
  OBVIOUS
<1> USE ThreadAssumption DEF IInv, TypeOK, PC
<1>1. CASE UNCHANGED vars
  BY <1>1, OutsideInv DEF vars, Registered
<1>2. ASSUME NEW t \in Thread, CallInitialise(t) PROVE IInv'
  <2>1. TypeOK' /\ UNCHANGED <<mutex, active, symLock>> /\ Registered' = Registered
    BY <1>2 DEF CallInitialise, Step, kx, Registered
  <2> QED
    BY <1>2, <2>1, OutsideInv DEF CallInitialise, Step
<1>3. ASSUME NEW t \in Thread, ThreadExit(t) PROVE IInv'
  <2>1. TypeOK' /\ UNCHANGED <<mutex, active, symLock>> /\ Registered' = Registered
    BY <1>3 DEF ThreadExit, Step, kx, Registered
  <2> QED
    BY <1>3, <2>1, OutsideInv DEF ThreadExit, Step
<1>4. ASSUME NEW t \in Thread, BeginIntern(t) \/ EndIntern(t) PROVE IInv'
  <2>1. TypeOK' /\ UNCHANGED <<mutex, active, symLock, pc>>
    BY <1>4 DEF BeginIntern, EndIntern
  <2> QED
    BY <2>1, OutsideInv DEF Registered
<1>5. ASSUME NEW t \in Thread, Construct(t) PROVE IInv'
  <2>1. /\ pc[t] = "initialise" /\ pc' = [pc EXCEPT ![t] = "constructing"]
        /\ mutex = Nobody /\ mutex' = t /\ active' = active + 1 /\ symLock' = symLock
    BY <1>5 DEF Construct, Step, kx
  <2>2. Registered' = Registered \cup {t} /\ t \notin Registered
    BY <2>1 DEF Registered
  <2>3. Cardinality(Registered \cup {t}) = Cardinality(Registered) + 1
    BY <2>2, RegisteredFinite, FS_AddElement
  <2>4. CountInv'
    BY <2>1, <2>2, <2>3 DEF CountInv
  <2>5. TypeOK' /\ MutexInv'
    BY <1>5, <2>1 DEF Construct, kx, MutexInv
  <2>6. CountSeen' = CountSeen
    <3>1. mutex' # Nobody /\ pc'[mutex'] = "constructing" /\ active \in Nat
      BY <2>1
    <3> QED
      BY <2>1, <3>1 DEF CountSeen
  <2>7. LockInv'
    BY <2>1, <2>6 DEF LockInv
  <2> QED
    BY <2>4, <2>5, <2>7
<1>6. ASSUME NEW t \in Thread, Constructed(t) PROVE IInv'
  <2>1. /\ pc[t] = "constructing" /\ pc' = [pc EXCEPT ![t] = "running"]
        /\ mutex' = Nobody /\ active' = active
        /\ symLock' = (active = 2 \/ symLock)
    BY <1>6 DEF Constructed, Step
  <2>2. mutex = t
    BY <2>1 DEF MutexInv
  <2>3. Registered' = Registered
    BY <2>1 DEF Registered
  <2>4. TypeOK' /\ MutexInv' /\ CountInv'
    BY <1>6, <2>1, <2>2, <2>3 DEF Constructed, MutexInv, CountInv
  <2>5. CountSeen = active - 1 /\ CountSeen' = active
    BY <2>1, <2>2 DEF CountSeen
  <2>6. active >= 2 <=> active = 2 \/ active - 1 >= 2
    OBVIOUS
  <2>7. LockInv'
    <3>1. symLock <=> active - 1 >= 2
      BY <2>5 DEF LockInv
    <3>2. symLock' <=> active >= 2
      BY <2>1, <2>6, <3>1
    <3> QED
      BY <2>5, <3>2 DEF LockInv
  <2> QED
    BY <2>4, <2>7
<1>7. ASSUME NEW t \in Thread, Destroy(t) PROVE IInv'
  <2>1. /\ pc[t] = "exit" /\ pc' = [pc EXCEPT ![t] = "destroying"]
        /\ mutex = Nobody /\ mutex' = t /\ active' = active - 1 /\ symLock' = symLock
    BY <1>7 DEF Destroy, Step, kx
  <2>2. Registered' = Registered \ {t} /\ t \in Registered
    BY <2>1 DEF Registered
  <2>3. /\ Cardinality(Registered \ {t}) = Cardinality(Registered) - 1
        /\ Cardinality(Registered \ {t}) \in Nat
    BY <2>2, RegisteredFinite, FS_RemoveElement, FS_CardinalityType
  <2>4. CountInv' /\ active' \in Nat
    BY <2>1, <2>2, <2>3 DEF CountInv
  <2>5. TypeOK' /\ MutexInv'
    BY <1>7, <2>1, <2>4 DEF Destroy, kx, MutexInv
  <2>6. CountSeen' = CountSeen
    <3>1. mutex' # Nobody /\ pc'[mutex'] = "destroying" /\ active \in Nat
      BY <2>1
    <3> QED
      BY <2>1, <3>1 DEF CountSeen
  <2>7. LockInv'
    BY <2>1, <2>6 DEF LockInv
  <2> QED
    BY <2>4, <2>5, <2>7
<1>8. ASSUME NEW t \in Thread, Destroyed(t) PROVE IInv'
  <2>1. /\ pc[t] = "destroying" /\ pc' = [pc EXCEPT ![t] = "gone"]
        /\ mutex' = Nobody /\ active' = active
        /\ symLock' = (active # 1 /\ symLock)
    BY <1>8 DEF Destroyed, Step
  <2>2. mutex = t
    BY <2>1 DEF MutexInv
  <2>3. Registered' = Registered
    BY <2>1 DEF Registered
  <2>4. TypeOK' /\ MutexInv' /\ CountInv'
    BY <1>8, <2>1, <2>2, <2>3 DEF Destroyed, MutexInv, CountInv
  <2>5. CountSeen = active + 1 /\ CountSeen' = active
    BY <2>1, <2>2 DEF CountSeen
  <2>6. active >= 2 <=> active # 1 /\ active + 1 >= 2
    OBVIOUS
  <2>7. LockInv'
    <3>1. symLock <=> active + 1 >= 2
      BY <2>5 DEF LockInv
    <3>2. symLock' <=> active >= 2
      BY <2>1, <2>6, <3>1
    <3> QED
      BY <2>5, <3>2 DEF LockInv
  <2> QED
    BY <2>4, <2>7
<1> QED
  BY <1>1, <1>2, <1>3, <1>4, <1>5, <1>6, <1>7, <1>8 DEF Next, Manage

THEOREM Inductive == Spec => []IInv
BY InitInv, StepInv, PTL DEF Spec

\* Every variable keeps its type; the count of managers never goes below
\* zero (m_active_managers is a size_t).
THEOREM TypeCorrect == Spec => []TypeOK
<1>1. IInv => TypeOK
  BY DEF IInv
<1> QED
  BY <1>1, Inductive, PTL

\* Two threads that can both intern do so under the symbol lock.
THEOREM LockedWhenShared == Spec => []SharedMeansLocked
<1>1. IInv => SharedMeansLocked
  <2> SUFFICES ASSUME IInv, NEW t \in Thread, NEW u \in Thread, t # u,
                      pc[t] = "running", pc[u] = "running"
               PROVE  symLock
    BY DEF SharedMeansLocked
  <2>1. t \in Registered /\ u \in Registered
    BY DEF Registered
  <2>2. active \in Nat /\ active >= 2
    BY <2>1, RegisteredFinite, AtLeastTwo DEF IInv, CountInv
  <2>3. CASE mutex = Nobody
    BY <2>2, <2>3 DEF IInv, LockInv, CountSeen
  <2>4. CASE mutex # Nobody
    <3>1. mutex \in Thread /\ pc[mutex] \in {"constructing", "destroying"}
      BY <2>4 DEF IInv, TypeOK, MutexInv
    <3>2. CASE pc[mutex] = "constructing"
      <4>1. mutex \in Registered /\ mutex \notin {t, u}
        BY <3>1, <3>2 DEF Registered
      <4>2. active >= 3
        BY <2>1, <4>1, RegisteredFinite, AtLeastThree DEF IInv, CountInv
      <4> QED
        BY <2>2, <2>4, <3>2, <4>2 DEF IInv, LockInv, CountSeen
    <3>3. CASE pc[mutex] = "destroying"
      BY <2>2, <2>4, <3>3 DEF IInv, LockInv, CountSeen
    <3> QED
      BY <3>1, <3>2, <3>3
  <2> QED
    BY <2>3, <2>4
<1> QED
  BY <1>1, Inductive, PTL

\* With nobody in a critical section the lock is on exactly for two or more.
THEOREM LockIsExact == Spec => []LockExact
<1>1. IInv => LockExact
  BY DEF IInv, CountInv, LockInv, CountSeen, LockExact
<1> QED
  BY <1>1, Inductive, PTL
=============================================================================
