--------------------------- MODULE MemoryManager ---------------------------
(***************************************************************************)
(* qbind::MemoryManager: one instance per thread, made by the thread's     *)
(* first call of initialise() and destroyed when the thread ends.  A mutex *)
(* guards the count of instances; the second instance turns kx's symbol    *)
(* lock on and the last but one turns it off.                              *)
(*                                                                         *)
(* Interning a symbol (kx's sn, external) does not take that mutex: it     *)
(* looks at the symbol lock once, when it starts, and then runs.           *)
(***************************************************************************)
EXTENDS Naturals, FiniteSets

CONSTANTS Thread, Nobody

ASSUME ThreadAssumption == IsFiniteSet(Thread) /\ Nobody \notin Thread

VARIABLES pc,         \* where each thread is
          mutex,      \* m_mutex: its holder or Nobody
          active,     \* m_active_managers
          mainThread, \* m_main_thread, or Nobody before it is set
          symLock,    \* kx: setm's flag
          intern,     \* kx: "no", or how the thread's running sn call started
          symMutex    \* kx: holder of the lock that sn takes when told to

vars == <<pc, mutex, active, mainThread, symLock, intern, symMutex>>
kx   == <<symLock, intern, symMutex>>

PC == {"new", "initialise", "constructing", "running", "exit", "destroying", "gone"}

\* Threads whose manager is counted.
Registered == {t \in Thread : pc[t] \in {"constructing", "running", "exit"}}

Init == /\ pc = [t \in Thread |-> "new"]
        /\ mutex = Nobody
        /\ active = 0
        /\ mainThread = Nobody
        /\ symLock = FALSE
        /\ intern = [t \in Thread |-> "no"]
        /\ symMutex = Nobody

Step(t, from, to) == pc[t] = from /\ pc' = [pc EXCEPT ![t] = to]

\* The first initialise() of a thread.
CallInitialise(t) == /\ Step(t, "new", "initialise")
                     /\ UNCHANGED <<mutex, active, mainThread, kx>>

\* A plausible bug: only the main thread's manager is counted.
Construct_MainOnly(t) == /\ Step(t, "initialise", "constructing")
                         /\ mutex = Nobody /\ mutex' = t
                         /\ mainThread' = IF mainThread = Nobody THEN t ELSE mainThread
                         /\ active' = IF mainThread = Nobody THEN active + 1 ELSE active
                         /\ UNCHANGED kx

\* MemoryManager(): take the mutex, count the manager ...
Construct(t) == /\ Step(t, "initialise", "constructing")
                /\ mutex = Nobody /\ mutex' = t
                /\ mainThread' = IF mainThread = Nobody THEN t ELSE mainThread
                /\ active' = active + 1
                /\ UNCHANGED kx

\* A plausible bug: a return without the unlock.
Constructed_KeepsMutex(t) == /\ Step(t, "constructing", "running")
                             /\ symLock' = (active = 2 \/ symLock)
                             /\ UNCHANGED <<mutex, active, mainThread, intern, symMutex>>

\* ... khp("", -1), the symbol lock, and the mutex is released.
Constructed(t) == /\ Step(t, "constructing", "running")
                  /\ symLock' = (active = 2 \/ symLock)
                  /\ mutex' = Nobody
                  /\ UNCHANGED <<active, mainThread, intern, symMutex>>

\* The thread ends and its thread_local manager is to be destroyed.
ThreadExit(t) == /\ Step(t, "running", "exit")
                 /\ intern[t] = "no"
                 /\ UNCHANGED <<mutex, active, mainThread, kx>>

\* ~MemoryManager(): take the mutex, count down ...
Destroy(t) == /\ Step(t, "exit", "destroying")
              /\ mutex = Nobody /\ mutex' = t
              /\ active' = active - 1
              /\ UNCHANGED <<mainThread, kx>>

\* A plausible bug: the count is tested as if it were not yet counted down.
Destroyed_CountBefore(t) == /\ Step(t, "destroying", "gone")
                            /\ symLock' = (active # 2 /\ symLock)
                            /\ mutex' = Nobody
                            /\ UNCHANGED <<active, mainThread, intern, symMutex>>

\* A plausible bug: the lock is turned off only when nobody is left.
Destroyed_AtZero(t) == /\ Step(t, "destroying", "gone")
                       /\ symLock' = (active # 0 /\ symLock)
                       /\ mutex' = Nobody
                       /\ UNCHANGED <<active, mainThread, intern, symMutex>>

\* ... the symbol lock, m9(), and the mutex is released.
Destroyed(t) == /\ Step(t, "destroying", "gone")
                /\ symLock' = (active # 1 /\ symLock)
                /\ mutex' = Nobody
                /\ UNCHANGED <<active, mainThread, intern, symMutex>>

\* sn, ss, js: with the lock off nothing is waited for.
BeginIntern(t) == /\ pc[t] = "running" /\ intern[t] = "no"
                  /\ \/ /\ ~symLock
                        /\ intern' = [intern EXCEPT ![t] = "unlocked"]
                        /\ UNCHANGED symMutex
                     \/ /\ symLock /\ symMutex = Nobody
                        /\ intern' = [intern EXCEPT ![t] = "locked"]
                        /\ symMutex' = t
                  /\ UNCHANGED <<pc, mutex, active, mainThread, symLock>>

EndIntern(t) == /\ intern[t] # "no"
                /\ intern' = [intern EXCEPT ![t] = "no"]
                /\ symMutex' = IF intern[t] = "locked" THEN Nobody ELSE symMutex
                /\ UNCHANGED <<pc, mutex, active, mainThread, symLock>>

Manage(t) == Construct(t) \/ Constructed(t) \/ Destroy(t) \/ Destroyed(t)

Next == \E t \in Thread : \/ Manage(t) \/ CallInitialise(t) \/ ThreadExit(t)
                          \/ BeginIntern(t) \/ EndIntern(t)

\* Constructors and destructors run on, and so does an intern.  A thread
\* asks for the mutex twice in its life: no one can take it for ever, and
\* weak fairness is enough.
Fairness == \A t \in Thread : WF_vars(Manage(t)) /\ WF_vars(EndIntern(t))

Spec == Init /\ [][Next]_vars /\ Fairness

-----------------------------------------------------------------------------
TypeOK == /\ pc \in [Thread -> PC]
          /\ mutex \in Thread \cup {Nobody}
          /\ active \in Nat
          /\ mainThread \in Thread \cup {Nobody}
          /\ symLock \in BOOLEAN
          /\ intern \in [Thread -> {"no", "locked", "unlocked"}]
          /\ symMutex \in Thread \cup {Nobody}

\* While two threads can both intern, the symbol lock is on: whichever
\* order threads come and go in, whoever is inside a constructor or a
\* destructor meanwhile (memory_manager.h:36-38 and 60-62).
SharedMeansLocked ==
  \A t, u \in Thread :
    t # u /\ pc[t] = "running" /\ pc[u] = "running" => symLock

\* A thread that is alone does not pay for the lock: with nobody inside a
\* constructor or destructor the lock is on exactly when two are counted.
LockExact == mutex = Nobody => (symLock <=> Cardinality(Registered) >= 2)

\* Every constructor and destructor that starts gets the mutex and ends.
ManagersProgress ==
  \A t \in Thread : /\ pc[t] = "initialise" ~> pc[t] = "running"
                    /\ pc[t] = "exit" ~> pc[t] = "gone"

\* Two threads intern at the same time only if both hold to the lock.  The
\* code does not ensure this: see the README.
InternExclusion ==
  \A t, u \in Thread : t # u => intern[t] = "no" \/ intern[u] = "no"
=============================================================================
