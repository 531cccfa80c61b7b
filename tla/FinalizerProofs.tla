-------------------------- MODULE FinalizerProofs --------------------------
(***************************************************************************)
(* Proofs about the finalizer thread and finalization.  First              *)
(* FinalizerCoordinator: CoordInv is inductive, for any set of threads and *)
(* of threads that exit, the finalizer thread included.  Then Finalizer:   *)
(* custom finalizers have work, run only for objects no Java code can get  *)
(* at, and run before the object is freed, for any objects, references,    *)
(* finalizers and threads.                                                 *)
(***************************************************************************)
EXTENDS Finalizer, TLAPS

-----------------------------------------------------------------------------
(* The coordinator *)

\* Every step of the finalizer thread (accept, done and shutdown_ack,
\* finalizer.cpp:91-111) keeps the invariant.
LEMMA FinalizerStep ==
  ASSUME CoordInv, finalizer_thread \/ accept_spurious
  PROVE  CoordInv'
<1> USE CoordinatorAssumption
    DEF CoordInv, CoordTypeOK, RequestRecorded, ShutdownAlive,
        JoinedAfterFinalizers, JoinState
<1>1. CASE accept
  BY <1>1 DEF accept
<1>2. CASE invoked
  BY <1>2 DEF invoked
<1>3. CASE done
  BY Zenon, <1>3 DEF done
<1>4. CASE shutdown_ack
  BY <1>4 DEF shutdown_ack
<1>5. CASE accept_spurious
  BY <1>5 DEF accept_spurious
<1> QED
  BY <1>1, <1>2, <1>3, <1>4, <1>5 DEF finalizer_thread

\* Requests and joins (finalizer.cpp:80-89 and 113-128) keep the invariant.
LEMMA RequestorStep ==
  ASSUME CoordInv, NEW t \in Thread \cup {FinalizerThread},
         finalizer_notify(t) \/ join(t) \/ join_woken(t) \/ join_spurious(t)
  PROVE  CoordInv'
<1> USE CoordinatorAssumption
    DEF CoordInv, CoordTypeOK, RequestRecorded, ShutdownAlive,
        JoinedAfterFinalizers, JoinState
<1>1. CASE finalizer_notify(t)
  BY Zenon, <1>1 DEF finalizer_notify, request, SignalFinalizer
<1>2. CASE join(t)
  <2>1. joining[t] = "run" /\ t \in Exiter /\ t # NoThread
    BY <1>2 DEF join, InJava
  <2>2. CASE disabled
    BY <1>2, <2>1, <2>2 DEF join
  <2>3. CASE ~disabled
    <3>1. /\ shutdown = NoThread /\ fin # "ended" /\ fin # "ack"
          /\ running' = TRUE /\ pending' = TRUE /\ disabled' = TRUE /\ shutdown' = t
          /\ joining' = [joining EXCEPT ![t] = "blocked"]
          /\ UNCHANGED unserved
      BY <1>2, <2>3 DEF join
    <3>2. fin' \in {"accept", "invoke", "done"}
      BY <1>2, <2>3, <3>1 DEF join, SignalFinalizer
    <3> QED BY <2>1, <3>1, <3>2
  <2> QED BY <2>2, <2>3
<1>3. CASE join_woken(t)
  BY <1>3 DEF join_woken
<1>4. CASE join_spurious(t)
  BY <1>4 DEF join_spurious
<1> QED
  BY <1>1, <1>2, <1>3, <1>4

\* The coordinator's invariant holds in every reachable state.
THEOREM CoordInvariance == CoordSpec => []CoordInv
<1>1. CoordInit => CoordInv
  BY Zenon, CoordinatorAssumption
     DEF CoordInit, CoordInv, CoordTypeOK, RequestRecorded, ShutdownAlive,
         JoinedAfterFinalizers, JoinState
<1>2. CoordInv /\ [CoordNext]_coordvars => CoordInv'
  <2> SUFFICES ASSUME CoordInv, [CoordNext]_coordvars
               PROVE  CoordInv'
    OBVIOUS
  <2>1. CASE UNCHANGED coordvars
    BY <2>1 DEF coordvars, CoordInv, CoordTypeOK, RequestRecorded,
                ShutdownAlive, JoinedAfterFinalizers
  <2> QED BY <2>1, FinalizerStep, RequestorStep DEF CoordNext, exit
<1> QED
  BY <1>1, <1>2, PTL DEF CoordSpec

\* No request for a finalizer run is ever forgotten: request, done and accept
\* keep the finalizer thread from sleeping on one (finalizer.cpp:80-104).
THEOREM RequestsRecorded == CoordSpec => []RequestRecorded
<1>1. CoordInv => RequestRecorded
  BY DEF CoordInv
<1> QED
  BY <1>1, CoordInvariance, PTL

\* shutdown_ack (finalizer.cpp:106) only ever signals the condition variable
\* of a thread that is still in join.
THEOREM ShutdownTargetAlive == CoordSpec => []ShutdownAlive
<1>1. CoordInv => ShutdownAlive
  BY DEF CoordInv
<1> QED
  BY <1>1, CoordInvariance, PTL

\* When join returns, the finalizer thread has ended (finalizer.cpp:113-128).
THEOREM JoinIsLast == CoordSpec => []JoinedAfterFinalizers
<1>1. CoordInv => JoinedAfterFinalizers
  BY DEF CoordInv
<1> QED
  BY <1>1, CoordInvariance, PTL

-----------------------------------------------------------------------------
(* Reachability *)

\* The references of a chain of references form a chain.
LEMMA BelowTrans ==
  ASSUME NEW o \in Object, NEW p \in Below[o], NEW q \in Below[p]
  PROVE  p \in Object /\ q \in Below[o]
<1>1. p \in Object
  BY Zenon DEF Below
<1>2. q \in Object
  BY Zenon, <1>1 DEF Below
<1>3. SUFFICES ASSUME NEW S \in SUBSET Object, Holds(S, o), \A r \in S : Holds(S, r)
               PROVE  q \in S
  BY Zenon, <1>1, <1>2 DEF Below
<1>4. p \in S
  BY Zenon, <1>3 DEF Below
<1> QED BY Zenon, <1>1, <1>3, <1>4 DEF Below

LEMMA ReachType ==
  ASSUME NEW S \in SUBSET Object
  PROVE  Reach(S) \subseteq Object /\ ReachBeyond(S) \subseteq Object /\ S \subseteq Reach(S)
BY Zenon DEF Reach, ReachBeyond, Below

\* What can be reached from what can be reached can be reached.
LEMMA ReachReach ==
  ASSUME NEW S \in SUBSET Object, NEW T \in SUBSET Object, T \subseteq Reach(S)
  PROVE  Reach(T) \subseteq Reach(S)
<1> SUFFICES ASSUME NEW q \in Reach(T) PROVE q \in Reach(S)
  BY Zenon
<1>1. CASE q \in T
  BY Zenon, <1>1
<1>2. CASE q \notin T
  <2>1. PICK p \in T : q \in Below[p]
    BY Zenon, <1>2 DEF Reach, ReachBeyond
  <2>2. CASE p \in S
    BY Zenon, <2>1, <2>2 DEF Reach, ReachBeyond
  <2>3. CASE p \notin S
    <3>1. PICK o \in S : p \in Below[o]
      BY Zenon, <2>1, <2>3 DEF Reach, ReachBeyond
    <3>2. q \in Below[o]
      BY Zenon, <2>1, <3>1, BelowTrans
    <3> QED BY Zenon, <3>1, <3>2 DEF Reach, ReachBeyond
  <2> QED BY Zenon, <2>2, <2>3
<1> QED BY Zenon, <1>1, <1>2

LEMMA ReachUnion ==
  ASSUME NEW S, NEW T, NEW V
  PROVE  Reach(S \cup T \cup V) = Reach(S) \cup Reach(T) \cup Reach(V)
BY Zenon DEF Reach, ReachBeyond

LEMMA BeyondReach ==
  ASSUME NEW S \in SUBSET Object, NEW T \in SUBSET Object, T \subseteq ReachBeyond(S)
  PROVE  Reach(T) \subseteq ReachBeyond(S)
<1> SUFFICES ASSUME NEW q \in Reach(T) PROVE q \in ReachBeyond(S)
  BY Zenon
<1>1. CASE q \in T
  BY Zenon, <1>1
<1>2. CASE q \notin T
  <2>1. PICK p \in T : q \in Below[p]
    BY Zenon, <1>2 DEF Reach, ReachBeyond
  <2>2. PICK o \in S : p \in Below[o]
    BY Zenon, <2>1 DEF ReachBeyond
  <2>3. q \in Below[o]
    BY Zenon, <2>1, <2>2, BelowTrans
  <2> QED BY Zenon, <2>2, <2>3 DEF ReachBeyond
<1> QED BY Zenon, <1>1, <1>2

-----------------------------------------------------------------------------
(* The inductive invariant *)

HeapTypeOK ==
  /\ root \subseteq Object
  /\ reg \in [Object -> Proc]
  /\ queued \in [Object -> Proc]
  /\ final_map \in [Object -> SUBSET Func]
  /\ work \in [Executor -> [obj : Object \cup {NoObject}, proc : Proc, todo : SUBSET Func]]
  /\ freed \subseteq Object
  /\ \A t \in Executor : work[t].proc = "none" <=> work[t].obj = NoObject

Does(t, o, p) == work[t].obj = o /\ work[t].proc = p

\* Java code can get at o, or can once a Java finalizer was called.
LiveAt(o) ==
  \/ o \in root \/ reg[o] = "finalizer_run" \/ queued[o] = "finalizer_run"
  \/ \E t \in Executor : Does(t, o, "finalizer_run")
Live == {o \in Object : LiveAt(o)}

\* The custom finalizers of o run or are about to.
CustomAt(o) ==
  \/ queued[o] = "custom_finalizer_handler"
  \/ \E t \in Executor : Does(t, o, "custom_finalizer_handler")

\* Not even objects with Java finalizers that are not queued refer to o.
Apart == \A o \in Object : CustomAt(o) => o \notin Reach(Live)

\* The handler of an object is in one place.
OnePlace ==
  /\ \A o \in Object : CustomAt(o) => reg[o] = "none"
  /\ \A o \in Object : \A t \in Executor :
       Does(t, o, "custom_finalizer_handler") =>
         /\ queued[o] # "custom_finalizer_handler"
         /\ \A u \in Executor : Does(u, o, "custom_finalizer_handler") => u = t

\* The handler is registered for objects that have custom finalizers, ...
HasWork ==
  \A o \in Object :
    "custom_finalizer_handler" \in {reg[o], queued[o]} => final_map[o] # {}

\* ... and nothing forgets them.
Owned ==
  \A o \in Object : final_map[o] # {} =>
    \/ reg[o] # "none" \/ queued[o] # "none"
    \/ \E t \in Executor : work[t].obj = o

Clean == \A o \in freed : final_map[o] = {} /\ o \notin Marked

IInv == HeapTypeOK /\ Apart /\ OnePlace /\ HasWork /\ Owned /\ Clean

\* What Java code can use is live, and marked.
LEMMA UsableLive ==
  ASSUME HeapTypeOK
  PROVE  /\ Usable \subseteq Reach(Live) /\ Usable \subseteq Marked
         /\ Reach({o \in Object : queued[o] = "finalizer_run"}) \subseteq Reach(Live)
         /\ Live \subseteq Object /\ Reach(Live) \subseteq Object
         /\ root \cup Queue \cup InWork \subseteq Object /\ Marked \subseteq Object
         /\ Usable \subseteq Object
<1> DEFINE J == {work[t].obj : t \in {u \in Executor : work[u].proc = "finalizer_run"}}
           Q == {o \in Object : queued[o] = "finalizer_run"}
<1>1. J \subseteq InWork /\ InWork \subseteq Object
  BY FinalizerAssumption DEF HeapTypeOK, InWork
<1>2. root \subseteq Object /\ Queue \subseteq Object /\ Live \subseteq Object /\ Q \subseteq Object
  BY Zenon DEF HeapTypeOK, Queue, Live
<1>3. J \cup root \subseteq Live /\ Q \subseteq Live
  BY Zenon, <1>1, <1>2 DEF Live, LiveAt, Does
<1>4. Reach(root \cup J) \subseteq Reach(Live) /\ Reach(Q) \subseteq Reach(Live)
  BY Zenon, <1>1, <1>2, <1>3, ReachType, ReachReach
<1>5. Reach(root \cup J) \subseteq Reach(root \cup Queue \cup InWork)
  BY Zenon, <1>1, <1>2, ReachType, ReachReach
<1>6. Reach(Live) \subseteq Object /\ Reach(root \cup Queue \cup InWork) \subseteq Object
  BY Zenon, <1>1, <1>2, ReachType
<1>7. Usable = Reach(root \cup J)
  BY Zenon DEF Usable
<1> HIDE DEF J, Q
<1> QED BY SMTT(30), <1>1, <1>2, <1>4, <1>5, <1>6, <1>7 DEF Marked, Q

\* The invariant implies the properties of the module.
LEMMA InvImplies == IInv => HandlerHasWork /\ CustomUnreachable /\ CleanBeforeFree
<1> SUFFICES ASSUME IInv PROVE HandlerHasWork /\ CustomUnreachable /\ CleanBeforeFree
  BY Zenon
<1>1. HandlerHasWork
  BY Zenon DEF IInv, HasWork, HandlerHasWork
<1>2. CleanBeforeFree
  BY Zenon DEF IInv, Clean, CleanBeforeFree
<1>3. CustomUnreachable
  <2>1. /\ Usable \subseteq Reach(Live)
        /\ Reach({o \in Object : queued[o] = "finalizer_run"}) \subseteq Reach(Live)
    BY Zenon, UsableLive DEF IInv
  <2>2. \A o \in Object : CustomAt(o) => o \notin Reach(Live)
    BY Zenon DEF IInv, Apart
  <2> QED BY Zenon, <2>1, <2>2 DEF CustomUnreachable, CustomAt, Does
<1> QED BY Zenon, <1>1, <1>2, <1>3

LEMMA InitInv == Init => IInv
<1> SUFFICES ASSUME Init PROVE IInv
  BY Zenon
<1>1. HeapTypeOK
  BY Zenon, FinalizerAssumption DEF Init, HeapTypeOK, Idle, Proc
<1>2. \A o \in Object : ~CustomAt(o)
  BY Zenon DEF Init, CustomAt, Does, Idle
<1>3. HasWork /\ Owned /\ Clean
  BY Zenon DEF Init, HasWork, Owned, Clean
<1> QED BY Zenon, <1>1, <1>2, <1>3 DEF IInv, Apart, OnePlace, Does, CustomAt

-----------------------------------------------------------------------------
(* The steps *)

\* Custom finalizers stay apart when nothing becomes live or a custom finalizer.
LEMMA StayApart ==
  ASSUME IInv, HeapTypeOK', Live' \subseteq Reach(Live),
         \A o \in Object : CustomAt(o)' => CustomAt(o)
  PROVE  Apart'
<1>1. Reach(Live') \subseteq Reach(Live)
  <2>1. Live' \in SUBSET Object /\ Live \in SUBSET Object
    BY Zenon DEF Live
  <2> QED BY Zenon, <2>1, ReachReach
<1>2. Reach(Live)' = Reach(Live')
  BY Zenon DEF Reach, ReachBeyond
<1> QED BY Zenon, <1>1, <1>2 DEF IInv, Apart

\* Freed objects stay out of reach when nothing is marked anew.
LEMMA StayClean ==
  ASSUME IInv, HeapTypeOK', (root \cup Queue \cup InWork)' \subseteq Marked,
         freed' = freed, \A o \in freed : final_map'[o] = final_map[o]
  PROVE  Clean'
<1>1. root \cup Queue \cup InWork \in SUBSET Object
  BY Zenon, UsableLive DEF IInv
<1>2. (root \cup Queue \cup InWork)' \in SUBSET Object
  BY FinalizerAssumption DEF HeapTypeOK, Queue, InWork
<1>3. Reach((root \cup Queue \cup InWork)') \subseteq Marked
  BY Zenon, <1>1, <1>2, ReachReach DEF Marked
<1>4. Marked' = Reach((root \cup Queue \cup InWork)')
  BY Zenon DEF Marked, Reach, ReachBeyond
<1> QED BY Zenon, <1>3, <1>4 DEF IInv, Clean

\* Nothing the invariant is about changes.
LEMMA SameInv ==
  ASSUME IInv, UNCHANGED <<root, reg, queued, final_map, work, freed>>
  PROVE  IInv'
<1>1. HeapTypeOK' /\ OnePlace' /\ HasWork' /\ Owned'
  BY DEF IInv, HeapTypeOK, OnePlace, CustomAt, Does, HasWork, Owned
<1>2. Apart'
  BY Zenon DEF IInv, Apart, CustomAt, Does, Reach, ReachBeyond, Live, LiveAt
<1>3. Clean'
  BY DEF IInv, Clean, Marked, Queue, InWork, Reach, ReachBeyond
<1> QED BY Zenon, <1>1, <1>2, <1>3 DEF IInv

\* Java code drops or stores a reference.
LEMMA RootInv ==
  ASSUME IInv, NEW o \in Object, drop(o) \/ resurrect(o)
  PROVE  IInv'
<1>1. /\ UNCHANGED <<reg, queued, final_map, work, freed>>
      /\ root' \subseteq root \cup Usable
  BY Zenon DEF drop, resurrect
<1>2. /\ Usable \subseteq Reach(Live) /\ Usable \subseteq Marked
      /\ Usable \subseteq Object /\ Live \subseteq Object
      /\ root \cup Queue \cup InWork \in SUBSET Object
  BY Zenon, UsableLive DEF IInv
<1>3. Live \subseteq Reach(Live) /\ root \cup Queue \cup InWork \subseteq Marked
  BY Zenon, <1>2, ReachType DEF Marked
<1>4. HeapTypeOK' /\ OnePlace' /\ HasWork' /\ Owned'
  BY <1>1, <1>2 DEF IInv, HeapTypeOK, OnePlace, CustomAt, Does, HasWork, Owned
<1>5. Apart'
  <2>1. Live' \subseteq Live \cup Usable
    BY Zenon, <1>1 DEF Live, LiveAt, Does
  <2>2. \A p \in Object : CustomAt(p)' => CustomAt(p)
    BY Zenon, <1>1 DEF CustomAt, Does
  <2> QED BY Zenon, <1>2, <1>3, <1>4, <2>1, <2>2, StayApart
<1>6. Clean'
  <2>1. Queue' = Queue /\ InWork' = InWork
    BY Zenon, <1>1 DEF Queue, InWork
  <2> QED BY Zenon, <1>1, <1>2, <1>3, <1>4, <2>1, StayClean
<1> QED BY Zenon, <1>4, <1>5, <1>6 DEF IInv

\* attach_custom_finalizer (finalizer.cpp:315-338): the object is in use.
LEMMA AttachInv ==
  ASSUME IInv, NEW o \in Object, NEW f \in Func, attach_custom_finalizer(o, f)
  PROVE  IInv'
<1>1. /\ o \in Usable /\ UNCHANGED <<root, queued, work, freed>>
      /\ \A p \in Object : p # o => reg'[p] = reg[p] /\ final_map'[p] = final_map[p]
      /\ reg'[o] = IF reg[o] = "finalizer_run" THEN reg[o] ELSE "custom_finalizer_handler"
      /\ final_map'[o] = final_map[o] \cup {f}
  BY Zenon DEF attach_custom_finalizer, IInv, HeapTypeOK
<1>2. HeapTypeOK'
  BY Zenon DEF attach_custom_finalizer, IInv, HeapTypeOK, Proc
<1>3. /\ o \in Reach(Live) /\ o \in Marked /\ Live \subseteq Object
      /\ root \cup Queue \cup InWork \in SUBSET Object
  BY Zenon, <1>1, UsableLive DEF IInv
<1>4. Live \subseteq Reach(Live) /\ root \cup Queue \cup InWork \subseteq Marked
  BY Zenon, <1>3, ReachType DEF Marked
<1>5. ~CustomAt(o) /\ o \notin freed
  BY Zenon, <1>3 DEF IInv, Apart, Clean
<1>6. \A p \in Object : CustomAt(p)' <=> CustomAt(p)
  BY Zenon, <1>1 DEF CustomAt, Does
<1>7. Apart'
  <2>1. Live' \subseteq Live
    BY Zenon, <1>1 DEF Live, LiveAt, Does
  <2> QED BY Zenon, <1>2, <1>4, <1>6, <2>1, StayApart
<1>8. OnePlace'
  BY <1>1, <1>5, <1>6 DEF IInv, OnePlace, Does
<1>9. HasWork' /\ Owned'
  BY Zenon, <1>1 DEF IInv, HasWork, Owned
<1>10. Clean'
  <2>1. Queue' = Queue /\ InWork' = InWork
    BY Zenon, <1>1 DEF Queue, InWork
  <2>2. \A p \in freed : p \in Object /\ p # o
    BY Zenon, <1>5 DEF IInv, HeapTypeOK
  <2> QED BY Zenon, <1>1, <1>2, <1>4, <2>1, <2>2, StayClean
<1> QED BY Zenon, <1>2, <1>7, <1>8, <1>9, <1>10 DEF IInv

\* GC_invoke_finalizers takes a finalizer from the queue.
LEMMA InvokeInv ==
  ASSUME IInv, NEW t \in Executor, NEW o \in Object, GC_invoke(t, o)
  PROVE  IInv'
<1>1. /\ UNCHANGED <<root, reg, final_map, freed>>
      /\ queued[o] \in Proc \ {"none"} /\ work[t].obj = NoObject /\ work[t].proc = "none"
      /\ queued'[o] = "none" /\ \A p \in Object : p # o => queued'[p] = queued[p]
      /\ work'[t].obj = o /\ work'[t].proc = queued[o]
      /\ \A u \in Executor : u # t => work'[u] = work[u]
      /\ \A p \in Object : p # NoObject
  BY FinalizerAssumption DEF GC_invoke, MayInvoke, Queue, Idle, IInv, HeapTypeOK
<1>2. HeapTypeOK'
  <2>1. work'[t] \in [obj : Object \cup {NoObject}, proc : Proc, todo : SUBSET Func]
    BY Zenon DEF GC_invoke, IInv, HeapTypeOK
  <2>2. work' \in [Executor -> [obj : Object \cup {NoObject}, proc : Proc, todo : SUBSET Func]]
    BY Zenon, <2>1 DEF GC_invoke, IInv, HeapTypeOK
  <2>3. queued' \in [Object -> Proc]
    BY Zenon DEF GC_invoke, IInv, HeapTypeOK, Proc
  <2> QED BY <1>1, <2>2, <2>3 DEF IInv, HeapTypeOK
<1>3. \A p \in Object : CustomAt(p)' => CustomAt(p)
  BY <1>1 DEF CustomAt, Does
<1>4. Apart'
  <2>1. Live' \subseteq Live /\ Live \in SUBSET Object
    BY <1>1 DEF Live, LiveAt, Does
  <2>2. Live \subseteq Reach(Live)
    BY Zenon, <2>1, ReachType
  <2> QED BY Zenon, <1>2, <1>3, <2>1, <2>2, StayApart
<1>5. OnePlace'
  <2>1. \A p \in Object : CustomAt(p)' => reg'[p] = "none"
    BY Zenon, <1>1, <1>3 DEF IInv, OnePlace
  <2>2. ASSUME NEW p \in Object, NEW u \in Executor, Does(u, p, "custom_finalizer_handler")'
        PROVE  /\ queued'[p] # "custom_finalizer_handler"
               /\ \A v \in Executor : Does(v, p, "custom_finalizer_handler")' => v = u
    BY <1>1, <2>2 DEF IInv, OnePlace, Does
  <2> QED BY Zenon, <2>1, <2>2 DEF OnePlace
<1>6. HasWork' /\ Owned'
  BY <1>1 DEF IInv, HasWork, Owned
<1>7. Clean'
  <2>1. Queue' \cup InWork' \subseteq Queue \cup InWork
    <3>1. Queue' \subseteq Queue /\ o \in Queue
      BY Zenon, <1>1 DEF Queue
    <3>2. InWork' \subseteq InWork \cup {o}
      BY <1>1 DEF InWork
    <3> QED BY Zenon, <3>1, <3>2
  <2>2. root \cup Queue \cup InWork \in SUBSET Object
    BY Zenon, UsableLive DEF IInv
  <2>3. root \cup Queue \cup InWork \subseteq Marked
    BY Zenon, <2>2, ReachType DEF Marked
  <2> QED BY Zenon, <1>1, <1>2, <2>1, <2>3, StayClean
<1> QED BY Zenon, <1>2, <1>4, <1>5, <1>6, <1>7 DEF IInv

\* A finalizer is called, or ends: thread t works for the same object or none.
LEMMA WorkInv ==
  ASSUME IInv, HeapTypeOK', NEW t \in Executor, UNCHANGED <<root, queued, freed>>,
         \A u \in Executor : u # t => work'[u] = work[u],
         \/ work'[t] = Idle
         \/ work'[t].obj = work[t].obj /\ work'[t].proc = work[t].proc,
         \A p \in Object : reg'[p] # reg[p] => ~CustomAt(p) /\ reg'[p] # "finalizer_run",
         \A p \in freed : final_map'[p] = final_map[p]
  PROVE  Apart' /\ OnePlace' /\ Clean'
<1>1. /\ \A p \in Object : p # NoObject
      /\ Idle.obj = NoObject /\ Idle.proc = "none"
  BY Zenon, FinalizerAssumption DEF Idle
<1>2. \A u \in Executor : \A p \in Object : \A k \in Proc : Does(u, p, k)' => Does(u, p, k)
  BY Zenon, <1>1 DEF Does
<1>3. \A p \in Object : CustomAt(p)' => CustomAt(p)
  BY Zenon, <1>2 DEF CustomAt, Proc
<1>4. Apart'
  <2>1. Live' \subseteq Live /\ Live \in SUBSET Object
    BY Zenon, <1>2 DEF Live, LiveAt, Proc
  <2>2. Live \subseteq Reach(Live)
    BY Zenon, <2>1, ReachType
  <2> QED BY Zenon, <1>3, <2>1, <2>2, StayApart
<1>5. OnePlace'
  BY <1>2, <1>3 DEF IInv, OnePlace, Proc
<1>6. Clean'
  <2>1. Queue' = Queue
    BY Zenon DEF Queue
  <2>2. InWork' \subseteq InWork
    BY <1>1 DEF InWork
  <2>3. root \cup Queue \cup InWork \in SUBSET Object
    BY Zenon, UsableLive DEF IInv
  <2>4. root \cup Queue \cup InWork \subseteq Marked
    BY Zenon, <2>3, ReachType DEF Marked
  <2> QED BY Zenon, <2>1, <2>2, <2>4, StayClean
<1> QED BY Zenon, <1>4, <1>5, <1>6

\* A Java finalizer ends (finalizer_run, finalizer.cpp:250-287).
LEMMA RunInv ==
  ASSUME IInv, NEW t \in Executor, finalizer_run(t)
  PROVE  IInv'
<1> DEFINE o == work[t].obj
<1>1. o \in Object /\ work[t].proc = "finalizer_run" /\ final_map[o] \in SUBSET Func
  BY Zenon DEF finalizer_run, IInv, HeapTypeOK
<1>2. /\ UNCHANGED <<root, queued, final_map, freed>>
      /\ work' = [work EXCEPT ![t] = Idle]
      /\ \A p \in Object : p # o => reg'[p] = reg[p]
      /\ reg'[o] = IF final_map[o] = {} THEN reg[o] ELSE "custom_finalizer_handler"
  BY Zenon, <1>1 DEF finalizer_run, IInv, HeapTypeOK
<1>3. HeapTypeOK'
  <2>1. reg' \in [Object -> Proc]
    BY Zenon DEF finalizer_run, IInv, HeapTypeOK, Proc
  <2>2. Idle \in [obj : Object \cup {NoObject}, proc : Proc, todo : SUBSET Func]
    BY Zenon DEF Idle, Proc
  <2> QED BY Zenon, <1>2, <2>1, <2>2 DEF IInv, HeapTypeOK, Idle
<1>4. ~CustomAt(o)
  <2>1. o \in Live /\ Live \in SUBSET Object
    BY Zenon, <1>1 DEF Live, LiveAt, Does
  <2>2. o \in Reach(Live)
    BY Zenon, <2>1, ReachType
  <2> QED BY Zenon, <1>1, <2>2 DEF IInv, Apart
<1>5. work'[t] = Idle /\ \A u \in Executor : u # t => work'[u] = work[u]
  BY Zenon, <1>2 DEF IInv, HeapTypeOK
<1>6. \A p \in Object : reg'[p] # reg[p] => ~CustomAt(p) /\ reg'[p] # "finalizer_run"
  BY Zenon, <1>2, <1>4
<1> HIDE DEF o
<1>7. Apart' /\ OnePlace' /\ Clean'
  BY Zenon, <1>2, <1>3, <1>5, <1>6, WorkInv
<1>8. HasWork'
  BY Zenon, <1>2 DEF IInv, HasWork
<1>9. Owned'
  <2> SUFFICES ASSUME NEW p \in Object, final_map[p] # {}
               PROVE  \/ reg'[p] # "none" \/ queued[p] # "none"
                      \/ \E u \in Executor : work'[u].obj = p
    BY Zenon, <1>2 DEF Owned
  <2>1. CASE p = o
    BY Zenon, <1>2, <2>1
  <2>2. CASE p # o
    BY <1>2, <1>5, <2>2 DEF IInv, Owned, o
  <2> QED BY Zenon, <2>1, <2>2
<1> QED BY Zenon, <1>3, <1>7, <1>8, <1>9 DEF IInv

\* custom_finalizer_handler (finalizer.cpp:291-304) calls a custom finalizer ...
LEMMA CallInv ==
  ASSUME IInv, NEW t \in Executor, NEW f \in Func, custom_finalizer_call(t, f)
  PROVE  IInv'
<1>1. /\ UNCHANGED <<root, reg, queued, final_map, freed>>
      /\ work' = [work EXCEPT ![t].todo = @ \ {f}]
  BY Zenon DEF custom_finalizer_call
<1>2. /\ work' \in [Executor -> [obj : Object \cup {NoObject}, proc : Proc, todo : SUBSET Func]]
      /\ \A u \in Executor : work'[u].obj = work[u].obj /\ work'[u].proc = work[u].proc
      /\ \A u \in Executor : u # t => work'[u] = work[u]
  BY <1>1 DEF IInv, HeapTypeOK
<1>3. HeapTypeOK'
  BY Zenon, <1>1, <1>2 DEF IInv, HeapTypeOK
<1>4. Apart' /\ OnePlace' /\ Clean'
  BY Zenon, <1>1, <1>2, <1>3, WorkInv
<1>5. HasWork' /\ Owned'
  BY <1>1, <1>2 DEF IInv, HasWork, Owned
<1> QED BY Zenon, <1>3, <1>4, <1>5 DEF IInv

\* ... and erases them all.
LEMMA HandlerInv ==
  ASSUME IInv, NEW t \in Executor, custom_finalizer_handler(t)
  PROVE  IInv'
<1> DEFINE o == work[t].obj
<1>1. o \in Object /\ work[t].proc = "custom_finalizer_handler"
  BY Zenon DEF custom_finalizer_handler, IInv, HeapTypeOK
<1>2. /\ UNCHANGED <<root, reg, queued, freed>>
      /\ work' = [work EXCEPT ![t] = Idle]
      /\ \A p \in Object : p # o => final_map'[p] = final_map[p]
      /\ final_map'[o] = {}
  BY Zenon, <1>1 DEF custom_finalizer_handler, IInv, HeapTypeOK
<1>3. HeapTypeOK'
  <2>1. final_map' \in [Object -> SUBSET Func]
    BY Zenon DEF custom_finalizer_handler, IInv, HeapTypeOK
  <2>2. Idle \in [obj : Object \cup {NoObject}, proc : Proc, todo : SUBSET Func]
    BY Zenon DEF Idle, Proc
  <2> QED BY Zenon, <1>2, <2>1, <2>2 DEF IInv, HeapTypeOK, Idle
<1>4. reg[o] = "none" /\ queued[o] # "custom_finalizer_handler"
  BY Zenon, <1>1 DEF IInv, OnePlace, CustomAt, Does
<1>5. work'[t] = Idle /\ \A u \in Executor : u # t => work'[u] = work[u]
  BY Zenon, <1>2 DEF IInv, HeapTypeOK
<1>6. o \notin freed
  <2>1. o \in InWork /\ root \cup Queue \cup InWork \in SUBSET Object
    BY Zenon, <1>1, FinalizerAssumption, UsableLive DEF InWork, IInv
  <2>2. o \in Marked
    BY Zenon, <2>1, ReachType DEF Marked
  <2> QED BY Zenon, <2>2 DEF IInv, Clean
<1>7. \A p \in freed : final_map'[p] = final_map[p]
  BY Zenon, <1>2, <1>6 DEF IInv, HeapTypeOK
<1> HIDE DEF o
<1>8. Apart' /\ OnePlace' /\ Clean'
  BY Zenon, <1>2, <1>3, <1>5, <1>7, WorkInv
<1>9. HasWork'
  BY Zenon, <1>2, <1>4 DEF IInv, HasWork
<1>10. Owned'
  <2> SUFFICES ASSUME NEW p \in Object, p # o, final_map[p] # {}
               PROVE  \/ reg[p] # "none" \/ queued[p] # "none"
                      \/ \E u \in Executor : work'[u].obj = p
    BY Zenon, <1>2 DEF Owned
  <2> QED BY Zenon, <1>5 DEF IInv, Owned, o
<1> QED BY Zenon, <1>3, <1>8, <1>9, <1>10 DEF IInv

\* A collection queues the Java finalizers of N and the custom finalizers of C.
Selects(N, K, C) ==
  /\ N = Registered("finalizer_run") \ Ordered /\ K = Kept(N)
  /\ C = Registered("custom_finalizer_handler") \ K

\* A collection (GC_finalize, finalize.c:737-876) keeps what is live, and what the
\* queue refers to afterwards.
LEMMA CollectKeeps ==
  ASSUME IInv, NEW N, NEW K, NEW C, Selects(N, K, C)
  PROVE  /\ Marked \subseteq K /\ Reach(Live) \subseteq K
         /\ Reach(root \cup Queue \cup InWork \cup N \cup C) \subseteq K \cup C
         /\ Registered("finalizer_run") \subseteq K
         /\ (N \cup C) \cap Marked = {} /\ N \cup C \subseteq Object
<1> DEFINE R == root \cup Queue \cup InWork
           J == Registered("finalizer_run")
           U == Registered("custom_finalizer_handler") \ Marked
           B == ReachBeyond(U)
<1>1. /\ R \subseteq Object /\ Marked = Reach(R) /\ Marked \subseteq Object
      /\ J \subseteq Object /\ U \subseteq Object
  BY Zenon, UsableLive DEF IInv, Marked, Registered
<1>2. Ordered = Marked \cup B /\ K = Ordered \cup Reach(N)
  BY Zenon DEF Ordered, Kept, Selects
<1>3. N \subseteq Object /\ C \subseteq U /\ N = J \ Ordered /\ C \cap K = {}
  BY Zenon, <1>1, <1>2 DEF Selects
<1> HIDE DEF R, J, U, B
<1>4. N \subseteq Reach(N) /\ Reach(N) \subseteq Object /\ R \subseteq Reach(R)
  BY Zenon, <1>1, <1>3, ReachType
<1>5. J \subseteq K
  BY Zenon, <1>2, <1>3, <1>4
<1>6. Reach(C) \subseteq C \cup B
  BY Zenon, <1>3 DEF Reach, ReachBeyond, B
<1>7. Reach(R \cup N \cup C) \subseteq K \cup C
  <2>1. Reach(R \cup N \cup C) = Reach(R) \cup Reach(N) \cup Reach(C)
    BY ReachUnion
  <2> QED BY Zenon, <1>1, <1>2, <1>6, <2>1
<1>8. Reach(Live) \subseteq K
  <2>1. Live \subseteq Marked \cup (J \cap B) \cup N
    <3>1. Live \subseteq R \cup J
      BY Zenon, FinalizerAssumption
         DEF Live, LiveAt, Does, R, J, Registered, Queue, InWork, IInv, HeapTypeOK
    <3> QED BY Zenon, <1>1, <1>2, <1>3, <1>4, <3>1
  <2>2. Reach(Marked) \subseteq Marked
    BY Zenon, <1>1, ReachReach
  <2>3. Reach(J \cap B) \subseteq B
    BY Zenon, <1>1, BeyondReach DEF B
  <2>4. Reach(Live) \subseteq Reach(Marked \cup (J \cap B) \cup N)
    BY Zenon, <2>1 DEF Reach, ReachBeyond
  <2>5. Reach(Marked \cup (J \cap B) \cup N) = Reach(Marked) \cup Reach(J \cap B) \cup Reach(N)
    BY ReachUnion
  <2> QED BY Zenon, <1>2, <2>2, <2>3, <2>4, <2>5
<1> QED BY ZenonT(60), <1>1, <1>2, <1>3, <1>5, <1>7, <1>8 DEF R, J, U

LEMMA CollectInv ==
  ASSUME IInv, GC_collect
  PROVE  IInv'
<1> DEFINE N == Registered("finalizer_run") \ Ordered
           K == Kept(N)
           C == Registered("custom_finalizer_handler") \ K
<1>0. Selects(N, K, C)
  BY Zenon DEF Selects
<1>1. Collected(N \cup C, K)
  BY Zenon DEF GC_collect
<1> HIDE DEF N, K, C
<1>2. /\ Marked \subseteq K /\ Reach(Live) \subseteq K
      /\ Reach(root \cup Queue \cup InWork \cup N \cup C) \subseteq K \cup C
      /\ Registered("finalizer_run") \subseteq K
      /\ (N \cup C) \cap Marked = {} /\ N \cup C \subseteq Object
  BY <1>0, CollectKeeps
<1>3. /\ \A o \in Object : o \in N => reg[o] = "finalizer_run"
      /\ \A o \in Object : o \in C <=> reg[o] = "custom_finalizer_handler" /\ o \notin K
      /\ \A o \in Object : reg[o] = "finalizer_run" => o \in K
  BY Zenon, <1>0, <1>2 DEF Registered, Selects
<1>4. /\ UNCHANGED <<root, final_map, work>> /\ freed' = Object \ (K \cup N \cup C)
      /\ \A o \in N \cup C : queued'[o] = reg[o] /\ reg'[o] = "none"
      /\ \A o \in Object \ (N \cup C) :
           IF queued[o] = "custom_finalizer_handler"
           THEN queued'[o] = "none" /\ reg'[o] = "custom_finalizer_handler"
           ELSE queued'[o] = queued[o] /\ reg'[o] = reg[o]
  BY Zenon, <1>1, <1>2 DEF Collected, Back
<1>5. /\ \A o \in Object : queued[o] # "none" => o \in Marked
      /\ \A o \in Object : \A t \in Executor : work[t].obj = o => o \in Marked
  <2>1. /\ \A o \in Object : queued[o] # "none" => o \in Queue
        /\ \A o \in Object : \A t \in Executor : work[t].obj = o => o \in InWork
    BY Zenon, FinalizerAssumption DEF Queue, InWork
  <2>2. root \cup Queue \cup InWork \in SUBSET Object
    BY Zenon, UsableLive DEF IInv
  <2>3. Queue \cup InWork \subseteq Marked
    BY Zenon, <2>2, ReachType DEF Marked
  <2> QED BY Zenon, <2>1, <2>3
<1>6. HeapTypeOK'
  <2>1. reg \in [Object -> Proc] /\ queued \in [Object -> Proc]
    BY Zenon DEF IInv, HeapTypeOK
  <2>2. \A o \in Object : queued'[o] \in Proc /\ reg'[o] \in Proc
    BY Zenon, <1>4, <2>1 DEF Proc
  <2>3. queued' \in [Object -> Proc] /\ reg' \in [Object -> Proc]
    BY Zenon, <1>1, <2>2 DEF Collected
  <2> QED BY Zenon, <1>4, <2>3 DEF IInv, HeapTypeOK
<1>7. Live' \subseteq Live /\ Live \in SUBSET Object
  BY Zenon, <1>3, <1>4 DEF Live, LiveAt, Does
<1>8. Reach(Live)' \subseteq Reach(Live)
  <2>1. Reach(Live') \subseteq Reach(Live)
    BY Zenon, <1>7 DEF Reach, ReachBeyond
  <2> QED BY Zenon, <2>1 DEF Reach, ReachBeyond
<1>9. \A o \in Object : CustomAt(o)' =>
         \/ o \in C
         \/ \E t \in Executor : Does(t, o, "custom_finalizer_handler")
  BY Zenon, <1>3, <1>4 DEF CustomAt, Does
<1>10. Apart'
  BY Zenon, <1>2, <1>3, <1>8, <1>9 DEF IInv, Apart, CustomAt
<1>11. OnePlace'
  <2>1. \A o \in Object : \A t \in Executor :
          Does(t, o, "custom_finalizer_handler") =>
            o \notin N \cup C /\ queued[o] # "custom_finalizer_handler" /\ reg[o] = "none"
    BY Zenon, <1>2, <1>5 DEF IInv, OnePlace, CustomAt, Does
  <2>2. \A o \in Object : CustomAt(o)' => reg'[o] = "none"
    BY Zenon, <1>4, <1>9, <2>1
  <2>3. \A o \in Object : \A t \in Executor : \A u \in Executor :
          Does(t, o, "custom_finalizer_handler") /\ Does(u, o, "custom_finalizer_handler") => u = t
    BY Zenon DEF IInv, OnePlace
  <2>4. \A t : \A o : \A k : Does(t, o, k)' <=> Does(t, o, k)
    BY Zenon, <1>4 DEF Does
  <2> QED BY Zenon, <1>4, <2>1, <2>2, <2>3, <2>4 DEF OnePlace
<1>12. HasWork'
  <2>1. \A o \in Object : reg[o] = "custom_finalizer_handler" => final_map[o] # {}
    BY Zenon DEF IInv, HasWork
  <2>2. \A o \in Object : queued[o] = "custom_finalizer_handler" => final_map[o] # {}
    BY Zenon DEF IInv, HasWork
  <2> QED BY Zenon, <1>4, <2>1, <2>2 DEF HasWork
<1>13. Owned'
  <2>1. \A o \in Object : final_map[o] # {} =>
          \/ reg[o] # "none" \/ queued[o] # "none" \/ \E t \in Executor : work[t].obj = o
    BY Zenon DEF IInv, Owned
  <2>2. \A o \in N \cup C : reg[o] # "none"
    BY Zenon, <1>2, <1>3
  <2> QED BY Zenon, <1>4, <2>1, <2>2 DEF Owned
<1>14. Clean'
  <2> SUFFICES ASSUME NEW o \in Object, o \notin K, o \notin N, o \notin C
               PROVE  final_map[o] = {} /\ o \notin Marked'
    BY Zenon, <1>4 DEF Clean
  <2>1. final_map[o] = {}
    <3>1. reg[o] = "none"
      BY Zenon, <1>3 DEF IInv, HeapTypeOK, Proc
    <3>2. queued[o] = "none" /\ \A t \in Executor : work[t].obj # o
      BY Zenon, <1>2, <1>5
    <3> QED BY Zenon, <3>1, <3>2 DEF IInv, Owned
  <2>2. o \notin Marked'
    <3>1. Queue' \subseteq Queue \cup N \cup C /\ InWork' = InWork
      BY Zenon, <1>4 DEF Queue, InWork
    <3>2. (root \cup Queue \cup InWork)' \subseteq root \cup Queue \cup InWork \cup N \cup C
      BY Zenon, <1>4, <3>1
    <3>3. Reach((root \cup Queue \cup InWork)')
            \subseteq Reach(root \cup Queue \cup InWork \cup N \cup C)
      BY Zenon, <3>2 DEF Reach, ReachBeyond
    <3>4. Marked' = Reach((root \cup Queue \cup InWork)')
      BY Zenon DEF Marked, Reach, ReachBeyond
    <3> QED BY SMTT(30), <1>2, <3>3, <3>4
  <2> QED BY Zenon, <2>1, <2>2
<1> QED BY Zenon, <1>6, <1>10, <1>11, <1>12, <1>13, <1>14 DEF IInv

-----------------------------------------------------------------------------
(* The theorems *)

LEMMA NextInv == IInv /\ [Next]_vars => IInv'
<1> SUFFICES ASSUME IInv, [Next]_vars PROVE IInv'
  BY Zenon
<1>1. CASE UNCHANGED heapvars
  BY Zenon, <1>1, SameInv DEF heapvars
<1>2. ASSUME NEW t \in Executor, GC_notify(t) PROVE IInv'
  BY Zenon, <1>2, SameInv DEF GC_notify
<1>3. ASSUME NEW t \in Executor, Invoke(t) PROVE IInv'
  BY Zenon, <1>3, InvokeInv, RunInv, CallInv, HandlerInv DEF Invoke
<1>4. CASE Mutate
  BY Zenon, <1>4, RootInv, AttachInv DEF Mutate
<1>5. CASE GC_collect
  BY Zenon, <1>5, CollectInv
<1>6. coordinator \/ GC_invoke_finalizers_return \/ UNCHANGED vars => UNCHANGED heapvars
  BY Zenon DEF coordinator, GC_invoke_finalizers_return, vars
<1> QED BY Zenon, <1>1, <1>2, <1>3, <1>4, <1>5, <1>6 DEF Next

THEOREM Invariance == Spec => []IInv
BY InitInv, NextInv, PTL DEF Spec

\* custom_finalizer_handler always finds custom finalizers for its object: the
\* assertion at finalizer.cpp:296 holds.
THEOREM HandlerFindsWork == Spec => []HandlerHasWork
BY Invariance, InvImplies, PTL

\* While custom finalizers run no Java code and no Java finalizer can get at
\* their object.
THEOREM CustomRunsAlone == Spec => []CustomUnreachable
BY Invariance, InvImplies, PTL

\* No object is reclaimed before its custom finalizers have run.
THEOREM CustomRunsBeforeFree == Spec => []CleanBeforeFree
BY Invariance, InvImplies, PTL
=============================================================================
