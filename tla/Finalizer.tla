----------------------------- MODULE Finalizer -----------------------------
(***************************************************************************)
(* Finalization of objects: the collector's table and queue of finalizers  *)
(* (mm/boehm-gc/finalize.c as configured by mm/gc-boehm.cpp), Java         *)
(* finalizers and the custom finalizers that clean up after an object, its *)
(* lock record for one (vm/finalizer.cpp:250-356).  The finalizer thread   *)
(* and its coordinator come from FinalizerCoordinator.  A collection is    *)
(* one step, because it stops the world.                                   *)
(***************************************************************************)
EXTENDS FinalizerCoordinator

CONSTANTS
  Object,        \* Java objects
  HasFinalizer,  \* those whose class has a finalize method
  Ref,           \* pairs of objects: the first refers to the second
  Func,          \* custom finalizers (lock_record_finalizer, ...)
  Runner,        \* threads that call Runtime.runFinalization
  NoObject

ASSUME FinalizerAssumption ==
  /\ HasFinalizer \subseteq Object
  /\ Ref \subseteq Object \X Object
  /\ Runner \subseteq Thread
  /\ NoObject \notin Object

VARIABLES
  root,       \* objects the mutators refer to
  reg,        \* the finalizer the collector has registered for an object
  queued,     \* the finalizer it has queued (GC_finalize_now)
  notify,     \* the last collection was not notified yet
  final_map,  \* registered custom finalizers
  work,       \* what each thread does in GC_invoke_finalizers
  freed       \* reclaimed objects

heapvars == <<root, reg, queued, notify, final_map, work, freed>>
vars == <<coordvars, heapvars>>

Executor == Thread \cup {FinalizerThread}
Proc == {"none", "finalizer_run", "custom_finalizer_handler"}
Idle == [obj |-> NoObject, proc |-> "none", todo |-> {}]

\* What an object refers to, through one reference or more: what is in every set
\* that has what the object refers to, and with an object what that refers to.
Holds(S, o) == \A p \in Object : <<o, p>> \in Ref => p \in S
Below ==
  [o \in Object |->
     {p \in Object : \A S \in SUBSET Object :
        Holds(S, o) /\ (\A q \in S : Holds(S, q)) => p \in S}]

ReachBeyond(S) == UNION {Below[o] : o \in S}
Reach(S) == S \cup ReachBeyond(S)

\* heap_alloc registers the Java finalizer of every object that has one.
Init ==
  /\ CoordInit
  /\ root = Object
  /\ reg = [o \in Object |->
              IF o \in HasFinalizer THEN "finalizer_run" ELSE "none"]
  /\ queued = [o \in Object |-> "none"]
  /\ notify = FALSE
  /\ final_map = [o \in Object |-> {}]
  /\ work = [t \in Executor |-> Idle]
  /\ freed = {}

-----------------------------------------------------------------------------
(* The collector *)

Registered(p) == {o \in Object : reg[o] = p}
Queue == {o \in Object : queued[o] # "none"}
InWork == {work[t].obj : t \in Executor} \ {NoObject}

\* What an ordinary mark finds: the queue and the stacks are roots.
Marked == Reach(root \cup Queue \cup InWork)

\* Custom finalizers are registered as finalize-when-unreachable: what such an
\* object refers to is kept (finalize.c:757-770).
Ordered == Marked \cup ReachBeyond(Registered("custom_finalizer_handler") \ Marked)

\* What else the Java finalizers that are called next keep (810-824).
Kept(java_now) == Ordered \cup Reach(java_now)

\* The custom finalizers that are in the queue already, and mark their objects,
\* go back to the table (826-858).
Back(o) == queued[o] = "custom_finalizer_handler"

\* The finalizers of the objects in `now' are queued, what is not kept is freed.
Collected(now, kept) ==
  /\ queued' = [o \in Object |-> IF o \in now THEN reg[o]
                                 ELSE IF Back(o) THEN "none" ELSE queued[o]]
  /\ reg' = [o \in Object |-> IF o \in now THEN "none"
                              ELSE IF Back(o) THEN queued[o] ELSE reg[o]]
  /\ freed' = Object \ (kept \cup now)
  /\ notify' = TRUE
  /\ UNCHANGED <<coordvars, root, final_map, work>>

\* Fault: custom finalizers do not wait for Java finalizers of other objects.
GC_collect_unordered ==
  \E java_now \in {Registered("finalizer_run") \ Ordered} :
  \E kept \in {Kept(java_now)} :
    Collected(java_now \cup (Registered("custom_finalizer_handler") \ Ordered), kept)

\* GC_finalize.  The Java finalizers of the objects that are not kept are
\* queued; a custom finalizer goes back to the table if an object queued for its
\* Java finalizer refers to the object.
GC_collect ==
  \E java_now \in {Registered("finalizer_run") \ Ordered} :
  \E kept \in {Kept(java_now)} :
    Collected(java_now \cup (Registered("custom_finalizer_handler") \ kept), kept)

\* GC_notify_or_invoke_finalizers: once for each collection.
GC_notify(t) ==
  /\ notify
  /\ Queue # {}
  /\ finalizer_notify(t)
  /\ notify' = FALSE
  /\ UNCHANGED <<root, reg, queued, final_map, work, freed>>

\* GC_invoke_finalizers takes the next finalizer off the queue.
MayInvoke(t) ==
  /\ InJava(t)
  /\ t \in Runner \cup {FinalizerThread}
  /\ work[t] = Idle

GC_invoke(t, o) ==
  /\ MayInvoke(t)
  /\ o \in Queue
  /\ work' = [work EXCEPT ![t] =
                [obj |-> o, proc |-> queued[o],
                 todo |-> IF queued[o] = "finalizer_run" THEN {} ELSE final_map[o]]]
  /\ queued' = [queued EXCEPT ![o] = "none"]
  /\ UNCHANGED <<coordvars, root, reg, notify, final_map, freed>>

GC_invoke_finalizers_return ==
  /\ work[FinalizerThread] = Idle
  /\ Queue = {}
  /\ invoked
  /\ UNCHANGED heapvars

-----------------------------------------------------------------------------
(* Java code and its finalizers *)

\* The mutators give up their last reference to an object.
drop(o) ==
  /\ o \in root
  /\ root' = root \ {o}
  /\ UNCHANGED <<coordvars, reg, queued, notify, final_map, work, freed>>

\* What Java code can get at: through the roots, or in a Java finalizer.
Usable ==
  Reach(root \cup {work[t].obj : t \in {u \in Executor :
                                         work[u].proc = "finalizer_run"}})

\* A Java finalizer stores a reference where other threads find it.
resurrect(o) ==
  /\ o \in Usable \ root
  /\ root' = root \cup {o}
  /\ UNCHANGED <<coordvars, reg, queued, notify, final_map, work, freed>>

\* The custom handler takes the place of no finalizer or of itself; a Java
\* finalizer stays registered.
attach_custom_finalizer(o, f) ==
  /\ o \in Usable
  /\ reg' = [reg EXCEPT ![o] =
               IF @ = "finalizer_run" THEN @ ELSE "custom_finalizer_handler"]
  /\ final_map' = [final_map EXCEPT ![o] = @ \cup {f}]
  /\ UNCHANGED <<coordvars, root, queued, notify, work, freed>>

\* Fault: the custom finalizers are not reinstalled.
finalizer_run_only(t) ==
  /\ work[t].proc = "finalizer_run"
  /\ work' = [work EXCEPT ![t] = Idle]
  /\ UNCHANGED <<coordvars, root, reg, queued, notify, final_map, freed>>

\* Fault: the custom handler is installed whether there is work for it or not.
finalizer_run_always(t) ==
  /\ work[t].proc = "finalizer_run"
  /\ reg' = [reg EXCEPT ![work[t].obj] = "custom_finalizer_handler"]
  /\ work' = [work EXCEPT ![t] = Idle]
  /\ UNCHANGED <<coordvars, root, queued, notify, final_map, freed>>

\* finalizer_run ends: reinstall_custom_finalizer.
finalizer_run(t) ==
  /\ work[t].proc = "finalizer_run"
  /\ reg' = [reg EXCEPT ![work[t].obj] =
               IF final_map[work[t].obj] = {} THEN @ ELSE "custom_finalizer_handler"]
  /\ work' = [work EXCEPT ![t] = Idle]
  /\ UNCHANGED <<coordvars, root, queued, notify, final_map, freed>>

\* custom_finalizer_handler calls one finalizer, without the final_mutex ...
custom_finalizer_call(t, f) ==
  /\ f \in work[t].todo
  /\ work' = [work EXCEPT ![t].todo = @ \ {f}]
  /\ UNCHANGED <<coordvars, root, reg, queued, notify, final_map, freed>>

\* ... and when it has called all, erases them.
custom_finalizer_handler(t) ==
  /\ work[t].proc = "custom_finalizer_handler"
  /\ work[t].todo = {}
  /\ final_map' = [final_map EXCEPT ![work[t].obj] = {}]
  /\ work' = [work EXCEPT ![t] = Idle]
  /\ UNCHANGED <<coordvars, root, reg, queued, notify, freed>>

-----------------------------------------------------------------------------
coordinator ==
  /\ \/ accept \/ done \/ shutdown_ack \/ accept_spurious
     \/ \E t \in Executor : join(t) \/ join_woken(t) \/ join_spurious(t)
     \/ exit
  /\ UNCHANGED heapvars

Invoke(t) ==
  \/ \E o \in Object : GC_invoke(t, o)
  \/ finalizer_run(t) \/ custom_finalizer_handler(t)
  \/ \E f \in Func : custom_finalizer_call(t, f)

Mutate ==
  \E o \in Object :
    drop(o) \/ resurrect(o) \/ \E f \in Func : attach_custom_finalizer(o, f)

Next ==
  \/ coordinator
  \/ GC_invoke_finalizers_return
  \/ GC_collect
  \/ \E t \in Executor : GC_notify(t) \/ Invoke(t)
  \/ Mutate

Spec == Init /\ [][Next]_vars

\* Threads are scheduled, finalizers end, and the mutators allocate, so that
\* there are collections and their notifications.
Fairness ==
  /\ WF_vars(GC_collect)
  /\ WF_vars(\E t \in Executor : GC_notify(t))
  /\ WF_vars(GC_invoke_finalizers_return)
  /\ WF_vars((accept \/ done \/ shutdown_ack) /\ UNCHANGED heapvars)
  /\ \A t \in Executor : WF_vars(Invoke(t))

FairSpec == Spec /\ Fairness

-----------------------------------------------------------------------------
(* Properties *)

\* Every variable has its type.
TypeOK ==
  /\ CoordTypeOK
  /\ root \subseteq Object
  /\ reg \in [Object -> Proc]
  /\ queued \in [Object -> Proc]
  /\ notify \in BOOLEAN
  /\ final_map \in [Object -> SUBSET Func]
  /\ work \in [Executor -> [obj : Object \cup {NoObject}, proc : Proc,
                            todo : SUBSET Func]]
  /\ freed \subseteq Object

\* custom_finalizer_handler always finds an entry for its object: the
\* assertion at finalizer.cpp:297.
HandlerHasWork ==
  \A o \in Object :
    queued[o] = "custom_finalizer_handler" => final_map[o] # {}

\* While the custom finalizers of an object run, or are about to, no Java code
\* and no Java finalizer still to run can get at the object: its lock record
\* is not freed under a thread that locks it, and nobody adds to the entries
\* custom_finalizer_handler walks without the final_mutex.
CustomUnreachable ==
  LET java == {o \in Object : queued[o] = "finalizer_run"}
      custom == {o \in Object :
                   \/ queued[o] = "custom_finalizer_handler"
                   \/ \E t \in Executor :
                        work[t].obj = o /\ work[t].proc = "custom_finalizer_handler"}
  IN  custom \cap (Usable \cup Reach(java)) = {}

\* No object is reclaimed with a custom finalizer outstanding: no lock record
\* leaks, and final_map has no entry for an address that is used again.
CleanBeforeFree == \A o \in freed : final_map[o] = {}

\* A collection takes the handler of o, or of what refers to o, off the queue.
TakenBack(o) ==
  \E p \in Object : o \in Reach({p}) /\ Back(p) /\ ~Back(p)' /\ UNCHANGED work

\* "Register a custom handler that is run when the object becomes unreachable"
\* (finalizer.cpp:308): an object that Java code has lost for good is cleaned
\* up, so that it has no custom finalizer left, unless the VM shuts down, or
\* collections never cease to take its handler back before it is called.
EventuallyCleaned ==
  \A o \in Object :
    <>[](o \notin Usable) =>
      <>[](final_map[o] = {}) \/ <>disabled \/ []<><<TakenBack(o)>>_vars
=============================================================================
