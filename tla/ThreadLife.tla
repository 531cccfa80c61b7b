----------------------------- MODULE ThreadLife -----------------------------
(***************************************************************************)
(* The life of threads: thread data structures and their indices, the      *)
(* active and the free list (threads/threadlist.cpp), starting and         *)
(* attaching threads (threads/thread.cpp, posix/thread-posix.cpp) and      *)
(* the thread that waits for all others before the VM goes (vm_destroy).   *)
(*                                                                         *)
(* A thread data structure is its index.  The lists are sets: their order  *)
(* decides only which free structure is used next.  A step is what happens *)
(* between two acquisitions of the mutex of the lists; what is done to a   *)
(* structure only its creator knows belongs to the step before.            *)
(***************************************************************************)
EXTENDS Integers, FiniteSets

CONSTANTS
  Os,         \* names of threads of the operating system; a name is used again
  Main,       \* the one that creates the VM
  External,   \* those that attach themselves through JNI
  MaxIndex,   \* bound: thread data structures
  Failing     \* creations that may fail: "attach", "internal"; "detach"

ASSUME LifeAssumption ==
  /\ Main \in Os /\ External \subseteq Os \ {Main}
  /\ MaxIndex \in Nat \ {0}

Index == 1..MaxIndex
Started == Os \ (External \cup {Main})

VARIABLES
  last_index,   \* indices given out so far
  free,         \* the free thread list
  active,       \* the active thread list
  object,       \* the structures with a java.lang.Thread object
  daemon,       \* the structures with THREAD_FLAG_DAEMON
  internal,     \* those with THREAD_FLAG_INTERNAL
  cleanup,      \* those whose object has thread_cleanup_finalizer attached
  number,       \* _number_of_active_java_threads
  current,      \* the structure in the thread-specific data, 0 if none
  new,          \* the structure a thread creates, or is created with
  pc

lists == <<last_index, free, active, number>>
flags == <<daemon, internal>>
vars == <<lists, object, flags, cleanup, current, new, pc>>

Goto(o, l) == pc' = [pc EXCEPT ![o] = l]

\* Fault: a thread that was attached before passes for attached.
Attached_once(o) == current[o] # 0

\* thread_current_is_attached.
Attached(o) == current[o] \in object

\* threads_preinit and threads_init: the main thread has index 1.
Init ==
  /\ last_index = 1 /\ free = {} /\ active = {1} /\ number = 1
  /\ object = {1} /\ daemon = {} /\ internal = {} /\ cleanup = {}
  /\ current = [o \in Os |-> IF o = Main THEN 1 ELSE 0]
  /\ new = [o \in Os |-> 0]
  /\ pc = [o \in Os |-> IF o = Main THEN "run"
                        ELSE IF o \in External THEN "out" ELSE "unborn"]

-----------------------------------------------------------------------------
(* The lists *)

\* ThreadList::get_free_thread: what thread_new may return.
FreeThreads == IF free # {} THEN free
               ELSE IF last_index < MaxIndex THEN {last_index + 1} ELSE {}

\* Fault: the structure stays on the free list.
Taken_kept(i) == free' = free /\ last_index' = IF i > last_index THEN i ELSE last_index

Taken(i) == free' = free \ {i} /\ last_index' = IF i > last_index THEN i ELSE last_index

\* thread_new: structure i with its flags, and an object if it has one already.
thread_new(i, isdaemon, isinternal, hasobject) ==
  /\ i \in FreeThreads
  /\ Taken(i)
  /\ daemon' = IF isdaemon THEN daemon \cup {i} ELSE daemon \ {i}
  /\ internal' = IF isinternal THEN internal \cup {i} ELSE internal \ {i}
  /\ object' = IF hasobject THEN object \cup {i} ELSE object \ {i}

add_to_active_thread_list(i) ==
  /\ active' = active \cup {i}
  /\ number' = IF i \in internal THEN number ELSE number + 1

remove_from_active_thread_list(i) ==
  /\ active' = active \ {i}
  /\ number' = IF i \in internal THEN number ELSE number - 1

get_number_of_non_daemon_threads == Cardinality(active \ daemon)

-----------------------------------------------------------------------------
(* Creating a thread *)

\* thread_attach_current_thread, up to the thread list; a no-op for an attached
\* thread.  JNI attaches every thread as a non-daemon thread (jni.cpp:3695).
attach(o) ==
  /\ o \in External \cup {Main}
  /\ pc[o] = "out"
  /\ \/ /\ Attached(o)
        /\ Goto(o, IF o = Main THEN "join" ELSE "run")
        /\ UNCHANGED <<lists, object, flags, current, new>>
     \/ /\ ~Attached(o)
        /\ \E i \in Index :
             /\ thread_new(i, FALSE, FALSE, FALSE)
             /\ current' = [current EXCEPT ![o] = i]
             /\ new' = [new EXCEPT ![o] = i]
        /\ Goto(o, "attach")
        /\ UNCHANGED <<active, number>>
  /\ UNCHANGED cleanup

\* threads_thread_start creates a Java thread, threads_thread_start_internal an
\* internal one that has no object yet.
threads_thread_start(o, isdaemon) ==
  /\ pc[o] = "run"
  /\ \E i \in Index :
       thread_new(i, isdaemon, FALSE, TRUE) /\ new' = [new EXCEPT ![o] = i]
  /\ Goto(o, "start")
  /\ UNCHANGED <<active, number, cleanup, current>>

threads_thread_start_internal(o) ==
  /\ pc[o] = "run"
  /\ \E i \in Index :
       thread_new(i, TRUE, TRUE, FALSE) /\ new' = [new EXCEPT ![o] = i]
  /\ Goto(o, "internal")
  /\ UNCHANGED <<active, number, cleanup, current>>

\* The new thread enters the active list.
add(o) ==
  /\ pc[o] \in {"attach", "start", "internal"}
  /\ add_to_active_thread_list(new[o])
  /\ Goto(o, CASE pc[o] = "attach" -> "attachobject"
               [] pc[o] = "internal" -> "internalobject"
               [] pc[o] = "start" -> "create")
  /\ UNCHANGED <<last_index, free, object, flags, cleanup, current, new>>

\* thread_create_object succeeds.
thread_create_object(o) ==
  /\ pc[o] \in {"attachobject", "internalobject"}
  /\ object' = object \cup {new[o]}
  /\ IF pc[o] = "attachobject"
     THEN Goto(o, IF o = Main THEN "join" ELSE "run") /\ new' = [new EXCEPT ![o] = 0]
     ELSE Goto(o, "create") /\ UNCHANGED new
  /\ UNCHANGED <<lists, flags, cleanup, current>>

\* release_thread of a listed thread.
release_thread(i) == remove_from_active_thread_list(i) /\ free' = free \cup {i}

\* It fails, without memory for the object, or in the initializer, which leaves
\* the object in place.  The structure in the thread-specific data stays too.
thread_create_object_fails(o) ==
  /\ \/ pc[o] = "attachobject" /\ "attach" \in Failing
     \/ pc[o] = "internalobject" /\ "internal" \in Failing
  /\ object' \in {object, object \cup {new[o]}}
  /\ release_thread(new[o])
  /\ Goto(o, IF pc[o] = "attachobject" THEN "out" ELSE "run")
  /\ new' = [new EXCEPT ![o] = 0]
  /\ UNCHANGED <<last_index, flags, cleanup, current>>

\* The finalizer is attached to the object, and threads_impl_thread_start
\* creates OS thread c and waits for it.
threads_impl_thread_start(o, c) ==
  /\ pc[o] = "create"
  /\ pc[c] = "unborn"
  /\ cleanup' = cleanup \cup {new[o]}
  /\ new' = [new EXCEPT ![c] = new[o]]
  /\ pc' = [pc EXCEPT ![o] = "wait", ![c] = "born"]
  /\ UNCHANGED <<lists, object, flags, current>>

\* threads_startup_thread: c is registered, and its creator o goes on.
threads_startup_thread(o, c) ==
  /\ pc[o] = "wait"
  /\ pc[c] = "born"
  /\ new[o] = new[c]
  /\ current' = [current EXCEPT ![c] = new[c]]
  /\ new' = [new EXCEPT ![o] = 0, ![c] = 0]
  /\ pc' = [pc EXCEPT ![o] = "run", ![c] = "run"]
  /\ UNCHANGED <<lists, object, flags, cleanup>>

-----------------------------------------------------------------------------
(* The end of a thread *)

\* Fault: cond_join is not signalled.
Detached_silent(o) == Goto(o, IF o \in Started THEN "unborn" ELSE "out")

\* Where a detached thread goes; cond_join wakes the main thread.
Detached(o) ==
  pc' = [p \in Os |-> IF p = o THEN IF o \in Started THEN "unborn" ELSE "out"
                      ELSE IF pc[p] = "joinwait" THEN "join" ELSE pc[p]]

\* thread_free, with deactivate_thread.
thread_free(i) ==
  /\ remove_from_active_thread_list(i)
  /\ object' = object \ {i}

\* thread_detach_current_thread: a started thread returns, an external one calls
\* DetachCurrentThread, the main thread comes back from main (vm_run).
thread_detach_current_thread(o) ==
  /\ pc[o] = "run"
  /\ thread_free(current[o])
  /\ Detached(o)
  /\ UNCHANGED <<last_index, free, flags, cleanup, current, new>>

\* The uncaught-exception handler or the thread group throws: a started thread
\* ends as it is, an external thread stays attached, the main thread aborts.
detach_fails(o) ==
  /\ o \in Started /\ "detach" \in Failing
  /\ pc[o] = "run"
  /\ Goto(o, "unborn")
  /\ UNCHANGED <<lists, object, flags, cleanup, current, new>>

\* The java.lang.Thread object of structure i is not reachable from it.
Unreachable(i) == i \in cleanup \ object

\* The custom finalizer of the object: release_thread of an unlisted thread.
thread_cleanup_finalizer(i) ==
  /\ Unreachable(i)
  /\ cleanup' = cleanup \ {i}
  /\ free' = free \cup {i}
  /\ UNCHANGED <<last_index, active, number, object, flags, current, new, pc>>

-----------------------------------------------------------------------------
(* vm_destroy *)

\* Fault: the thread counts one too few.
MustJoin_less == get_number_of_non_daemon_threads > 2

MustJoin == get_number_of_non_daemon_threads > 1

threads_join_all_threads ==
  /\ pc[Main] = "join"
  /\ Goto(Main, IF MustJoin THEN "joinwait" ELSE "joined")
  /\ UNCHANGED <<lists, object, flags, cleanup, current, new>>

join_spurious ==
  /\ pc[Main] = "joinwait"
  /\ Goto(Main, "join")
  /\ UNCHANGED <<lists, object, flags, cleanup, current, new>>

-----------------------------------------------------------------------------
Step(o) ==
  \/ attach(o) \/ add(o) \/ thread_create_object(o) \/ thread_create_object_fails(o)
  \/ threads_thread_start_internal(o)
  \/ \E d \in BOOLEAN : threads_thread_start(o, d)
  \/ \E c \in Started : threads_impl_thread_start(o, c) \/ threads_startup_thread(o, c)
  \/ thread_detach_current_thread(o) \/ detach_fails(o)

Next ==
  \/ \E o \in Os : Step(o)
  \/ \E i \in Index : thread_cleanup_finalizer(i)
  \/ threads_join_all_threads \/ join_spurious

Spec == Init /\ [][Next]_vars

\* Threads are scheduled and creations in progress go on.  Nothing makes a
\* thread end, start another or attach.
Fairness ==
  /\ WF_vars(threads_join_all_threads)
  /\ \A o \in Os :
       WF_vars(add(o) \/ thread_create_object(o)
               \/ \E c \in Started : threads_startup_thread(o, c))

FairSpec == Spec /\ Fairness

-----------------------------------------------------------------------------
(* Properties *)

Building == {"attach", "start", "internal"}
Listed == {"attachobject", "internalobject", "create", "wait", "born"}

\* Every variable has its type.
TypeOK ==
  /\ last_index \in Index
  /\ free \subseteq Index /\ active \subseteq Index /\ object \subseteq Index
  /\ daemon \subseteq Index /\ internal \subseteq Index /\ cleanup \subseteq Index
  /\ number \in Int
  /\ current \in [Os -> 0..MaxIndex] /\ new \in [Os -> 0..MaxIndex]
  /\ pc \in [Os -> Building \cup Listed \cup
                   {"unborn", "out", "run", "join", "joinwait", "joined"}]

\* Thread o executes with its thread data structure.
Running(o) == pc[o] \in {"run", "start", "internal", "internalobject", "create",
                         "wait", "attachobject", "join", "joinwait", "joined"}

\* A thread data structure has one use.  No two running threads share one, and
\* with it the index that identifies the owner of their thin locks (thread_new,
\* thread.cpp:313).  One on the free list, or on its way there by the finalizer
\* of its dead thread, is used by nobody: release_thread never finds a listed
\* thread (assertion at threadlist.cpp:290) and none is released twice.
StructuresApart ==
  /\ \A o, p \in Os : Running(o) /\ Running(p) /\ current[o] = current[p] => o = p
  /\ free \cap active = {} /\ free \cap cleanup = {}
  /\ \A i \in Index : Unreachable(i) => i \notin active
  /\ \A o \in Os : /\ new[o] \notin free
                   /\ Running(o) => current[o] \notin free

\* Every thread that executes Java code is on the active list with its object:
\* dumps, suspension and the count of threads to wait for see it.  A thread
\* counts as attached only while it is: attaching it again is rightly a no-op
\* (thread.cpp:502).
RunningListed ==
  /\ \A o \in Os : Running(o) =>
       current[o] \in active /\ (pc[o] # "attachobject" => current[o] \in object)
  /\ \A o \in External : pc[o] \in {"out", "run"} /\ Attached(o) => current[o] \in active

\* join_all returns only when no other non-daemon thread is running or has been
\* created: "Wait until we are the last non-daemon thread." (vm.cpp:1784).
JoinReturnsAlone ==
  [][pc[Main] = "join" /\ pc'[Main] = "joined" =>
       \A o \in Os \ {Main} :
         /\ Running(o) => current[o] \in daemon
         /\ pc[o] \in Listed => new[o] \in daemon]_vars

\* The thread that waits for the others does return, once they stay away.
JoinTerminates ==
  ~<>[](pc[Main] \in {"join", "joinwait"} /\ active \subseteq daemon \cup {current[Main]})
=============================================================================
