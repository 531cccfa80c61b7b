------------------------ MODULE FinalizerCoordinator ------------------------
(***************************************************************************)
(* The finalizer thread and the FinalizerThreadCoordinator                 *)
(* (vm/finalizer.cpp:58-241).  Threads request runs of the finalizers; a   *)
(* thread that shuts the VM down (vm_shutdown) joins the finalizer thread. *)
(* Every method holds the coordinator's mutex from its first to its last   *)
(* line, except while it waits on a condition variable: it is one action,  *)
(* and a wait ends an action.  Condition variables may wake spuriously.    *)
(***************************************************************************)
EXTENDS Naturals

CONSTANTS
  Thread,            \* the threads other than the finalizer thread
  FinalizerThread,   \* the finalizer thread
  NoThread,          \* the null pointer
  Exiter             \* the threads whose code calls System.exit

ASSUME CoordinatorAssumption ==
  /\ FinalizerThread \notin Thread
  /\ NoThread \notin Thread \cup {FinalizerThread}
  /\ Exiter \subseteq Thread \cup {FinalizerThread}

VARIABLES
  running,    \* the finalizer thread is requested to run finalizers
  pending,    \* it should continue after the run in progress
  disabled,   \* a thread has joined
  shutdown,   \* whose condition variable shutdown points to
  fin,        \* where the finalizer thread is
  joining,    \* where each thread is in join
  unserved    \* history: a request came after the last run began

coordvars == <<running, pending, disabled, shutdown, fin, joining, unserved>>

\* A thread in join blocks on its own condition variable; "hang" is the
\* endless wait of a second join.
JoinState == {"run", "blocked", "woken", "hang", "joined"}

CoordInit ==
  /\ running = FALSE
  /\ pending = FALSE
  /\ disabled = FALSE
  /\ shutdown = NoThread
  /\ fin = "accept"
  /\ joining = [t \in Thread \cup {FinalizerThread} |-> "run"]
  /\ unserved = FALSE

\* cond.signal(), the condition variable the finalizer thread waits on.
SignalFinalizer == fin' = IF fin = "blocked" THEN "accept" ELSE fin

\* Fault: a request during a run is taken to be served by that run.
request_merged ==
  /\ IF running THEN UNCHANGED <<running, fin>>
                ELSE running' = TRUE /\ SignalFinalizer
  /\ unserved' = TRUE
  /\ UNCHANGED <<pending, disabled, shutdown, joining>>

\* FinalizerThreadCoordinator::request, through finalizer_notify.
request ==
  /\ IF running THEN pending' = TRUE /\ UNCHANGED <<running, fin>>
                ELSE running' = TRUE /\ SignalFinalizer /\ UNCHANGED pending
  /\ unserved' = TRUE
  /\ UNCHANGED <<disabled, shutdown, joining>>

accept ==
  /\ fin = "accept"
  /\ fin' = CASE ~running -> "blocked"
              [] running /\ shutdown = NoThread -> "invoke"
              [] OTHER -> "ack"
  /\ unserved' = (unserved /\ fin' # "invoke")
  /\ UNCHANGED <<running, pending, disabled, shutdown, joining>>

\* The condition variable wakes the finalizer thread for no reason.
accept_spurious ==
  /\ fin = "blocked"
  /\ fin' = "accept"
  /\ UNCHANGED <<running, pending, disabled, shutdown, joining, unserved>>

\* gc_invoke_finalizers returns.
invoked ==
  /\ fin = "invoke"
  /\ joining[FinalizerThread] = "run"
  /\ fin' = "done"
  /\ UNCHANGED <<running, pending, disabled, shutdown, joining, unserved>>

\* Fault: pending is left set.
done_sticky ==
  /\ fin = "done"
  /\ running' = FALSE
  /\ fin' = "accept"
  /\ UNCHANGED <<pending, disabled, shutdown, joining, unserved>>

done ==
  /\ fin = "done"
  /\ running' = pending
  /\ pending' = FALSE
  /\ fin' = "accept"
  /\ UNCHANGED <<disabled, shutdown, joining, unserved>>

\* Fault: the joining thread is not signalled.
shutdown_ack_silent ==
  /\ fin = "ack"
  /\ shutdown' = NoThread
  /\ fin' = "ended"
  /\ UNCHANGED <<running, pending, disabled, joining, unserved>>

\* Fault: shutdown is not reset.
shutdown_ack_dangling ==
  /\ fin = "ack"
  /\ joining' = [joining EXCEPT ![shutdown] = "joined"]
  /\ fin' = "ended"
  /\ UNCHANGED <<running, pending, disabled, shutdown, unserved>>

shutdown_ack ==
  /\ fin = "ack"
  /\ joining' = [joining EXCEPT ![shutdown] = IF @ = "blocked" THEN "woken" ELSE @]
  /\ shutdown' = NoThread
  /\ fin' = "ended"
  /\ UNCHANGED <<running, pending, disabled, unserved>>

\* A thread runs Java code: the finalizer thread only inside a finalizer.
InJava(t) ==
  /\ joining[t] = "run"
  /\ t = FinalizerThread => fin = "invoke"

join(t) ==
  /\ t \in Exiter
  /\ InJava(t)
  /\ IF disabled
     THEN /\ joining' = [joining EXCEPT ![t] = "hang"]
          /\ UNCHANGED <<running, pending, disabled, shutdown, fin>>
     ELSE /\ running' = TRUE
          /\ pending' = TRUE
          /\ disabled' = TRUE
          /\ shutdown' = t
          /\ SignalFinalizer
          /\ joining' = [joining EXCEPT ![t] = "blocked"]
  /\ UNCHANGED unserved

\* Fault: the loop around the wait is missing.
join_woken_unchecked(t) ==
  /\ joining[t] = "woken"
  /\ joining' = [joining EXCEPT ![t] = "joined"]
  /\ UNCHANGED <<running, pending, disabled, shutdown, fin, unserved>>

join_woken(t) ==
  /\ joining[t] = "woken"
  /\ joining' = [joining EXCEPT ![t] =
                   IF shutdown # NoThread THEN "blocked" ELSE "joined"]
  /\ UNCHANGED <<running, pending, disabled, shutdown, fin, unserved>>

join_spurious(t) ==
  /\ joining[t] = "blocked"
  /\ joining' = [joining EXCEPT ![t] = "woken"]
  /\ UNCHANGED <<running, pending, disabled, shutdown, fin, unserved>>

\* The collector calls finalizer_notify in the thread that allocates.
finalizer_notify(t) == InJava(t) /\ request

\* The joining thread goes on to exit(): the process is over.
exit ==
  /\ \E t \in Thread : joining[t] = "joined"
  /\ UNCHANGED coordvars

finalizer_thread == accept \/ invoked \/ done \/ shutdown_ack

CoordNext ==
  \/ finalizer_thread
  \/ accept_spurious
  \/ \E t \in Thread \cup {FinalizerThread} :
       \/ finalizer_notify(t) \/ join(t) \/ join_woken(t) \/ join_spurious(t)
  \/ exit

CoordSpec == CoordInit /\ [][CoordNext]_coordvars

\* Threads are scheduled, and finalizers come to an end.
CoordFairness ==
  /\ WF_coordvars(finalizer_thread)
  /\ \A t \in Thread \cup {FinalizerThread} : WF_coordvars(join_woken(t))

CoordFairSpec == CoordSpec /\ CoordFairness

-----------------------------------------------------------------------------
(* Properties *)

\* Every variable has its type.
CoordTypeOK ==
  /\ running \in BOOLEAN
  /\ pending \in BOOLEAN
  /\ disabled \in BOOLEAN
  /\ shutdown \in Exiter \cup {NoThread}
  /\ fin \in {"accept", "blocked", "invoke", "done", "ack", "ended"}
  /\ joining \in [Thread \cup {FinalizerThread} -> JoinState]
  /\ unserved \in BOOLEAN

\* A request is never forgotten: until a run begins after it, the flags keep
\* the finalizer thread from going to sleep (request and done,
\* finalizer.cpp:80-104, against the loop in accept).
RequestRecorded ==
  /\ unserved => running
  /\ unserved /\ fin \in {"invoke", "done"} => pending
  /\ fin = "blocked" => ~running

\* shutdown points to a condition variable on the stack of a thread that is
\* still in join: shutdown_ack (finalizer.cpp:106) never signals a dead one.
ShutdownAlive ==
  /\ fin = "ack" => shutdown # NoThread
  /\ shutdown # NoThread => joining[shutdown] \in {"blocked", "woken"}

\* When join returns, and the process exits, the finalizer thread is past its
\* last finalizer.
JoinedAfterFinalizers ==
  \A t \in Thread : joining[t] = "joined" => fin = "ended"

\* The inductive invariant: the finalizer thread works only while running is
\* set, a join in progress keeps it from sleeping before it acknowledges, and
\* there is never more than one join in progress.
CoordInv ==
  /\ CoordTypeOK
  /\ RequestRecorded
  /\ ShutdownAlive
  /\ JoinedAfterFinalizers
  /\ fin \in {"invoke", "done", "ack", "ended"} => running
  /\ shutdown # NoThread => running /\ (fin \in {"invoke", "done"} => pending)
  /\ disabled <=> shutdown # NoThread \/ fin = "ended"
  /\ fin = "ended" => shutdown = NoThread
  /\ \A t \in Thread \cup {FinalizerThread} :
       joining[t] \in {"blocked", "woken", "joined"} => t = shutdown \/ fin = "ended"

\* A request is served by a run that begins after it, unless the VM shuts
\* down first.
RequestServed == unserved ~> (~unserved \/ disabled)

\* vm_shutdown terminates: the first thread to join returns from join.
ShutdownTerminates ==
  \A t \in Thread \cup {FinalizerThread} :
    joining[t] = "blocked" ~> joining[t] = "joined"
=============================================================================
