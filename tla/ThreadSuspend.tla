--------------------------- MODULE ThreadSuspend ---------------------------
(***************************************************************************)
(* Suspending and resuming threads (threads/posix/thread-posix.cpp:836-    *)
(* 1104), by Thread.suspend and Thread.resume and by the thread dump on    *)
(* SIGQUIT (threads/threadlist.cpp:47-85), while threads come and go.      *)
(*                                                                         *)
(* A suspender sends SIGUSR1 and waits until the target acknowledges from  *)
(* its signal handler.  The handler interrupts the target between any two  *)
(* of its steps; SIGUSR1 is blocked while it runs.  A step is a section    *)
(* under a mutex: a wait on a condition variable ends it, and a section in *)
(* which the thread can be interrupted or raced is split.                  *)
(***************************************************************************)

CONSTANTS
  Thread,      \* the Java threads
  Suspender,   \* those whose code calls Thread.suspend and Thread.resume
  Late,        \* those listed and runnable, but not yet created, at first
  Dumper,      \* the signal handler thread, which dumps all threads
  NoThread     \* the null pointer; a free mutex

ASSUME SuspendAssumption ==
  /\ Suspender \subseteq Thread
  /\ Late \subseteq Thread
  /\ Dumper \notin Thread
  /\ NoThread \notin Thread \cup {Dumper}

All == Thread \cup {Dumper}

VARIABLES
  tid,              \* impl.tid is set
  suspended,
  suspend_reason,
  suspendmutex,     \* who holds the suspendmutex of each thread
  sigusr1,          \* SIGUSR1 is pending for the thread
  handler,          \* the signal handler of the thread
  active,           \* the active thread list
  listmutex,        \* who holds the mutex of the list
  pc,               \* where each thread is, outside its signal handler
  call,             \* the suspend or resume call a thread is in
  todo              \* the rest of the list the dump has to visit

suspvars == <<tid, suspended, suspend_reason, suspendmutex, sigusr1, handler>>
vars == <<suspvars, active, listmutex, pc, call, todo>>

\* No call; and the call for thread t with reason r.  ok is the result of
\* suspend, which only the dump keeps.
Idle == [target |-> NoThread, reason |-> "NONE", ok |-> FALSE]
Call(t, r) == [target |-> t, reason |-> r, ok |-> FALSE]

Init ==
  /\ tid = [t \in All |-> t \notin Late]
  /\ suspended = [t \in All |-> FALSE]
  /\ suspend_reason = [t \in All |-> "NONE"]
  /\ suspendmutex = [t \in All |-> NoThread]
  /\ sigusr1 = [t \in All |-> FALSE]
  /\ handler = [t \in All |-> "no"]
  /\ active = All
  /\ listmutex = NoThread
  /\ pc = [t \in All |-> IF t \in Late THEN "listed" ELSE "run"]
  /\ call = [t \in All |-> Idle]
  /\ todo = {}

\* Thread c executes its own code at location l.
At(c, l) == pc[c] = l /\ handler[c] = "no"

Goto(c, l) == pc' = [pc EXCEPT ![c] = l]

-----------------------------------------------------------------------------
(* Start and end of a thread *)

\* pthread_create returns and has stored the thread's tid.
threads_impl_thread_start(t) ==
  /\ pc[t] = "listed"
  /\ tid' = [tid EXCEPT ![t] = TRUE]
  /\ Goto(t, "run")
  /\ UNCHANGED <<suspended, suspend_reason, suspendmutex, sigusr1, handler,
                 active, listmutex, call, todo>>

\* thread_detach_current_thread gives up the tid, under the waitmutex only.
detach_tid(t) ==
  /\ t \in Thread
  /\ At(t, "run")
  /\ tid' = [tid EXCEPT ![t] = FALSE]
  /\ Goto(t, "detach")
  /\ UNCHANGED <<suspended, suspend_reason, suspendmutex, sigusr1, handler,
                 active, listmutex, call, todo>>

detach_lock(t) ==
  /\ At(t, "detach")
  /\ listmutex = NoThread
  /\ listmutex' = t
  /\ Goto(t, "free")
  /\ UNCHANGED <<suspvars, active, call, todo>>

\* thread_free, and the list mutex is released.
detach_free(t) ==
  /\ At(t, "free")
  /\ active' = active \ {t}
  /\ listmutex' = NoThread
  /\ Goto(t, "barrier")
  /\ UNCHANGED <<suspvars, call, todo>>

\* Fault: the thread does not lock and unlock its suspendmutex at the end.
detach_barrier_missing(t) ==
  /\ At(t, "barrier")
  /\ Goto(t, "exited")
  /\ UNCHANGED <<suspvars, active, listmutex, call, todo>>

\* suspendmutex->lock() and unlock().  A signal sent by the last holder is
\* delivered before the mutex is handed over.
detach_barrier(t) ==
  /\ At(t, "barrier")
  /\ suspendmutex[t] = NoThread
  /\ ~sigusr1[t]
  /\ Goto(t, "exited")
  /\ UNCHANGED <<suspvars, active, listmutex, call, todo>>

-----------------------------------------------------------------------------
(* threads_suspend_thread *)

\* Thread c enters with the suspendmutex of the target, which was free.
Enters(c, t) == At(c, "suspend") /\ t = call[c].target /\ suspendmutex[t] = NoThread

Open(t) == ~suspended[t] /\ suspend_reason[t] = "NONE"

\* The call returns: to Java code, or to the dump.
Return(c, ok) ==
  IF c = Dumper
  THEN Goto(c, "resume") /\ call' = [call EXCEPT ![c].ok = ok]
  ELSE Goto(c, "run") /\ call' = [call EXCEPT ![c] = Idle]

suspend_refused(c, t) ==
  /\ Enters(c, t)
  /\ ~Open(t)
  /\ Return(c, FALSE)
  /\ UNCHANGED <<suspvars, active, listmutex, todo>>

\* The thread suspends itself and waits, without a signal.
suspend_self(c, t) ==
  /\ Enters(c, t)
  /\ Open(t)
  /\ c = t
  /\ suspend_reason' = [suspend_reason EXCEPT ![t] = call[c].reason]
  /\ suspended' = [suspended EXCEPT ![t] = TRUE]
  /\ Goto(c, "self")
  /\ UNCHANGED <<tid, suspendmutex, sigusr1, handler, active, listmutex, call, todo>>

suspend_no_tid(c, t) ==
  /\ Enters(c, t)
  /\ Open(t)
  /\ c # t
  /\ ~tid[t]
  /\ suspend_reason' = [suspend_reason EXCEPT ![t] = call[c].reason]
  /\ Return(c, FALSE)
  /\ UNCHANGED <<tid, suspended, suspendmutex, sigusr1, handler, active, listmutex, todo>>

\* The tid is read once; the target may give it up before the signal is sent.
suspend_begin(c, t) ==
  /\ Enters(c, t)
  /\ Open(t)
  /\ c # t
  /\ tid[t]
  /\ suspend_reason' = [suspend_reason EXCEPT ![t] = call[c].reason]
  /\ suspendmutex' = [suspendmutex EXCEPT ![t] = c]
  /\ Goto(c, "kill")
  /\ UNCHANGED <<tid, suspended, sigusr1, handler, active, listmutex, call, todo>>

\* Fault: the signal is not sent.
suspend_kill_silent(c, t) ==
  /\ At(c, "kill")
  /\ t = call[c].target
  /\ suspendmutex' = [suspendmutex EXCEPT ![t] = NoThread]
  /\ Goto(c, "ack")
  /\ UNCHANGED <<tid, suspended, suspend_reason, sigusr1, handler, active, listmutex, call, todo>>

\* pthread_kill; the wait for the acknowledgement releases the mutex.
suspend_kill(c, t) ==
  /\ At(c, "kill")
  /\ t = call[c].target
  /\ sigusr1' = [sigusr1 EXCEPT ![t] = TRUE]
  /\ suspendmutex' = [suspendmutex EXCEPT ![t] = NoThread]
  /\ Goto(c, "ack")
  /\ UNCHANGED <<tid, suspended, suspend_reason, handler, active, listmutex, call, todo>>

\* The suspender has the mutex again and finds its target suspended.
suspend_acked(c, t) ==
  /\ At(c, "ack")
  /\ t = call[c].target
  /\ suspendmutex[t] = NoThread
  /\ suspended[t]
  /\ Return(c, TRUE)
  /\ UNCHANGED <<suspvars, active, listmutex, todo>>

-----------------------------------------------------------------------------
(* The target *)

\* signal_handler_sigusr1 interrupts the thread.
signal_handler_sigusr1(t) ==
  /\ sigusr1[t]
  /\ handler[t] = "no"
  /\ pc[t] \notin {"listed", "exited"}
  /\ sigusr1' = [sigusr1 EXCEPT ![t] = FALSE]
  /\ handler' = [handler EXCEPT ![t] = "entry"]
  /\ UNCHANGED <<tid, suspended, suspend_reason, suspendmutex,
                 active, listmutex, pc, call, todo>>

\* threads_suspend_ack: the handler calls threads_suspend_self and waits.
threads_suspend_ack(t) ==
  /\ handler[t] = "entry"
  /\ suspendmutex[t] = NoThread
  /\ suspended' = [suspended EXCEPT ![t] = TRUE]
  /\ handler' = [handler EXCEPT ![t] = "wait"]
  /\ UNCHANGED <<tid, suspend_reason, suspendmutex, sigusr1,
                 active, listmutex, pc, call, todo>>

\* Fault: suspended is not reset.
suspend_self_woken_dirty(t) ==
  /\ handler[t] = "wait" \/ At(t, "self")
  /\ suspendmutex[t] = NoThread
  /\ suspend_reason[t] = "NONE"
  /\ IF handler[t] = "wait"
     THEN handler' = [handler EXCEPT ![t] = "no"] /\ UNCHANGED <<pc, call>>
     ELSE Return(t, TRUE) /\ UNCHANGED handler
  /\ UNCHANGED <<tid, suspended, suspend_reason, suspendmutex, sigusr1, active, listmutex, todo>>

\* The wait in threads_suspend_self ends, in the handler or in the call.
suspend_self_woken(t) ==
  /\ handler[t] = "wait" \/ At(t, "self")
  /\ suspendmutex[t] = NoThread
  /\ suspend_reason[t] = "NONE"
  /\ suspended' = [suspended EXCEPT ![t] = FALSE]
  /\ IF handler[t] = "wait"
     THEN handler' = [handler EXCEPT ![t] = "no"] /\ UNCHANGED <<pc, call>>
     ELSE Return(t, TRUE) /\ UNCHANGED handler
  /\ UNCHANGED <<tid, suspend_reason, suspendmutex, sigusr1, active, listmutex, todo>>

-----------------------------------------------------------------------------
(* threads_resume_thread *)

\* The call returns: to Java code, or to the loop of the dump.
Resumed(c) ==
  /\ Goto(c, IF c = Dumper THEN "next" ELSE "run")
  /\ call' = [call EXCEPT ![c] = Idle]

\* Fault: the reason is not compared.
threads_resume_thread_any(c, t) ==
  /\ At(c, "resume")
  /\ t = call[c].target
  /\ suspendmutex[t] = NoThread
  /\ suspend_reason' = [suspend_reason EXCEPT ![t] = IF suspended[t] THEN "NONE" ELSE @]
  /\ Resumed(c)
  /\ UNCHANGED <<tid, suspended, suspendmutex, sigusr1, handler, active, listmutex, todo>>

\* Fault: nothing is compared, and a thread only about to suspend is resumed.
threads_resume_thread_blind(c, t) ==
  /\ At(c, "resume")
  /\ t = call[c].target
  /\ suspendmutex[t] = NoThread
  /\ suspend_reason' = [suspend_reason EXCEPT ![t] = "NONE"]
  /\ Resumed(c)
  /\ UNCHANGED <<tid, suspended, suspendmutex, sigusr1, handler, active, listmutex, todo>>

threads_resume_thread(c, t) ==
  /\ At(c, "resume")
  /\ t = call[c].target
  /\ suspendmutex[t] = NoThread
  /\ suspend_reason' = [suspend_reason EXCEPT ![t] =
                          IF suspended[t] /\ @ = call[c].reason THEN "NONE" ELSE @]
  /\ Resumed(c)
  /\ UNCHANGED <<tid, suspended, suspendmutex, sigusr1, handler, active, listmutex, todo>>

-----------------------------------------------------------------------------
(* The callers *)

\* JVM_SuspendThread: the target has internal thread data, or is refused.
JVM_SuspendThread(c, t) ==
  /\ c \in Suspender
  /\ At(c, "run")
  /\ t \in active
  /\ t # Dumper
  /\ Goto(c, "suspend")
  /\ call' = [call EXCEPT ![c] = Call(t, "JAVA")]
  /\ UNCHANGED <<suspvars, active, listmutex, todo>>

\* JVM_ResumeThread; a thread that runs does not resume itself.
JVM_ResumeThread(c, t) ==
  /\ c \in Suspender
  /\ At(c, "run")
  /\ t \in active \ {c, Dumper}
  /\ Goto(c, "resume")
  /\ call' = [call EXCEPT ![c] = Call(t, "JAVA")]
  /\ UNCHANGED <<suspvars, active, listmutex, todo>>

\* signal_thread_handler gets SIGQUIT and calls dump_threads.
signal_thread_handler ==
  /\ At(Dumper, "run")
  /\ Goto(Dumper, "dump")
  /\ UNCHANGED <<suspvars, active, listmutex, call, todo>>

dump_lock ==
  /\ At(Dumper, "dump")
  /\ listmutex = NoThread
  /\ listmutex' = Dumper
  /\ todo' = active \ {Dumper}
  /\ Goto(Dumper, "next")
  /\ UNCHANGED <<suspvars, active, call>>

\* Fault: the loop does not advance.
dump_next_again(t) ==
  /\ At(Dumper, "next")
  /\ t \in todo
  /\ Goto(Dumper, "suspend")
  /\ call' = [call EXCEPT ![Dumper] = Call(t, "DUMP")]
  /\ UNCHANGED <<suspvars, active, listmutex, todo>>

\* The loop visits the next thread, and suspends it.
dump_next(t) ==
  /\ At(Dumper, "next")
  /\ t \in todo
  /\ todo' = todo \ {t}
  /\ Goto(Dumper, "suspend")
  /\ call' = [call EXCEPT ![Dumper] = Call(t, "DUMP")]
  /\ UNCHANGED <<suspvars, active, listmutex>>

dump_done ==
  /\ At(Dumper, "next")
  /\ todo = {}
  /\ listmutex' = NoThread
  /\ Goto(Dumper, "run")
  /\ UNCHANGED <<suspvars, active, call, todo>>

-----------------------------------------------------------------------------
\* The steps of a call once it has begun.
CallStep(c, t) ==
  \/ suspend_refused(c, t) \/ suspend_self(c, t) \/ suspend_no_tid(c, t)
  \/ suspend_begin(c, t) \/ suspend_kill(c, t) \/ suspend_acked(c, t)
  \/ threads_resume_thread(c, t)

HandlerStep(t) ==
  signal_handler_sigusr1(t) \/ threads_suspend_ack(t) \/ suspend_self_woken(t)

DetachStep(t) == detach_lock(t) \/ detach_free(t) \/ detach_barrier(t)

DumpStep == dump_lock \/ (\E t \in Thread : dump_next(t)) \/ dump_done

Next ==
  \/ \E c \in All, t \in All : CallStep(c, t)
  \/ \E t \in All : HandlerStep(t)
  \/ \E t \in Thread :
       \/ threads_impl_thread_start(t) \/ detach_tid(t) \/ DetachStep(t)
  \/ \E c \in Thread, t \in Thread : JVM_SuspendThread(c, t) \/ JVM_ResumeThread(c, t)
  \/ signal_thread_handler
  \/ DumpStep

Spec == Init /\ [][Next]_vars

\* Threads are scheduled, signals arrive, calls in progress go on, and a mutex
\* that becomes free again and again is obtained; nothing says that a program
\* suspends or resumes, or that a thread ends.
Fairness ==
  /\ \A c \in All : SF_vars(\E t \in All : CallStep(c, t))
  /\ \A t \in All : SF_vars(HandlerStep(t))
  /\ \A t \in Thread : SF_vars(DetachStep(t))
  /\ SF_vars(DumpStep)

FairSpec == Spec /\ Fairness

-----------------------------------------------------------------------------
(* Properties *)

Location == {"listed", "run", "suspend", "kill", "ack", "self", "resume",
             "detach", "free", "barrier", "exited", "dump", "next"}

CallRecord == [target : All \cup {NoThread}, reason : {"NONE", "JAVA", "DUMP"},
               ok : BOOLEAN]

\* Every variable has its type.
TypeOK ==
  /\ tid \in [All -> BOOLEAN]
  /\ suspended \in [All -> BOOLEAN]
  /\ suspend_reason \in [All -> {"NONE", "JAVA", "DUMP"}]
  /\ suspendmutex \in [All -> All \cup {NoThread}]
  /\ sigusr1 \in [All -> BOOLEAN]
  /\ handler \in [All -> {"no", "entry", "wait"}]
  /\ active \subseteq All
  /\ listmutex \in All \cup {NoThread}
  /\ pc \in [All -> Location]
  /\ call \in [All -> CallRecord]
  /\ todo \subseteq Thread

\* No signal is sent to, or left pending for, a thread that has exited: the
\* lock and unlock of the suspendmutex at the end of
\* thread_detach_current_thread (thread-posix.cpp:956-957) waits for every
\* suspender that has seen the tid.
SignalsToLive ==
  \A t \in All : pc[t] = "exited" =>
    /\ ~sigusr1[t]
    /\ handler[t] = "no"
    /\ \A c \in All : ~(pc[c] = "kill" /\ call[c].target = t)

\* The assertions of threads_suspend_self (thread-posix.cpp:977-978 and
\* 999-1000): on entry the thread is not suspended and has a reason to be;
\* it stays marked as suspended until it has woken up.
SuspendSelfAsserts ==
  \A t \in All :
    /\ handler[t] = "entry" => ~suspended[t] /\ suspend_reason[t] # "NONE"
    /\ handler[t] = "wait" \/ pc[t] = "self" => suspended[t]

\* When suspend reports success to the dump, the thread is stopped, and stays
\* stopped until the dump resumes it, whatever Java code asks for
\* (threadlist.cpp:67-83).
DumpSeesStopped ==
  pc[Dumper] = "resume" /\ call[Dumper].ok =>
    LET t == call[Dumper].target IN
    /\ suspended[t] /\ suspend_reason[t] = "DUMP"
    /\ handler[t] = "wait"

\* A reason without the mark means that the suspension of a live thread is on
\* its way (comment at thread-posix.cpp:1030), if nobody tried to suspend the
\* thread before it was created.
InProcess ==
  \A t \in All \ Late : tid[t] /\ suspend_reason[t] # "NONE" /\ ~suspended[t] =>
    \/ sigusr1[t] \/ handler[t] = "entry"
    \/ \E c \in All : pc[c] = "kill" /\ call[c].target = t

\* The inductive invariant.  Only the suspender that has set the reason sends
\* the signal, with the suspendmutex held; a suspension in flight is in one
\* place, keeps others out and keeps the thread from exiting; a thread marked
\* as suspended waits in its handler or in its own call.
Sending(c, t) == pc[c] = "kill" /\ call[c].target = t

InFlight(t) == sigusr1[t] \/ handler[t] = "entry" \/ suspendmutex[t] # NoThread

CallInv(c) ==
  /\ pc[c] \in {"suspend", "kill", "ack", "self", "resume"} => call[c].target \in All
  /\ pc[c] \in {"suspend", "kill", "ack"} => call[c].reason # "NONE"
  /\ \A t \in All : suspendmutex[t] = c <=> Sending(c, t)
  /\ c # Dumper => call[c].reason # "DUMP"

StateInv(t) ==
  /\ InFlight(t) => ~suspended[t] /\ suspend_reason[t] # "NONE" /\ pc[t] # "exited"
  /\ sigusr1[t] => handler[t] # "entry" /\ suspendmutex[t] = NoThread
  /\ handler[t] = "entry" => suspendmutex[t] = NoThread
  /\ suspended[t] <=> handler[t] = "wait" \/ pc[t] = "self"
  /\ handler[t] # "no" => pc[t] \notin {"self", "exited"}
  /\ tid[t] => pc[t] \notin {"listed", "detach", "free", "barrier", "exited"}
  /\ pc[t] = "listed" => t \in Late
  /\ pc[t] = "self" => suspend_reason[t] # "DUMP"
  /\ t \notin Late /\ tid[t] /\ suspend_reason[t] # "NONE" /\ ~suspended[t] => InFlight(t)

DumpInv ==
  /\ pc[Dumper] \notin {"self", "detach", "free", "barrier", "listed"}
  /\ pc[Dumper] \in {"suspend", "kill", "ack", "resume"} => call[Dumper].target # Dumper
  /\ pc[Dumper] \in {"kill", "ack"} => suspend_reason[call[Dumper].target] = "DUMP"
  /\ pc[Dumper] = "suspend" => call[Dumper].reason = "DUMP"
  /\ DumpSeesStopped

SuspendInv ==
  TypeOK /\ (\A c \in All : CallInv(c)) /\ (\A t \in All : StateInv(t)) /\ DumpInv

\* Every thread dump comes to an end, unless Thread.suspend has stopped a thread
\* while it holds the mutex of the thread list (thread-posix.cpp:944).
DumpTerminates ==
  []<>(\/ pc[Dumper] = "run"
       \/ \E t \in Thread :
            listmutex = t /\ suspended[t] /\ suspend_reason[t] = "JAVA")

\* A thread that has been resumed runs again.
ResumedRuns ==
  \A t \in All : suspended[t] /\ suspend_reason[t] = "NONE" ~> ~suspended[t]

\* The acknowledgement a suspender waits for (thread-posix.cpp:1049) stays until
\* the suspender has seen it.
AckSeen ==
  [][\A c \in All, t \in All :
       pc[c] = "ack" /\ call[c].target = t /\ suspended[t] =>
         suspended'[t] \/ pc'[c] # "ack"]_vars
=============================================================================
