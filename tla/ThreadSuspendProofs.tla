------------------------ MODULE ThreadSuspendProofs ------------------------
(***************************************************************************)
(* Proofs about ThreadSuspend: SuspendInv is inductive, for any sets of    *)
(* threads, suspenders and threads not yet created.  There is a lemma for  *)
(* each action that touches the suspension state, with one step for each   *)
(* part of the invariant.                                                  *)
(***************************************************************************)
EXTENDS ThreadSuspend, TLAPS

\* A suspend call returns to a place, and with a call, of the right type.
LEMMA ReturnType ==
  ASSUME TypeOK, NEW c \in All, NEW ok \in BOOLEAN, Return(c, ok)
  PROVE  pc' \in [All -> Location] /\ call' \in [All -> CallRecord]
<1>1. call[c] \in CallRecord
  BY Zenon DEF TypeOK
<1>2. [call[c] EXCEPT !.ok = ok] \in CallRecord /\ Idle \in CallRecord
  BY Zenon, <1>1 DEF Idle, CallRecord
<1>3. \/ call' = [call EXCEPT ![c] = [call[c] EXCEPT !.ok = ok]]
      \/ call' = [call EXCEPT ![c] = Idle]
  BY Zenon DEF Return
<1>4. pc' = [pc EXCEPT ![c] = "resume"] \/ pc' = [pc EXCEPT ![c] = "run"]
  BY Zenon DEF Return, Goto
<1>5. pc' \in [All -> Location]
  BY Zenon, <1>4 DEF TypeOK, Location
<1> QED BY Zenon, <1>2, <1>3, <1>5 DEF TypeOK

\* A call that finds a suspension in force or in progress changes nothing.
LEMMA suspend_refused_Inv ==
  ASSUME SuspendInv, NEW c \in All, NEW t \in All, suspend_refused(c, t)
  PROVE  SuspendInv'
<1> USE SuspendAssumption DEF suspend_refused, Goto, At, suspvars, Enters, Open, Return, Idle
<1>1. TypeOK'
  <2>1. pc' \in [All -> Location] /\ call' \in [All -> CallRecord]
    <3>1. TypeOK /\ Return(c, FALSE)
      BY Zenon DEF SuspendInv
    <3> QED BY Zenon, <3>1, ReturnType
  <2> QED BY Zenon, <2>1 DEF SuspendInv, TypeOK, CallRecord
<1>2. ASSUME NEW d \in All PROVE CallInv(d)'
  BY DEF SuspendInv, TypeOK, Location, CallRecord, CallInv, Sending, All
<1>3. ASSUME NEW u \in All PROVE StateInv(u)'
  BY DEF SuspendInv, TypeOK, Location, CallRecord, CallInv, StateInv, InFlight, Sending, All
<1>4. DumpInv'
  BY DEF SuspendInv, TypeOK, Location, CallRecord, CallInv, StateInv, DumpInv, DumpSeesStopped, All
<1> QED BY Zenon, <1>1, <1>2, <1>3, <1>4 DEF SuspendInv

\* A thread that suspends itself waits, marked as suspended.
LEMMA suspend_self_Inv ==
  ASSUME SuspendInv, NEW c \in All, NEW t \in All, suspend_self(c, t)
  PROVE  SuspendInv'
<1>0. /\ c = t /\ pc[t] = "suspend" /\ handler[t] = "no" /\ call[t].target = t
      /\ suspendmutex[t] = NoThread
      /\ pc' = [pc EXCEPT ![t] = "self"]
      /\ suspended' = [suspended EXCEPT ![t] = TRUE]
      /\ suspend_reason' = [suspend_reason EXCEPT ![t] = call[t].reason]
      /\ UNCHANGED <<tid, suspendmutex, sigusr1, handler, active, listmutex, call, todo>>
  BY Zenon DEF suspend_self, Goto, At, Enters, Open
<1>a. ~suspended[t] /\ suspend_reason[t] = "NONE"
  BY Zenon DEF suspend_self, Open
<1>b. TypeOK /\ CallInv(t) /\ StateInv(t) /\ DumpInv
  BY Zenon DEF SuspendInv
<1>c. t # Dumper /\ call[t].reason \in {"JAVA"}
  <2>1. call[t].reason \in {"NONE", "JAVA", "DUMP"}
    BY Zenon, <1>b DEF TypeOK, CallRecord
  <2> QED BY Zenon, <1>0, <1>b, <2>1 DEF DumpInv, CallInv
<1>1. TypeOK'
  BY Zenon, <1>0, <1>b, <1>c DEF TypeOK, Location
<1>2. ASSUME NEW d \in All PROVE CallInv(d)'
  <2>1. CallInv(d) /\ (d # t => pc'[d] = pc[d]) /\ pc'[t] = "self"
    BY Zenon, <1>0, <1>b DEF SuspendInv, TypeOK
  <2>2. \A u \in All : Sending(d, u)' <=> Sending(d, u)
    BY Zenon, <1>0, <2>1 DEF Sending
  <2> QED BY Zenon, <1>0, <2>1, <2>2 DEF CallInv
<1>3. ASSUME NEW u \in All PROVE StateInv(u)'
  <2>1. StateInv(u) /\ (InFlight(u)' <=> InFlight(u))
    BY Zenon, <1>0 DEF SuspendInv, InFlight
  <2>2. CASE u = t
    <3>1. pc'[t] = "self" /\ suspended'[t] /\ suspend_reason'[t] = "JAVA"
      BY Zenon, <1>0, <1>b, <1>c DEF TypeOK
    <3>2. ~InFlight(t)
      BY Zenon, <1>a, <1>b DEF StateInv
    <3> QED BY Zenon, <1>0, <1>b, <2>1, <2>2, <3>1, <3>2 DEF StateInv
  <2>3. CASE u # t
    <3>1. pc'[u] = pc[u] /\ suspended'[u] = suspended[u] /\ suspend_reason'[u] = suspend_reason[u]
      BY Zenon, <1>0, <1>b, <2>3 DEF TypeOK
    <3> QED BY ZenonT(60), <1>0, <2>1, <3>1 DEF StateInv
  <2> QED BY Zenon, <2>2, <2>3
<1>4. DumpInv'
  <2>1. pc'[Dumper] = pc[Dumper]
    BY Zenon, <1>0, <1>b, <1>c, SuspendAssumption DEF TypeOK, All
  <2>2. pc[Dumper] \in {"kill", "ack", "resume"} => call[Dumper].target \in All
    BY Zenon, SuspendAssumption DEF SuspendInv, CallInv, All
  <2>3. \A u \in All : suspend_reason[u] # "NONE" =>
          suspended'[u] = suspended[u] /\ suspend_reason'[u] = suspend_reason[u]
    BY Zenon, <1>0, <1>a, <1>b DEF TypeOK
  <2> QED BY ZenonT(60), <1>0, <1>b, <2>1, <2>2, <2>3 DEF DumpInv, DumpSeesStopped
<1> QED BY Zenon, <1>1, <1>2, <1>3, <1>4 DEF SuspendInv

\* A call for a thread without a tid leaves the reason behind; such a thread is
\* never signalled.
LEMMA suspend_no_tid_Inv ==
  ASSUME SuspendInv, NEW c \in All, NEW t \in All, suspend_no_tid(c, t)
  PROVE  SuspendInv'
<1> USE SuspendAssumption DEF suspend_no_tid, Goto, At, suspvars, Enters, Open, Return, Idle
<1>1. TypeOK'
  <2>1. pc' \in [All -> Location] /\ call' \in [All -> CallRecord]
    <3>1. TypeOK /\ Return(c, FALSE)
      BY Zenon DEF SuspendInv
    <3> QED BY Zenon, <3>1, ReturnType
  <2> QED BY Zenon, <2>1 DEF SuspendInv, TypeOK, CallRecord
<1>2. ASSUME NEW d \in All PROVE CallInv(d)'
  BY SMTT(30) DEF SuspendInv, TypeOK, Location, CallRecord, CallInv, Sending, All
<1>3. ASSUME NEW u \in All PROVE StateInv(u)'
  BY DEF SuspendInv, TypeOK, Location, CallRecord, CallInv, StateInv, InFlight, Sending, All
<1>4. DumpInv'
  BY DEF SuspendInv, TypeOK, Location, CallRecord, CallInv, StateInv, DumpInv, DumpSeesStopped, All
<1> QED BY Zenon, <1>1, <1>2, <1>3, <1>4 DEF SuspendInv

\* A call for a live thread closes it to other suspenders.
LEMMA suspend_begin_Inv ==
  ASSUME SuspendInv, NEW c \in All, NEW t \in All, suspend_begin(c, t)
  PROVE  SuspendInv'
<1> USE SuspendAssumption DEF suspend_begin, Goto, At, suspvars, Enters, Open, Return
<1>1. TypeOK'
  BY Zenon DEF SuspendInv, TypeOK, Location, CallRecord, All
<1>2. ASSUME NEW d \in All PROVE CallInv(d)'
  BY DEF SuspendInv, TypeOK, Location, CallRecord, CallInv, Sending, All
<1>3. ASSUME NEW u \in All PROVE StateInv(u)'
  BY DEF SuspendInv, TypeOK, Location, CallRecord, CallInv, StateInv, InFlight, Sending, All
<1>4. DumpInv'
  BY Zenon DEF SuspendInv, TypeOK, Location, CallRecord, CallInv, StateInv, DumpInv, DumpSeesStopped, All
<1> QED BY Zenon, <1>1, <1>2, <1>3, <1>4 DEF SuspendInv

\* The signal takes the place of the mutex as the suspension in flight.
LEMMA suspend_kill_Inv ==
  ASSUME SuspendInv, NEW c \in All, NEW t \in All, suspend_kill(c, t)
  PROVE  SuspendInv'
<1> USE SuspendAssumption DEF suspend_kill, Goto, At, suspvars, Enters, Open, Return, Idle
<1>1. TypeOK'
  BY Zenon DEF SuspendInv, TypeOK, Location, CallRecord, All
<1>2. ASSUME NEW d \in All PROVE CallInv(d)'
  BY DEF SuspendInv, TypeOK, Location, CallRecord, CallInv, Sending, All
<1>3. ASSUME NEW u \in All PROVE StateInv(u)'
  BY DEF SuspendInv, TypeOK, Location, CallRecord, CallInv, StateInv, InFlight, Sending, All
<1>4. DumpInv'
  BY Zenon DEF SuspendInv, TypeOK, Location, CallRecord, CallInv, StateInv, DumpInv, DumpSeesStopped, All
<1> QED BY Zenon, <1>1, <1>2, <1>3, <1>4 DEF SuspendInv

\* A suspender returns; for the dump, the thread it sees suspended waits in its
\* handler for the dump.
LEMMA suspend_acked_Inv ==
  ASSUME SuspendInv, NEW c \in All, NEW t \in All, suspend_acked(c, t)
  PROVE  SuspendInv'
<1> USE SuspendAssumption DEF suspend_acked, Goto, At, suspvars, Enters, Open, Return, Idle
<1>1. TypeOK'
  <2>1. pc' \in [All -> Location] /\ call' \in [All -> CallRecord]
    <3>1. TypeOK /\ Return(c, TRUE)
      BY Zenon DEF SuspendInv
    <3> QED BY Zenon, <3>1, ReturnType
  <2> QED BY Zenon, <2>1 DEF SuspendInv, TypeOK, CallRecord
<1>2. ASSUME NEW d \in All PROVE CallInv(d)'
  BY DEF SuspendInv, TypeOK, Location, CallRecord, CallInv, Sending, All
<1>3. ASSUME NEW u \in All PROVE StateInv(u)'
  BY DEF SuspendInv, TypeOK, Location, CallRecord, CallInv, StateInv, InFlight, Sending, All
<1>4. DumpInv'
  BY DEF SuspendInv, TypeOK, Location, CallRecord, CallInv, StateInv, DumpInv, DumpSeesStopped, All
<1> QED BY Zenon, <1>1, <1>2, <1>3, <1>4 DEF SuspendInv

\* Only a suspended thread is resumed, and only for its own reason.
LEMMA threads_resume_thread_Inv ==
  ASSUME SuspendInv, NEW c \in All, NEW t \in All, threads_resume_thread(c, t)
  PROVE  SuspendInv'
<1> USE SuspendAssumption DEF threads_resume_thread, Goto, At, suspvars, Resumed, Idle
<1>1. TypeOK'
  BY Zenon DEF SuspendInv, TypeOK, Location, CallRecord, All
<1>2. ASSUME NEW d \in All PROVE CallInv(d)'
  BY DEF SuspendInv, TypeOK, Location, CallRecord, CallInv, Sending, All
<1>3. ASSUME NEW u \in All PROVE StateInv(u)'
  BY DEF SuspendInv, TypeOK, Location, CallRecord, CallInv, StateInv, InFlight, Sending, All
<1>4. DumpInv'
  BY DEF SuspendInv, TypeOK, Location, CallRecord, CallInv, StateInv, DumpInv, DumpSeesStopped, All
<1> QED BY Zenon, <1>1, <1>2, <1>3, <1>4 DEF SuspendInv

\* The handler starts.
LEMMA signal_handler_sigusr1_Inv ==
  ASSUME SuspendInv, NEW t \in All, signal_handler_sigusr1(t)
  PROVE  SuspendInv'
<1> USE SuspendAssumption DEF signal_handler_sigusr1, Goto, At, suspvars
<1>1. TypeOK'
  BY Zenon DEF SuspendInv, TypeOK, Location, CallRecord, All
<1>2. ASSUME NEW d \in All PROVE CallInv(d)'
  BY DEF SuspendInv, TypeOK, Location, CallRecord, CallInv, Sending, All
<1>3. ASSUME NEW u \in All PROVE StateInv(u)'
  BY DEF SuspendInv, TypeOK, Location, CallRecord, CallInv, StateInv, InFlight, Sending, All
<1>4. DumpInv'
  BY Zenon DEF SuspendInv, TypeOK, Location, CallRecord, CallInv, StateInv, DumpInv, DumpSeesStopped, All
<1> QED BY Zenon, <1>1, <1>2, <1>3, <1>4 DEF SuspendInv

\* The target acknowledges.
LEMMA threads_suspend_ack_Inv ==
  ASSUME SuspendInv, NEW t \in All, threads_suspend_ack(t)
  PROVE  SuspendInv'
<1> USE SuspendAssumption DEF threads_suspend_ack, Goto, At, suspvars
<1>1. TypeOK'
  BY Zenon DEF SuspendInv, TypeOK, Location, CallRecord, All
<1>2. ASSUME NEW d \in All PROVE CallInv(d)'
  BY DEF SuspendInv, TypeOK, Location, CallRecord, CallInv, Sending, All
<1>3. ASSUME NEW u \in All PROVE StateInv(u)'
  BY DEF SuspendInv, TypeOK, Location, CallRecord, CallInv, StateInv, InFlight, Sending, All
<1>4. DumpInv'
  BY Zenon DEF SuspendInv, TypeOK, Location, CallRecord, CallInv, StateInv, DumpInv, DumpSeesStopped, All
<1> QED BY Zenon, <1>1, <1>2, <1>3, <1>4 DEF SuspendInv

\* The target runs again, when nobody wants it suspended.
LEMMA suspend_self_woken_Inv ==
  ASSUME SuspendInv, NEW t \in All, suspend_self_woken(t)
  PROVE  SuspendInv'
<1> USE SuspendAssumption DEF suspend_self_woken, Goto, At, suspvars, Return, Idle
<1>1. TypeOK'
  <2>1. pc' \in [All -> Location] /\ call' \in [All -> CallRecord]
    <3>1. TypeOK /\ (Return(t, TRUE) \/ UNCHANGED <<pc, call>>)
      BY Zenon DEF SuspendInv
    <3> QED BY Zenon, <3>1, ReturnType DEF TypeOK
  <2> QED BY Zenon, <2>1 DEF SuspendInv, TypeOK
<1>2. ASSUME NEW d \in All PROVE CallInv(d)'
  BY DEF SuspendInv, TypeOK, Location, CallRecord, CallInv, Sending, All
<1>3. ASSUME NEW u \in All PROVE StateInv(u)'
  BY DEF SuspendInv, TypeOK, Location, CallRecord, CallInv, StateInv, InFlight, Sending, All
<1>4. DumpInv'
  BY DEF SuspendInv, TypeOK, Location, CallRecord, CallInv, StateInv, DumpInv, DumpSeesStopped, All
<1> QED BY Zenon, <1>1, <1>2, <1>3, <1>4 DEF SuspendInv

\* A new thread gets its tid.
LEMMA threads_impl_thread_start_Inv ==
  ASSUME SuspendInv, NEW t \in Thread, threads_impl_thread_start(t)
  PROVE  SuspendInv'
<1> USE SuspendAssumption DEF threads_impl_thread_start, Goto, At, suspvars
<1>1. TypeOK'
  BY Zenon DEF SuspendInv, TypeOK, Location, CallRecord, All
<1>2. ASSUME NEW d \in All PROVE CallInv(d)'
  BY DEF SuspendInv, TypeOK, Location, CallRecord, CallInv, Sending, All
<1>3. ASSUME NEW u \in All PROVE StateInv(u)'
  BY Zenon DEF SuspendInv, TypeOK, Location, CallRecord, CallInv, StateInv, InFlight, Sending, All
<1>4. DumpInv'
  BY Zenon DEF SuspendInv, TypeOK, Location, CallRecord, CallInv, StateInv, DumpInv, DumpSeesStopped, All
<1> QED BY Zenon, <1>1, <1>2, <1>3, <1>4 DEF SuspendInv

\* A thread that ends gives up its tid.
LEMMA detach_tid_Inv ==
  ASSUME SuspendInv, NEW t \in Thread, detach_tid(t)
  PROVE  SuspendInv'
<1> USE SuspendAssumption DEF detach_tid, Goto, At, suspvars
<1>1. TypeOK'
  BY Zenon DEF SuspendInv, TypeOK, Location, CallRecord, All
<1>2. ASSUME NEW d \in All PROVE CallInv(d)'
  BY DEF SuspendInv, TypeOK, Location, CallRecord, CallInv, Sending, All
<1>3. ASSUME NEW u \in All PROVE StateInv(u)'
  BY Zenon DEF SuspendInv, TypeOK, Location, CallRecord, CallInv, StateInv, InFlight, Sending, All
<1>4. DumpInv'
  BY Zenon DEF SuspendInv, TypeOK, Location, CallRecord, CallInv, StateInv, DumpInv, DumpSeesStopped, All
<1> QED BY Zenon, <1>1, <1>2, <1>3, <1>4 DEF SuspendInv

\* A thread exits only when no suspension is in flight.
LEMMA detach_barrier_Inv ==
  ASSUME SuspendInv, NEW t \in Thread, detach_barrier(t)
  PROVE  SuspendInv'
<1> USE SuspendAssumption DEF detach_barrier, Goto, At, suspvars
<1>1. TypeOK'
  BY Zenon DEF SuspendInv, TypeOK, Location, CallRecord, All
<1>2. ASSUME NEW d \in All PROVE CallInv(d)'
  BY DEF SuspendInv, TypeOK, Location, CallRecord, CallInv, Sending, All
<1>3. ASSUME NEW u \in All PROVE StateInv(u)'
  BY DEF SuspendInv, TypeOK, Location, CallRecord, CallInv, StateInv, InFlight, Sending, All
<1>4. DumpInv'
  BY Zenon DEF SuspendInv, TypeOK, Location, CallRecord, CallInv, StateInv, DumpInv, DumpSeesStopped, All
<1> QED BY Zenon, <1>1, <1>2, <1>3, <1>4 DEF SuspendInv

\* Thread.suspend enters the call.
LEMMA JVM_SuspendThread_Inv ==
  ASSUME SuspendInv, NEW c \in Thread, NEW t \in Thread, JVM_SuspendThread(c, t)
  PROVE  SuspendInv'
<1> USE SuspendAssumption DEF JVM_SuspendThread, Goto, At, suspvars, Call
<1>1. TypeOK'
  BY Zenon DEF SuspendInv, TypeOK, Location, CallRecord, All
<1>2. ASSUME NEW d \in All PROVE CallInv(d)'
  BY DEF SuspendInv, TypeOK, Location, CallRecord, CallInv, Sending, All
<1>3. ASSUME NEW u \in All PROVE StateInv(u)'
  BY Zenon DEF SuspendInv, TypeOK, Location, CallRecord, CallInv, StateInv, InFlight, Sending, All
<1>4. DumpInv'
  BY Zenon DEF SuspendInv, TypeOK, Location, CallRecord, CallInv, StateInv, DumpInv, DumpSeesStopped, All
<1> QED BY Zenon, <1>1, <1>2, <1>3, <1>4 DEF SuspendInv

\* Thread.resume enters the call.
LEMMA JVM_ResumeThread_Inv ==
  ASSUME SuspendInv, NEW c \in Thread, NEW t \in Thread, JVM_ResumeThread(c, t)
  PROVE  SuspendInv'
<1> USE SuspendAssumption DEF JVM_ResumeThread, Goto, At, suspvars, Call
<1>1. TypeOK'
  BY Zenon DEF SuspendInv, TypeOK, Location, CallRecord, All
<1>2. ASSUME NEW d \in All PROVE CallInv(d)'
  BY DEF SuspendInv, TypeOK, Location, CallRecord, CallInv, Sending, All
<1>3. ASSUME NEW u \in All PROVE StateInv(u)'
  BY Zenon DEF SuspendInv, TypeOK, Location, CallRecord, CallInv, StateInv, InFlight, Sending, All
<1>4. DumpInv'
  BY Zenon DEF SuspendInv, TypeOK, Location, CallRecord, CallInv, StateInv, DumpInv, DumpSeesStopped, All
<1> QED BY Zenon, <1>1, <1>2, <1>3, <1>4 DEF SuspendInv

\* A thread that ends takes the list mutex.
LEMMA detach_lock_Inv ==
  ASSUME SuspendInv, NEW t \in Thread, detach_lock(t)
  PROVE  SuspendInv'
<1> USE SuspendAssumption DEF detach_lock, Goto, At, suspvars
<1>1. TypeOK'
  BY Zenon DEF SuspendInv, TypeOK, Location, CallRecord, All
<1>2. ASSUME NEW d \in All PROVE CallInv(d)'
  BY DEF SuspendInv, TypeOK, Location, CallRecord, CallInv, Sending, All
<1>3. ASSUME NEW u \in All PROVE StateInv(u)'
  BY DEF SuspendInv, TypeOK, Location, CallRecord, CallInv, StateInv, InFlight, Sending, All
<1>4. DumpInv'
  BY Zenon DEF SuspendInv, TypeOK, Location, CallRecord, CallInv, StateInv, DumpInv, DumpSeesStopped, All
<1> QED BY Zenon, <1>1, <1>2, <1>3, <1>4 DEF SuspendInv

\* A thread that ends leaves the list.
LEMMA detach_free_Inv ==
  ASSUME SuspendInv, NEW t \in Thread, detach_free(t)
  PROVE  SuspendInv'
<1> USE SuspendAssumption DEF detach_free, Goto, At, suspvars
<1>1. TypeOK'
  BY Zenon DEF SuspendInv, TypeOK, Location, CallRecord, All
<1>2. ASSUME NEW d \in All PROVE CallInv(d)'
  BY DEF SuspendInv, TypeOK, Location, CallRecord, CallInv, Sending, All
<1>3. ASSUME NEW u \in All PROVE StateInv(u)'
  BY DEF SuspendInv, TypeOK, Location, CallRecord, CallInv, StateInv, InFlight, Sending, All
<1>4. DumpInv'
  BY Zenon DEF SuspendInv, TypeOK, Location, CallRecord, CallInv, StateInv, DumpInv, DumpSeesStopped, All
<1> QED BY Zenon, <1>1, <1>2, <1>3, <1>4 DEF SuspendInv

\* The signal thread starts a dump.
LEMMA signal_thread_handler_Inv ==
  ASSUME SuspendInv, signal_thread_handler
  PROVE  SuspendInv'
<1> USE SuspendAssumption DEF signal_thread_handler, Goto, At, suspvars
<1>1. TypeOK'
  BY Zenon DEF SuspendInv, TypeOK, Location, CallRecord, All
<1>2. ASSUME NEW d \in All PROVE CallInv(d)'
  BY DEF SuspendInv, TypeOK, Location, CallRecord, CallInv, Sending, All
<1>3. ASSUME NEW u \in All PROVE StateInv(u)'
  BY Zenon DEF SuspendInv, TypeOK, Location, CallRecord, CallInv, StateInv, InFlight, Sending, All
<1>4. DumpInv'
  BY Zenon DEF SuspendInv, TypeOK, Location, CallRecord, CallInv, StateInv, DumpInv, DumpSeesStopped, All
<1> QED BY Zenon, <1>1, <1>2, <1>3, <1>4 DEF SuspendInv

\* The dump takes the list mutex and the list.
LEMMA dump_lock_Inv ==
  ASSUME SuspendInv, dump_lock
  PROVE  SuspendInv'
<1> USE SuspendAssumption DEF dump_lock, Goto, At, suspvars
<1>1. TypeOK'
  BY Zenon DEF SuspendInv, TypeOK, Location, CallRecord, All
<1>2. ASSUME NEW d \in All PROVE CallInv(d)'
  BY DEF SuspendInv, TypeOK, Location, CallRecord, CallInv, Sending, All
<1>3. ASSUME NEW u \in All PROVE StateInv(u)'
  BY Zenon DEF SuspendInv, TypeOK, Location, CallRecord, CallInv, StateInv, InFlight, Sending, All
<1>4. DumpInv'
  BY Zenon DEF SuspendInv, TypeOK, Location, CallRecord, CallInv, StateInv, DumpInv, DumpSeesStopped, All
<1> QED BY Zenon, <1>1, <1>2, <1>3, <1>4 DEF SuspendInv

\* The dump visits a thread.
LEMMA dump_next_Inv ==
  ASSUME SuspendInv, NEW t \in Thread, dump_next(t)
  PROVE  SuspendInv'
<1> USE SuspendAssumption DEF dump_next, Goto, At, suspvars, Call
<1>1. TypeOK'
  BY Zenon DEF SuspendInv, TypeOK, Location, CallRecord, All
<1>2. ASSUME NEW d \in All PROVE CallInv(d)'
  BY DEF SuspendInv, TypeOK, Location, CallRecord, CallInv, Sending, All
<1>3. ASSUME NEW u \in All PROVE StateInv(u)'
  BY Zenon DEF SuspendInv, TypeOK, Location, CallRecord, CallInv, StateInv, InFlight, Sending, All
<1>4. DumpInv'
  BY DEF SuspendInv, TypeOK, Location, CallRecord, CallInv, StateInv, DumpInv, DumpSeesStopped, All
<1> QED BY Zenon, <1>1, <1>2, <1>3, <1>4 DEF SuspendInv

\* The dump ends.
LEMMA dump_done_Inv ==
  ASSUME SuspendInv, dump_done
  PROVE  SuspendInv'
<1> USE SuspendAssumption DEF dump_done, Goto, At, suspvars
<1>1. TypeOK'
  BY Zenon DEF SuspendInv, TypeOK, Location, CallRecord, All
<1>2. ASSUME NEW d \in All PROVE CallInv(d)'
  BY DEF SuspendInv, TypeOK, Location, CallRecord, CallInv, Sending, All
<1>3. ASSUME NEW u \in All PROVE StateInv(u)'
  BY Zenon DEF SuspendInv, TypeOK, Location, CallRecord, CallInv, StateInv, InFlight, Sending, All
<1>4. DumpInv'
  BY Zenon DEF SuspendInv, TypeOK, Location, CallRecord, CallInv, StateInv, DumpInv, DumpSeesStopped, All
<1> QED BY Zenon, <1>1, <1>2, <1>3, <1>4 DEF SuspendInv

\* SuspendInv is an invariant of suspension and resumption: at any time at most
\* one suspension of a thread is in flight, and it is answered by the handler.
THEOREM SuspendInvariance == Spec => []SuspendInv
<1>1. Init => SuspendInv
  <2> SUFFICES ASSUME Init PROVE SuspendInv
    BY Zenon
  <2> USE SuspendAssumption DEF Init
  <2>1. TypeOK
    BY Zenon DEF TypeOK, Location, CallRecord, Idle, All
  <2>2. ASSUME NEW c \in All PROVE CallInv(c)
    BY Zenon DEF CallInv, Sending, Idle, All
  <2>3. ASSUME NEW t \in All PROVE StateInv(t)
    BY Zenon DEF StateInv, InFlight, All
  <2>4. DumpInv
    BY Zenon DEF DumpInv, DumpSeesStopped, All
  <2> QED BY Zenon, <2>1, <2>2, <2>3, <2>4 DEF SuspendInv
<1>2. SuspendInv /\ [Next]_vars => SuspendInv'
  <2> SUFFICES ASSUME SuspendInv, [Next]_vars PROVE SuspendInv'
    BY Zenon
  <2>1. ASSUME NEW c \in All, NEW t \in All, CallStep(c, t) PROVE SuspendInv'
    BY Zenon, <2>1, suspend_refused_Inv, suspend_self_Inv, suspend_no_tid_Inv, suspend_begin_Inv,
       suspend_kill_Inv, suspend_acked_Inv, threads_resume_thread_Inv DEF CallStep
  <2>2. ASSUME NEW t \in All, HandlerStep(t) PROVE SuspendInv'
    BY Zenon, <2>2, signal_handler_sigusr1_Inv, threads_suspend_ack_Inv, suspend_self_woken_Inv
       DEF HandlerStep
  <2>3. ASSUME NEW t \in Thread,
               threads_impl_thread_start(t) \/ detach_tid(t) \/ DetachStep(t)
        PROVE  SuspendInv'
    BY Zenon, <2>3, threads_impl_thread_start_Inv, detach_tid_Inv, detach_lock_Inv,
       detach_free_Inv, detach_barrier_Inv DEF DetachStep
  <2>4. ASSUME NEW c \in Thread, NEW t \in Thread,
               JVM_SuspendThread(c, t) \/ JVM_ResumeThread(c, t)
        PROVE  SuspendInv'
    BY Zenon, <2>4, JVM_SuspendThread_Inv, JVM_ResumeThread_Inv
  <2>5. ASSUME signal_thread_handler \/ DumpStep PROVE SuspendInv'
    BY Zenon, <2>5, signal_thread_handler_Inv, dump_lock_Inv, dump_next_Inv, dump_done_Inv
       DEF DumpStep
  <2>6. CASE UNCHANGED vars
    BY <2>6 DEF vars, suspvars, SuspendInv, TypeOK, CallInv, Sending, StateInv, InFlight,
                DumpInv, DumpSeesStopped
  <2> QED BY Zenon, <2>1, <2>2, <2>3, <2>4, <2>5, <2>6 DEF Next
<1> QED
  BY <1>1, <1>2, PTL DEF Spec

\* Every variable keeps its type.
THEOREM SuspendTypeCorrect == Spec => []TypeOK
<1>1. SuspendInv => TypeOK
  BY Zenon DEF SuspendInv
<1> QED BY <1>1, SuspendInvariance, PTL

\* No thread is signalled after it has exited (pthread_kill at
\* thread-posix.cpp:1046 against the end of thread_detach_current_thread).
THEOREM SignalsReachLive == Spec => []SignalsToLive
<1>1. SuspendInv => SignalsToLive
  <2> SUFFICES ASSUME SuspendInv, NEW t \in All, pc[t] = "exited"
               PROVE  /\ ~sigusr1[t]
                      /\ handler[t] = "no"
                      /\ \A c \in All : ~(pc[c] = "kill" /\ call[c].target = t)
    BY Zenon DEF SignalsToLive
  <2>1. ~InFlight(t) /\ handler[t] = "no"
    BY Zenon DEF SuspendInv, StateInv
  <2>2. \A c \in All : ~Sending(c, t)
    BY <2>1, SuspendAssumption DEF InFlight, SuspendInv, CallInv, All
  <2> QED BY Zenon, <2>1, <2>2 DEF InFlight, Sending
<1> QED BY <1>1, SuspendInvariance, PTL

\* The assertions of threads_suspend_self never fail.
THEOREM AssertsHold == Spec => []SuspendSelfAsserts
<1>1. SuspendInv => SuspendSelfAsserts
  BY Zenon DEF SuspendInv, StateInv, InFlight, SuspendSelfAsserts
<1> QED BY <1>1, SuspendInvariance, PTL

\* A thread the dump has suspended stays stopped until the dump resumes it,
\* whatever other threads suspend and resume meanwhile.
THEOREM DumpStable == Spec => []DumpSeesStopped
<1>1. SuspendInv => DumpSeesStopped
  BY Zenon DEF SuspendInv, DumpInv
<1> QED BY <1>1, SuspendInvariance, PTL

\* For a thread that is created before others can name it, a reason without
\* the mark means that it is about to suspend (thread-posix.cpp:1030).
THEOREM InProcessIfCreated == Spec => []InProcess
<1>1. SuspendInv => InProcess
  <2> SUFFICES ASSUME SuspendInv, NEW t \in All \ Late,
                      tid[t], suspend_reason[t] # "NONE", ~suspended[t]
               PROVE  \/ sigusr1[t] \/ handler[t] = "entry"
                      \/ \E c \in All : pc[c] = "kill" /\ call[c].target = t
    BY Zenon DEF InProcess
  <2>1. InFlight(t)
    BY Zenon DEF SuspendInv, StateInv
  <2>2. CASE suspendmutex[t] # NoThread
    <3>1. suspendmutex[t] \in All
      BY Zenon, <2>2 DEF SuspendInv, TypeOK
    <3>2. Sending(suspendmutex[t], t)
      BY Zenon, <3>1 DEF SuspendInv, CallInv
    <3> QED BY Zenon, <3>1, <3>2 DEF Sending
  <2> QED BY Zenon, <2>1, <2>2 DEF InFlight
<1> QED BY <1>1, SuspendInvariance, PTL
=============================================================================
