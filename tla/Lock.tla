-------------------------------- MODULE Lock --------------------------------
(***************************************************************************)
(* Java object monitors as CACAO implements them (threads/lock.cpp,        *)
(* threads/lockword.hpp, threads/lockword.cpp).                            *)
(*                                                                         *)
(* The lockword of an object is a thin lock (owner, recursion count) until *)
(* it is inflated; from then on it refers to a fat lock record, whose      *)
(* mutex is the monitor.  A thread that meets a thin lock held by another  *)
(* thread queues itself on the FLC (flat lock contention) list of the      *)
(* owner and sets the owner's FLC bit; the owner tests that bit after it   *)
(* has released a thin lock, inflates every other lock its list names and  *)
(* wakes the queue.  Object.wait, notify and interrupt use the lock record *)
(* and the waitmutex/waitcond pair of the waiting thread.                  *)
(*                                                                         *)
(* Abstractions.  One lock record per object: the hash table that finds it *)
(* is left out, its lookup is one section under the mutex of the table.    *)
(* The FLC list is a set: its LIFO order decides only in which order the   *)
(* owner wakes the queue.  Memory is sequentially consistent: the code     *)
(* puts a full barrier between the two sides of the FLC handshake          *)
(* (lock.cpp:682 and 926).  A critical section whose data nobody touches   *)
(* without its mutex is one step.                                          *)
(***************************************************************************)
EXTENDS Integers, Sequences

CONSTANTS
  Thread,        \* the threads, all of them attached and active
  Object,        \* the objects used as monitors
  NoThread,      \* NULL threadobject
  NoObject,      \* NULL object
  ThinCountMax,  \* THIN_LOCK_COUNT_MAX: 255 in the code
  MaxDepth,      \* bound: how often a client nests one monitor
  Order,         \* bound: clients nest monitors in non-decreasing Order
  Waiter,        \* the threads whose program calls Object.wait
  Interrupter    \* the threads whose program calls Thread.interrupt

ASSUME LockAssumption ==
  /\ NoThread \notin Thread
  /\ NoObject \notin Object
  /\ ThinCountMax \in Nat
  /\ MaxDepth \in Nat
  /\ Order \in [Object -> Nat]
  /\ Waiter \subseteq Thread
  /\ Interrupter \subseteq Thread

VARIABLES
  lockword,       \* java_object_t.lockword
  lr_mutex,       \* lock_record_t.mutex: its holder
  lr_owner,       \* lock_record_t.owner
  lr_count,       \* lock_record_t.count
  waiters,        \* lock_record_t.waiters
  flc_lock,       \* threadobject.flc_lock: its holder
  flc_bit,        \* threadobject.flc_bit
  flc_list,       \* threadobject.flc_list
  flc_object,     \* threadobject.flc_object
  interrupted,    \* threadobject.interrupted
  signaled,       \* threadobject.signaled
  pc,             \* where each thread is
  obj,            \* the argument o of the operation in progress
  lw_cache,       \* the local lw_cache of lock_monitor_enter
  t_other,        \* the locals t_other and old_flc of sable_flc_waiting
  old_flc,
  lockcount,      \* the local lockcount of lock_record_wait
  timed,          \* the timeout of the wait in progress: none, later, due
  held            \* history: how often the client holds each monitor

record  == <<lr_mutex, lr_owner, lr_count>>
flc     == <<flc_lock, flc_bit, flc_list, flc_object>>
waiting == <<waiters, interrupted, signaled, lockcount, timed>>
entering == <<lw_cache, t_other, old_flc>>
vars == <<lockword, record, flc, waiting, entering, pc, obj, held>>

-----------------------------------------------------------------------------
(* Lockwords.  A fat lockword is the tagged pointer to the object's only   *)
(* lock record, so it carries nothing else.                                *)

Thin(t, n) == [shape |-> "thin", owner |-> t, count |-> n]
Unlocked   == Thin(NoThread, 0)
Fat        == [shape |-> "fat", owner |-> NoThread, count |-> 0]
LockWord   == [shape : {"thin", "fat"}, owner : Thread \cup {NoThread},
               count : 0..ThinCountMax]

ThinOwnedBy(lw, t) == lw.shape = "thin" /\ lw.owner = t

\* lock_is_held_by_current_thread: the test every operation starts with.
lock_is_held_by_current_thread(t, o) ==
  IF lockword[o].shape = "fat" THEN lr_owner[o] = t
                               ELSE lockword[o].owner = t

\* std::list::remove; a thread is at most once in a list of waiters.
list_remove(s, e) ==
  IF \E i \in DOMAIN s : s[i] = e
  THEN LET i == CHOOSE i \in DOMAIN s : s[i] = e
       IN  SubSeq(s, 1, i - 1) \o SubSeq(s, i + 1, Len(s))
  ELSE s

Running == {"run"}
Entering == {"retry", "cas", "fatlock",
             "flc", "flccheck", "flcwait", "flcwoken"}
Releasing == {"exittest", "nlock", "nloop", "wnlock", "wnloop"}
Waiting == {"wrelease", "wtest", "wcond", "wenter", "wclear", "wclearie"}
Throwing == {"imse", "ie"}
PC == Running \cup Entering \cup Releasing \cup Waiting \cup Throwing

Goto(t, l) == pc' = [pc EXCEPT ![t] = l]

\* The operation in progress is over.
Return(t) ==
  /\ Goto(t, "run")
  /\ obj' = [obj EXCEPT ![t] = NoObject]

\* An enter returned true.
Acquired(t, o) ==
  /\ Return(t)
  /\ lw_cache' = [lw_cache EXCEPT ![t] = Unlocked]
  /\ held' = [held EXCEPT ![t][o] = @ + 1]

\* lock_record_enter: blocks until the mutex of the record is free.
lock_record_enter(t, o) ==
  /\ lr_mutex[o] = NoThread
  /\ lr_mutex' = [lr_mutex EXCEPT ![o] = t]
  /\ lr_owner' = [lr_owner EXCEPT ![o] = t]

\* lock_record_exit
lock_record_exit(t, o) ==
  /\ lr_owner' = [lr_owner EXCEPT ![o] = NoThread]
  /\ lr_mutex' = [lr_mutex EXCEPT ![o] = NoThread]

\* lock_hashtable_get, lock_record_enter and Lockword::inflate, in the order
\* every caller has them; the record is unreachable until the last of the
\* three.  Lockword::inflate copies the thin count.
lock_inflate(t, o, extra) ==
  /\ lock_record_enter(t, o)
  /\ lr_count' = [lr_count EXCEPT ![o] = lockword[o].count + extra]
  /\ lockword' = [lockword EXCEPT ![o] = Fat]

-----------------------------------------------------------------------------
(* lock_monitor_enter *)

\* The call, with the read lw_cache = *lw_ptr that precedes the CAS.
lock_monitor_enter(t, o) ==
  /\ pc[t] = "run"
  /\ held[t][o] < MaxDepth
  /\ \A p \in Object : held[t][p] > 0 => Order[p] <= Order[o]
  /\ Goto(t, "cas")
  /\ obj' = [obj EXCEPT ![t] = o]
  /\ lw_cache' = [lw_cache EXCEPT ![t] = lockword[o]]
  /\ UNCHANGED <<lockword, record, flc, waiting, t_other, old_flc, held>>

\* goto retry: the same read again.
enter_retry(t) ==
  /\ pc[t] = "retry"
  /\ Goto(t, "cas")
  /\ lw_cache' = [lw_cache EXCEPT ![t] = lockword[obj[t]]]
  /\ UNCHANGED <<lockword, record, flc, waiting, t_other, old_flc, obj, held>>

\* Fault: the lockword is tested and set in two steps.
enter_thin_torn(t) ==
  /\ pc[t] = "cas"
  /\ lw_cache[t] = Unlocked
  /\ lockword' = [lockword EXCEPT ![obj[t]] = Thin(t, 0)]
  /\ Acquired(t, obj[t])
  /\ UNCHANGED <<record, flc, waiting, t_other, old_flc>>

\* Lockword::lock succeeds, whatever lw_cache says.
enter_thin(t) ==
  /\ pc[t] = "cas"
  /\ lockword[obj[t]] = Unlocked
  /\ lockword' = [lockword EXCEPT ![obj[t]] = Thin(t, 0)]
  /\ Acquired(t, obj[t])
  /\ UNCHANGED <<record, flc, waiting, t_other, old_flc>>

CasFailed(t) == pc[t] = "cas" /\ lockword[obj[t]] # Unlocked

\* We hold the thin lock and its count has room: increase_thin_lock_count.
enter_recursive(t) ==
  /\ CasFailed(t)
  /\ ThinOwnedBy(lw_cache[t], t)
  /\ lw_cache[t].count < ThinCountMax
  /\ lockword' = [lockword EXCEPT ![obj[t]].count = @ + 1]
  /\ Acquired(t, obj[t])
  /\ UNCHANGED <<record, flc, waiting, t_other, old_flc>>

\* Fault: the enter that overflows the thin count is not counted itself.
enter_overflow_uncounted(t) ==
  /\ CasFailed(t)
  /\ ThinOwnedBy(lw_cache[t], t)
  /\ lw_cache[t].count = ThinCountMax
  /\ lock_inflate(t, obj[t], 0)
  /\ held' = [held EXCEPT ![t][obj[t]] = @ + 1]
  /\ lw_cache' = [lw_cache EXCEPT ![t] = Unlocked]
  /\ Goto(t, "nlock")
  /\ UNCHANGED <<flc, waiting, t_other, old_flc, obj>>

\* Recursion count overflow: inflate, count once more, then wake the queue.
enter_overflow(t) ==
  /\ CasFailed(t)
  /\ ThinOwnedBy(lw_cache[t], t)
  /\ lw_cache[t].count = ThinCountMax
  /\ lock_inflate(t, obj[t], 1)
  /\ held' = [held EXCEPT ![t][obj[t]] = @ + 1]
  /\ lw_cache' = [lw_cache EXCEPT ![t] = Unlocked]
  /\ Goto(t, "nlock")
  /\ UNCHANGED <<flc, waiting, t_other, old_flc, obj>>

\* We own the lock record already.
enter_fat_recursive(t) ==
  /\ CasFailed(t)
  /\ lw_cache[t].shape = "fat"
  /\ lr_owner[obj[t]] = t
  /\ lr_count' = [lr_count EXCEPT ![obj[t]] = @ + 1]
  /\ Acquired(t, obj[t])
  /\ UNCHANGED <<lockword, lr_mutex, lr_owner, flc, waiting, t_other, old_flc>>

\* Fault: no test for recursive entering.
enter_fat_block_always(t) ==
  /\ CasFailed(t)
  /\ lw_cache[t].shape = "fat"
  /\ Goto(t, "fatlock")
  /\ UNCHANGED <<lockword, record, flc, waiting, entering, obj, held>>

\* We do not, and block on its mutex.
enter_fat_block(t) ==
  /\ CasFailed(t)
  /\ lw_cache[t].shape = "fat"
  /\ lr_owner[obj[t]] # t
  /\ Goto(t, "fatlock")
  /\ UNCHANGED <<lockword, record, flc, waiting, entering, obj, held>>

enter_fat(t) ==
  /\ pc[t] = "fatlock"
  /\ lock_record_enter(t, obj[t])
  /\ Acquired(t, obj[t])
  /\ UNCHANGED <<lockword, lr_count, flc, waiting, t_other, old_flc>>

\* The inflation path.
enter_contended(t) ==
  /\ CasFailed(t)
  /\ lw_cache[t].shape = "thin"
  /\ lw_cache[t].owner # t
  /\ Goto(t, "flc")
  /\ UNCHANGED <<lockword, record, flc, waiting, entering, obj, held>>

-----------------------------------------------------------------------------
(* sable_flc_waiting *)

\* Thread index zero: get_thread_by_index finds nobody and the caller retries.
sable_flc_waiting_nobody(t) ==
  /\ pc[t] = "flc"
  /\ lw_cache[t].owner = NoThread
  /\ Goto(t, "retry")
  /\ UNCHANGED <<lockword, record, flc, waiting, entering, obj, held>>

\* Fault: the FLC bit is not set.
sable_flc_waiting_lock_nobit(t) ==
  LET u == lw_cache[t].owner IN
  /\ pc[t] = "flc"
  /\ u # NoThread
  /\ flc_lock[u] = NoThread
  /\ flc_lock' = [flc_lock EXCEPT ![u] = t]
  /\ t_other' = [t_other EXCEPT ![t] = u]
  /\ old_flc' = [old_flc EXCEPT ![t] = flc_bit[u]]
  /\ Goto(t, "flccheck")
  /\ UNCHANGED <<lockword, record, flc_bit, flc_list, flc_object, waiting,
                 lw_cache, obj, held>>

\* Lock the owner's flc_lock, save its FLC bit and set it.
sable_flc_waiting_lock(t) ==
  LET u == lw_cache[t].owner IN
  /\ pc[t] = "flc"
  /\ u # NoThread
  /\ flc_lock[u] = NoThread
  /\ flc_lock' = [flc_lock EXCEPT ![u] = t]
  /\ t_other' = [t_other EXCEPT ![t] = u]
  /\ old_flc' = [old_flc EXCEPT ![t] = flc_bit[u]]
  /\ flc_bit' = [flc_bit EXCEPT ![u] = TRUE]
  /\ Goto(t, "flccheck")
  /\ UNCHANGED <<lockword, record, flc_list, flc_object, waiting, lw_cache,
                 obj, held>>

\* Fault: the lockword is not read again after the FLC bit is set.
sable_flc_waiting_queue_blind(t) ==
  LET u == t_other[t] IN
  /\ pc[t] = "flccheck"
  /\ flc_object' = [flc_object EXCEPT ![t] = obj[t]]
  /\ flc_list' = [flc_list EXCEPT ![u] = @ \cup {t}]
  /\ flc_lock' = [flc_lock EXCEPT ![u] = NoThread]
  /\ Goto(t, "flcwait")
  /\ UNCHANGED <<lockword, record, flc_bit, waiting, entering, obj, held>>

\* The lockword still names that owner: queue up and wait on flc_cond, which
\* releases the owner's flc_lock.
sable_flc_waiting_queue(t) ==
  LET u == t_other[t] IN
  /\ pc[t] = "flccheck"
  /\ ThinOwnedBy(lockword[obj[t]], u)
  /\ flc_object' = [flc_object EXCEPT ![t] = obj[t]]
  /\ flc_list' = [flc_list EXCEPT ![u] = @ \cup {t}]
  /\ flc_lock' = [flc_lock EXCEPT ![u] = NoThread]
  /\ Goto(t, "flcwait")
  /\ UNCHANGED <<lockword, record, flc_bit, waiting, entering, obj, held>>

\* It does not: put the FLC bit back.
sable_flc_waiting_restore(t) ==
  LET u == t_other[t] IN
  /\ pc[t] = "flccheck"
  /\ ~ThinOwnedBy(lockword[obj[t]], u)
  /\ flc_bit' = [flc_bit EXCEPT ![u] = old_flc[t]]
  /\ flc_lock' = [flc_lock EXCEPT ![u] = NoThread]
  /\ t_other' = [t_other EXCEPT ![t] = NoThread]
  /\ old_flc' = [old_flc EXCEPT ![t] = FALSE]
  /\ Goto(t, "retry")
  /\ UNCHANGED <<lockword, record, flc_list, flc_object, waiting, lw_cache,
                 obj, held>>

\* Woken with the owner's flc_lock held again: while (t->flc_object).
sable_flc_waiting_woken(t) ==
  LET u == t_other[t] IN
  /\ pc[t] = "flcwoken"
  /\ flc_lock[u] = NoThread
  /\ \/ /\ flc_object[t] = NoObject
        /\ t_other' = [t_other EXCEPT ![t] = NoThread]
        /\ old_flc' = [old_flc EXCEPT ![t] = FALSE]
        /\ Goto(t, "retry")
     \/ /\ flc_object[t] # NoObject
        /\ Goto(t, "flcwait")
        /\ UNCHANGED <<t_other, old_flc>>
  /\ UNCHANGED <<lockword, record, flc, waiting, lw_cache, obj, held>>

-----------------------------------------------------------------------------
(* notify_flc_waiters(t, obj[t]), called from lock_monitor_exit and from   *)
(* the overflow path ("n...") and from lock_monitor_wait ("wn...").        *)

notify_flc_waiters_lock(t) ==
  /\ pc[t] \in {"nlock", "wnlock"}
  /\ flc_lock[t] = NoThread
  /\ flc_lock' = [flc_lock EXCEPT ![t] = t]
  /\ Goto(t, IF pc[t] = "nlock" THEN "nloop" ELSE "wnloop")
  /\ UNCHANGED <<lockword, record, flc_bit, flc_list, flc_object, waiting,
                 entering, obj, held>>

\* The queued threads the loop has not reached yet.
Pending(t) == {u \in flc_list[t] : flc_object[u] # NoObject}

\* Fault: flc_cond is not signalled.
notify_flc_waiters_entry_silent(t, u) ==
  LET x == flc_object[u] IN
  /\ pc[t] \in {"nloop", "wnloop"}
  /\ u \in Pending(t)
  /\ \/ /\ x # obj[t]
        /\ lockword[x].shape = "thin"
        /\ lock_inflate(t, x, 0)
     \/ /\ x = obj[t] \/ lockword[x].shape = "fat"
        /\ UNCHANGED <<lockword, record>>
  /\ flc_object' = [flc_object EXCEPT ![u] = NoObject]
  /\ UNCHANGED <<flc_lock, flc_bit, flc_list, waiting, entering, pc, obj, held>>

\* One turn of the loop: inflate the lock unless it is the one just released
\* or inflated already, then wake the thread.
notify_flc_waiters_entry(t, u) ==
  LET x == flc_object[u] IN
  /\ pc[t] \in {"nloop", "wnloop"}
  /\ u \in Pending(t)
  /\ \/ /\ x # obj[t]
        /\ lockword[x].shape = "thin"
        /\ lock_inflate(t, x, 0)
     \/ /\ x = obj[t] \/ lockword[x].shape = "fat"
        /\ UNCHANGED <<lockword, record>>
  /\ flc_object' = [flc_object EXCEPT ![u] = NoObject]
  /\ pc' = [pc EXCEPT ![u] = IF @ = "flcwait" THEN "flcwoken" ELSE @]
  /\ UNCHANGED <<flc_lock, flc_bit, flc_list, waiting, entering, obj, held>>

notify_flc_waiters_done(t) ==
  /\ pc[t] \in {"nloop", "wnloop"}
  /\ Pending(t) = {}
  /\ flc_list' = [flc_list EXCEPT ![t] = {}]
  /\ flc_bit' = [flc_bit EXCEPT ![t] = FALSE]
  /\ flc_lock' = [flc_lock EXCEPT ![t] = NoThread]
  /\ \/ pc[t] = "nloop" /\ Return(t)
     \/ pc[t] = "wnloop" /\ Goto(t, "wrelease") /\ UNCHANGED obj
  /\ UNCHANGED <<lockword, record, flc_object, waiting, entering, held>>

-----------------------------------------------------------------------------
(* lock_monitor_exit *)

Released(t, o) == held' = [held EXCEPT ![t][o] = @ - 1]

\* A thin lock held once: unlock it; the test of the FLC bit follows.
exit_thin(t, o) ==
  /\ pc[t] = "run"
  /\ lockword[o] = Thin(t, 0)
  /\ lockword' = [lockword EXCEPT ![o] = Unlocked]
  /\ Released(t, o)
  /\ Goto(t, "exittest")
  /\ obj' = [obj EXCEPT ![t] = o]
  /\ UNCHANGED <<record, flc, waiting, entering>>

exit_test(t) ==
  /\ pc[t] = "exittest"
  /\ \/ flc_bit[t] /\ Goto(t, "nlock") /\ UNCHANGED obj
     \/ ~flc_bit[t] /\ Return(t)
  /\ UNCHANGED <<lockword, record, flc, waiting, entering, held>>

\* Fault: a count of zero is decreased too.
exit_recursive_unchecked(t, o) ==
  /\ pc[t] = "run"
  /\ ThinOwnedBy(lockword[o], t)
  /\ lockword' = [lockword EXCEPT ![o].count = @ - 1]
  /\ Released(t, o)
  /\ UNCHANGED <<record, flc, waiting, entering, pc, obj>>

\* A thin lock held recursively: decrease_thin_lock_count.
exit_recursive(t, o) ==
  /\ pc[t] = "run"
  /\ ThinOwnedBy(lockword[o], t)
  /\ lockword[o].count > 0
  /\ lockword' = [lockword EXCEPT ![o].count = @ - 1]
  /\ Released(t, o)
  /\ UNCHANGED <<record, flc, waiting, entering, pc, obj>>

exit_fat(t, o) ==
  /\ pc[t] = "run"
  /\ lockword[o].shape = "fat"
  /\ lr_owner[o] = t
  /\ \/ /\ lr_count[o] # 0
        /\ lr_count' = [lr_count EXCEPT ![o] = @ - 1]
        /\ UNCHANGED <<lr_mutex, lr_owner>>
     \/ /\ lr_count[o] = 0
        /\ lock_record_exit(t, o)
        /\ UNCHANGED lr_count
  /\ Released(t, o)
  /\ UNCHANGED <<lockword, flc, waiting, entering, pc, obj>>

lock_monitor_exit(t, o) ==
  exit_thin(t, o) \/ exit_recursive(t, o) \/ exit_fat(t, o)

\* Exit, wait or notify by a thread that does not hold the monitor throws
\* IllegalMonitorStateException and does nothing else.
illegal_monitor_state(t, o) ==
  /\ pc[t] = "run"
  /\ ~lock_is_held_by_current_thread(t, o)
  /\ Goto(t, "imse")
  /\ obj' = [obj EXCEPT ![t] = o]
  /\ UNCHANGED <<lockword, record, flc, waiting, entering, held>>

\* The pending exception reaches the client.
throw(t) ==
  /\ pc[t] \in Throwing
  /\ Return(t)
  /\ UNCHANGED <<lockword, record, flc, waiting, entering, held>>

-----------------------------------------------------------------------------
(* lock_monitor_wait and lock_record_wait *)

lock_monitor_wait(t, o) ==
  /\ t \in Waiter
  /\ pc[t] = "run"
  /\ \/ /\ lockword[o].shape = "fat"
        /\ lr_owner[o] = t
        /\ Goto(t, "wrelease")
        /\ UNCHANGED <<lockword, record>>
     \/ /\ ThinOwnedBy(lockword[o], t)
        /\ lock_inflate(t, o, 0)
        /\ Goto(t, "wnlock")
  /\ obj' = [obj EXCEPT ![t] = o]
  /\ \E w \in {"never", "later"} : timed' = [timed EXCEPT ![t] = w]
  /\ UNCHANGED <<flc, waiters, interrupted, signaled, lockcount, entering,
                 held>>

\* Fault: the count is saved but not reset.
wait_release_dirty(t) ==
  LET o == obj[t] IN
  /\ pc[t] = "wrelease"
  /\ waiters' = [waiters EXCEPT ![o] = Append(@, t)]
  /\ lockcount' = [lockcount EXCEPT ![t] = lr_count[o]]
  /\ lock_record_exit(t, o)
  /\ held' = [held EXCEPT ![t][o] = 0]
  /\ Goto(t, "wtest")
  /\ UNCHANGED <<lockword, lr_count, flc, interrupted, signaled, timed,
                 entering, obj>>

\* lock_record_add_waiter; the count is saved and the record released.
wait_release(t) ==
  LET o == obj[t] IN
  /\ pc[t] = "wrelease"
  /\ waiters' = [waiters EXCEPT ![o] = Append(@, t)]
  /\ lockcount' = [lockcount EXCEPT ![t] = lr_count[o]]
  /\ lr_count' = [lr_count EXCEPT ![o] = 0]
  /\ lock_record_exit(t, o)
  /\ held' = [held EXCEPT ![t][o] = 0]
  /\ Goto(t, "wtest")
  /\ UNCHANGED <<lockword, flc, interrupted, signaled, timed, entering, obj>>

\* The loop of threads_wait_with_timeout, under the waitmutex: stop, or wait
\* on waitcond, which releases the waitmutex.
threads_wait_with_timeout(t) ==
  /\ pc[t] = "wtest"
  /\ Goto(t, IF interrupted[t] \/ signaled[t] \/ timed[t] = "due"
             THEN "wenter" ELSE "wcond")
  /\ UNCHANGED <<lockword, record, flc, waiting, entering, obj, held>>

\* Fault: the thread stays in the list of waiters.
wait_enter_linger(t) ==
  LET o == obj[t] IN
  /\ pc[t] = "wenter"
  /\ lock_record_enter(t, o)
  /\ lr_count' = [lr_count EXCEPT ![o] = lockcount[t]]
  /\ held' = [held EXCEPT ![t][o] = lockcount[t] + 1]
  /\ lockcount' = [lockcount EXCEPT ![t] = 0]
  /\ timed' = [timed EXCEPT ![t] = "never"]
  /\ signaled' = [signaled EXCEPT ![t] = FALSE]
  /\ Return(t)
  /\ UNCHANGED <<lockword, flc, waiters, interrupted, entering>>

\* Fault: the thread re-enters the monitor once, whatever it had before.
wait_enter_once(t) ==
  LET o == obj[t] IN
  /\ pc[t] = "wenter"
  /\ lock_record_enter(t, o)
  /\ waiters' = [waiters EXCEPT ![o] = list_remove(@, t)]
  /\ held' = [held EXCEPT ![t][o] = 1]
  /\ lockcount' = [lockcount EXCEPT ![t] = 0]
  /\ timed' = [timed EXCEPT ![t] = "never"]
  /\ signaled' = [signaled EXCEPT ![t] = FALSE]
  /\ Return(t)
  /\ UNCHANGED <<lockword, lr_count, flc, interrupted, entering>>

\* Re-enter the record, leave its waiters and restore the count.  A signaled
\* thread keeps its interrupted flag; any other one reads it here ...
wait_enter(t) ==
  LET o == obj[t] IN
  /\ pc[t] = "wenter"
  /\ lock_record_enter(t, o)
  /\ waiters' = [waiters EXCEPT ![o] = list_remove(@, t)]
  /\ lr_count' = [lr_count EXCEPT ![o] = lockcount[t]]
  /\ held' = [held EXCEPT ![t][o] = lockcount[t] + 1]
  /\ lockcount' = [lockcount EXCEPT ![t] = 0]
  /\ timed' = [timed EXCEPT ![t] = "never"]
  /\ \/ /\ signaled[t]
        /\ signaled' = [signaled EXCEPT ![t] = FALSE]
        /\ Return(t)
     \/ /\ ~signaled[t]
        /\ Goto(t, IF interrupted[t] THEN "wclearie" ELSE "wclear")
        /\ UNCHANGED <<signaled, obj>>
  /\ UNCHANGED <<lockword, flc, interrupted, entering>>

\* ... and clears it, and signaled, in a second step without the waitmutex.
wait_clear(t) ==
  /\ pc[t] \in {"wclear", "wclearie"}
  /\ interrupted' = [interrupted EXCEPT ![t] = FALSE]
  /\ signaled' = [signaled EXCEPT ![t] = FALSE]
  /\ \/ pc[t] = "wclear" /\ Return(t)
     \/ pc[t] = "wclearie" /\ Goto(t, "ie") /\ UNCHANGED obj
  /\ UNCHANGED <<lockword, record, flc, waiters, lockcount, timed, entering,
                 held>>

\* waitcond->signal(): only a thread blocked on it notices.
Woken(S) == [u \in Thread |->
               IF u \in S /\ pc[u] = "wcond" THEN "wtest" ELSE pc[u]]

\* lock_monitor_notify on a fat lock (on a thin lock it has nothing to do):
\* the first waiter not yet signaled, or all of them.
lock_monitor_notify(t, o, one) ==
  LET fresh == {i \in DOMAIN waiters[o] : ~signaled[waiters[o][i]]}
      pick  == IF one THEN {i \in fresh : \A j \in fresh : i <= j} ELSE fresh
      S     == {waiters[o][i] : i \in pick}
  IN
  /\ pc[t] = "run"
  /\ lockword[o].shape = "fat"
  /\ lr_owner[o] = t
  /\ signaled' = [u \in Thread |-> u \in S \/ signaled[u]]
  /\ pc' = Woken(S)
  /\ UNCHANGED <<lockword, record, flc, waiters, interrupted, lockcount, timed,
                 entering, obj, held>>

\* Fault: waitcond is not signalled.
threads_thread_interrupt_silent(t, u) ==
  /\ t \in Interrupter
  /\ pc[t] = "run"
  /\ interrupted' = [interrupted EXCEPT ![u] = TRUE]
  /\ UNCHANGED <<lockword, record, flc, waiters, signaled, lockcount, timed,
                 entering, pc, obj, held>>

threads_thread_interrupt(t, u) ==
  /\ t \in Interrupter
  /\ pc[t] = "run"
  /\ interrupted' = [interrupted EXCEPT ![u] = TRUE]
  /\ pc' = Woken({u})
  /\ UNCHANGED <<lockword, record, flc, waiters, signaled, lockcount, timed,
                 entering, obj, held>>

\* The wakeup time passes; a thread in waitcond->timedwait returns from it.
time_is_up(t) ==
  /\ timed[t] = "later"
  /\ timed' = [timed EXCEPT ![t] = "due"]
  /\ pc' = Woken({t})
  /\ UNCHANGED <<lockword, record, flc, waiters, interrupted, signaled,
                 lockcount, entering, obj, held>>

\* A condition variable returns without a signal.
cond_spurious(t) ==
  /\ \/ pc[t] = "flcwait" /\ Goto(t, "flcwoken")
     \/ pc[t] = "wcond" /\ Goto(t, "wtest")
  /\ UNCHANGED <<lockword, record, flc, waiting, entering, obj, held>>

-----------------------------------------------------------------------------
Init ==
  /\ lockword = [o \in Object |-> Unlocked]
  /\ lr_mutex = [o \in Object |-> NoThread]
  /\ lr_owner = [o \in Object |-> NoThread]
  /\ lr_count = [o \in Object |-> 0]
  /\ waiters = [o \in Object |-> <<>>]
  /\ flc_lock = [t \in Thread |-> NoThread]
  /\ flc_bit = [t \in Thread |-> FALSE]
  /\ flc_list = [t \in Thread |-> {}]
  /\ flc_object = [t \in Thread |-> NoObject]
  /\ interrupted = [t \in Thread |-> FALSE]
  /\ signaled = [t \in Thread |-> FALSE]
  /\ pc = [t \in Thread |-> "run"]
  /\ obj = [t \in Thread |-> NoObject]
  /\ lw_cache = [t \in Thread |-> Unlocked]
  /\ t_other = [t \in Thread |-> NoThread]
  /\ old_flc = [t \in Thread |-> FALSE]
  /\ lockcount = [t \in Thread |-> 0]
  /\ timed = [t \in Thread |-> "never"]
  /\ held = [t \in Thread |-> [o \in Object |-> 0]]

\* What a thread does once it is inside an operation.
EnterStep(t) ==
  \/ enter_retry(t) \/ enter_thin(t) \/ enter_recursive(t)
  \/ enter_overflow(t) \/ enter_fat_recursive(t) \/ enter_fat_block(t)
  \/ enter_fat(t) \/ enter_contended(t)
  \/ sable_flc_waiting_nobody(t) \/ sable_flc_waiting_lock(t)
  \/ sable_flc_waiting_queue(t) \/ sable_flc_waiting_restore(t)
  \/ sable_flc_waiting_woken(t)

NotifyFlcStep(t) ==
  \/ exit_test(t) \/ notify_flc_waiters_lock(t) \/ notify_flc_waiters_done(t)
  \/ \E u \in Thread : notify_flc_waiters_entry(t, u)

WaitStep(t) ==
  \/ wait_release(t) \/ threads_wait_with_timeout(t) \/ wait_enter(t)
  \/ wait_clear(t)

Step(t) == EnterStep(t) \/ NotifyFlcStep(t) \/ WaitStep(t) \/ throw(t)

\* What a client starts.
Call(t) ==
  \/ \E o \in Object :
       \/ lock_monitor_enter(t, o) \/ lock_monitor_exit(t, o)
       \/ illegal_monitor_state(t, o) \/ lock_monitor_wait(t, o)
       \/ \E one \in BOOLEAN : lock_monitor_notify(t, o, one)
  \/ \E u \in Thread : threads_thread_interrupt(t, u)

Next == \E t \in Thread :
  Step(t) \/ Call(t) \/ time_is_up(t) \/ cond_spurious(t)

Spec == Init /\ [][Next]_vars

\* A thread inside an operation is scheduled whenever it can run and time
\* passes.  Clients leave their synchronized blocks: strong fairness, because
\* between two chances to leave a client may start other operations.
Fairness == \A t \in Thread :
  /\ WF_vars(Step(t))
  /\ WF_vars(time_is_up(t))
  /\ \A o \in Object :
       /\ SF_vars(lock_monitor_exit(t, o))
       /\ SF_vars(held[t][o] = 1 /\ lock_monitor_exit(t, o))

FairSpec == Spec /\ Fairness

-----------------------------------------------------------------------------
(* Properties *)

\* Every variable has its type.
TypeOK ==
  /\ lockword \in [Object -> LockWord]
  /\ lr_mutex \in [Object -> Thread \cup {NoThread}]
  /\ lr_owner \in [Object -> Thread \cup {NoThread}]
  /\ lr_count \in [Object -> Nat]
  /\ waiters \in [Object -> Seq(Thread)]
  /\ flc_lock \in [Thread -> Thread \cup {NoThread}]
  /\ flc_bit \in [Thread -> BOOLEAN]
  /\ flc_list \in [Thread -> SUBSET Thread]
  /\ flc_object \in [Thread -> Object \cup {NoObject}]
  /\ interrupted \in [Thread -> BOOLEAN]
  /\ signaled \in [Thread -> BOOLEAN]
  /\ pc \in [Thread -> PC]
  /\ obj \in [Thread -> Object \cup {NoObject}]
  /\ lw_cache \in [Thread -> LockWord]
  /\ t_other \in [Thread -> Thread \cup {NoThread}]
  /\ old_flc \in [Thread -> BOOLEAN]
  /\ lockcount \in [Thread -> Nat]
  /\ timed \in [Thread -> {"never", "later", "due"}]
  /\ held \in [Thread -> [Object -> Nat]]

\* Two threads never hold the monitor of one object, through thin locking,
\* inflation by the owner, wait and re-entry (lock_monitor_enter).
MutualExclusion ==
  \A o \in Object, t, u \in Thread :
    held[t][o] > 0 /\ held[u][o] > 0 => t = u

\* How often t holds o, according to the lockword and the lock record.
RecordedDepth(t, o) ==
  IF ~lock_is_held_by_current_thread(t, o) THEN 0
  ELSE IF lockword[o].shape = "fat" THEN lr_count[o] + 1
  ELSE lockword[o].count + 1

\* The lockword and the lock record always know who holds the monitor and how
\* often: no enter is lost and no exit counted twice when the count overflows
\* (lock.cpp:836), when another release inflates the lock (lock.cpp:746) or
\* over a wait (lock.cpp:1057, 1078), and lock_is_held_by_current_thread is
\* exact, so IllegalMonitorStateException is thrown exactly to non-owners.
OwnershipRecorded ==
  \A o \in Object, t \in Thread : held[t][o] = RecordedDepth(t, o)

\* No contender is forgotten: while a thread is queued for an object, the
\* owner it queued on has its FLC bit set and either still holds the object
\* as a thin lock or is on its way into notify_flc_waiters.  This is the
\* handshake of lock.cpp:677-687 with lock.cpp:924-934, and it makes the
\* assertion on flc_bit at lock.cpp:703 true.
NoLostContender ==
  \A t \in Thread :
    flc_object[t] # NoObject =>
      LET u == t_other[t] IN
      /\ u \in Thread
      /\ t \in flc_list[u]
      /\ flc_bit[u]
      /\ ThinOwnedBy(lockword[flc_object[t]], u) \/ pc[u] \in Releasing

\* When notify_flc_waiters inflates a lock, the caller holds it as a thin
\* lock (the assertion at lockword.cpp:53) and the mutex of the record is
\* free: lock_record_enter never blocks there with the flc_lock held.
InflateByOwner ==
  \A t \in Thread : pc[t] \in {"nloop", "wnloop"} =>
    \A u \in Pending(t) :
      LET x == flc_object[u] IN
      x # obj[t] /\ lockword[x].shape = "thin" =>
        lockword[x].owner = t /\ lr_mutex[x] = NoThread

\* A free lock record is clean, so the thread that enters it next finds
\* count zero (the assertion at lock.cpp:861), and nobody who reads the owner
\* without the mutex (lock.cpp:852, 953) mistakes it for its own.
FreeRecordClean ==
  \A o \in Object :
    /\ lr_mutex[o] = NoThread => lr_count[o] = 0
    /\ lr_owner[o] = lr_mutex[o]

\* No thread blocks on a mutex it holds itself: neither on a lock record in
\* lock_monitor_enter or lock_record_wait, nor on an flc_lock.
NoRelock ==
  \A t \in Thread :
    /\ pc[t] \in {"fatlock", "wenter"} => lr_mutex[obj[t]] # t
    /\ pc[t] = "flc" => lw_cache[t].owner # t
    /\ pc[t] \in {"flc", "nlock", "wnlock", "flcwoken"} =>
         \A u \in Thread : flc_lock[u] # t

\* The inductive invariant behind the properties above.  A thin word has no
\* busy record behind it; an unlocked or fat word carries nothing else.
RecordInv(o) ==
  /\ lr_owner[o] = lr_mutex[o]
  /\ lr_mutex[o] = NoThread => lr_count[o] = 0
  /\ lockword[o].shape = "thin" => lr_mutex[o] = NoThread
  /\ lockword[o].shape = "fat" => lockword[o] = Fat
  /\ lockword[o].owner = NoThread => lockword[o].count = 0

\* What a thread knows at each point: lw_cache is not stale where it names
\* the thread itself or a fat lock, and who holds which lock record.
LocalInv(t) ==
  /\ pc[t] # "run" => obj[t] \in Object
  /\ pc[t] = "cas" /\ ThinOwnedBy(lw_cache[t], t) =>
       lockword[obj[t]] = lw_cache[t]
  /\ pc[t] = "cas" /\ lw_cache[t].shape = "fat" => lockword[obj[t]] = Fat
  /\ pc[t] = "flc" => lw_cache[t].shape = "thin" /\ lw_cache[t].owner # t
  /\ pc[t] \in {"wnlock", "wnloop", "wrelease", "wclear", "wclearie"} =>
       lockword[obj[t]] = Fat /\ lr_mutex[obj[t]] = t
  /\ pc[t] \in {"fatlock", "wtest", "wcond", "wenter"} =>
       lockword[obj[t]] = Fat /\ lr_mutex[obj[t]] # t

\* Who holds an flc_lock, and what old_flc is good for.
FlcLockInv(t) ==
  /\ pc[t] \in {"flccheck", "flcwait", "flcwoken"} =>
       t_other[t] \in Thread \ {t}
  /\ pc[t] = "flccheck" => flc_lock[t_other[t]] = t /\ flc_bit[t_other[t]]
  /\ pc[t] \in {"nloop", "wnloop"} <=> flc_lock[t] = t
  /\ \A u \in Thread \ {t} :
       flc_lock[u] = t => pc[t] = "flccheck" /\ t_other[t] = u
  /\ pc[t] = "flccheck" /\ flc_list[t_other[t]] # {} => old_flc[t]

\* The members of the FLC list of t.
FlcListInv(t) ==
  /\ flc_list[t] # {} => flc_bit[t]
  /\ \A u \in flc_list[t] :
       /\ t_other[u] = t
       /\ pc[u] \in {"flcwait", "flcwoken"}
       /\ flc_object[u] = NoObject => pc[t] \in {"nloop", "wnloop"}

\* A queued thread is in the list of an owner that will get to it: one that
\* still holds the thin lock, or that is on its way through its list and has
\* released or inflated the lock already.
QueuedInv(t) ==
  flc_object[t] # NoObject =>
    /\ pc[t] \in {"flcwait", "flcwoken"}
    /\ flc_object[t] = obj[t]
    /\ t \in flc_list[t_other[t]]
    /\ \/ ThinOwnedBy(lockword[obj[t]], t_other[t])
       \/ /\ pc[t_other[t]] \in Releasing
          /\ obj[t_other[t]] = obj[t] \/ lockword[obj[t]] = Fat

IInv ==
  /\ TypeOK
  /\ OwnershipRecorded
  /\ \A o \in Object : RecordInv(o)
  /\ \A t \in Thread :
       LocalInv(t) /\ FlcLockInv(t) /\ FlcListInv(t) /\ QueuedInv(t)

\* A thread is in a wait set from wait_release until it has re-entered.
InWaitSet(t) == pc[t] \in {"wtest", "wcond", "wenter"}

WaitersOf(o) == {waiters[o][i] : i \in DOMAIN waiters[o]}

\* The inductive invariant of waiting.  The list of waiters of a lock record
\* has exactly the threads that wait for its object, each of them once, and
\* only a thread that waits is signaled.
WaitInv ==
  /\ \A o \in Object :
       /\ WaitersOf(o) = {t \in Thread : InWaitSet(t) /\ obj[t] = o}
       /\ \A i, j \in DOMAIN waiters[o] : waiters[o][i] = waiters[o][j] => i = j
  /\ \A t \in Thread : signaled[t] => InWaitSet(t)

\* A notification is never swallowed: only a thread that waits carries one,
\* and none arrives between the test of signaled at lock.cpp:1084 and its
\* reset at lock.cpp:1089.
NotifyNotSwallowed ==
  \A t \in Thread : signaled[t] =>
    /\ pc[t] \in {"wtest", "wcond", "wenter"}
    /\ \E i \in DOMAIN waiters[obj[t]] : waiters[obj[t]][i] = t

\* The interrupted flag is only cleared by the wait that throws
\* InterruptedException for it (lock.cpp:1080-1087, thread-posix.cpp:1329).
InterruptNotLost ==
  [][\A t \in Thread :
       interrupted[t] /\ ~interrupted'[t] => pc[t] = "wclearie"]_vars

\* The monitors implement JavaMonitor: a thread that holds a monitor keeps it
\* until its own exit or wait, enters happen only while nobody else holds it,
\* wait gives up and restores the whole depth, and notify reaches at most one
\* waiter, which waits for that object and has not been notified yet.
JM == INSTANCE JavaMonitor WITH
  wait_on  <- [t \in Thread |-> IF InWaitSet(t) THEN obj[t] ELSE NoObject],
  depth    <- [t \in Thread |-> IF InWaitSet(t) THEN lockcount[t] + 1 ELSE 0],
  notified <- signaled

ImplementsJavaMonitor == JM!Spec

\* Every contender that queued on an owner is taken off the queue.
ContenderReleased ==
  \A t \in Thread : pc[t] = "flcwait" ~> pc[t] \notin {"flcwait", "flcwoken"}

\* A waiter that is notified, interrupted or out of time stops waiting
\* (it then competes for the monitor): no wakeup on waitcond is lost.
WaiterWakes ==
  \A t \in Thread :
    (pc[t] \in {"wtest", "wcond"} /\
       (signaled[t] \/ interrupted[t] \/ timed[t] # "never"))
      ~> pc[t] \notin {"wtest", "wcond"}
=============================================================================
