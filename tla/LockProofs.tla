----------------------------- MODULE LockProofs -----------------------------
(***************************************************************************)
(* Proofs about Lock, second part: the FLC handshake, the waits, the       *)
(* theorems that follow from IInv, and then the wait sets and the          *)
(* refinement of JavaMonitor.                                              *)
(***************************************************************************)
EXTENDS LockStepProofs

\* A step that leaves the locks alone and works on the FLC state.
LEMMA FlcStep ==
  ASSUME IInv, NEW t \in Thread, TypeOK', LocksStay, OthersStay(t), LocalInv(t)',
         \A v \in Thread : FlcLockInv(v)' /\ FlcListInv(v)' /\ QueuedInv(v)'
  PROVE  IInv'
<1>1. OwnLocksOnly(t)
  BY Zenon DEF LocksStay, OwnLocksOnly
<1>2. ASSUME NEW v \in Thread PROVE LocalInv(v)'
  <2>1. CASE v # t
    BY Zenon, <1>1, <2>1, OthersLocalInv DEF OthersStay
  <2> QED BY Zenon, <2>1
<1> QED
  BY Zenon, <1>2, LocksStayInv DEF IInv

\* The contender locks the owner's FLC lock and sets its FLC bit.
LEMMA sable_flc_waiting_lock_Inv ==
  ASSUME IInv, NEW t \in Thread, sable_flc_waiting_lock(t)
  PROVE  IInv'
<1>0. PICK u \in Thread : u = lw_cache[t].owner
  BY Zenon, LockAssumption DEF IInv, TypeOK, LockWord, sable_flc_waiting_lock
<1>1. /\ TypeOK /\ LocalInv(t) /\ u = lw_cache[t].owner
      /\ \A v \in Thread : FlcLockInv(v) /\ FlcListInv(v) /\ QueuedInv(v)
  BY Zenon, <1>0 DEF IInv
<1>2. TypeOK'
  BY SMTT(30), <1>1, PCFacts DEF TypeOK, LocalInv, sable_flc_waiting_lock, Goto, record, waiting
<1>3. LocksStay /\ OthersStay(t)
  BY Zenon, <1>1 DEF TypeOK, LocksStay, OthersStay, sable_flc_waiting_lock, Goto, record
<1>4. LocalInv(t)'
  BY Zenon, <1>1 DEF TypeOK, LocalInv, sable_flc_waiting_lock, Goto
<1>5. /\ pc[t] = "flc" /\ flc_lock[u] = NoThread /\ u # t
      /\ \A w \in Thread :
           /\ w = u => flc_lock'[w] = t
           /\ w # u => flc_lock'[w] = flc_lock[w]
           /\ w = t => t_other'[w] = u
           /\ w # t => t_other'[w] = t_other[w]
           /\ w = t => old_flc'[w] = flc_bit[u]
           /\ w # t => old_flc'[w] = old_flc[w]
           /\ w = u => flc_bit'[w] = TRUE
           /\ w # u => flc_bit'[w] = flc_bit[w]
           /\ w = t => pc'[w] = "flccheck"
           /\ w # t => pc'[w] = pc[w]
      /\ UNCHANGED <<flc_list, flc_object, obj, lockword>>
  BY Zenon, <1>1 DEF TypeOK, LocalInv, sable_flc_waiting_lock, Goto
<1>6. ASSUME NEW v \in Thread PROVE FlcLockInv(v)'
  <2>1. CASE v = t
    BY <1>1, <1>5, <2>1, LockAssumption DEF FlcLockInv, FlcListInv
  <2>2. CASE v # t
    BY <1>1, <1>5, <2>2, LockAssumption DEF FlcLockInv
  <2> QED BY Zenon, <2>1, <2>2
<1>7. ASSUME NEW v \in Thread PROVE FlcListInv(v)'
  <2>1. FlcListInv(v) /\ flc_list[v] \subseteq Thread
    BY Zenon, <1>1 DEF TypeOK
  <2> QED BY <1>5, <2>1 DEF FlcListInv
<1>8. ASSUME NEW v \in Thread PROVE QueuedInv(v)'
  <2>1. QueuedInv(v) /\ FlcLockInv(v)
    BY Zenon, <1>1
  <2> QED BY <1>5, <2>1 DEF QueuedInv, FlcLockInv, Releasing
<1> QED
  BY Zenon, <1>2, <1>3, <1>4, <1>6, <1>7, <1>8, FlcStep

\* The lock is still the owner's: the contender queues itself and waits.
LEMMA sable_flc_waiting_queue_Inv ==
  ASSUME IInv, NEW t \in Thread, sable_flc_waiting_queue(t)
  PROVE  IInv'
<1>0. PICK u \in Thread : u = t_other[t]
  BY Zenon DEF IInv, FlcLockInv, sable_flc_waiting_queue
<1>1. /\ TypeOK /\ LocalInv(t) /\ u = t_other[t]
      /\ \A v \in Thread : FlcLockInv(v) /\ FlcListInv(v) /\ QueuedInv(v)
  BY Zenon, <1>0 DEF IInv
<1>2. TypeOK'
  BY Zenon, <1>1, PCFacts DEF TypeOK, LocalInv, sable_flc_waiting_queue, Goto, record, waiting, entering
<1>3. LocksStay /\ OthersStay(t)
  BY Zenon, <1>1 DEF TypeOK, LocksStay, OthersStay, sable_flc_waiting_queue, Goto, record, entering
<1>4. LocalInv(t)'
  BY Zenon, <1>1 DEF TypeOK, LocalInv, sable_flc_waiting_queue, Goto
<1>5. /\ pc[t] = "flccheck" /\ flc_lock[u] = t /\ u # t /\ flc_bit[u]
      /\ ThinOwnedBy(lockword[obj[t]], u) /\ obj[t] \in Object
      /\ \A w \in Thread :
           /\ w = u => flc_lock'[w] = NoThread
           /\ w # u => flc_lock'[w] = flc_lock[w]
           /\ w = u => flc_list'[w] = flc_list[u] \cup {t}
           /\ w # u => flc_list'[w] = flc_list[w]
           /\ w = t => flc_object'[w] = obj[t]
           /\ w # t => flc_object'[w] = flc_object[w]
           /\ w = t => pc'[w] = "flcwait"
           /\ w # t => pc'[w] = pc[w]
      /\ UNCHANGED <<flc_bit, t_other, old_flc, obj, lockword>>
  BY <1>1 DEF TypeOK, LocalInv, FlcLockInv, sable_flc_waiting_queue, Goto, entering
<1>6. ASSUME NEW v \in Thread PROVE FlcLockInv(v)'
  <2>1. CASE v = t
    BY <1>1, <1>5, <2>1, LockAssumption DEF FlcLockInv
  <2>2. CASE v # t
    BY SMTT(30), <1>1, <1>5, <2>2, LockAssumption DEF FlcLockInv
  <2> QED BY Zenon, <2>1, <2>2
<1>7. ASSUME NEW v \in Thread PROVE FlcListInv(v)'
  <2>1. FlcListInv(v) /\ flc_list[v] \subseteq Thread
    BY Zenon, <1>1 DEF TypeOK
  <2>2. t \notin flc_list[v]
    BY Zenon, <1>5, <2>1 DEF FlcListInv
  <2>3. \A w \in flc_list[v] : w # t /\ flc_object'[w] = flc_object[w] /\ pc'[w] = pc[w] /\ t_other'[w] = t_other[w]
    BY Zenon, <1>5, <2>1, <2>2
  <2>4. CASE v = u
    BY <1>1, <1>5, <2>1, <2>3, <2>4, LockAssumption DEF FlcListInv
  <2>5. CASE v # u
    BY <1>5, <2>1, <2>3, <2>5 DEF FlcListInv
  <2> QED BY Zenon, <2>4, <2>5
<1>8. ASSUME NEW v \in Thread PROVE QueuedInv(v)'
  <2>1. QueuedInv(v) /\ FlcLockInv(v)
    BY Zenon, <1>1
  <2>2. CASE v = t
    BY <1>1, <1>5, <2>2 DEF QueuedInv
  <2>3. CASE v # t
    BY Zenon, <1>5, <2>1, <2>3 DEF QueuedInv, FlcLockInv, Releasing
  <2> QED BY Zenon, <2>2, <2>3
<1> QED
  BY Zenon, <1>2, <1>3, <1>4, <1>6, <1>7, <1>8, FlcStep

\* The lock changed hands: the FLC bit is restored.
LEMMA sable_flc_waiting_restore_Inv ==
  ASSUME IInv, NEW t \in Thread, sable_flc_waiting_restore(t)
  PROVE  IInv'
<1>0. PICK u \in Thread : u = t_other[t]
  BY Zenon DEF IInv, FlcLockInv, sable_flc_waiting_restore
<1>1. /\ TypeOK /\ LocalInv(t) /\ u = t_other[t]
      /\ \A v \in Thread : FlcLockInv(v) /\ FlcListInv(v) /\ QueuedInv(v)
  BY Zenon, <1>0 DEF IInv
<1>2. TypeOK'
  BY Zenon, <1>1, PCFacts DEF TypeOK, LocalInv, sable_flc_waiting_restore, Goto, record, waiting
<1>3. LocksStay /\ OthersStay(t)
  BY Zenon, <1>1 DEF TypeOK, LocksStay, OthersStay, sable_flc_waiting_restore, Goto, record
<1>4. LocalInv(t)'
  BY Zenon, <1>1 DEF TypeOK, LocalInv, sable_flc_waiting_restore, Goto
<1>b. pc[t] = "flccheck" /\ flc_lock[u] = t /\ u # t
  BY Zenon, <1>1 DEF FlcLockInv, sable_flc_waiting_restore
<1>5. /\ \A w \in Thread :
           /\ w = u => flc_lock'[w] = NoThread
           /\ w # u => flc_lock'[w] = flc_lock[w]
           /\ w = t => t_other'[w] = NoThread
           /\ w # t => t_other'[w] = t_other[w]
           /\ w = t => old_flc'[w] = FALSE
           /\ w # t => old_flc'[w] = old_flc[w]
           /\ w = u => flc_bit'[w] = old_flc[t]
           /\ w # u => flc_bit'[w] = flc_bit[w]
           /\ w = t => pc'[w] = "retry"
           /\ w # t => pc'[w] = pc[w]
      /\ UNCHANGED <<flc_list, flc_object, obj, lockword>>
  BY ZenonT(60), <1>1 DEF TypeOK, sable_flc_waiting_restore, Goto
<1>a. flc_list[u] # {} => old_flc[t]
  BY Zenon, <1>1, <1>b DEF FlcLockInv
<1>6. ASSUME NEW v \in Thread PROVE FlcLockInv(v)'
  <2>1. CASE v = t
    BY <1>1, <1>5, <1>b, <2>1, LockAssumption DEF FlcLockInv
  <2>2. CASE v # t
    BY <1>1, <1>5, <1>b, <2>2, LockAssumption DEF FlcLockInv
  <2> QED BY Zenon, <2>1, <2>2
<1>7. ASSUME NEW v \in Thread PROVE FlcListInv(v)'
  <2>1. FlcListInv(v) /\ flc_list[v] \subseteq Thread
    BY Zenon, <1>1 DEF TypeOK
  <2> QED BY <1>5, <1>b, <1>a, <2>1 DEF FlcListInv
<1>8. ASSUME NEW v \in Thread PROVE QueuedInv(v)'
  <2>1. QueuedInv(v) /\ FlcLockInv(v)
    BY Zenon, <1>1
  <2> QED BY <1>5, <1>b, <2>1 DEF QueuedInv, FlcLockInv, Releasing
<1> QED
  BY Zenon, <1>2, <1>3, <1>4, <1>6, <1>7, <1>8, FlcStep

\* The contender wakes: it waits on, or goes back to the retry label.
LEMMA sable_flc_waiting_woken_Inv ==
  ASSUME IInv, NEW t \in Thread, sable_flc_waiting_woken(t)
  PROVE  IInv'
<1>0. PICK u \in Thread : u = t_other[t]
  BY Zenon DEF IInv, FlcLockInv, sable_flc_waiting_woken
<1>1. /\ TypeOK /\ LocalInv(t) /\ u = t_other[t] /\ pc[t] = "flcwoken"
      /\ flc_lock[u] = NoThread
      /\ \A v \in Thread : FlcLockInv(v) /\ FlcListInv(v) /\ QueuedInv(v)
  BY Zenon, <1>0 DEF IInv, sable_flc_waiting_woken
<1>2. UNCHANGED <<lockword, record, flc, waiting, lw_cache, obj, held>>
  BY Zenon DEF sable_flc_waiting_woken
<1>3. CASE flc_object[t] = NoObject
  <2>1. /\ t_other' = [t_other EXCEPT ![t] = NoThread]
        /\ old_flc' = [old_flc EXCEPT ![t] = FALSE]
        /\ pc' = [pc EXCEPT ![t] = "retry"]
    BY Zenon, <1>3 DEF sable_flc_waiting_woken, Goto
  <2>2. TypeOK' /\ LocksStay /\ OthersStay(t)
    BY Zenon, <1>1, <1>2, <2>1, PCFacts
       DEF TypeOK, LocksStay, OthersStay, record, flc, waiting
  <2>3. LocalInv(t)'
    BY Zenon, <1>1, <1>2, <2>1 DEF TypeOK, LocalInv
  <2>4. \A v \in Thread : t \notin flc_list[v]
    <3> SUFFICES ASSUME NEW v \in Thread, t \in flc_list[v] PROVE FALSE
      BY Zenon
    <3>1. v = u /\ pc[v] \in {"nloop", "wnloop"}
      BY Zenon, <1>1, <1>3 DEF FlcListInv
    <3> QED BY Zenon, <1>1, <3>1, LockAssumption DEF FlcLockInv
  <2>5. ASSUME NEW v \in Thread PROVE FlcLockInv(v)'
    BY <1>1, <1>2, <2>1 DEF TypeOK, FlcLockInv, flc
  <2>6. ASSUME NEW v \in Thread PROVE FlcListInv(v)'
    BY <1>1, <1>2, <2>1, <2>4 DEF TypeOK, FlcListInv, flc
  <2>7. ASSUME NEW v \in Thread PROVE QueuedInv(v)'
    <3>1. QueuedInv(v) /\ FlcLockInv(v)
      BY Zenon, <1>1
    <3> QED BY <1>1, <1>2, <1>3, <2>1, <3>1
            DEF TypeOK, QueuedInv, FlcLockInv, Releasing, flc
  <2> QED BY Zenon, <2>2, <2>3, <2>5, <2>6, <2>7, FlcStep
<1>4. CASE flc_object[t] # NoObject
  <2>1. pc' = [pc EXCEPT ![t] = "flcwait"] /\ UNCHANGED <<t_other, old_flc>>
    BY Zenon, <1>4 DEF sable_flc_waiting_woken, Goto
  <2>2. TypeOK' /\ LocksStay /\ OthersStay(t)
    BY Zenon, <1>1, <1>2, <2>1, PCFacts
       DEF TypeOK, LocksStay, OthersStay, record, flc, waiting
  <2>3. LocalInv(t)'
    BY Zenon, <1>1, <1>2, <2>1 DEF TypeOK, LocalInv
  <2>4. ASSUME NEW v \in Thread PROVE FlcLockInv(v)'
    BY <1>1, <1>2, <2>1 DEF TypeOK, FlcLockInv, flc
  <2>5. ASSUME NEW v \in Thread PROVE FlcListInv(v)'
    BY SMTT(30), <1>1, <1>2, <2>1 DEF TypeOK, FlcListInv, flc
  <2>6. ASSUME NEW v \in Thread PROVE QueuedInv(v)'
    <3>1. QueuedInv(v) /\ FlcLockInv(v)
      BY Zenon, <1>1
    <3> QED BY SMTT(30), <1>1, <1>2, <2>1, <3>1
            DEF TypeOK, QueuedInv, FlcLockInv, Releasing, flc
  <2> QED BY Zenon, <2>2, <2>3, <2>4, <2>5, <2>6, FlcStep
<1> QED
  BY Zenon, <1>3, <1>4

\* The releasing thread locks its FLC lock.
LEMMA notify_flc_waiters_lock_Inv ==
  ASSUME IInv, NEW t \in Thread, notify_flc_waiters_lock(t)
  PROVE  IInv'
<1> USE DEF notify_flc_waiters_lock, Goto, record, flc, waiting, entering
<1>1. /\ TypeOK /\ LocalInv(t)
      /\ \A v \in Thread : FlcLockInv(v) /\ FlcListInv(v) /\ QueuedInv(v)
  BY Zenon DEF IInv
<1>2. TypeOK' /\ LocksStay /\ OthersStay(t)
  BY Zenon, <1>1, PCFacts DEF TypeOK, LocksStay, OthersStay
<1>3. LocalInv(t)'
  BY Zenon, <1>1 DEF TypeOK, LocalInv
<1>4. ASSUME NEW v \in Thread PROVE FlcLockInv(v)'
  <2>1. CASE v = t
    BY <1>1, <2>1, LockAssumption DEF TypeOK, FlcLockInv
  <2>2. CASE v # t
    BY <1>1, <2>2, LockAssumption DEF TypeOK, FlcLockInv
  <2> QED BY Zenon, <2>1, <2>2
<1>5. ASSUME NEW v \in Thread PROVE FlcListInv(v)'
  BY <1>1 DEF TypeOK, FlcListInv
<1>6. ASSUME NEW v \in Thread PROVE QueuedInv(v)'
  <2>1. QueuedInv(v) /\ FlcLockInv(v)
    BY Zenon, <1>1
  <2> QED BY <1>1, <2>1 DEF TypeOK, FlcLockInv, QueuedInv, Releasing
<1> QED
  BY Zenon, <1>2, <1>3, <1>4, <1>5, <1>6, FlcStep

\* The releasing thread has dealt with its list and clears it with the bit.
LEMMA notify_flc_waiters_done_Inv ==
  ASSUME IInv, NEW t \in Thread, notify_flc_waiters_done(t)
  PROVE  IInv'
<1>1. /\ TypeOK /\ LocalInv(t) /\ pc[t] \in {"nloop", "wnloop"}
      /\ \A v \in Thread : FlcLockInv(v) /\ FlcListInv(v) /\ QueuedInv(v)
  BY Zenon DEF IInv, notify_flc_waiters_done
<1>2. /\ flc_list' = [flc_list EXCEPT ![t] = {}]
      /\ flc_bit' = [flc_bit EXCEPT ![t] = FALSE]
      /\ flc_lock' = [flc_lock EXCEPT ![t] = NoThread]
      /\ UNCHANGED <<lockword, record, flc_object, waiting, entering, held>>
  BY Zenon DEF notify_flc_waiters_done
<1>3. \/ /\ pc[t] = "nloop"
         /\ pc' = [pc EXCEPT ![t] = "run"] /\ obj' = [obj EXCEPT ![t] = NoObject]
      \/ /\ pc[t] = "wnloop"
         /\ pc' = [pc EXCEPT ![t] = "wrelease"] /\ obj' = obj
  BY Zenon DEF notify_flc_waiters_done, Return, Goto
<1>4. TypeOK' /\ LocksStay /\ OthersStay(t)
  <2>1. pc' \in [Thread -> PC] /\ obj' \in [Thread -> Object \cup {NoObject}]
    <3>1. CASE pc' = [pc EXCEPT ![t] = "run"] /\ obj' = [obj EXCEPT ![t] = NoObject]
      BY Zenon, <1>1, <3>1, PCFacts DEF TypeOK
    <3>2. CASE pc' = [pc EXCEPT ![t] = "wrelease"] /\ obj' = obj
      BY Zenon, <1>1, <3>2, PCFacts DEF TypeOK
    <3> QED BY Zenon, <1>3, <3>1, <3>2
  <2>2. TypeOK' /\ LocksStay
    BY Zenon, <1>1, <1>2, <2>1 DEF TypeOK, LocksStay, record, waiting, entering
  <2>3. OthersStay(t)
    BY <1>1, <1>2, <1>3 DEF TypeOK, OthersStay, entering
  <2> QED BY Zenon, <2>2, <2>3
<1>5. LocalInv(t)'
  BY SMTT(30), <1>1, <1>2, <1>3 DEF TypeOK, LocalInv, record
<1>6. ASSUME NEW v \in Thread PROVE FlcLockInv(v)'
  <2>1. CASE v = t
    BY <1>1, <1>2, <1>3, <2>1, LockAssumption DEF TypeOK, FlcLockInv, entering
  <2>2. CASE v # t
    BY <1>1, <1>2, <1>3, <2>2, LockAssumption DEF TypeOK, FlcLockInv, entering
  <2> QED BY Zenon, <2>1, <2>2
<1>7. ASSUME NEW v \in Thread PROVE FlcListInv(v)'
  <2>1. CASE v = t
    BY <1>1, <1>2, <2>1 DEF TypeOK, FlcListInv
  <2>2. CASE v # t
    <3>1. t \notin flc_list[v]
      BY Zenon, <1>1 DEF FlcListInv
    <3>2. FlcListInv(v) /\ flc_list'[v] = flc_list[v] /\ flc_bit'[v] = flc_bit[v]
          /\ UNCHANGED <<t_other, flc_object>>
      BY Zenon, <1>1, <1>2, <2>2 DEF TypeOK, entering
    <3>3. pc'[v] = pc[v] /\ \A w \in flc_list[v] : pc'[w] = pc[w]
      BY Zenon, <1>1, <1>3, <2>2, <3>1 DEF TypeOK
    <3> QED BY Zenon, <3>2, <3>3 DEF FlcListInv
  <2> QED BY Zenon, <2>1, <2>2
<1>8. ASSUME NEW v \in Thread PROVE QueuedInv(v)'
  <2> SUFFICES ASSUME flc_object[v] # NoObject PROVE QueuedInv(v)'
    BY Zenon, <1>2 DEF QueuedInv
  <2>1. QueuedInv(v) /\ FlcLockInv(v)
    BY Zenon, <1>1
  <2>2. t_other[v] # t
    BY Zenon, <2>1 DEF QueuedInv, notify_flc_waiters_done, Pending
  <2>3. v # t /\ t_other[v] \in Thread
    BY Zenon, <1>1, <2>1 DEF QueuedInv, FlcLockInv
  <2> QED BY SMTT(30), <1>1, <1>2, <1>3, <2>1, <2>2, <2>3 DEF TypeOK, QueuedInv, entering
<1> QED
  BY Zenon, <1>4, <1>5, <1>6, <1>7, <1>8, FlcStep

\* One turn of the loop of notify_flc_waiters. The lock inflated there belongs
\* to t, because the contender is queued on t (QueuedInv).
LEMMA notify_flc_waiters_entry_Inv ==
  ASSUME IInv, NEW t \in Thread, NEW u \in Thread, notify_flc_waiters_entry(t, u)
  PROVE  IInv'
<1>1. /\ TypeOK /\ pc[t] \in {"nloop", "wnloop"}
      /\ u \in flc_list[t] /\ flc_object[u] # NoObject
      /\ \A v \in Thread : LocalInv(v) /\ FlcLockInv(v) /\ FlcListInv(v) /\ QueuedInv(v)
  BY Zenon DEF IInv, notify_flc_waiters_entry, Pending
<1>2. PICK x \in Object : x = flc_object[u]
  BY Zenon, <1>1 DEF TypeOK
<1>3. /\ u # t /\ t_other[u] = t /\ pc[u] \in {"flcwait", "flcwoken"} /\ obj[u] = x
      /\ ThinOwnedBy(lockword[x], t) \/ obj[t] = x \/ lockword[x] = Fat
  BY <1>1, <1>2 DEF FlcListInv, QueuedInv
<1>4. /\ flc_object' = [flc_object EXCEPT ![u] = NoObject]
      /\ UNCHANGED <<flc_lock, flc_bit, flc_list, waiting, entering, obj, held>>
  BY Zenon DEF notify_flc_waiters_entry
<1>5. /\ pc'[u] \in {"flcwait", "flcwoken"} /\ pc' \in [Thread -> PC]
      /\ \A v \in Thread \ {u} : pc'[v] = pc[v]
  BY Zenon, <1>1, <1>3, PCFacts DEF TypeOK, notify_flc_waiters_entry
<1>6. \/ /\ x # obj[t] /\ lockword[x].shape = "thin" /\ lock_inflate(t, x, 0)
      \/ UNCHANGED <<lockword, record>>
  BY Zenon, <1>2 DEF notify_flc_waiters_entry
<1>7. /\ TypeOK' /\ OwnLocksOnly(t)
      /\ OwnershipRecorded' /\ \A o \in Object : RecordInv(o)'
      /\ \A o \in Object : lockword'[o] = lockword[o] \/ (ThinOwnedBy(lockword[o], t) /\ lockword'[o] = Fat)
      /\ lockword'[obj[t]] = lockword[obj[t]] /\ lr_mutex'[obj[t]] = lr_mutex[obj[t]]
  <2>1. CASE UNCHANGED <<lockword, record>>
    <3>1. TypeOK'
      BY Zenon, <1>1, <1>4, <1>5, <2>1 DEF TypeOK, record, waiting, entering
    <3>2. LocksStay /\ OwnLocksOnly(t)
      BY Zenon, <1>4, <2>1 DEF LocksStay, OwnLocksOnly, record
    <3> QED BY Zenon, <2>1, <3>1, <3>2, LocksStayInv DEF record
  <2>2. CASE x # obj[t] /\ lockword[x].shape = "thin" /\ lock_inflate(t, x, 0)
    <3>1. ThinOwnedBy(lockword[x], t) /\ lockword[x] \in LockWord
      BY SMTT(30), <1>1, <1>3, <2>2 DEF Fat, TypeOK
    <3>2. lockword[x].count \in Nat /\ lockword[x].count + 0 = lockword[x].count
      BY Zenon, <3>1, WordCount
    <3>3. /\ lr_mutex[x] = NoThread
          /\ lr_mutex' = [lr_mutex EXCEPT ![x] = t]
          /\ lr_owner' = [lr_owner EXCEPT ![x] = t]
          /\ lr_count' = [lr_count EXCEPT ![x] = lockword[x].count + 0]
          /\ lockword' = [lockword EXCEPT ![x] = Fat]
      BY Zenon, <2>2 DEF lock_inflate, lock_record_enter
    <3>4. TypeOK'
      BY Zenon, <1>1, <1>4, <1>5, <3>2, <3>3, WordFacts DEF TypeOK, waiting, entering
    <3>5. OwnLocksOnly(t) /\ OnlyHolds(t, x)
      BY Zenon, <1>1, <1>4, <3>1, <3>3 DEF TypeOK, OwnLocksOnly, OnlyHolds
    <3>6. /\ lockword'[x] = Fat /\ lr_mutex'[x] = t /\ lr_owner'[x] = t
          /\ lr_count'[x] = lockword[x].count
      BY Zenon, <1>1, <3>2, <3>3 DEF TypeOK
    <3>7. held[t][x] = RecordedDepth(t, x)
      BY Zenon DEF IInv, OwnershipRecorded
    <3>a. FreeFor(t, x) /\ FreeFor(t, x)' /\ RecordInv(x)'
      <4>1. FreeFor(t, x)
        BY Zenon, <3>1 DEF FreeFor, ThinOwnedBy
      <4>2. FreeFor(t, x)'
        <5>1. lockword'[x].shape = "fat"
          BY <3>6 DEF Fat
        <5>2. lr_mutex'[x] \in {t, NoThread}
          BY Zenon, <3>6
        <5> QED BY Zenon, <5>1, <5>2 DEF FreeFor
      <4>3. RecordInv(x)'
        BY <3>6, LockAssumption DEF RecordInv, Fat
      <4> QED BY Zenon, <4>1, <4>2, <4>3
    <3>b. held[t][x] = lockword[x].count + 1
      BY Zenon, <3>1, <3>7 DEF RecordedDepth, lock_is_held_by_current_thread, ThinOwnedBy
    <3>c. RecordedDepth(t, x)' = lockword[x].count + 1
      BY <3>6 DEF RecordedDepth, lock_is_held_by_current_thread, Fat
    <3>8. /\ FreeFor(t, x) /\ FreeFor(t, x)' /\ RecordInv(x)'
          /\ held'[t][x] = RecordedDepth(t, x)'
      BY Zenon, <1>4, <3>a, <3>b, <3>c
    <3>9. OwnershipRecorded' /\ \A o \in Object : RecordInv(o)'
      BY Zenon, <3>5, <3>8, OwnershipStep
    <3>10. \A o \in Object : lockword'[o] = lockword[o] \/ (ThinOwnedBy(lockword[o], t) /\ lockword'[o] = Fat)
      BY Zenon, <1>1, <3>1, <3>3 DEF TypeOK
    <3>11. lockword'[obj[t]] = lockword[obj[t]] /\ lr_mutex'[obj[t]] = lr_mutex[obj[t]]
      BY Zenon, <1>1, <2>2, <3>3 DEF TypeOK, LocalInv
    <3> QED BY Zenon, <3>4, <3>5, <3>9, <3>10, <3>11
  <2> QED BY Zenon, <1>6, <2>1, <2>2
<1>8. ASSUME NEW v \in Thread PROVE LocalInv(v)'
  <2>1. CASE v = t
    BY Zenon, <1>1, <1>3, <1>4, <1>5, <1>7, <2>1 DEF LocalInv
  <2>2. CASE v # t
    BY Zenon, <1>3, <1>4, <1>5, <1>7, <2>2, OthersLocalInv DEF entering
  <2> QED BY Zenon, <2>1, <2>2
<1>9. ASSUME NEW v \in Thread PROVE FlcLockInv(v)'
  <2>1. FlcLockInv(v) /\ UNCHANGED <<flc_lock, flc_bit, flc_list, t_other, old_flc>>
    BY Zenon, <1>1, <1>4 DEF entering
  <2>2. \A w \in Thread : pc'[w] = pc[w] \/ {pc[w], pc'[w]} \subseteq {"flcwait", "flcwoken"}
    BY Zenon, <1>3, <1>5
  <2> QED BY Zenon, <2>1, <2>2 DEF FlcLockInv
<1>10. ASSUME NEW v \in Thread PROVE FlcListInv(v)'
  <2>1. FlcListInv(v) /\ flc_list[v] \subseteq Thread
    BY Zenon, <1>1 DEF TypeOK
  <2>2. UNCHANGED <<flc_list, flc_bit, t_other>>
    BY Zenon, <1>4 DEF entering
  <2>3. pc[v] \in {"nloop", "wnloop"} => pc'[v] \in {"nloop", "wnloop"}
    BY Zenon, <1>3, <1>5
  <2>4. ASSUME NEW w \in flc_list[v]
        PROVE  /\ t_other[w] = v /\ pc'[w] \in {"flcwait", "flcwoken"}
               /\ flc_object'[w] = NoObject => pc'[v] \in {"nloop", "wnloop"}
    <3>1. CASE w = u
      BY <1>1, <1>3, <1>5, <2>1, <3>1 DEF FlcListInv
    <3>2. CASE w # u
      <4>1. w \in Thread
        BY Zenon, <2>1
      <4>2. /\ t_other[w] = v /\ pc[w] \in {"flcwait", "flcwoken"}
            /\ flc_object[w] = NoObject => pc[v] \in {"nloop", "wnloop"}
        BY Zenon, <2>1 DEF FlcListInv
      <4>3. flc_object'[w] = flc_object[w]
        BY Zenon, <1>1, <1>4, <3>2, <4>1 DEF TypeOK
      <4>4. pc'[w] = pc[w]
        BY Zenon, <1>5, <3>2, <4>1
      <4> QED BY Zenon, <2>3, <4>2, <4>3, <4>4
    <3> QED BY Zenon, <3>1, <3>2
  <2> QED BY Zenon, <2>1, <2>2, <2>4 DEF FlcListInv
<1>11. ASSUME NEW v \in Thread PROVE QueuedInv(v)'
  <2>1. CASE v = u
    BY Zenon, <1>1, <1>4, <2>1 DEF TypeOK, QueuedInv
  <2>2. CASE v # u
    <3>1. QueuedInv(v) /\ FlcLockInv(v) /\ LocalInv(v) /\ flc_object'[v] = flc_object[v]
          /\ pc'[v] = pc[v]
      BY Zenon, <1>1, <1>4, <1>5, <2>2 DEF TypeOK
    <3> SUFFICES ASSUME flc_object[v] # NoObject PROVE QueuedInv(v)'
      BY Zenon, <3>1 DEF QueuedInv
    <3>2. obj[v] \in Object /\ t_other[v] \in Thread
      BY Zenon, <3>1 DEF QueuedInv, FlcLockInv, LocalInv
    <3>3. pc[t_other[v]] \in Releasing => pc'[t_other[v]] \in Releasing
      BY Zenon, <1>3, <1>5, <3>2 DEF Releasing
    <3>4. pc'[t] \in Releasing
      BY Zenon, <1>1, <1>3, <1>5 DEF Releasing
    <3> QED BY Zenon, <1>4, <1>7, <3>1, <3>2, <3>3, <3>4 DEF QueuedInv, ThinOwnedBy, entering, Fat
  <2> QED BY Zenon, <2>1, <2>2
<1> QED
  BY Zenon, <1>7, <1>8, <1>9, <1>10, <1>11 DEF IInv

\* Steps that only move threads between the two waits of Object.wait.
LEMMA WaitersMove ==
  ASSUME IInv, TypeOK', LocksStay,
         UNCHANGED <<flc_lock, flc_bit, flc_list, flc_object, t_other, old_flc,
                     obj, lw_cache>>,
         \A v \in Thread :
           pc'[v] = pc[v] \/ {pc[v], pc'[v]} \subseteq {"wtest", "wcond", "wenter"}
  PROVE  IInv'
<1>1. ASSUME NEW v \in Thread PROVE LocalInv(v)'
  <2>1. LocalInv(v) /\ UNCHANGED <<lockword, lr_mutex>>
    BY Zenon DEF IInv, LocksStay
  <2>2. CASE pc'[v] = pc[v]
    BY Zenon, <2>1, <2>2 DEF LocalInv
  <2>3. CASE {pc[v], pc'[v]} \subseteq {"wtest", "wcond", "wenter"}
    <3>1. obj[v] \in Object /\ lockword[obj[v]] = Fat /\ lr_mutex[obj[v]] # v
      BY Zenon, <2>1, <2>3 DEF LocalInv
    <3>2. pc'[v] \in {"wtest", "wcond", "wenter"} /\ obj'[v] = obj[v]
      BY Zenon, <2>3
    <3> QED BY Zenon, <2>1, <3>1, <3>2 DEF LocalInv
  <2> QED BY Zenon, <2>2, <2>3
<1>2. ASSUME NEW v \in Thread PROVE FlcLockInv(v)'
  BY DEF IInv, FlcLockInv
<1>3. ASSUME NEW v \in Thread PROVE FlcListInv(v)'
  <2>1. FlcListInv(v) /\ flc_list[v] \subseteq Thread
    BY Zenon DEF IInv, TypeOK
  <2>2. \A w \in flc_list[v] : pc'[w] = pc[w]
    BY Zenon, <2>1 DEF FlcListInv
  <2>3. pc[v] \in {"nloop", "wnloop"} => pc'[v] = pc[v]
    BY Zenon
  <2> QED BY Zenon, <2>1, <2>2, <2>3 DEF FlcListInv
<1>4. ASSUME NEW v \in Thread PROVE QueuedInv(v)'
  <2>1. QueuedInv(v) /\ FlcLockInv(v)
    BY Zenon DEF IInv
  <2> QED BY Zenon, <2>1 DEF QueuedInv, FlcLockInv, Releasing, LocksStay
<1> QED
  BY Zenon, <1>1, <1>2, <1>3, <1>4, LocksStayInv DEF IInv

\* The tests before and after the wait on waitcond.
LEMMA threads_wait_with_timeout_Inv ==
  ASSUME IInv, NEW t \in Thread, threads_wait_with_timeout(t)
  PROVE  IInv'
<1> USE DEF threads_wait_with_timeout, Goto, record, flc, waiting, entering
<1>1. TypeOK /\ TypeOK'
  BY Zenon, PCFacts DEF IInv, TypeOK
<1>2. \A v \in Thread :
        pc'[v] = pc[v] \/ {pc[v], pc'[v]} \subseteq {"wtest", "wcond", "wenter"}
  BY Zenon, <1>1 DEF TypeOK
<1> QED
  BY Zenon, <1>1, <1>2, WaitersMove DEF LocksStay

\* Signalling waitcond moves waiters only from one wait to the next point.
LEMMA WokenMoves ==
  ASSUME TypeOK, NEW S, pc' = Woken(S)
  PROVE  /\ pc' \in [Thread -> PC]
         /\ \A v \in Thread :
              pc'[v] = pc[v] \/ {pc[v], pc'[v]} \subseteq {"wtest", "wcond", "wenter"}
BY Zenon, PCFacts DEF TypeOK, Woken

\* notify and notifyAll.
LEMMA lock_monitor_notify_Inv ==
  ASSUME IInv, NEW t \in Thread, NEW o \in Object, NEW one \in BOOLEAN,
         lock_monitor_notify(t, o, one)
  PROVE  IInv'
<1>1. PICK S : pc' = Woken(S) /\ signaled' = [u \in Thread |-> u \in S \/ signaled[u]]
  BY Zenon DEF lock_monitor_notify
<1>2. UNCHANGED <<lockword, record, flc, waiters, interrupted, lockcount, timed,
                  entering, obj, held>>
  BY Zenon DEF lock_monitor_notify
<1>3. TypeOK
  BY Zenon DEF IInv
<1>4. signaled' \in [Thread -> BOOLEAN]
  BY Zenon, <1>1
<1>5. TypeOK'
  BY Zenon, <1>1, <1>2, <1>3, <1>4, WokenMoves DEF TypeOK, record, flc, entering
<1> QED
  BY Zenon, <1>1, <1>2, <1>3, <1>5, WokenMoves, WaitersMove
     DEF LocksStay, record, flc, entering

\* interrupt.
LEMMA threads_thread_interrupt_Inv ==
  ASSUME IInv, NEW t \in Thread, NEW u \in Thread, threads_thread_interrupt(t, u)
  PROVE  IInv'
<1> USE DEF threads_thread_interrupt, record, flc, entering
<1>1. TypeOK
  BY Zenon DEF IInv
<1>2. TypeOK'
  BY Zenon, <1>1, WokenMoves DEF TypeOK
<1> QED
  BY Zenon, <1>1, <1>2, WokenMoves, WaitersMove DEF LocksStay

\* A timeout expires.
LEMMA time_is_up_Inv ==
  ASSUME IInv, NEW t \in Thread, time_is_up(t)
  PROVE  IInv'
<1> USE DEF time_is_up, record, flc, entering
<1>1. TypeOK
  BY Zenon DEF IInv
<1>2. TypeOK'
  BY Zenon, <1>1, WokenMoves DEF TypeOK
<1> QED
  BY Zenon, <1>1, <1>2, WokenMoves, WaitersMove DEF LocksStay

\* A condition variable wakes a thread for no reason.
LEMMA cond_spurious_Inv ==
  ASSUME IInv, NEW t \in Thread, cond_spurious(t)
  PROVE  IInv'
<1>1. TypeOK /\ LocalInv(t) /\ \A v \in Thread : FlcLockInv(v) /\ FlcListInv(v) /\ QueuedInv(v)
  BY Zenon DEF IInv
<1>0. /\ UNCHANGED <<lockword, lr_mutex, lr_owner, lr_count, obj, held>>
      /\ UNCHANGED <<flc_lock, flc_bit, flc_list, flc_object>>
      /\ UNCHANGED <<waiters, interrupted, signaled, lockcount, timed>>
      /\ UNCHANGED <<lw_cache, t_other, old_flc>>
  BY Zenon DEF cond_spurious, record, flc, waiting, entering
<1>2. TypeOK'
  <2>1. \E l \in PC : pc' = [pc EXCEPT ![t] = l]
    BY Zenon, PCFacts DEF cond_spurious, Goto
  <2>2. pc' \in [Thread -> PC]
    BY Zenon, <1>1, <2>1 DEF TypeOK
  <2> QED BY Zenon, <1>0, <1>1, <2>2 DEF TypeOK
<1>3. CASE pc[t] = "wcond"
  <2>1. \A v \in Thread :
          pc'[v] = pc[v] \/ {pc[v], pc'[v]} \subseteq {"wtest", "wcond", "wenter"}
    BY Zenon, <1>1, <1>3 DEF TypeOK, cond_spurious, Goto
  <2> QED BY Zenon, <1>0, <1>2, <2>1, WaitersMove DEF LocksStay
<1>4. CASE pc[t] = "flcwait"
  <2>0. pc' = [pc EXCEPT ![t] = "flcwoken"]
    BY Zenon, <1>4 DEF cond_spurious, Goto
  <2>1. LocksStay /\ OthersStay(t)
    BY Zenon, <1>0, <1>1, <2>0 DEF TypeOK, LocksStay, OthersStay
  <2>6. UNCHANGED <<flc_lock, flc_bit, flc_list, flc_object, t_other, old_flc, obj, lockword>>
    BY Zenon, <1>0
  <2>7. \A w \in Thread : pc'[w] = pc[w] \/ (pc[w] = "flcwait" /\ pc'[w] = "flcwoken")
    BY Zenon, <1>1, <1>4, <2>0 DEF TypeOK
  <2>2. LocalInv(t)'
    <3>1. pc'[t] = "flcwoken" /\ obj'[t] = obj[t] /\ obj[t] \in Object
      BY Zenon, <1>1, <1>4, <2>0, <2>6 DEF TypeOK, LocalInv
    <3> QED BY Zenon, <3>1 DEF LocalInv
  <2>3. ASSUME NEW v \in Thread PROVE FlcLockInv(v)'
    BY <1>1, <2>6, <2>7 DEF FlcLockInv
  <2>4. ASSUME NEW v \in Thread PROVE FlcListInv(v)'
    <3>1. FlcListInv(v) /\ flc_list[v] \subseteq Thread
      BY Zenon, <1>1 DEF TypeOK
    <3> QED BY Zenon, <2>6, <2>7, <3>1 DEF FlcListInv
  <2>5. ASSUME NEW v \in Thread PROVE QueuedInv(v)'
    <3>1. QueuedInv(v) /\ FlcLockInv(v)
      BY Zenon, <1>1
    <3>2. UNCHANGED <<flc_object, flc_list, t_other, obj, lockword>>
      BY Zenon, <2>6
    <3>3. \A w \in Thread :
            /\ pc[w] \in Releasing => pc'[w] \in Releasing
            /\ pc[w] \in {"flcwait", "flcwoken"} => pc'[w] \in {"flcwait", "flcwoken"}
      BY Zenon, <2>7 DEF Releasing
    <3>4. flc_object[v] # NoObject => t_other[v] \in Thread
      BY Zenon, <3>1 DEF QueuedInv, FlcLockInv
    <3> QED BY Zenon, <3>1, <3>2, <3>3, <3>4 DEF QueuedInv
  <2> QED BY Zenon, <1>2, <2>1, <2>2, <2>3, <2>4, <2>5, FlcStep
<1> QED
  BY Zenon, <1>3, <1>4 DEF cond_spurious

-----------------------------------------------------------------------------
\* The invariant holds initially.
LEMMA InitIInv == Init => IInv
<1> SUFFICES ASSUME Init PROVE IInv
  BY Zenon
<1>1. TypeOK
  BY PCFacts, WordFacts DEF Init, TypeOK
<1>2. \A o \in Object : RecordInv(o)
  BY Zenon DEF Init, RecordInv, Unlocked, Thin
<1>3. OwnershipRecorded
  BY Zenon, LockAssumption DEF Init, OwnershipRecorded, RecordedDepth,
       lock_is_held_by_current_thread, Unlocked, Thin
<1>4. \A t \in Thread : LocalInv(t) /\ FlcLockInv(t) /\ FlcListInv(t) /\ QueuedInv(t)
  BY ZenonT(60), LockAssumption DEF Init, LocalInv, FlcLockInv, FlcListInv, QueuedInv
<1> QED
  BY Zenon, <1>1, <1>2, <1>3, <1>4 DEF IInv

\* Every step keeps the invariant: one lemma per action.
LEMMA NextIInv == IInv /\ [Next]_vars => IInv'
<1> SUFFICES ASSUME IInv, [Next]_vars PROVE IInv'
  BY Zenon
<1>1. CASE UNCHANGED vars
  <2>1. TypeOK'
    BY Zenon, <1>1 DEF IInv, TypeOK, vars, record, flc, waiting, entering
  <2> QED BY Zenon, <1>1, <2>1, WaitersMove DEF vars, record, flc, waiting, entering, LocksStay
<1>2. ASSUME NEW t \in Thread, Step(t) PROVE IInv'
  <2>1. CASE EnterStep(t)
    BY Zenon, <2>1, enter_retry_Inv, enter_thin_Inv, enter_recursive_Inv,
       enter_overflow_Inv, enter_fat_recursive_Inv, enter_fat_block_Inv,
       enter_fat_Inv, enter_contended_Inv, sable_flc_waiting_nobody_Inv,
       sable_flc_waiting_lock_Inv, sable_flc_waiting_queue_Inv,
       sable_flc_waiting_restore_Inv, sable_flc_waiting_woken_Inv DEF EnterStep
  <2>2. CASE NotifyFlcStep(t)
    BY Zenon, <2>2, exit_test_Inv, notify_flc_waiters_lock_Inv,
       notify_flc_waiters_done_Inv, notify_flc_waiters_entry_Inv DEF NotifyFlcStep
  <2>3. CASE WaitStep(t)
    BY Zenon, <2>3, wait_release_Inv, threads_wait_with_timeout_Inv, wait_enter_Inv,
       wait_clear_Inv DEF WaitStep
  <2> QED BY Zenon, <1>2, <2>1, <2>2, <2>3, throw_Inv DEF Step
<1>3. ASSUME NEW t \in Thread, Call(t) PROVE IInv'
  BY Zenon, <1>3, lock_monitor_enter_Inv, exit_thin_Inv, exit_recursive_Inv,
     exit_fat_Inv, illegal_monitor_state_Inv, lock_monitor_wait_Inv,
     lock_monitor_notify_Inv, threads_thread_interrupt_Inv
     DEF Call, lock_monitor_exit
<1> QED
  BY Zenon, <1>1, <1>2, <1>3, time_is_up_Inv, cond_spurious_Inv DEF Next

\* IInv, the inductive invariant of the lock protocol, holds in every reachable
\* state, for any set of threads and objects and any width of the thin count.
THEOREM Invariance == Spec => []IInv
BY InitIInv, NextIInv, PTL DEF Spec

\* Every variable keeps its type.
THEOREM TypeCorrect == Spec => []TypeOK
<1>1. IInv => TypeOK
  BY Zenon DEF IInv
<1> QED
  BY <1>1, Invariance, PTL

\* The lockword and the record name one owner.
LEMMA IInvExcludes == IInv => MutualExclusion
<1> SUFFICES ASSUME IInv, NEW o \in Object, NEW t \in Thread, NEW u \in Thread,
                    held[t][o] > 0, held[u][o] > 0
             PROVE  t = u
  BY Zenon DEF MutualExclusion
<1>1. held[t][o] = RecordedDepth(t, o) /\ held[u][o] = RecordedDepth(u, o)
  BY ZenonT(60) DEF IInv, OwnershipRecorded
<1>2. lock_is_held_by_current_thread(t, o) /\ lock_is_held_by_current_thread(u, o)
  BY <1>1 DEF RecordedDepth
<1> QED
  BY Zenon, <1>2 DEF lock_is_held_by_current_thread

\* No two threads ever hold one monitor (lock_monitor_enter and
\* lock_monitor_exit, lock.cpp:786-977).
THEOREM Exclusion == Spec => []MutualExclusion
BY IInvExcludes, Invariance, PTL

\* The lockword or the record counts exactly the enters a thread has not yet
\* exited, through inflation, overflow and wait.
THEOREM OwnershipExact == Spec => []OwnershipRecorded
<1>1. IInv => OwnershipRecorded
  BY Zenon DEF IInv
<1> QED
  BY <1>1, Invariance, PTL

\* What the invariant says of queued threads covers NoLostContender.
LEMMA IInvContenders == IInv => NoLostContender
<1> SUFFICES ASSUME IInv, NEW t \in Thread, flc_object[t] # NoObject
             PROVE  /\ t_other[t] \in Thread
                    /\ t \in flc_list[t_other[t]]
                    /\ flc_bit[t_other[t]]
                    /\ \/ ThinOwnedBy(lockword[flc_object[t]], t_other[t])
                       \/ pc[t_other[t]] \in Releasing
  BY Zenon DEF NoLostContender
<1>1. QueuedInv(t) /\ FlcLockInv(t)
  BY Zenon DEF IInv
<1>2. t_other[t] \in Thread /\ t \in flc_list[t_other[t]]
  BY Zenon, <1>1 DEF QueuedInv, FlcLockInv
<1>3. flc_bit[t_other[t]]
  BY Zenon, <1>2 DEF IInv, FlcListInv
<1> QED
  BY Zenon, <1>1, <1>2, <1>3 DEF QueuedInv

\* A thread queued in sable_flc_waiting (lock.cpp:658) is always in the list of
\* an owner that will look at it (notify_flc_waiters, lock.cpp:729).
THEOREM ContendersKept == Spec => []NoLostContender
BY IInvContenders, Invariance, PTL

\* A lock found thin by notify_flc_waiters is the releasing thread's own.
LEMMA IInvInflates == IInv => InflateByOwner
<1> SUFFICES ASSUME IInv, NEW t \in Thread, pc[t] \in {"nloop", "wnloop"},
                    NEW u \in Pending(t), flc_object[u] # obj[t],
                    lockword[flc_object[u]].shape = "thin"
             PROVE  lockword[flc_object[u]].owner = t /\ lr_mutex[flc_object[u]] = NoThread
  BY Zenon DEF InflateByOwner
<1>1. u \in Thread /\ u \in flc_list[t] /\ flc_object[u] \in Object
  BY Zenon DEF IInv, TypeOK, Pending
<1>2. FlcListInv(t) /\ QueuedInv(u) /\ RecordInv(flc_object[u])
  BY Zenon, <1>1 DEF IInv
<1>3. ThinOwnedBy(lockword[flc_object[u]], t)
  <2>1. flc_object[u] # NoObject /\ t_other[u] = t
    BY Zenon, <1>1, <1>2, LockAssumption DEF FlcListInv
  <2>2. obj[u] = flc_object[u] /\ lockword[obj[u]] # Fat
    <3>1. obj[u] = flc_object[u]
      BY Zenon, <1>2, <2>1 DEF QueuedInv
    <3>2. lockword[flc_object[u]] # Fat
      BY Zenon, WordShapes
    <3> QED BY Zenon, <3>1, <3>2
  <2> QED BY Zenon, <1>2, <2>1, <2>2 DEF QueuedInv
<1> QED
  BY Zenon, <1>2, <1>3 DEF RecordInv, ThinOwnedBy

\* notify_flc_waiters (lock.cpp:746) inflates only locks its own thread holds.
THEOREM InflationSafe == Spec => []InflateByOwner
BY IInvInflates, Invariance, PTL

\* No thread is about to lock a mutex it holds.
LEMMA IInvRelock == IInv => NoRelock
<1> SUFFICES ASSUME IInv, NEW t \in Thread
             PROVE  /\ pc[t] \in {"fatlock", "wenter"} => lr_mutex[obj[t]] # t
                    /\ pc[t] = "flc" => lw_cache[t].owner # t
                    /\ pc[t] \in {"flc", "nlock", "wnlock", "flcwoken"} =>
                         \A u \in Thread : flc_lock[u] # t
  BY Zenon DEF NoRelock
<1>1. LocalInv(t) /\ FlcLockInv(t)
  BY Zenon DEF IInv
<1> QED
  BY Zenon, <1>1 DEF LocalInv, FlcLockInv

\* No thread locks a record or an FLC lock it already has, so the lock code
\* never relies on the mutexes being recursive.
THEOREM NeverRelocks == Spec => []NoRelock
BY IInvRelock, Invariance, PTL

\* A free lock record always has count zero and no owner, so the assertion at
\* lock.cpp:861 holds and no thread mistakes a record for its own.
THEOREM RecordsClean == Spec => []FreeRecordClean
<1>1. IInv => FreeRecordClean
  BY Zenon DEF IInv, RecordInv, FreeRecordClean
<1> QED
  BY <1>1, Invariance, PTL

-----------------------------------------------------------------------------
(* Waiting, and the refinement of JavaMonitor *)

LEMMA IInvExcludesNext == IInv' => MutualExclusion'
<1>1. IInv => MutualExclusion
  BY IInvExcludes
<1> QED
  BY <1>1, PTL

\* The wait sets and the depths to restore, as JavaMonitor sees them.
WaitOn == [t \in Thread |-> IF InWaitSet(t) THEN obj[t] ELSE NoObject]
DepthOf == [t \in Thread |-> IF InWaitSet(t) THEN lockcount[t] + 1 ELSE 0]

\* The entries of a list, and that each is there once.
Entries(s) == {s[i] : i \in DOMAIN s}
Once(s) == \A i, j \in DOMAIN s : s[i] = s[j] => i = j

\* lock_record_add_waiter (lock.cpp:994) adds a thread once.
LEMMA AppendEntries ==
  ASSUME NEW s \in Seq(Thread), NEW t \in Thread, Once(s), t \notin Entries(s)
  PROVE  Entries(Append(s, t)) = Entries(s) \cup {t} /\ Once(Append(s, t))
<1> DEFINE r == Append(s, t)
<1>1. /\ DOMAIN s = 1..Len(s) /\ DOMAIN r = 1..(Len(s) + 1) /\ Len(s) \in Nat
      /\ \A i \in 1..Len(s) : r[i] = s[i]
      /\ r[Len(s) + 1] = t
  OBVIOUS
<1> HIDE DEF r
<1>2. \A i \in DOMAIN r : i \in DOMAIN s \/ i = Len(s) + 1
  BY <1>1
<1>3. \A i \in DOMAIN s : i \in DOMAIN r /\ s[i] # t /\ r[i] = s[i] /\ i # Len(s) + 1
  BY <1>1 DEF Entries
<1>4. Len(s) + 1 \in DOMAIN r
  BY <1>1
<1>5. Entries(r) = Entries(s) \cup {t}
  BY Zenon, <1>1, <1>2, <1>3, <1>4 DEF Entries
<1>6. Once(r)
  BY Zenon, <1>1, <1>2, <1>3 DEF Once
<1> QED BY <1>5, <1>6 DEF r

\* lock_record_remove_waiter (lock.cpp:1011) removes a thread altogether.
LEMMA list_removeEntries ==
  ASSUME NEW s \in Seq(Thread), NEW e, Once(s)
  PROVE  Entries(list_remove(s, e)) = Entries(s) \ {e} /\ Once(list_remove(s, e))
<1>1. CASE e \in Entries(s)
  <2> DEFINE i == CHOOSE i \in DOMAIN s : s[i] = e
             r == list_remove(s, e)
  <2>1. i \in 1..Len(s) /\ s[i] = e
    BY <1>1 DEF Entries
  <2>2. r = SubSeq(s, 1, i - 1) \o SubSeq(s, i + 1, Len(s))
    BY Zenon, <1>1 DEF list_remove, Entries
  <2> HIDE DEF i, r
  <2>3. /\ DOMAIN s = 1..Len(s) /\ DOMAIN r = 1..(Len(s) - 1)
        /\ \A k \in 1..(Len(s) - 1) : r[k] = IF k < i THEN s[k] ELSE s[k + 1]
    <3> DEFINE p == SubSeq(s, 1, i - 1)
               q == SubSeq(s, i + 1, Len(s))
    <3>1. p \in Seq(Thread) /\ Len(p) = i - 1 /\ \A k \in 1..(i - 1) : p[k] = s[k]
      BY <2>1
    <3>2. /\ q \in Seq(Thread) /\ Len(q) = Len(s) - i
          /\ \A k \in 1..(Len(s) - i) : q[k] = s[i + k]
      BY <2>1
    <3>0. r = p \o q
      BY Zenon, <2>2
    <3> HIDE DEF p, q
    <3>3. /\ DOMAIN r = 1..(Len(p) + Len(q))
          /\ \A k \in 1..(Len(p) + Len(q)) :
               r[k] = IF k <= Len(p) THEN p[k] ELSE q[k - Len(p)]
      BY SMTT(30), <3>0, <3>1, <3>2
    <3>4. \A k \in 1..(Len(s) - 1) : r[k] = IF k < i THEN s[k] ELSE s[k + 1]
      <4> TAKE k \in 1..(Len(s) - 1)
      <4>1. CASE k < i
        BY <2>1, <3>1, <3>2, <3>3, <4>1
      <4>2. CASE ~(k < i)
        BY <2>1, <3>1, <3>2, <3>3, <4>2
      <4> QED BY <4>1, <4>2
    <3> QED BY <2>1, <3>1, <3>2, <3>3, <3>4
  <2>4. \A k \in DOMAIN s : s[k] = e => k = i
    BY Zenon, <2>1, <2>3 DEF Once
  <2>5. \A k \in DOMAIN r : \E j \in DOMAIN s : r[k] = s[j] /\ j # i
    BY SMTT(30), <2>1, <2>3
  <2>6. \A j \in DOMAIN s : j # i => \E k \in DOMAIN r : r[k] = s[j]
    <3> SUFFICES ASSUME NEW j \in DOMAIN s, j # i
                 PROVE  \E k \in DOMAIN r : r[k] = s[j]
      OBVIOUS
    <3>1. CASE j < i
      BY <2>1, <2>3, <3>1
    <3>2. CASE j > i
      <4>1. j - 1 \in DOMAIN r /\ r[j - 1] = s[j]
        BY <2>1, <2>3, <3>2
      <4> QED BY <4>1
    <3> QED BY <2>1, <2>3, <3>1, <3>2
  <2>7. Entries(r) = Entries(s) \ {e}
    BY Zenon, <2>1, <2>4, <2>5, <2>6 DEF Entries
  <2>8. Once(r)
    BY SMTT(30), <2>1, <2>3 DEF Once
  <2> QED BY <2>7, <2>8 DEF r
<1>2. CASE e \notin Entries(s)
  BY Zenon, <1>2 DEF list_remove, Entries
<1> QED BY <1>1, <1>2

\* A step neither enters nor leaves a wait set and signals nobody.
WaitsStay ==
  /\ UNCHANGED <<waiters, signaled>>
  /\ \A u \in Thread : InWaitSet(u)' <=> InWaitSet(u)
  /\ \A u \in Thread :
       InWaitSet(u) => obj'[u] = obj[u] /\ lockcount'[u] = lockcount[u]

LEMMA WaitsStayInv ==
  ASSUME WaitInv, WaitsStay
  PROVE  WaitInv' /\ UNCHANGED <<WaitOn, DepthOf>>
<1>1. ASSUME NEW o \in Object
      PROVE  {t \in Thread : InWaitSet(t) /\ obj[t] = o}' = {t \in Thread : InWaitSet(t) /\ obj[t] = o}
  BY Zenon DEF WaitsStay
<1>2. waiters' = waiters /\ \A t \in Thread : signaled'[t] => InWaitSet(t)'
  BY Zenon DEF WaitsStay, WaitInv
<1>3. ASSUME NEW o \in Object
      PROVE  WaitersOf(o)' = {t \in Thread : InWaitSet(t) /\ obj[t] = o}'
  <2>1. WaitersOf(o)' = WaitersOf(o)
    BY Zenon, <1>2 DEF WaitersOf
  <2> QED BY Zenon, <1>1, <2>1 DEF WaitInv
<1>4. ASSUME NEW o \in Object
      PROVE  (\A i, j \in DOMAIN waiters[o] : waiters[o][i] = waiters[o][j] => i = j)'
  BY Zenon, <1>2 DEF WaitInv
<1>5. WaitInv'
  BY Zenon, <1>2, <1>3, <1>4 DEF WaitInv
<1> QED
  BY Zenon, <1>5 DEF WaitsStay, WaitOn, DepthOf

\* A step of a thread t that is in no wait set before and after it.
Moves(t) ==
  /\ UNCHANGED <<waiters, signaled, lockcount>>
  /\ ~InWaitSet(t) /\ ~InWaitSet(t)'
  /\ \A u \in Thread \ {t} : pc'[u] = pc[u] /\ obj'[u] = obj[u]

LEMMA MovesStay ==
  ASSUME NEW t \in Thread, Moves(t)
  PROVE  WaitsStay
BY Zenon DEF Moves, WaitsStay, InWaitSet

\* What the step does to the monitors JavaMonitor allows.
Maps == [JM!Next]_(JM!vars)

\* A step that changes no held monitor and no wait set is a stutter.
LEMMA QuietMaps ==
  ASSUME WaitInv, WaitsStay, UNCHANGED held
  PROVE  WaitInv' /\ Maps
<1>1. WaitInv' /\ UNCHANGED <<WaitOn, DepthOf>> /\ signaled' = signaled
  BY Zenon, WaitsStayInv DEF WaitsStay
<1> QED
  BY Zenon, <1>1 DEF Maps, JM!vars, WaitOn, DepthOf

\* Entering a monitor is an Enter: nobody else holds it afterwards.
LEMMA EnterMaps ==
  ASSUME WaitInv, TypeOK, NEW t \in Thread, NEW o \in Object, Moves(t),
         held' = [held EXCEPT ![t][o] = @ + 1], MutualExclusion'
  PROVE  WaitInv' /\ Maps
<1>1. WaitInv' /\ UNCHANGED <<WaitOn, DepthOf>> /\ signaled' = signaled
  BY Zenon, WaitsStayInv, MovesStay DEF Moves
<1>2. held'[t][o] > 0 /\ \A u \in Thread \ {t} : held'[u][o] = held[u][o] /\ held[u][o] \in Nat
  BY DEF TypeOK
<1>3. JM!FreeFor(t, o)
  BY <1>2 DEF MutualExclusion, JM!FreeFor
<1>4. WaitOn[t] = NoObject
  BY Zenon DEF WaitOn, Moves
<1>5. JM!Enter(t, o)
  BY Zenon, <1>1, <1>3, <1>4 DEF JM!Enter, WaitOn, DepthOf
<1> QED
  BY Zenon, <1>1, <1>5 DEF Maps, JM!Next

\* Exiting a monitor one holds is an Exit.
LEMMA ExitMaps ==
  ASSUME WaitInv, NEW t \in Thread, NEW o \in Object, Moves(t),
         held[t][o] > 0, Released(t, o)
  PROVE  WaitInv' /\ Maps
<1>1. WaitInv' /\ UNCHANGED <<WaitOn, DepthOf>> /\ signaled' = signaled
  BY Zenon, WaitsStayInv, MovesStay DEF Moves
<1>2. WaitOn[t] = NoObject
  BY Zenon DEF WaitOn, Moves
<1>3. JM!Exit(t, o)
  BY Zenon, <1>1, <1>2 DEF JM!Exit, Released, WaitOn, DepthOf
<1> QED
  BY Zenon, <1>1, <1>3 DEF Maps, JM!Next

\* The entry steps (lock_monitor_enter and sable_flc_waiting, lock.cpp:642-870).
LEMMA EnterStepMaps ==
  ASSUME IInv, WaitInv, MutualExclusion', NEW t \in Thread, EnterStep(t)
  PROVE  WaitInv' /\ Maps
<1>1. TypeOK /\ (pc[t] # "run" => obj[t] \in Object)
  BY Zenon DEF IInv, LocalInv
<1> USE DEF Goto, waiting, Moves, InWaitSet
<1>2. CASE enter_retry(t)
  BY Zenon, <1>1, <1>2, MovesStay, QuietMaps DEF enter_retry, TypeOK
<1>3. CASE enter_fat_block(t)
  BY Zenon, <1>1, <1>3, MovesStay, QuietMaps DEF enter_fat_block, CasFailed, TypeOK
<1>4. CASE enter_contended(t)
  BY Zenon, <1>1, <1>4, MovesStay, QuietMaps DEF enter_contended, CasFailed, TypeOK
<1>5. CASE sable_flc_waiting_nobody(t)
  BY Zenon, <1>1, <1>5, MovesStay, QuietMaps DEF sable_flc_waiting_nobody, TypeOK
<1>6. CASE sable_flc_waiting_lock(t)
  BY Zenon, <1>1, <1>6, MovesStay, QuietMaps DEF sable_flc_waiting_lock, TypeOK
<1>7. CASE sable_flc_waiting_queue(t)
  BY Zenon, <1>1, <1>7, MovesStay, QuietMaps DEF sable_flc_waiting_queue, TypeOK
<1>8. CASE sable_flc_waiting_restore(t)
  BY Zenon, <1>1, <1>8, MovesStay, QuietMaps DEF sable_flc_waiting_restore, TypeOK
<1>9. CASE sable_flc_waiting_woken(t)
  BY ZenonT(60), <1>1, <1>9, MovesStay, QuietMaps DEF sable_flc_waiting_woken, TypeOK
<1>10. ASSUME Moves(t), pc[t] # "run", held' = [held EXCEPT ![t][obj[t]] = @ + 1]
       PROVE  WaitInv' /\ Maps
  BY Zenon, <1>1, <1>10, EnterMaps
<1>11. CASE enter_thin(t)
  BY Zenon, <1>1, <1>10, <1>11 DEF enter_thin, Acquired, Return, TypeOK
<1>12. CASE enter_recursive(t)
  BY Zenon, <1>1, <1>10, <1>12 DEF enter_recursive, CasFailed, Acquired, Return, TypeOK
<1>13. CASE enter_overflow(t)
  BY Zenon, <1>1, <1>10, <1>13 DEF enter_overflow, CasFailed, TypeOK
<1>14. CASE enter_fat_recursive(t)
  BY Zenon, <1>1, <1>10, <1>14 DEF enter_fat_recursive, CasFailed, Acquired, Return, TypeOK
<1>15. CASE enter_fat(t)
  BY Zenon, <1>1, <1>10, <1>15 DEF enter_fat, Acquired, Return, TypeOK
<1> QED
  BY Zenon, <1>2, <1>3, <1>4, <1>5, <1>6, <1>7, <1>8, <1>9, <1>11, <1>12, <1>13,
     <1>14, <1>15 DEF EnterStep

\* The walk through the FLC list (notify_flc_waiters, lock.cpp:695-763).
LEMMA NotifyFlcStepMaps ==
  ASSUME IInv, WaitInv, NEW t \in Thread, NotifyFlcStep(t)
  PROVE  WaitInv' /\ Maps
<1>1. TypeOK
  BY Zenon DEF IInv
<1> USE DEF Goto, Return, waiting, InWaitSet
<1>2. CASE exit_test(t)
  BY ZenonT(60), <1>1, <1>2, MovesStay, QuietMaps DEF exit_test, Moves, TypeOK
<1>3. CASE notify_flc_waiters_lock(t)
  BY Zenon, <1>1, <1>3, MovesStay, QuietMaps DEF notify_flc_waiters_lock, Moves, TypeOK
<1>4. CASE notify_flc_waiters_done(t)
  BY Zenon, <1>1, <1>4, MovesStay, QuietMaps DEF notify_flc_waiters_done, Moves, TypeOK
<1>5. CASE \E u \in Thread : notify_flc_waiters_entry(t, u)
  <2>1. PICK u \in Thread : notify_flc_waiters_entry(t, u)
    BY Zenon, <1>5
  <2>2. WaitsStay /\ UNCHANGED held
    BY Zenon, <1>1, <2>1 DEF notify_flc_waiters_entry, WaitsStay, TypeOK
  <2> QED BY Zenon, <2>2, QuietMaps
<1> QED
  BY Zenon, <1>2, <1>3, <1>4, <1>5 DEF NotifyFlcStep

\* lock_record_wait up to the release of the record (lock.cpp:1046-1063): Wait.
LEMMA wait_releaseMaps ==
  ASSUME IInv, WaitInv, NEW t \in Thread, wait_release(t)
  PROVE  WaitInv' /\ Maps
<1>0. pc[t] = "wrelease" /\ LocalInv(t)
  BY Zenon DEF IInv, wait_release
<1>p. PICK o \in Object : o = obj[t]
  BY Zenon, <1>0 DEF LocalInv
<1>a. lockword[o] = Fat /\ lr_mutex[o] = t
  BY Zenon, <1>0, <1>p DEF LocalInv
<1>b. TypeOK /\ RecordInv(o) /\ held[t][o] = RecordedDepth(t, o)
  BY Zenon DEF IInv, OwnershipRecorded
<1>1. /\ TypeOK /\ ~InWaitSet(t) /\ o = obj[t]
      /\ lockword[o] = Fat /\ lr_owner[o] = t /\ held[t][o] = RecordedDepth(t, o)
  BY Zenon, <1>0, <1>p, <1>a, <1>b DEF RecordInv, InWaitSet
<1>2. held[t][o] = lr_count[o] + 1 /\ held[t][o] > 0
  BY <1>1, WordShapes DEF RecordedDepth, lock_is_held_by_current_thread, TypeOK
<1>3. /\ waiters' = [waiters EXCEPT ![o] = Append(@, t)]
      /\ lockcount' = [lockcount EXCEPT ![t] = lr_count[o]]
      /\ held' = [held EXCEPT ![t][o] = 0]
      /\ pc' = [pc EXCEPT ![t] = "wtest"]
      /\ UNCHANGED <<signaled, obj>>
  BY Zenon, <1>1 DEF wait_release, Goto
<1>4. InWaitSet(t)' /\ \A u \in Thread \ {t} : InWaitSet(u)' <=> InWaitSet(u)
  BY Zenon, <1>1, <1>3 DEF TypeOK, InWaitSet
<1>5. WaitInv'
  <2>1. ASSUME NEW x \in Object
        PROVE  /\ WaitersOf(x)' = {u \in Thread : InWaitSet(u) /\ obj[u] = x}'
               /\ Once(waiters[x])'
    <3>1. WaitersOf(x) = {u \in Thread : InWaitSet(u) /\ obj[u] = x} /\ Once(waiters[x])
      BY Zenon DEF WaitInv, Once
    <3>2. CASE x # o
      <4>1. waiters'[x] = waiters[x]
        BY Zenon, <1>1, <1>3, <3>2 DEF TypeOK
      <4>2. {u \in Thread : InWaitSet(u) /\ obj[u] = x}' = {u \in Thread : InWaitSet(u) /\ obj[u] = x}
        BY Zenon, <1>1, <1>3, <1>4, <3>2
      <4>3. WaitersOf(x)' = WaitersOf(x)
        BY Zenon, <4>1 DEF WaitersOf
      <4>4. Once(waiters[x])'
        BY Zenon, <3>1, <4>1 DEF Once
      <4> QED BY Zenon, <3>1, <4>2, <4>3, <4>4
    <3>3. CASE x = o
      <4>1. waiters'[x] = Append(waiters[x], t) /\ waiters[x] \in Seq(Thread)
        BY Zenon, <1>1, <1>3, <3>3 DEF TypeOK
      <4>2. t \notin Entries(waiters[x])
        BY Zenon, <1>1, <3>1 DEF WaitersOf, Entries
      <4>3. Entries(waiters[x])' = Entries(waiters[x]) \cup {t} /\ Once(waiters[x])'
        BY Zenon, <3>1, <4>1, <4>2, AppendEntries
      <4>4. {u \in Thread : InWaitSet(u) /\ obj[u] = x}' = {u \in Thread : InWaitSet(u) /\ obj[u] = x} \cup {t}
        BY Zenon, <1>1, <1>3, <1>4, <3>3
      <4> QED BY Zenon, <3>1, <4>3, <4>4 DEF WaitersOf, Entries
    <3> QED BY Zenon, <3>2, <3>3
  <2>2. \A u \in Thread : signaled'[u] => InWaitSet(u)'
    BY Zenon, <1>3, <1>4 DEF WaitInv
  <2> QED BY Zenon, <2>1, <2>2 DEF WaitInv, Once
<1>6. JM!Wait(t, o)
  <2>1. WaitOn[t] = NoObject /\ WaitOn' = [WaitOn EXCEPT ![t] = o]
    BY Zenon, <1>1, <1>3, <1>4 DEF WaitOn, TypeOK
  <2>2. DepthOf' = [DepthOf EXCEPT ![t] = held[t][o]]
    BY Zenon, <1>1, <1>2, <1>3, <1>4 DEF DepthOf, TypeOK
  <2> QED BY Zenon, <1>2, <1>3, <2>1, <2>2 DEF JM!Wait, WaitOn, DepthOf
<1> QED
  BY Zenon, <1>1, <1>5, <1>6 DEF Maps, JM!Next

\* The re-entry after a wait (lock.cpp:1073-1091): Resume.
LEMMA wait_enterMaps ==
  ASSUME IInv, WaitInv, MutualExclusion', NEW t \in Thread, wait_enter(t)
  PROVE  WaitInv' /\ Maps
<1>0. TypeOK /\ LocalInv(t) /\ pc[t] = "wenter"
  BY Zenon DEF IInv, wait_enter
<1>p. PICK o \in Object : o = obj[t]
  BY Zenon, <1>0 DEF LocalInv
<1>1. TypeOK /\ InWaitSet(t) /\ o = obj[t] /\ o # NoObject
  BY Zenon, <1>0, <1>p, LockAssumption DEF InWaitSet
<1>2. /\ waiters' = [waiters EXCEPT ![o] = list_remove(@, t)]
      /\ lockcount' = [lockcount EXCEPT ![t] = 0]
      /\ held' = [held EXCEPT ![t][o] = lockcount[t] + 1]
      /\ \E l \in {"run", "wclear", "wclearie"} : pc' = [pc EXCEPT ![t] = l]
  BY Zenon, <1>1 DEF wait_enter, Goto, Return
<1>3. signaled' = [signaled EXCEPT ![t] = FALSE]
  <2>1. CASE signaled[t]
    BY Zenon, <2>1 DEF wait_enter
  <2>2. CASE ~signaled[t]
    <3>1. signaled' = signaled /\ signaled[t] = FALSE
      BY Zenon, <1>0, <2>2 DEF wait_enter, TypeOK
    <3> QED BY Zenon, <1>0, <3>1 DEF TypeOK
  <2> QED BY Zenon, <2>1, <2>2
<1>4. \A u \in Thread \ {t} : obj'[u] = obj[u]
  BY Zenon, <1>0 DEF wait_enter, Return, TypeOK
<1>5. ~InWaitSet(t)' /\ \A u \in Thread \ {t} : InWaitSet(u)' <=> InWaitSet(u)
  BY Zenon, <1>0, <1>2 DEF TypeOK, InWaitSet
<1>6. WaitInv'
  <2>1. ASSUME NEW x \in Object
        PROVE  /\ WaitersOf(x)' = {u \in Thread : InWaitSet(u) /\ obj[u] = x}'
               /\ Once(waiters[x])'
    <3>1. WaitersOf(x) = {u \in Thread : InWaitSet(u) /\ obj[u] = x} /\ Once(waiters[x])
      BY Zenon DEF WaitInv, Once
    <3>2. CASE x # o
      <4>1. waiters'[x] = waiters[x]
        BY Zenon, <1>1, <1>2, <3>2 DEF TypeOK
      <4>2. {u \in Thread : InWaitSet(u) /\ obj[u] = x}' = {u \in Thread : InWaitSet(u) /\ obj[u] = x}
        BY Zenon, <1>1, <1>4, <1>5, <3>2
      <4>3. WaitersOf(x)' = WaitersOf(x)
        BY Zenon, <4>1 DEF WaitersOf
      <4>4. Once(waiters[x])'
        BY Zenon, <3>1, <4>1 DEF Once
      <4> QED BY Zenon, <3>1, <4>2, <4>3, <4>4
    <3>3. CASE x = o
      <4>1. waiters'[x] = list_remove(waiters[x], t) /\ waiters[x] \in Seq(Thread)
        BY Zenon, <1>1, <1>2, <3>3 DEF TypeOK
      <4>2. Entries(waiters[x])' = Entries(waiters[x]) \ {t} /\ Once(waiters[x])'
        BY Zenon, <3>1, <4>1, list_removeEntries
      <4>3. {u \in Thread : InWaitSet(u) /\ obj[u] = x}' = {u \in Thread : InWaitSet(u) /\ obj[u] = x} \ {t}
        BY Zenon, <1>4, <1>5
      <4> QED BY Zenon, <3>1, <4>2, <4>3 DEF WaitersOf, Entries
    <3> QED BY Zenon, <3>2, <3>3
  <2>2. \A u \in Thread : signaled'[u] => InWaitSet(u)'
    BY Zenon, <1>0, <1>3, <1>5 DEF WaitInv, TypeOK
  <2> QED BY Zenon, <2>1, <2>2 DEF WaitInv, Once
<1>7. JM!FreeFor(t, o)
  <2>1. held'[t][o] > 0 /\ \A u \in Thread \ {t} : held'[u][o] = held[u][o] /\ held[u][o] \in Nat
    BY <1>0, <1>2 DEF TypeOK
  <2> QED BY <2>1 DEF MutualExclusion, JM!FreeFor
<1>8. JM!Resume(t)
  <2>1. WaitOn[t] = o /\ WaitOn' = [WaitOn EXCEPT ![t] = NoObject]
    BY Zenon, <1>1, <1>4, <1>5 DEF WaitOn
  <2>2. DepthOf[t] = lockcount[t] + 1 /\ DepthOf' = [DepthOf EXCEPT ![t] = 0]
    <3>1. \A u \in Thread \ {t} : lockcount'[u] = lockcount[u]
      BY Zenon, <1>0, <1>2 DEF TypeOK
    <3>2. DepthOf[t] = lockcount[t] + 1
      BY Zenon, <1>1 DEF DepthOf
    <3>3. DepthOf' = [DepthOf EXCEPT ![t] = 0]
      BY Zenon, <1>5, <3>1 DEF DepthOf
    <3> QED BY Zenon, <3>2, <3>3
  <2>3. /\ WaitOn[t] # NoObject /\ JM!FreeFor(t, WaitOn[t])
        /\ held' = [held EXCEPT ![t][WaitOn[t]] = DepthOf[t]]
        /\ WaitOn' = [WaitOn EXCEPT ![t] = NoObject]
        /\ DepthOf' = [DepthOf EXCEPT ![t] = 0]
    BY Zenon, <1>1, <1>2, <1>7, <2>1, <2>2
  <2> QED BY Zenon, <1>3, <2>3 DEF JM!Resume, WaitOn, DepthOf
<1> QED
  BY Zenon, <1>6, <1>8 DEF Maps, JM!Next

\* The steps of a waiting thread (lock_record_wait, lock.cpp:1041-1102).
LEMMA WaitStepMaps ==
  ASSUME IInv, WaitInv, MutualExclusion', NEW t \in Thread, WaitStep(t)
  PROVE  WaitInv' /\ Maps
<1>1. TypeOK
  BY Zenon DEF IInv
<1>2. CASE threads_wait_with_timeout(t)
  <2>1. WaitsStay /\ UNCHANGED held
    BY Zenon, <1>1, <1>2 DEF threads_wait_with_timeout, Goto, waiting, WaitsStay, InWaitSet, TypeOK
  <2> QED BY Zenon, <2>1, QuietMaps
<1>3. CASE wait_clear(t)
  <2>1. ~InWaitSet(t) /\ signaled' = [signaled EXCEPT ![t] = FALSE] /\ UNCHANGED held
    BY Zenon, <1>3 DEF wait_clear, InWaitSet
  <2>2. signaled[t] = FALSE
    BY Zenon, <1>1, <2>1 DEF WaitInv, TypeOK
  <2>3. signaled' = signaled
    BY Zenon, <1>1, <2>1, <2>2 DEF TypeOK
  <2>4. Moves(t)
    BY ZenonT(60), <1>1, <1>3, <2>1, <2>3 DEF wait_clear, Goto, Return, Moves, InWaitSet, TypeOK
  <2> QED BY Zenon, <2>1, <2>4, MovesStay, QuietMaps
<1> QED
  BY Zenon, <1>2, <1>3, wait_releaseMaps, wait_enterMaps DEF WaitStep

\* A wakeup without a notification: the thread waits on.
LEMMA WokenStays ==
  ASSUME TypeOK, NEW S, pc' = Woken(S)
  PROVE  \A u \in Thread : InWaitSet(u)' <=> InWaitSet(u)
BY Zenon DEF Woken, InWaitSet, TypeOK

\* The places of the waiters of o that have not been notified yet.
Fresh(o) == {i \in DOMAIN waiters[o] : ~signaled[waiters[o][i]]}
First(S) == {i \in S : \A j \in S : i <= j}

\* notify and notifyAll (lock_record_notify, lock.cpp:1169).
LEMMA lock_monitor_notifyMaps ==
  ASSUME IInv, WaitInv, NEW t \in Thread, NEW o \in Object, NEW one \in BOOLEAN,
         lock_monitor_notify(t, o, one)
  PROVE  /\ WaitInv' /\ Maps
         /\ one /\ First(Fresh(o)) # {} => JM!Notify(t, o)
         /\ ~one => JM!NotifyAll(t, o)
         /\ {waiters[o][i] : i \in Fresh(o)} = JM!Unnotified(o)
<1> DEFINE fresh == {i \in DOMAIN waiters[o] : ~signaled[waiters[o][i]]}
           pick == IF one THEN {i \in fresh : \A j \in fresh : i <= j} ELSE fresh
           S == {waiters[o][i] : i \in pick}
<1>1. /\ TypeOK /\ RecordInv(o) /\ held[t][o] = RecordedDepth(t, o)
      /\ lockword[o].shape = "fat" /\ lr_owner[o] = t
  BY Zenon DEF IInv, OwnershipRecorded, lock_monitor_notify
<1>2. held[t][o] > 0
  BY <1>1 DEF RecordedDepth, lock_is_held_by_current_thread, TypeOK
<1>3. /\ signaled' = [u \in Thread |-> u \in S \/ signaled[u]]
      /\ pc' = Woken(S)
      /\ UNCHANGED <<waiters, lockcount, obj, held>>
  BY Zenon DEF lock_monitor_notify
<1>4. fresh \subseteq DOMAIN waiters[o] /\ pick \subseteq fresh
  BY Zenon
<1>5. waiters[o] \in Seq(Thread) /\ DOMAIN waiters[o] \subseteq Int
  BY <1>1 DEF TypeOK
<1>u. JM!Unnotified(o) = {u \in Thread : InWaitSet(u) /\ obj[u] = o /\ ~signaled[u]}
  BY Zenon, LockAssumption DEF JM!Unnotified
<1>6. {waiters[o][i] : i \in fresh} = JM!Unnotified(o)
  <2>1. WaitersOf(o) = {u \in Thread : InWaitSet(u) /\ obj[u] = o}
    BY Zenon DEF WaitInv
  <2>2. ASSUME NEW i \in fresh PROVE waiters[o][i] \in JM!Unnotified(o)
    <3>1. waiters[o][i] \in WaitersOf(o)
      BY Zenon, <1>4 DEF WaitersOf
    <3> QED BY Zenon, <1>u, <2>1, <3>1
  <2>3. ASSUME NEW u \in JM!Unnotified(o) PROVE \E i \in fresh : u = waiters[o][i]
    <3>1. u \in WaitersOf(o) /\ ~signaled[u]
      BY ZenonT(60), <1>u, <2>1
    <3> QED BY Zenon, <3>1 DEF WaitersOf
  <2> QED BY Zenon, <2>2, <2>3
<1>f. {waiters[o][i] : i \in Fresh(o)} = JM!Unnotified(o)
  BY Zenon, <1>6 DEF Fresh
<1>7. S \subseteq JM!Unnotified(o)
  BY Zenon, <1>4, <1>6
<1>8. \A u \in Thread : InWaitSet(u)' <=> InWaitSet(u)
  BY Zenon, <1>1, <1>3, WokenStays
<1>9. UNCHANGED <<WaitOn, DepthOf>>
  BY Zenon, <1>3, <1>8 DEF WaitOn, DepthOf
<1>10. WaitInv'
  <2>1. \A u \in Thread : signaled'[u] => InWaitSet(u)'
    BY Zenon, <1>3, <1>7, <1>8, <1>u DEF WaitInv
  <2>2. ASSUME NEW x \in Object
        PROVE  WaitersOf(x)' = {u \in Thread : InWaitSet(u) /\ obj[u] = x}'
    <3>1. WaitersOf(x)' = WaitersOf(x)
      BY Zenon, <1>3 DEF WaitersOf
    <3>2. {u \in Thread : InWaitSet(u) /\ obj[u] = x}' = {u \in Thread : InWaitSet(u) /\ obj[u] = x}
      BY Zenon, <1>3, <1>8
    <3> QED BY Zenon, <3>1, <3>2 DEF WaitInv
  <2>3. ASSUME NEW x \in Object
        PROVE  (\A i, j \in DOMAIN waiters[x] : waiters[x][i] = waiters[x][j] => i = j)'
    BY Zenon, <1>3 DEF WaitInv
  <2> QED BY Zenon, <2>1, <2>2, <2>3 DEF WaitInv
<1>11. CASE ~one
  <2>1. S = JM!Unnotified(o)
    BY Zenon, <1>6, <1>11
  <2>2. signaled' = [u \in Thread |-> signaled[u] \/ u \in JM!Unnotified(o)]
    BY Zenon, <1>3, <2>1
  <2>3. JM!NotifyAll(t, o)
    BY Zenon, <1>2, <1>3, <1>9, <2>2 DEF JM!NotifyAll, WaitOn, DepthOf
  <2> QED BY Zenon, <1>f, <1>10, <1>11, <2>3 DEF Maps, JM!Next
<1>12. CASE one /\ S # {}
  <2>1. PICK i \in pick : TRUE
    BY ZenonT(60), <1>12
  <2> HIDE DEF fresh
  <2>2. \A j \in pick : j = i
    <3>1. \A j \in pick : j \in Int /\ i <= j /\ j <= i
      BY Zenon, <1>4, <1>5, <1>12, <2>1
    <3> QED BY <1>4, <1>5, <3>1
  <2>3. S = {waiters[o][i]}
    BY Zenon, <2>1, <2>2
  <2> DEFINE w == waiters[o][i]
  <2> HIDE DEF S, pick
  <2>4. w \in JM!Unnotified(o) /\ w \in Thread
    BY Zenon, <1>7, <1>u, <2>3
  <2>5. signaled' = [signaled EXCEPT ![w] = TRUE]
    BY Zenon, <1>1, <1>3, <2>3, <2>4 DEF TypeOK
  <2> HIDE DEF w
  <2>6. JM!Notify(t, o)
    BY Zenon, <1>2, <1>3, <1>9, <2>4, <2>5 DEF JM!Notify, WaitOn, DepthOf
  <2> QED BY ZenonT(60), <1>f, <1>10, <1>12, <2>6 DEF Maps, JM!Next
<1>13. CASE one /\ S = {}
  <2>1. signaled' = signaled
    BY Zenon, <1>1, <1>3, <1>13 DEF TypeOK
  <2>2. Maps
    BY Zenon, <1>3, <1>9, <2>1 DEF Maps, JM!vars, WaitOn, DepthOf
  <2>3. First(Fresh(o)) = {}
    BY Zenon, <1>13 DEF Fresh, First
  <2> QED BY Zenon, <1>f, <1>10, <1>13, <2>2, <2>3
<1> QED BY Zenon, <1>11, <1>12, <1>13

\* The operations a client starts.
LEMMA CallMaps ==
  ASSUME IInv, WaitInv, NEW t \in Thread, Call(t)
  PROVE  WaitInv' /\ Maps
<1>1. TypeOK /\ \A o \in Object : held[t][o] = RecordedDepth(t, o)
  BY Zenon DEF IInv, OwnershipRecorded
<1> USE DEF Goto, waiting, InWaitSet
<1>2. ASSUME NEW o \in Object, lock_monitor_enter(t, o) PROVE WaitInv' /\ Maps
  BY Zenon, <1>1, <1>2, MovesStay, QuietMaps DEF lock_monitor_enter, Moves, TypeOK
<1>3. ASSUME NEW o \in Object, illegal_monitor_state(t, o) PROVE WaitInv' /\ Maps
  BY ZenonT(60), <1>1, <1>3, MovesStay, QuietMaps DEF illegal_monitor_state, Moves, TypeOK
<1>4. ASSUME NEW o \in Object, lock_monitor_wait(t, o) PROVE WaitInv' /\ Maps
  BY ZenonT(60), <1>1, <1>4, MovesStay, QuietMaps DEF lock_monitor_wait, Moves, TypeOK
<1>5. ASSUME NEW o \in Object, lock_monitor_exit(t, o) PROVE WaitInv' /\ Maps
  <2>1. Moves(t) /\ Released(t, o)
    BY ZenonT(60), <1>1, <1>5
       DEF lock_monitor_exit, exit_thin, exit_recursive, exit_fat, Moves, TypeOK
  <2>2. lock_is_held_by_current_thread(t, o)
    BY Zenon, <1>5, WordShapes
       DEF lock_monitor_exit, exit_thin, exit_recursive, exit_fat, ThinOwnedBy,
           lock_is_held_by_current_thread
  <2>3. lr_count[o] \in Nat /\ lockword[o].count \in Nat
    BY Zenon, <1>1, WordFacts DEF TypeOK
  <2>4. held[t][o] > 0
    BY <1>1, <2>2, <2>3 DEF RecordedDepth
  <2> QED BY Zenon, <2>1, <2>4, ExitMaps
<1>6. ASSUME NEW u \in Thread, threads_thread_interrupt(t, u) PROVE WaitInv' /\ Maps
  <2>1. WaitsStay /\ UNCHANGED held
    BY Zenon, <1>1, <1>6, WokenStays DEF threads_thread_interrupt, WaitsStay
  <2> QED BY Zenon, <2>1, QuietMaps
<1> QED
  BY Zenon, <1>2, <1>3, <1>4, <1>5, <1>6, lock_monitor_notifyMaps DEF Call

\* Every step of the monitors keeps WaitInv and is one of JavaMonitor's.
LEMMA NextMaps ==
  IInv /\ WaitInv /\ MutualExclusion' /\ [Next]_vars => WaitInv' /\ Maps
<1> SUFFICES ASSUME IInv, WaitInv, MutualExclusion', [Next]_vars PROVE WaitInv' /\ Maps
  BY Zenon
<1>1. TypeOK
  BY Zenon DEF IInv
<1>2. CASE UNCHANGED vars
  <2>1. WaitsStay /\ UNCHANGED held
    BY Zenon, <1>2 DEF vars, waiting, WaitsStay, InWaitSet
  <2> QED BY Zenon, <2>1, QuietMaps
<1>3. ASSUME NEW t \in Thread, throw(t) PROVE WaitInv' /\ Maps
  <2>1. Moves(t) /\ UNCHANGED held
    BY Zenon, <1>1, <1>3 DEF throw, Throwing, Return, Goto, waiting, Moves, InWaitSet, TypeOK
  <2> QED BY Zenon, <2>1, MovesStay, QuietMaps
<1>4. ASSUME NEW t \in Thread, time_is_up(t) PROVE WaitInv' /\ Maps
  <2>1. WaitsStay /\ UNCHANGED held
    BY ZenonT(60), <1>1, <1>4, WokenStays DEF time_is_up, WaitsStay
  <2> QED BY Zenon, <2>1, QuietMaps
<1>5. ASSUME NEW t \in Thread, cond_spurious(t) PROVE WaitInv' /\ Maps
  <2>1. WaitsStay /\ UNCHANGED held
    BY ZenonT(60), <1>1, <1>5 DEF cond_spurious, Goto, waiting, WaitsStay, InWaitSet, TypeOK
  <2> QED BY Zenon, <2>1, QuietMaps
<1> QED
  BY Zenon, <1>2, <1>3, <1>4, <1>5, EnterStepMaps, NotifyFlcStepMaps, WaitStepMaps, CallMaps
     DEF Next, Step

LEMMA InitMaps == Init => WaitInv /\ JM!Init
<1> SUFFICES ASSUME Init PROVE WaitInv /\ JM!Init
  BY Zenon
<1>1. \A t \in Thread : ~InWaitSet(t) /\ signaled[t] = FALSE
  BY Zenon DEF Init, InWaitSet
<1>2. \A o \in Object : waiters[o] = <<>> /\ DOMAIN waiters[o] = {}
  BY DEF Init
<1>3. WaitInv
  BY Zenon, <1>1, <1>2 DEF WaitInv, WaitersOf
<1>4. JM!Init
  BY Zenon, <1>1 DEF Init, JM!Init
<1> QED BY Zenon, <1>3, <1>4

\* The lists of waiters of the lock records are exact in every reachable state:
\* lock_record_add_waiter and lock_record_remove_waiter (lock.cpp:994-1033)
\* keep each waiting thread there once, and only waiting threads are signaled.
THEOREM WaitInvariance == Spec => []WaitInv
<1>1. IInv /\ IInv' /\ WaitInv /\ [Next]_vars => WaitInv'
  BY Zenon, NextMaps, IInvExcludesNext
<1> QED
  BY <1>1, InitMaps, Invariance, PTL DEF Spec

\* No notification is swallowed by the reset of signaled (lock.cpp:1084-1091).
THEOREM NotificationsKept == Spec => []NotifyNotSwallowed
<1>1. IInv /\ WaitInv => NotifyNotSwallowed
  <2> SUFFICES ASSUME IInv, WaitInv, NEW t \in Thread, signaled[t]
               PROVE  /\ pc[t] \in {"wtest", "wcond", "wenter"}
                      /\ \E i \in DOMAIN waiters[obj[t]] : waiters[obj[t]][i] = t
    BY Zenon DEF NotifyNotSwallowed
  <2>1. InWaitSet(t) /\ LocalInv(t)
    BY Zenon DEF IInv, WaitInv
  <2>2. obj[t] \in Object
    BY Zenon, <2>1 DEF InWaitSet, LocalInv
  <2>3. t \in WaitersOf(obj[t])
    BY Zenon, <2>1, <2>2 DEF WaitInv
  <2> QED BY Zenon, <2>1, <2>3 DEF InWaitSet, WaitersOf
<1> QED
  BY <1>1, Invariance, WaitInvariance, PTL

\* The monitors implement JavaMonitor for any threads, objects and width of the
\* thin count: thin locks, inflation, contention, waits, timeouts and interrupts
\* show a client nothing but enters, exits, waits and notifications.
THEOREM MonitorsImplementJava == Spec => ImplementsJavaMonitor
<1>1. IInv /\ IInv' /\ WaitInv /\ [Next]_vars => [JM!Next]_(JM!vars)
  BY Zenon, NextMaps, IInvExcludesNext DEF Maps
<1> QED
  BY <1>1, InitMaps, Invariance, WaitInvariance, PTL DEF Spec, ImplementsJavaMonitor, JM!Spec

-----------------------------------------------------------------------------
(* What notify does beyond what the refinement says of it *)

\* "No thread can wait on a thin lock, so there's nothing to do" (lock.cpp:1252,
\* in lock_monitor_notify): a lock that is not fat has no waiters.
THEOREM OnlyFatHaveWaiters ==
  Spec => [](\A o \in Object : lockword[o].shape # "fat" => WaitersOf(o) = {})
<1>1. IInv /\ WaitInv => \A o \in Object : lockword[o].shape # "fat" => WaitersOf(o) = {}
  <2> SUFFICES ASSUME IInv, WaitInv, NEW o \in Object, NEW t \in WaitersOf(o)
               PROVE  lockword[o].shape = "fat"
    BY Zenon
  <2>1. t \in Thread /\ InWaitSet(t) /\ obj[t] = o
    BY ZenonT(60) DEF WaitInv
  <2>2. lockword[o] = Fat
    BY Zenon, <2>1 DEF IInv, LocalInv, InWaitSet
  <2> QED BY SMTT(30), <2>2 DEF Fat
<1> QED
  BY <1>1, Invariance, WaitInvariance, PTL

WF == INSTANCE WellFoundedInduction

\* A list of waiters with one to notify has a first one to notify.
LEMMA FirstOf ==
  ASSUME NEW T, T \subseteq Nat, T # {}
  PROVE  First(T) # {}
<1> DEFINE R == WF!OpToRel(<, Nat)
<1>1. \A i, j \in Nat : <<j, i>> \in R <=> j < i
  BY Zenon DEF WF!OpToRel
<1>2. WF!IsWellFoundedOn(R, Nat)
  BY Zenon, WF!NatLessThanWellFounded
<1> HIDE DEF R
<1>3. PICK i \in T : \A j \in T : ~(<<j, i>> \in R)
  BY Zenon, <1>2, WF!WFMin
<1>4. \A j \in T : ~(j < i)
  BY Zenon, <1>1, <1>3
<1>5. \A j \in T : i <= j
  BY SMTT(30), <1>3, <1>4
<1> QED BY Zenon, <1>5 DEF First

\* lock_record_notify (lock.cpp:1169) does notify a thread whenever one waits
\* that has not been notified yet, and all of them for notifyAll: the refinement
\* alone would let the code do nothing.
NotifyReaches == \A t \in Thread : \A o \in Object :
  /\ lock_monitor_notify(t, o, TRUE) /\ JM!Unnotified(o) # {} => JM!Notify(t, o)
  /\ lock_monitor_notify(t, o, FALSE) => JM!NotifyAll(t, o)

\* Every step that is a notify or a notifyAll reaches the waiters it is for.
THEOREM NotifyIsEffective == Spec => [][NotifyReaches]_vars
<1>1. ASSUME IInv, WaitInv, NEW t \in Thread, NEW o \in Object, NEW one \in BOOLEAN,
             lock_monitor_notify(t, o, one)
      PROVE  /\ one /\ JM!Unnotified(o) # {} => JM!Notify(t, o)
             /\ ~one => JM!NotifyAll(t, o)
  <2>1. /\ one /\ First(Fresh(o)) # {} => JM!Notify(t, o)
        /\ ~one => JM!NotifyAll(t, o)
        /\ {waiters[o][i] : i \in Fresh(o)} = JM!Unnotified(o)
    BY ZenonT(60), <1>1, lock_monitor_notifyMaps
  <2>2. Fresh(o) \subseteq Nat
    BY <1>1 DEF IInv, TypeOK, Fresh
  <2>3. Fresh(o) # {} => First(Fresh(o)) # {}
    BY Zenon, <2>2, FirstOf
  <2> QED BY Zenon, <2>1, <2>3
<1>2. IInv /\ WaitInv => NotifyReaches
  BY Zenon, <1>1 DEF NotifyReaches
<1> QED
  BY <1>2, Invariance, WaitInvariance, PTL DEF Spec
=============================================================================
