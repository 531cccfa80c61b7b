--------------------------- MODULE LockStepProofs ---------------------------
(***************************************************************************)
(* Proofs about Lock, first part: what a step of one thread may do to the  *)
(* state the others rely on, and one lemma for each action outside the FLC *)
(* code.  An action is shown to stay within a frame (OthersStay, FlcStays, *)
(* OwnLocksOnly, ...), a lemma per frame carries the invariant of the      *)
(* other threads and objects over the step, and what remains is the        *)
(* invariant of the thread that moves and of the lock it works on.         *)
(***************************************************************************)
EXTENDS Lock, TLAPS

\* A step of t leaves the locals of the other threads alone ...
OthersStay(t) ==
  \A v \in Thread \ {t} :
    pc'[v] = pc[v] /\ obj'[v] = obj[v] /\ lw_cache'[v] = lw_cache[v]

\* ... changes only lockwords that are unlocked or its own thin locks, and
\* only lock records that are free or its own.
OwnLocksOnly(t) ==
  \A o \in Object :
    /\ lockword'[o] = lockword[o] \/ lockword[o] = Unlocked
         \/ ThinOwnedBy(lockword[o], t)
    /\ lr_mutex'[o] = lr_mutex[o] \/ {lr_mutex[o], lr_mutex'[o]} \subseteq {NoThread, t}

FlcBusy == {"flccheck", "flcwait", "flcwoken", "nloop", "wnloop"}

\* Nothing is done to the FLC state.
FlcStays(t) ==
  /\ UNCHANGED <<flc_lock, flc_bit, flc_list, flc_object, t_other, old_flc>>
  /\ pc[t] \notin FlcBusy /\ pc'[t] \notin FlcBusy

LocksStay == UNCHANGED <<lockword, lr_mutex, lr_owner, lr_count, held>>

\* A step that changes no lock keeps the ownership invariants.
LEMMA LocksStayInv ==
  ASSUME IInv, LocksStay
  PROVE  OwnershipRecorded' /\ \A o \in Object : RecordInv(o)'
BY ZenonT(60) DEF IInv, LocksStay, OwnershipRecorded, RecordedDepth,
       lock_is_held_by_current_thread, RecordInv

\* What a thread v knows survives the steps of another thread t: t only changes
\* locks that are free or its own, and at most signals the condition v waits on.
LEMMA OthersLocalInv ==
  ASSUME IInv, NEW t \in Thread, OwnLocksOnly(t), NEW v \in Thread \ {t},
         pc'[v] = pc[v] \/ {pc[v], pc'[v]} \subseteq {"flcwait", "flcwoken"},
         obj'[v] = obj[v], lw_cache'[v] = lw_cache[v]
  PROVE  LocalInv(v)'
<1>1. LocalInv(v) /\ TypeOK
  BY Zenon DEF IInv
<1>3. ASSUME pc[v] # "run", lockword[obj[v]] = Fat
      PROVE  lockword'[obj[v]] = Fat
  BY <1>1, <1>3 DEF LocalInv, OwnLocksOnly, Fat, Unlocked, Thin, ThinOwnedBy
<1>4. ASSUME pc[v] # "run", ThinOwnedBy(lockword[obj[v]], v)
      PROVE  lockword'[obj[v]] = lockword[obj[v]]
  BY <1>1, <1>4, LockAssumption
     DEF LocalInv, OwnLocksOnly, Unlocked, Thin, ThinOwnedBy
<1>5. ASSUME pc[v] # "run"
      PROVE  (lr_mutex[obj[v]] = v) <=> (lr_mutex'[obj[v]] = v)
  BY Zenon, <1>1, <1>5, LockAssumption DEF LocalInv, OwnLocksOnly
<1> QED
  BY <1>1, <1>3, <1>4, <1>5 DEF LocalInv

\* A step outside the FLC code keeps the invariants of the FLC locks and lists.
LEMMA FlcStaysInv ==
  ASSUME IInv, NEW t \in Thread, OthersStay(t), FlcStays(t),
         NEW v \in Thread
  PROVE  FlcLockInv(v)' /\ FlcListInv(v)'
<1>1. FlcLockInv(v) /\ FlcListInv(v) /\ TypeOK
  BY Zenon DEF IInv
<1>2. \A u \in Thread : pc'[u] # pc[u] => pc[u] \notin FlcBusy /\ pc'[u] \notin FlcBusy
  BY Zenon DEF OthersStay, FlcStays
<1>3. FlcLockInv(v)'
  BY Zenon, <1>1, <1>2 DEF FlcLockInv, FlcStays, FlcBusy
<1>4. FlcListInv(v)'
  BY Zenon, <1>1, <1>2 DEF FlcListInv, FlcStays, FlcBusy, TypeOK
<1> QED
  BY Zenon, <1>3, <1>4

\* t does not stop releasing while threads are queued on it ...
KeepsReleasing(t) ==
  \/ pc[t] \notin Releasing
  \/ pc'[t] \in Releasing /\ obj'[t] = obj[t]
  \/ flc_list[t] = {}

\* ... and starts to when it gives a thin lock up or inflates it.
ReleasesOpenly(t) ==
  \A o \in Object :
    \/ lockword'[o] = lockword[o]
    \/ ThinOwnedBy(lockword'[o], t)
    \/ pc'[t] \in Releasing /\ (obj'[t] = o \/ lockword'[o] = Fat)

\* A step of t that leaves the FLC state alone keeps every queued thread in
\* the care of the owner it queued on.
LEMMA FlcStaysQueued ==
  ASSUME IInv, NEW t \in Thread, OthersStay(t), FlcStays(t), OwnLocksOnly(t),
         KeepsReleasing(t), ReleasesOpenly(t), NEW v \in Thread
  PROVE  QueuedInv(v)'
<1>1. QueuedInv(v) /\ FlcLockInv(v) /\ LocalInv(v) /\ TypeOK
  BY Zenon DEF IInv
<1> SUFFICES ASSUME flc_object[v] # NoObject
             PROVE  QueuedInv(v)'
  BY Zenon DEF QueuedInv, FlcStays
<1> DEFINE u == t_other[v]
           x == obj[v]
<1>2. v # t /\ u \in Thread /\ x \in Object /\ x # NoObject
  BY Zenon, <1>1, LockAssumption DEF QueuedInv, FlcStays, FlcBusy, FlcLockInv, LocalInv
<1>3. pc'[v] = pc[v] /\ obj'[v] = x /\ t_other'[v] = u /\ flc_object' = flc_object
      /\ flc_list' = flc_list
  BY Zenon, <1>2 DEF OthersStay, FlcStays
<1>0. v \in flc_list[u]
  BY Zenon, <1>1 DEF QueuedInv
<1>4. ThinOwnedBy(lockword'[x], u)
        \/ (pc'[u] \in Releasing /\ (obj'[u] = x \/ lockword'[x] = Fat))
  <2>1. CASE ThinOwnedBy(lockword[x], u)
    <3>1. CASE u = t
      BY Zenon, <1>2, <2>1, <3>1 DEF ReleasesOpenly
    <3>2. CASE u # t
      BY <1>2, <2>1, <3>2, LockAssumption DEF OwnLocksOnly, ThinOwnedBy, Unlocked, Thin
    <3> QED BY Zenon, <3>1, <3>2
  <2>2. CASE pc[u] \in Releasing /\ obj[u] = x
    BY Zenon, <1>0, <1>2, <2>2 DEF OthersStay, KeepsReleasing
  <2>3. CASE pc[u] \in Releasing /\ lockword[x] = Fat
    <3>1. lockword'[x] = Fat
      BY <1>2, <2>3 DEF OwnLocksOnly, Fat, Unlocked, Thin, ThinOwnedBy
    <3> QED BY Zenon, <1>0, <1>2, <2>3, <3>1 DEF OthersStay, KeepsReleasing
  <2> QED BY Zenon, <1>1, <2>1, <2>2, <2>3 DEF QueuedInv
<1> QED
  BY Zenon, <1>1, <1>3, <1>4 DEF QueuedInv

\* Nobody but t holds o.
FreeFor(t, o) ==
  IF lockword[o].shape = "fat" THEN lr_mutex[o] \in {t, NoThread}
                               ELSE lockword[o].owner \in {t, NoThread}

\* Only what t has of o changes.
OnlyHolds(t, o) ==
  /\ \A v \in Thread, x \in Object :
       v # t \/ x # o => held'[v][x] = held[v][x]
  /\ \A x \in Object \ {o} :
       /\ lockword'[x] = lockword[x] /\ lr_mutex'[x] = lr_mutex[x]
       /\ lr_owner'[x] = lr_owner[x] /\ lr_count'[x] = lr_count[x]

\* If a step changes only what t has of o, nobody else holds o before or after
\* it, and it counts right for t, then ownership stays recorded everywhere.
LEMMA OwnershipStep ==
  ASSUME IInv, NEW t \in Thread, NEW o \in Object, OnlyHolds(t, o),
         FreeFor(t, o), FreeFor(t, o)', RecordInv(o)',
         held'[t][o] = RecordedDepth(t, o)'
  PROVE  OwnershipRecorded' /\ \A x \in Object : RecordInv(x)'
<1>1. \A x \in Object : RecordInv(x)'
  <2> SUFFICES ASSUME NEW x \in Object \ {o} PROVE RecordInv(x)'
    BY Zenon
  <2>1. RecordInv(x)
    BY Zenon DEF IInv
  <2> QED BY Zenon, <2>1 DEF OnlyHolds, RecordInv
<1> SUFFICES ASSUME NEW v \in Thread, NEW x \in Object
             PROVE  held'[v][x] = RecordedDepth(v, x)'
  BY Zenon, <1>1 DEF OwnershipRecorded
<1>2. held[v][x] = RecordedDepth(v, x) /\ RecordInv(o)
  BY Zenon DEF IInv, OwnershipRecorded
<1>3. CASE x # o
  BY Zenon, <1>2, <1>3 DEF RecordedDepth, lock_is_held_by_current_thread, OnlyHolds
<1>4. CASE x = o /\ v # t
  <2>1. ~lock_is_held_by_current_thread(v, o)
    BY <1>2, <1>4, LockAssumption
       DEF lock_is_held_by_current_thread, RecordInv, FreeFor
  <2>2. ~lock_is_held_by_current_thread(v, o)'
    BY <1>4, LockAssumption
       DEF lock_is_held_by_current_thread, RecordInv, FreeFor
  <2> QED BY Zenon, <1>2, <1>4, <2>1, <2>2 DEF RecordedDepth, OnlyHolds
<1>5. CASE x = o /\ v = t
  BY Zenon, <1>5
<1> QED BY Zenon, <1>3, <1>4, <1>5

\* A step that leaves the FLC state alone preserves the invariant if it does
\* so where it works: on the lock o and on the locals of t.
LEMMA OwnStep ==
  ASSUME IInv, NEW t \in Thread, TypeOK', OthersStay(t), FlcStays(t),
         OwnLocksOnly(t), KeepsReleasing(t), ReleasesOpenly(t), LocalInv(t)',
         OwnershipRecorded', \A o \in Object : RecordInv(o)'
  PROVE  IInv'
<1>1. ASSUME NEW v \in Thread PROVE LocalInv(v)'
  <2>1. CASE v # t
    BY Zenon, <2>1, OthersLocalInv DEF OthersStay
  <2> QED BY Zenon, <2>1
<1>2. ASSUME NEW v \in Thread PROVE FlcLockInv(v)' /\ FlcListInv(v)'
  BY Zenon, FlcStaysInv
<1>3. ASSUME NEW v \in Thread PROVE QueuedInv(v)'
  BY Zenon, FlcStaysQueued
<1> QED
  BY Zenon, <1>1, <1>2, <1>3 DEF IInv

\* A step that changes neither locks nor FLC state only has to keep LocalInv(t).
LEMMA QuietStep ==
  ASSUME IInv, NEW t \in Thread, TypeOK', LocksStay, OthersStay(t), FlcStays(t),
         KeepsReleasing(t), LocalInv(t)'
  PROVE  IInv'
<1>1. OwnLocksOnly(t) /\ ReleasesOpenly(t)
  BY Zenon DEF LocksStay, OwnLocksOnly, ReleasesOpenly
<1> QED
  BY Zenon, <1>1, LocksStayInv, OwnStep

\* The program points, so that PC itself can stay unexpanded.
LEMMA PCFacts ==
  /\ {"run", "retry", "cas", "fatlock", "flc", "flccheck", "flcwait", "flcwoken"}
       \subseteq PC
  /\ {"exittest", "nlock", "nloop", "wnlock", "wnloop"} \subseteq PC
  /\ {"wrelease", "wtest", "wcond", "wenter", "wclear", "wclearie", "imse", "ie"}
       \subseteq PC
BY Zenon DEF PC, Running, Entering, Releasing, Waiting, Throwing

\* What is needed of lockwords, so that LockWord can stay unexpanded.
LEMMA WordFacts ==
  /\ Unlocked \in LockWord /\ Fat \in LockWord
  /\ \A t \in Thread : Thin(t, 0) \in LockWord
  /\ \A w \in LockWord : w.count \in Nat /\ w.count <= ThinCountMax
       /\ w.shape \in {"thin", "fat"} /\ w.owner \in Thread \cup {NoThread}
BY LockAssumption DEF Unlocked, Fat, Thin, LockWord

\* The count of a lockword is a number, and inflating it as it is keeps it.
LEMMA WordCount ==
  \A w \in LockWord : w.count \in Nat /\ w.count + 0 = w.count
BY LockAssumption DEF LockWord

\* The fields of the lockwords that appear in the actions.
LEMMA WordShapes ==
  /\ Unlocked.shape = "thin" /\ Unlocked.owner = NoThread /\ Unlocked.count = 0
  /\ Fat.shape = "fat" /\ Fat.owner = NoThread /\ Fat.count = 0
  /\ \A t \in Thread : /\ Thin(t, 0).shape = "thin" /\ Thin(t, 0).owner = t
                       /\ Thin(t, 0).count = 0
BY Zenon DEF Unlocked, Fat, Thin

\* One entry of held changes, and what that means for all of it.
Holds(t, o, n) == held' = [held EXCEPT ![t][o] = n]

LEMMA HeldUpdate ==
  ASSUME TypeOK, NEW t \in Thread, NEW o \in Object, NEW n \in Nat, Holds(t, o, n)
  PROVE  /\ held' \in [Thread -> [Object -> Nat]]
         /\ held'[t][o] = n
         /\ \A v \in Thread, x \in Object :
              v # t \/ x # o => held'[v][x] = held[v][x]
BY Zenon DEF TypeOK, Holds

\* held[t][o] is a number.
LEMMA HeldNat ==
  ASSUME TypeOK, NEW t \in Thread, NEW o \in Object
  PROVE  held[t][o] \in Nat
BY Zenon DEF TypeOK

\* Removing a thread from a list of waiters leaves a list of threads.
LEMMA list_removeType ==
  ASSUME NEW s \in Seq(Thread), NEW e
  PROVE  list_remove(s, e) \in Seq(Thread)
<1>1. CASE \E i \in DOMAIN s : s[i] = e
  <2> DEFINE i == CHOOSE i \in DOMAIN s : s[i] = e
  <2>1. i \in 1..Len(s)
    BY <1>1
  <2>2. list_remove(s, e) = SubSeq(s, 1, i - 1) \o SubSeq(s, i + 1, Len(s))
    BY Zenon, <1>1 DEF list_remove
  <2> HIDE DEF i
  <2>3. SubSeq(s, 1, i - 1) \in Seq(Thread) /\ SubSeq(s, i + 1, Len(s)) \in Seq(Thread)
    BY <2>1
  <2> QED BY <2>2, <2>3
<1>2. CASE ~\E i \in DOMAIN s : s[i] = e
  BY Zenon, <1>2 DEF list_remove
<1> QED BY Zenon, <1>1, <1>2

\* lock_monitor_enter up to the load of the lockword (lock.cpp:786).
LEMMA lock_monitor_enter_Inv ==
  ASSUME IInv, NEW t \in Thread, NEW o \in Object, lock_monitor_enter(t, o)
  PROVE  IInv'
<1> USE DEF lock_monitor_enter, Goto, record, flc, waiting, entering
<1>1. TypeOK /\ RecordInv(o)
  BY Zenon DEF IInv
<1>2. TypeOK'
  BY Zenon, <1>1, PCFacts DEF TypeOK
<1>3. LocksStay /\ OthersStay(t) /\ FlcStays(t) /\ KeepsReleasing(t)
  BY Zenon, <1>1 DEF TypeOK, LocksStay, OthersStay, FlcStays, FlcBusy, KeepsReleasing, Releasing
<1>4. LocalInv(t)'
  BY Zenon, <1>1 DEF TypeOK, LocalInv, RecordInv
<1> QED
  BY Zenon, <1>2, <1>3, <1>4, QuietStep

\* The load of the lockword at the retry label (lock.cpp:804).
LEMMA enter_retry_Inv ==
  ASSUME IInv, NEW t \in Thread, enter_retry(t)
  PROVE  IInv'
<1> USE DEF enter_retry, Goto, record, flc, waiting, entering
<1>1. TypeOK /\ LocalInv(t) /\ obj[t] \in Object /\ RecordInv(obj[t])
  BY Zenon DEF IInv, LocalInv
<1>2. TypeOK'
  BY Zenon, <1>1, PCFacts DEF TypeOK
<1>3. LocksStay /\ OthersStay(t) /\ FlcStays(t) /\ KeepsReleasing(t)
  BY Zenon, <1>1 DEF TypeOK, LocksStay, OthersStay, FlcStays, FlcBusy, KeepsReleasing, Releasing
<1>4. LocalInv(t)'
  BY Zenon, <1>1 DEF TypeOK, LocalInv, RecordInv
<1> QED
  BY Zenon, <1>2, <1>3, <1>4, QuietStep

\* A thread that finds a fat lock goes to lock its record.
LEMMA enter_fat_block_Inv ==
  ASSUME IInv, NEW t \in Thread, enter_fat_block(t)
  PROVE  IInv'
<1> USE DEF enter_fat_block, CasFailed, Goto, record, flc, waiting, entering
<1>1. TypeOK /\ LocalInv(t) /\ obj[t] \in Object /\ RecordInv(obj[t])
  BY Zenon DEF IInv, LocalInv
<1>2. TypeOK'
  BY Zenon, <1>1, PCFacts DEF TypeOK
<1>3. LocksStay /\ OthersStay(t) /\ FlcStays(t) /\ KeepsReleasing(t)
  BY Zenon, <1>1 DEF TypeOK, LocksStay, OthersStay, FlcStays, FlcBusy, KeepsReleasing, Releasing
<1>4. LocalInv(t)'
  BY Zenon, <1>1 DEF TypeOK, LocalInv, RecordInv
<1> QED
  BY Zenon, <1>2, <1>3, <1>4, QuietStep

\* A thread that finds another owner's thin lock goes to sable_flc_waiting.
LEMMA enter_contended_Inv ==
  ASSUME IInv, NEW t \in Thread, enter_contended(t)
  PROVE  IInv'
<1> USE DEF enter_contended, CasFailed, Goto, record, flc, waiting, entering
<1>1. TypeOK /\ LocalInv(t) /\ obj[t] \in Object /\ RecordInv(obj[t])
  BY Zenon DEF IInv, LocalInv
<1>2. TypeOK'
  BY Zenon, <1>1, PCFacts DEF TypeOK
<1>3. LocksStay /\ OthersStay(t) /\ FlcStays(t) /\ KeepsReleasing(t)
  BY Zenon, <1>1 DEF TypeOK, LocksStay, OthersStay, FlcStays, FlcBusy, KeepsReleasing, Releasing
<1>4. LocalInv(t)'
  BY Zenon, <1>1 DEF TypeOK, LocalInv, RecordInv
<1> QED
  BY Zenon, <1>2, <1>3, <1>4, QuietStep

\* The owner is gone by the time it is looked up: back to the retry label.
LEMMA sable_flc_waiting_nobody_Inv ==
  ASSUME IInv, NEW t \in Thread, sable_flc_waiting_nobody(t)
  PROVE  IInv'
<1> USE DEF sable_flc_waiting_nobody, Goto, record, flc, waiting, entering
<1>1. TypeOK /\ LocalInv(t) /\ obj[t] \in Object /\ RecordInv(obj[t])
  BY Zenon DEF IInv, LocalInv
<1>2. TypeOK'
  BY Zenon, <1>1, PCFacts DEF TypeOK
<1>3. LocksStay /\ OthersStay(t) /\ FlcStays(t) /\ KeepsReleasing(t)
  BY Zenon, <1>1 DEF TypeOK, LocksStay, OthersStay, FlcStays, FlcBusy, KeepsReleasing, Releasing
<1>4. LocalInv(t)'
  BY Zenon, <1>1 DEF TypeOK, LocalInv, RecordInv
<1> QED
  BY Zenon, <1>2, <1>3, <1>4, QuietStep

\* The test of the FLC bit after a release (lock.cpp:926).
LEMMA exit_test_Inv ==
  ASSUME IInv, NEW t \in Thread, exit_test(t)
  PROVE  IInv'
<1>1. TypeOK /\ FlcListInv(t) /\ obj[t] \in Object
  <2>1. pc[t] # "run"
    BY Zenon DEF exit_test
  <2> QED BY Zenon, <2>1 DEF IInv, LocalInv
<1>2. /\ pc[t] = "exittest"
      /\ UNCHANGED <<lockword, record, flc, waiting, entering, held>>
  BY Zenon DEF exit_test
<1>3. CASE flc_bit[t] /\ pc' = [pc EXCEPT ![t] = "nlock"] /\ obj' = obj
  <2>1. TypeOK'
    BY Zenon, <1>1, <1>2, <1>3, PCFacts DEF TypeOK, record, flc, waiting, entering
  <2>2. LocksStay
    BY Zenon, <1>2 DEF LocksStay, record
  <2>3. OthersStay(t) /\ FlcStays(t) /\ KeepsReleasing(t)
    BY Zenon, <1>1, <1>2, <1>3
       DEF TypeOK, OthersStay, FlcStays, FlcBusy, KeepsReleasing, Releasing, flc, entering
  <2>4. pc'[t] = "nlock" /\ obj'[t] \in Object
    BY Zenon, <1>1, <1>3 DEF TypeOK
  <2>5. LocalInv(t)'
    BY Zenon, <2>4 DEF LocalInv
  <2> QED BY Zenon, <2>1, <2>2, <2>3, <2>5, QuietStep
<1>4. CASE /\ ~flc_bit[t] /\ pc' = [pc EXCEPT ![t] = "run"]
           /\ obj' = [obj EXCEPT ![t] = NoObject]
  <2>1. TypeOK'
    BY Zenon, <1>1, <1>2, <1>4, PCFacts DEF TypeOK, record, flc, waiting, entering
  <2>2. LocksStay
    BY Zenon, <1>2 DEF LocksStay, record
  <2>3. OthersStay(t) /\ FlcStays(t)
    BY Zenon, <1>1, <1>2, <1>4 DEF TypeOK, OthersStay, FlcStays, FlcBusy, flc, entering
  <2>4. KeepsReleasing(t)
    BY Zenon, <1>1, <1>4 DEF FlcListInv, KeepsReleasing
  <2>5. pc'[t] = "run"
    BY Zenon, <1>1, <1>4 DEF TypeOK
  <2>6. LocalInv(t)'
    BY Zenon, <2>5 DEF LocalInv
  <2> QED BY Zenon, <2>1, <2>2, <2>3, <2>4, <2>6, QuietStep
<1> QED
  BY Zenon, <1>3, <1>4 DEF exit_test, Return, Goto

\* A caller that does not own the monitor is turned away.
LEMMA illegal_monitor_state_Inv ==
  ASSUME IInv, NEW t \in Thread, NEW o \in Object, illegal_monitor_state(t, o)
  PROVE  IInv'
<1> USE DEF illegal_monitor_state, Goto, record, flc, waiting, entering
<1>1. TypeOK /\ RecordInv(o)
  BY Zenon DEF IInv
<1>2. TypeOK'
  BY Zenon, <1>1, PCFacts DEF TypeOK
<1>3. LocksStay /\ OthersStay(t) /\ FlcStays(t) /\ KeepsReleasing(t)
  BY Zenon, <1>1 DEF TypeOK, LocksStay, OthersStay, FlcStays, FlcBusy, KeepsReleasing, Releasing
<1>4. LocalInv(t)'
  BY Zenon, <1>1 DEF TypeOK, LocalInv, RecordInv
<1> QED
  BY Zenon, <1>2, <1>3, <1>4, QuietStep

\* The exception is thrown and the operation ends.
LEMMA throw_Inv ==
  ASSUME IInv, NEW t \in Thread, throw(t)
  PROVE  IInv'
<1> USE DEF throw, Return, Goto, record, flc, waiting, entering
<1>1. TypeOK /\ LocalInv(t) /\ obj[t] \in Object /\ RecordInv(obj[t])
  BY Zenon DEF IInv, LocalInv, Throwing
<1>2. TypeOK'
  BY Zenon, <1>1, PCFacts DEF TypeOK
<1>3. LocksStay /\ OthersStay(t) /\ FlcStays(t) /\ KeepsReleasing(t)
  BY Zenon, <1>1 DEF TypeOK, LocksStay, OthersStay, FlcStays, FlcBusy, KeepsReleasing, Releasing, Throwing
<1>4. LocalInv(t)'
  BY Zenon, <1>1 DEF TypeOK, LocalInv, RecordInv
<1> QED
  BY Zenon, <1>2, <1>3, <1>4, QuietStep

\* The end of lock_record_wait: interrupted and signaled are cleared.
LEMMA wait_clear_Inv ==
  ASSUME IInv, NEW t \in Thread, wait_clear(t)
  PROVE  IInv'
<1>1. TypeOK /\ obj[t] \in Object
  <2>1. pc[t] # "run"
    BY Zenon DEF wait_clear
  <2> QED BY Zenon, <2>1 DEF IInv, LocalInv
<1>2. /\ pc[t] \in {"wclear", "wclearie"}
      /\ interrupted' = [interrupted EXCEPT ![t] = FALSE]
      /\ signaled' = [signaled EXCEPT ![t] = FALSE]
      /\ UNCHANGED <<lockword, record, flc, waiters, lockcount, timed, entering, held>>
  BY Zenon DEF wait_clear
<1>3. PICK l \in {"run", "ie"} :
        /\ pc' = [pc EXCEPT ![t] = l]
        /\ \/ obj' = obj
           \/ l = "run" /\ obj' = [obj EXCEPT ![t] = NoObject]
  BY Zenon DEF wait_clear, Return, Goto
<1>4. obj' \in [Thread -> Object \cup {NoObject}] /\ \A v \in Thread \ {t} : obj'[v] = obj[v]
  BY Zenon, <1>1, <1>3 DEF TypeOK
<1>5. TypeOK'
  BY Zenon, <1>1, <1>2, <1>3, <1>4, PCFacts DEF TypeOK, record, flc, entering
<1>6. LocksStay
  BY Zenon, <1>2 DEF LocksStay, record
<1>7. OthersStay(t) /\ FlcStays(t) /\ KeepsReleasing(t)
  BY Zenon, <1>1, <1>2, <1>3, <1>4
     DEF TypeOK, OthersStay, FlcStays, FlcBusy, KeepsReleasing, Releasing, flc, entering
<1>8. pc'[t] = l /\ (l = "ie" => obj'[t] \in Object)
  BY Zenon, <1>1, <1>3 DEF TypeOK
<1>9. LocalInv(t)'
  BY Zenon, <1>8 DEF LocalInv
<1> QED
  BY Zenon, <1>5, <1>6, <1>7, <1>9, QuietStep

\* The compare-and-swap that takes an unlocked object.
LEMMA enter_thin_Inv ==
  ASSUME IInv, NEW t \in Thread, enter_thin(t)
  PROVE  IInv'
<1>0. PICK o \in Object : o = obj[t]
  <2>1. pc[t] # "run"
    BY Zenon DEF enter_thin
  <2> QED BY Zenon, <2>1 DEF IInv, LocalInv
<1>1. TypeOK /\ RecordInv(o) /\ held[t][o] = RecordedDepth(t, o) /\ held[t][o] \in Nat
  BY Zenon, HeldNat DEF IInv, OwnershipRecorded
<1>2. /\ pc[t] = "cas" /\ lockword[o] = Unlocked
      /\ pc' = [pc EXCEPT ![t] = "run"] /\ obj' = [obj EXCEPT ![t] = NoObject]
      /\ lw_cache' = [lw_cache EXCEPT ![t] = Unlocked]
      /\ lockword' = [lockword EXCEPT ![o] = Thin(t, 0)]
      /\ UNCHANGED <<record, flc, waiting, t_other, old_flc>>
  BY Zenon, <1>0 DEF enter_thin, Acquired, Return, Goto
<1>3. Holds(t, o, held[t][o] + 1) /\ held[t][o] + 1 \in Nat
  BY <1>0, <1>1 DEF Holds, enter_thin, Acquired
<1>4. /\ held' \in [Thread -> [Object -> Nat]] /\ held'[t][o] = held[t][o] + 1
      /\ \A v \in Thread, x \in Object : v # t \/ x # o => held'[v][x] = held[v][x]
  BY <1>1, <1>3, HeldUpdate
<1>5. TypeOK'
  BY Zenon, <1>1, <1>2, <1>4, PCFacts, WordFacts DEF TypeOK, record, flc, waiting
<1>6. OthersStay(t) /\ FlcStays(t) /\ KeepsReleasing(t)
  BY Zenon, <1>1, <1>2 DEF TypeOK, OthersStay, FlcStays, FlcBusy, KeepsReleasing, Releasing, flc
<1>7. OwnLocksOnly(t) /\ OnlyHolds(t, o)
  BY Zenon, <1>1, <1>2, <1>4 DEF TypeOK, OwnLocksOnly, OnlyHolds, record
<1>8. /\ pc'[t] = "run" /\ lockword'[o] = Thin(t, 0) /\ lr_mutex' = lr_mutex
      /\ lr_owner' = lr_owner /\ lr_count' = lr_count
  BY Zenon, <1>1, <1>2 DEF TypeOK, record
<1>9. ReleasesOpenly(t)
  BY Zenon, <1>1, <1>2, <1>8, WordShapes DEF TypeOK, ReleasesOpenly, ThinOwnedBy
<1>10. FreeFor(t, o) /\ FreeFor(t, o)' /\ RecordInv(o)'
  BY ZenonT(60), <1>1, <1>2, <1>8, WordShapes, LockAssumption DEF FreeFor, RecordInv
<1>11. held[t][o] = 0
  BY Zenon, <1>1, <1>2, WordShapes, LockAssumption DEF RecordedDepth, lock_is_held_by_current_thread
<1>12. held'[t][o] = RecordedDepth(t, o)'
  BY <1>4, <1>8, <1>11, WordShapes DEF RecordedDepth, lock_is_held_by_current_thread
<1>13. LocalInv(t)'
  BY Zenon, <1>8 DEF LocalInv
<1>14. OwnershipRecorded' /\ \A x \in Object : RecordInv(x)'
  BY Zenon, <1>7, <1>10, <1>12, OwnershipStep
<1> QED
  BY Zenon, <1>5, <1>6, <1>7, <1>9, <1>13, <1>14, OwnStep

\* A recursive enter that fits the count of a thin lock.
LEMMA enter_recursive_Inv ==
  ASSUME IInv, NEW t \in Thread, enter_recursive(t)
  PROVE  IInv'
<1> USE DEF enter_recursive, Acquired, Return, Goto, CasFailed, record, flc, waiting, entering
<1>0. PICK o \in Object : o = obj[t]
  BY Zenon DEF IInv, LocalInv
<1>1. TypeOK /\ LocalInv(t) /\ o = obj[t] /\ RecordInv(o)
  BY Zenon, <1>0 DEF IInv
<1>a. lockword[o] = lw_cache[t] /\ lockword[o] \in LockWord
  BY Zenon, <1>1 DEF LocalInv, TypeOK, CasFailed
<1>b. [lockword[o] EXCEPT !.count = @ + 1] \in LockWord
  BY <1>a, LockAssumption DEF LockWord
<1>2. TypeOK'
  BY <1>1, PCFacts, WordFacts, <1>a, <1>b DEF TypeOK
<1>3. OthersStay(t) /\ FlcStays(t) /\ OwnLocksOnly(t) /\ KeepsReleasing(t)
  BY <1>1, <1>a, <1>b DEF TypeOK, OthersStay, FlcStays, FlcBusy, OwnLocksOnly, KeepsReleasing, Releasing, ThinOwnedBy, LockWord
<1>4. ReleasesOpenly(t) /\ OnlyHolds(t, o)
  BY <1>1, <1>a, <1>b DEF TypeOK, ReleasesOpenly, Releasing, OnlyHolds, ThinOwnedBy, LockWord
<1>5. held[t][o] = RecordedDepth(t, o)
  BY Zenon, <1>1 DEF IInv, OwnershipRecorded
<1>6. held'[t][o] = held[t][o] + 1 /\ lockword'[o] = [lockword[o] EXCEPT !.count = @ + 1]
  BY Zenon, <1>1, <1>a, <1>b DEF TypeOK
<1>7. FreeFor(t, o) /\ FreeFor(t, o)' /\ RecordInv(o)' /\ held'[t][o] = RecordedDepth(t, o)'
  BY SMTT(30), <1>1, <1>5, <1>6, LockAssumption, WordFacts, <1>a, <1>b
     DEF TypeOK, FreeFor, RecordInv, RecordedDepth, lock_is_held_by_current_thread, ThinOwnedBy, LockWord
<1>8. LocalInv(t)'
  BY Zenon, <1>1, <1>a, <1>b DEF TypeOK, LocalInv
<1> QED
  BY Zenon, <1>1, <1>2, <1>3, <1>4, <1>7, <1>8, OwnershipStep, OwnStep

\* A recursive enter that overflows the count and inflates the lock.
LEMMA enter_overflow_Inv ==
  ASSUME IInv, NEW t \in Thread, enter_overflow(t)
  PROVE  IInv'
<1>0. PICK o \in Object : o = obj[t]
  <2>1. pc[t] # "run"
    BY Zenon DEF enter_overflow, CasFailed
  <2> QED BY Zenon, <2>1 DEF IInv, LocalInv
<1>1. TypeOK /\ RecordInv(o) /\ held[t][o] = RecordedDepth(t, o) /\ held[t][o] \in Nat
  BY Zenon, HeldNat DEF IInv, OwnershipRecorded
<1>2. /\ pc[t] = "cas" /\ pc' = [pc EXCEPT ![t] = "nlock"] /\ obj' = obj
      /\ lw_cache' = [lw_cache EXCEPT ![t] = Unlocked]
      /\ lr_mutex[o] = NoThread
      /\ lr_mutex' = [lr_mutex EXCEPT ![o] = t]
      /\ lr_owner' = [lr_owner EXCEPT ![o] = t]
      /\ lr_count' = [lr_count EXCEPT ![o] = lockword[o].count + 1]
      /\ lockword' = [lockword EXCEPT ![o] = Fat]
      /\ UNCHANGED <<flc, waiting, t_other, old_flc>>
  BY Zenon, <1>0 DEF enter_overflow, CasFailed, lock_inflate, lock_record_enter, Goto
<1>3. Holds(t, o, held[t][o] + 1) /\ held[t][o] + 1 \in Nat
  BY <1>0, <1>1 DEF Holds, enter_overflow
<1>4. /\ held' \in [Thread -> [Object -> Nat]] /\ held'[t][o] = held[t][o] + 1
      /\ \A v \in Thread, x \in Object : v # t \/ x # o => held'[v][x] = held[v][x]
  BY <1>1, <1>3, HeldUpdate
<1>5. ThinOwnedBy(lockword[o], t) /\ lockword[o].count + 1 \in Nat
  <2>1. lockword[o] = lw_cache[t] /\ ThinOwnedBy(lw_cache[t], t)
    BY Zenon, <1>0, <1>2 DEF IInv, LocalInv, enter_overflow
  <2>2. lockword[o] \in LockWord
    BY Zenon, <1>1 DEF TypeOK
  <2> QED BY <2>1, <2>2, WordFacts
<1>6. TypeOK'
  BY Zenon, <1>1, <1>2, <1>4, <1>5, PCFacts, WordFacts DEF TypeOK, flc, waiting
<1>7. OthersStay(t) /\ FlcStays(t) /\ KeepsReleasing(t)
  BY Zenon, <1>1, <1>2 DEF TypeOK, OthersStay, FlcStays, FlcBusy, KeepsReleasing, Releasing, flc
<1>8. OwnLocksOnly(t) /\ OnlyHolds(t, o)
  BY ZenonT(60), <1>1, <1>2, <1>4, <1>5 DEF TypeOK, OwnLocksOnly, OnlyHolds
<1>9. /\ pc'[t] = "nlock" /\ obj'[t] = o /\ lockword'[o] = Fat /\ lr_mutex'[o] = t
      /\ lr_owner'[o] = t /\ lr_count'[o] = lockword[o].count + 1
  BY Zenon, <1>0, <1>1, <1>2 DEF TypeOK
<1>10. ReleasesOpenly(t)
  BY Zenon, <1>1, <1>2, <1>9 DEF TypeOK, ReleasesOpenly, Releasing
<1>11. FreeFor(t, o) /\ FreeFor(t, o)' /\ RecordInv(o)'
  BY Zenon, <1>5, <1>9, WordShapes, LockAssumption DEF FreeFor, RecordInv, ThinOwnedBy
<1>12. held[t][o] = lockword[o].count + 1
  BY Zenon, <1>1, <1>5 DEF RecordedDepth, lock_is_held_by_current_thread, ThinOwnedBy
<1>13. held'[t][o] = RecordedDepth(t, o)'
  BY Zenon, <1>4, <1>9, <1>12, WordShapes DEF RecordedDepth, lock_is_held_by_current_thread
<1>14. LocalInv(t)'
  BY Zenon, <1>9 DEF LocalInv
<1>15. OwnershipRecorded' /\ \A x \in Object : RecordInv(x)'
  BY Zenon, <1>8, <1>11, <1>13, OwnershipStep
<1> QED
  BY Zenon, <1>6, <1>7, <1>8, <1>10, <1>14, <1>15, OwnStep

\* A recursive enter of a fat lock.
LEMMA enter_fat_recursive_Inv ==
  ASSUME IInv, NEW t \in Thread, enter_fat_recursive(t)
  PROVE  IInv'
<1>0. PICK o \in Object : o = obj[t]
  <2>1. pc[t] # "run"
    BY Zenon DEF enter_fat_recursive, CasFailed
  <2> QED BY Zenon, <2>1 DEF IInv, LocalInv
<1>1. TypeOK /\ RecordInv(o) /\ held[t][o] = RecordedDepth(t, o) /\ held[t][o] \in Nat
  BY Zenon, HeldNat DEF IInv, OwnershipRecorded
<1>2. /\ pc[t] = "cas" /\ pc' = [pc EXCEPT ![t] = "run"]
      /\ obj' = [obj EXCEPT ![t] = NoObject]
      /\ lw_cache' = [lw_cache EXCEPT ![t] = Unlocked]
      /\ lr_owner[o] = t /\ lr_count' = [lr_count EXCEPT ![o] = lr_count[o] + 1]
      /\ UNCHANGED <<lockword, lr_mutex, lr_owner, flc, waiting, t_other, old_flc>>
  BY Zenon, <1>0 DEF enter_fat_recursive, CasFailed, Acquired, Return, Goto
<1>3. Holds(t, o, held[t][o] + 1) /\ held[t][o] + 1 \in Nat
  BY <1>0, <1>1 DEF Holds, enter_fat_recursive, Acquired
<1>4. /\ held' \in [Thread -> [Object -> Nat]] /\ held'[t][o] = held[t][o] + 1
      /\ \A v \in Thread, x \in Object : v # t \/ x # o => held'[v][x] = held[v][x]
  BY <1>1, <1>3, HeldUpdate
<1>5. lockword[o] = Fat /\ lr_mutex[o] = t /\ lr_count[o] \in Nat /\ lr_count[o] + 1 \in Nat
  <2>1. lockword[o] = Fat
    BY Zenon, <1>0, <1>2 DEF IInv, LocalInv, enter_fat_recursive
  <2> QED BY <1>1, <1>2, <2>1 DEF TypeOK, RecordInv
<1>6. TypeOK'
  BY Zenon, <1>1, <1>2, <1>4, <1>5, PCFacts, WordFacts DEF TypeOK, flc, waiting
<1>7. OthersStay(t) /\ FlcStays(t) /\ KeepsReleasing(t)
  BY Zenon, <1>1, <1>2 DEF TypeOK, OthersStay, FlcStays, FlcBusy, KeepsReleasing, Releasing, flc
<1>8. OwnLocksOnly(t) /\ OnlyHolds(t, o) /\ ReleasesOpenly(t)
  BY Zenon, <1>1, <1>2, <1>4 DEF TypeOK, OwnLocksOnly, OnlyHolds, ReleasesOpenly
<1>9. /\ pc'[t] = "run" /\ lr_count'[o] = lr_count[o] + 1
      /\ lockword'[o] = Fat /\ lr_owner'[o] = t /\ lr_mutex'[o] = t
  BY Zenon, <1>1, <1>2, <1>5 DEF TypeOK
<1>10. FreeFor(t, o) /\ FreeFor(t, o)' /\ RecordInv(o)'
  BY Zenon, <1>5, <1>9, WordShapes, LockAssumption DEF FreeFor, RecordInv
<1>11. held[t][o] = lr_count[o] + 1
  BY Zenon, <1>1, <1>2, <1>5, WordShapes DEF RecordedDepth, lock_is_held_by_current_thread
<1>12. held'[t][o] = RecordedDepth(t, o)'
  BY <1>4, <1>9, <1>11, WordShapes DEF RecordedDepth, lock_is_held_by_current_thread
<1>13. LocalInv(t)'
  BY Zenon, <1>9 DEF LocalInv
<1>14. OwnershipRecorded' /\ \A x \in Object : RecordInv(x)'
  BY Zenon, <1>8, <1>10, <1>12, OwnershipStep
<1> QED
  BY Zenon, <1>6, <1>7, <1>8, <1>13, <1>14, OwnStep

\* The record of a fat lock is free and locked.
LEMMA enter_fat_Inv ==
  ASSUME IInv, NEW t \in Thread, enter_fat(t)
  PROVE  IInv'
<1>0. PICK o \in Object : o = obj[t]
  <2>1. pc[t] # "run"
    BY Zenon DEF enter_fat
  <2> QED BY Zenon, <2>1 DEF IInv, LocalInv
<1>1. TypeOK /\ RecordInv(o) /\ held[t][o] = RecordedDepth(t, o) /\ held[t][o] \in Nat
  BY Zenon, HeldNat DEF IInv, OwnershipRecorded
<1>2. /\ pc[t] = "fatlock" /\ pc' = [pc EXCEPT ![t] = "run"]
      /\ obj' = [obj EXCEPT ![t] = NoObject]
      /\ lw_cache' = [lw_cache EXCEPT ![t] = Unlocked]
      /\ lr_mutex[o] = NoThread
      /\ lr_mutex' = [lr_mutex EXCEPT ![o] = t]
      /\ lr_owner' = [lr_owner EXCEPT ![o] = t]
      /\ UNCHANGED <<lockword, lr_count, flc, waiting, t_other, old_flc>>
  BY Zenon, <1>0 DEF enter_fat, lock_record_enter, Acquired, Return, Goto
<1>3. Holds(t, o, held[t][o] + 1) /\ held[t][o] + 1 \in Nat
  BY <1>0, <1>1 DEF Holds, enter_fat, Acquired
<1>4. /\ held' \in [Thread -> [Object -> Nat]] /\ held'[t][o] = held[t][o] + 1
      /\ \A v \in Thread, x \in Object : v # t \/ x # o => held'[v][x] = held[v][x]
  BY <1>1, <1>3, HeldUpdate
<1>5. lockword[o] = Fat /\ lr_owner[o] = NoThread /\ lr_count[o] = 0
  <2>1. lockword[o] = Fat
    BY Zenon, <1>0, <1>2 DEF IInv, LocalInv
  <2> QED BY Zenon, <1>1, <1>2, <2>1 DEF RecordInv
<1>6. TypeOK'
  BY Zenon, <1>1, <1>2, <1>4, PCFacts, WordFacts DEF TypeOK, flc, waiting
<1>7. OthersStay(t) /\ FlcStays(t) /\ KeepsReleasing(t)
  BY Zenon, <1>1, <1>2 DEF TypeOK, OthersStay, FlcStays, FlcBusy, KeepsReleasing, Releasing, flc
<1>8. OwnLocksOnly(t) /\ OnlyHolds(t, o) /\ ReleasesOpenly(t)
  BY Zenon, <1>1, <1>2, <1>4 DEF TypeOK, OwnLocksOnly, OnlyHolds, ReleasesOpenly
<1>9. /\ pc'[t] = "run" /\ lr_mutex'[o] = t /\ lr_owner'[o] = t
      /\ lockword'[o] = Fat /\ lr_count'[o] = 0
  BY Zenon, <1>1, <1>2, <1>5 DEF TypeOK
<1>10. FreeFor(t, o) /\ FreeFor(t, o)' /\ RecordInv(o)'
  BY Zenon, <1>2, <1>5, <1>9, WordShapes, LockAssumption DEF FreeFor, RecordInv
<1>11. held[t][o] = 0
  BY ZenonT(60), <1>1, <1>5, WordShapes, LockAssumption DEF RecordedDepth, lock_is_held_by_current_thread
<1>12. held'[t][o] = RecordedDepth(t, o)'
  BY ZenonT(60), <1>4, <1>9, <1>11, WordShapes DEF RecordedDepth, lock_is_held_by_current_thread
<1>13. LocalInv(t)'
  BY Zenon, <1>9 DEF LocalInv
<1>14. OwnershipRecorded' /\ \A x \in Object : RecordInv(x)'
  BY Zenon, <1>8, <1>10, <1>12, OwnershipStep
<1> QED
  BY Zenon, <1>6, <1>7, <1>8, <1>13, <1>14, OwnStep

\* The release of a thin lock.
LEMMA exit_thin_Inv ==
  ASSUME IInv, NEW t \in Thread, NEW o \in Object, exit_thin(t, o)
  PROVE  IInv'
<1>1. TypeOK /\ RecordInv(o) /\ held[t][o] = RecordedDepth(t, o) /\ held[t][o] \in Nat
  BY Zenon, HeldNat DEF IInv, OwnershipRecorded
<1>2. /\ pc[t] = "run" /\ pc' = [pc EXCEPT ![t] = "exittest"]
      /\ obj' = [obj EXCEPT ![t] = o]
      /\ lockword[o] = Thin(t, 0) /\ lockword' = [lockword EXCEPT ![o] = Unlocked]
      /\ UNCHANGED <<record, flc, waiting, entering>>
  BY Zenon DEF exit_thin, Goto
<1>3. held[t][o] = 1
  BY <1>1, <1>2, WordShapes DEF RecordedDepth, lock_is_held_by_current_thread
<1>4. Holds(t, o, 0)
  <2>1. Holds(t, o, held[t][o] - 1)
    BY Zenon DEF Holds, exit_thin, Released
  <2>2. held[t][o] - 1 = 0
    BY <1>3
  <2> QED BY Zenon, <2>1, <2>2
<1>5. /\ held' \in [Thread -> [Object -> Nat]] /\ held'[t][o] = 0
      /\ \A v \in Thread, x \in Object : v # t \/ x # o => held'[v][x] = held[v][x]
  BY <1>1, <1>4, HeldUpdate
<1>6. TypeOK'
  BY Zenon, <1>1, <1>2, <1>5, PCFacts, WordFacts DEF TypeOK, record, flc, waiting, entering
<1>7. OthersStay(t) /\ FlcStays(t) /\ KeepsReleasing(t)
  BY Zenon, <1>1, <1>2
     DEF TypeOK, OthersStay, FlcStays, FlcBusy, KeepsReleasing, Releasing, flc, entering
<1>8. ThinOwnedBy(lockword[o], t)
  BY Zenon, <1>2, WordShapes DEF ThinOwnedBy
<1>9. OwnLocksOnly(t) /\ OnlyHolds(t, o)
  BY Zenon, <1>1, <1>2, <1>5, <1>8 DEF TypeOK, OwnLocksOnly, OnlyHolds, record
<1>10. /\ pc'[t] = "exittest" /\ obj'[t] = o /\ lockword'[o] = Unlocked
       /\ lr_mutex' = lr_mutex /\ lr_owner' = lr_owner /\ lr_count' = lr_count
       /\ lockword'[o].shape = "thin" /\ lockword'[o].owner # t
  <2>1. lockword'[o] = Unlocked
    BY Zenon, <1>1, <1>2 DEF TypeOK
  <2>2. lr_mutex' = lr_mutex /\ lr_owner' = lr_owner /\ lr_count' = lr_count
    BY Zenon, <1>2 DEF record
  <2>3. pc'[t] = "exittest" /\ obj'[t] = o
    BY Zenon, <1>1, <1>2 DEF TypeOK
  <2>4. lockword'[o].shape = "thin" /\ lockword'[o].owner # t
    BY <2>1, WordShapes, LockAssumption
  <2> QED BY Zenon, <2>1, <2>2, <2>3, <2>4
<1>11. ReleasesOpenly(t)
  BY Zenon, <1>1, <1>2, <1>10 DEF TypeOK, ReleasesOpenly, Releasing
<1>12. FreeFor(t, o) /\ FreeFor(t, o)' /\ RecordInv(o)'
  BY <1>1, <1>2, <1>10, WordShapes, LockAssumption DEF FreeFor, RecordInv
<1>13. held'[t][o] = RecordedDepth(t, o)'
  BY Zenon, <1>5, <1>10 DEF RecordedDepth, lock_is_held_by_current_thread
<1>14. LocalInv(t)'
  BY Zenon, <1>10 DEF LocalInv
<1>15. OwnershipRecorded' /\ \A x \in Object : RecordInv(x)'
  BY Zenon, <1>9, <1>12, <1>13, OwnershipStep
<1> QED
  BY Zenon, <1>6, <1>7, <1>9, <1>11, <1>14, <1>15, OwnStep

\* The recursive exit of a thin lock.
LEMMA exit_recursive_Inv ==
  ASSUME IInv, NEW t \in Thread, NEW o \in Object, exit_recursive(t, o)
  PROVE  IInv'
<1> USE DEF exit_recursive, Released, record, flc, waiting, entering
<1>1. TypeOK /\ LocalInv(t) /\ RecordInv(o)
  BY Zenon DEF IInv
<1>a. held[t][o] = lockword[o].count + 1 /\ lockword[o] \in LockWord
  BY Zenon, <1>1 DEF IInv, TypeOK, OwnershipRecorded, RecordedDepth, lock_is_held_by_current_thread, ThinOwnedBy
<1>b. [lockword[o] EXCEPT !.count = @ - 1] \in LockWord
  BY <1>a, LockAssumption DEF LockWord
<1>c. held[t][o] - 1 \in Nat /\ lockword[o].count \in Nat
  BY <1>a, WordFacts
<1>2. TypeOK'
  BY Zenon, <1>1, <1>b, <1>c DEF TypeOK
<1>3. OthersStay(t) /\ FlcStays(t) /\ OwnLocksOnly(t) /\ KeepsReleasing(t)
  BY Zenon, <1>1, <1>a, <1>b DEF TypeOK, OthersStay, FlcStays, FlcBusy, OwnLocksOnly, KeepsReleasing, Releasing, ThinOwnedBy, LockWord
<1>4. ReleasesOpenly(t) /\ OnlyHolds(t, o)
  BY ZenonT(60), <1>1, <1>a, <1>b DEF TypeOK, ReleasesOpenly, Releasing, OnlyHolds, ThinOwnedBy, LockWord
<1>5. held[t][o] = RecordedDepth(t, o)
  BY Zenon, <1>1 DEF IInv, OwnershipRecorded
<1>6. /\ held'[t][o] = held[t][o] - 1
      /\ lockword'[o].shape = "thin" /\ lockword'[o].owner = t
      /\ lockword'[o].count = lockword[o].count - 1
  BY Zenon, <1>1, <1>a DEF TypeOK, ThinOwnedBy, LockWord
<1>7. FreeFor(t, o) /\ FreeFor(t, o)' /\ RecordInv(o)' /\ held'[t][o] = RecordedDepth(t, o)'
  BY <1>1, <1>5, <1>6, <1>c, LockAssumption
     DEF TypeOK, FreeFor, RecordInv, RecordedDepth, lock_is_held_by_current_thread, ThinOwnedBy, LockWord
<1>8. LocalInv(t)'
  BY Zenon, <1>1, <1>a, <1>b DEF TypeOK, LocalInv
<1> QED
  BY Zenon, <1>1, <1>2, <1>3, <1>4, <1>7, <1>8, OwnershipStep, OwnStep

\* The exit of a fat lock.
LEMMA exit_fat_Inv ==
  ASSUME IInv, NEW t \in Thread, NEW o \in Object, exit_fat(t, o)
  PROVE  IInv'
<1>1. TypeOK /\ RecordInv(o) /\ LocalInv(t) /\ held[t][o] = RecordedDepth(t, o)
      /\ held[t][o] \in Nat
  BY Zenon, HeldNat DEF IInv, OwnershipRecorded
<1>2. /\ pc[t] = "run" /\ lr_owner[o] = t /\ lockword[o].shape = "fat"
      /\ UNCHANGED <<lockword, flc, waiting, entering, pc, obj>>
  BY Zenon DEF exit_fat
<1>3. /\ lockword[o] = Fat /\ lr_mutex[o] = t /\ lr_count[o] \in Nat
      /\ held[t][o] = lr_count[o] + 1
  BY Zenon, <1>1, <1>2 DEF TypeOK, RecordInv, RecordedDepth, lock_is_held_by_current_thread
<1>4. /\ held' \in [Thread -> [Object -> Nat]] /\ held'[t][o] = lr_count[o]
      /\ \A v \in Thread, x \in Object : v # t \/ x # o => held'[v][x] = held[v][x]
  <2>1. held[t][o] - 1 = lr_count[o]
    BY <1>3
  <2>2. Holds(t, o, held[t][o] - 1)
    BY Zenon DEF Holds, exit_fat, Released
  <2>3. Holds(t, o, lr_count[o])
    BY Zenon, <2>1, <2>2
  <2> QED BY <1>1, <1>3, <2>3, HeldUpdate
<1>5. OthersStay(t) /\ FlcStays(t) /\ KeepsReleasing(t) /\ ReleasesOpenly(t)
  BY Zenon, <1>2
     DEF OthersStay, FlcStays, FlcBusy, KeepsReleasing, Releasing, ReleasesOpenly, flc, entering
<1>6. LocalInv(t)'
  BY Zenon, <1>2 DEF LocalInv
<1>7. CASE /\ lr_count[o] # 0 /\ lr_count' = [lr_count EXCEPT ![o] = lr_count[o] - 1]
           /\ UNCHANGED <<lr_mutex, lr_owner>>
  <2>1. /\ lr_count[o] - 1 \in Nat /\ lr_count'[o] = lr_count[o] - 1
        /\ lockword'[o].shape = "fat" /\ lr_owner'[o] = t /\ lr_count'[o] + 1 = lr_count[o]
    BY <1>1, <1>2, <1>3, <1>7 DEF TypeOK
  <2>2. TypeOK'
    BY Zenon, <1>1, <1>2, <1>4, <1>7, <2>1 DEF TypeOK, flc, waiting, entering
  <2>3. OwnLocksOnly(t) /\ OnlyHolds(t, o)
    BY Zenon, <1>1, <1>2, <1>4, <1>7 DEF TypeOK, OwnLocksOnly, OnlyHolds
  <2>4. FreeFor(t, o) /\ FreeFor(t, o)' /\ RecordInv(o)'
    BY Zenon, <1>2, <1>3, <1>7, WordShapes, LockAssumption DEF FreeFor, RecordInv
  <2>5. held'[t][o] = RecordedDepth(t, o)'
    BY Zenon, <1>4, <2>1 DEF RecordedDepth, lock_is_held_by_current_thread
  <2>6. OwnershipRecorded' /\ \A x \in Object : RecordInv(x)'
    BY Zenon, <2>3, <2>4, <2>5, OwnershipStep
  <2> QED BY Zenon, <1>5, <1>6, <2>2, <2>3, <2>6, OwnStep
<1>8. CASE /\ lr_count[o] = 0 /\ lr_count' = lr_count
           /\ lr_owner' = [lr_owner EXCEPT ![o] = NoThread]
           /\ lr_mutex' = [lr_mutex EXCEPT ![o] = NoThread]
  <2>1. TypeOK'
    BY Zenon, <1>1, <1>2, <1>4, <1>8 DEF TypeOK, flc, waiting, entering
  <2>2. OwnLocksOnly(t) /\ OnlyHolds(t, o)
    BY Zenon, <1>1, <1>2, <1>3, <1>4, <1>8 DEF TypeOK, OwnLocksOnly, OnlyHolds
  <2>3. /\ lr_owner'[o] = NoThread /\ lr_mutex'[o] = NoThread
        /\ lockword'[o].shape = "fat" /\ held'[t][o] = 0
    BY Zenon, <1>1, <1>2, <1>4, <1>8 DEF TypeOK
  <2>4. FreeFor(t, o) /\ FreeFor(t, o)' /\ RecordInv(o)'
    BY Zenon, <1>2, <1>3, <1>8, <2>3, WordShapes DEF FreeFor, RecordInv
  <2>5. held'[t][o] = RecordedDepth(t, o)'
    BY Zenon, <2>3, LockAssumption DEF RecordedDepth, lock_is_held_by_current_thread
  <2>6. OwnershipRecorded' /\ \A x \in Object : RecordInv(x)'
    BY Zenon, <2>2, <2>4, <2>5, OwnershipStep
  <2> QED BY Zenon, <1>5, <1>6, <2>1, <2>2, <2>6, OwnStep
<1> QED
  BY Zenon, <1>7, <1>8 DEF exit_fat, lock_record_exit

\* lock_monitor_wait up to the release of the record; a thin lock is inflated.
LEMMA lock_monitor_wait_Inv ==
  ASSUME IInv, NEW t \in Thread, NEW o \in Object, lock_monitor_wait(t, o)
  PROVE  IInv'
<1>1. TypeOK /\ LocalInv(t) /\ RecordInv(o) /\ held[t][o] = RecordedDepth(t, o)
  BY Zenon DEF IInv, OwnershipRecorded
<1>2. lockword[o] \in LockWord
  BY Zenon, <1>1 DEF TypeOK
<1>3. lockword[o].count \in Nat /\ lockword[o].count + 0 = lockword[o].count
  BY Zenon, <1>2, WordCount
<1>4. /\ pc[t] = "run"
      /\ obj' = [obj EXCEPT ![t] = o]
      /\ UNCHANGED <<flc, waiters, interrupted, signaled, lockcount, entering, held>>
  BY Zenon DEF lock_monitor_wait
<1>5. timed' \in [Thread -> {"never", "later", "due"}]
  <2>1. \E w \in {"never", "later"} : timed' = [timed EXCEPT ![t] = w]
    BY Zenon DEF lock_monitor_wait
  <2> QED BY Zenon, <1>1, <2>1 DEF TypeOK
<1>6. CASE /\ lockword[o].shape = "fat" /\ lr_owner[o] = t
           /\ Goto(t, "wrelease") /\ UNCHANGED <<lockword, record>>
  <2>1. pc' = [pc EXCEPT ![t] = "wrelease"]
    BY Zenon, <1>6 DEF Goto
  <2>2. TypeOK'
    BY Zenon, <1>1, <1>4, <1>5, <1>6, <2>1, PCFacts DEF TypeOK, flc, entering, record
  <2>3. LocksStay
    BY Zenon, <1>4, <1>6 DEF LocksStay, record
  <2>4. OthersStay(t) /\ FlcStays(t) /\ KeepsReleasing(t)
    BY Zenon, <1>1, <1>4, <2>1
       DEF TypeOK, OthersStay, FlcStays, FlcBusy, KeepsReleasing, Releasing, flc, entering
  <2>5. pc'[t] = "wrelease" /\ obj'[t] = o /\ lockword'[o] = Fat /\ lr_mutex'[o] = t
    <3>1. pc'[t] = "wrelease" /\ obj'[t] = o
      BY Zenon, <1>1, <1>4, <2>1 DEF TypeOK
    <3>2. lockword[o] = Fat /\ lr_mutex[o] = t
      BY Zenon, <1>1, <1>6 DEF RecordInv
    <3> QED BY Zenon, <1>6, <3>1, <3>2 DEF record
  <2>6. LocalInv(t)'
    BY Zenon, <2>5 DEF LocalInv
  <2> QED BY Zenon, <2>2, <2>3, <2>4, <2>6, QuietStep
<1>7. CASE /\ ThinOwnedBy(lockword[o], t) /\ lock_inflate(t, o, 0) /\ Goto(t, "wnlock")
  <2>1. /\ pc' = [pc EXCEPT ![t] = "wnlock"]
        /\ lr_mutex[o] = NoThread
        /\ lr_mutex' = [lr_mutex EXCEPT ![o] = t]
        /\ lr_owner' = [lr_owner EXCEPT ![o] = t]
        /\ lr_count' = [lr_count EXCEPT ![o] = lockword[o].count + 0]
        /\ lockword' = [lockword EXCEPT ![o] = Fat]
    BY Zenon, <1>7 DEF Goto, lock_inflate, lock_record_enter
  <2>2. TypeOK'
    BY Zenon, <1>1, <1>3, <1>4, <1>5, <2>1, PCFacts, WordFacts DEF TypeOK, flc, entering
  <2>3. OthersStay(t) /\ FlcStays(t) /\ KeepsReleasing(t)
    BY Zenon, <1>1, <1>4, <2>1
       DEF TypeOK, OthersStay, FlcStays, FlcBusy, KeepsReleasing, Releasing, flc, entering
  <2>4. OwnLocksOnly(t)
    BY Zenon, <1>1, <1>7, <2>1 DEF TypeOK, OwnLocksOnly
  <2>5. pc'[t] \in Releasing /\ obj'[t] = o
    BY Zenon, <1>1, <1>4, <2>1 DEF TypeOK, Releasing
  <2>6. ReleasesOpenly(t) /\ OnlyHolds(t, o)
    BY Zenon, <1>1, <1>4, <2>1, <2>5 DEF TypeOK, ReleasesOpenly, OnlyHolds
  <2>7. /\ pc'[t] = "wnlock" /\ lockword'[o] = Fat /\ lr_mutex'[o] = t
        /\ lr_owner'[o] = t /\ lr_count'[o] = lockword[o].count
    BY Zenon, <1>1, <1>3, <2>1 DEF TypeOK
  <2>8. Fat.shape = "fat" /\ Fat.owner = NoThread /\ Fat.count = 0
    BY Zenon DEF Fat
  <2>9. lockword[o].shape = "thin" /\ lockword[o].owner = t
    BY Zenon, <1>7 DEF ThinOwnedBy
  <2>10. FreeFor(t, o) /\ FreeFor(t, o)' /\ RecordInv(o)'
    BY Zenon, <2>7, <2>8, <2>9, LockAssumption DEF FreeFor, RecordInv
  <2>11. held[t][o] = lockword[o].count + 1
    BY Zenon, <1>1, <2>9 DEF RecordedDepth, lock_is_held_by_current_thread
  <2>12. held'[t][o] = RecordedDepth(t, o)'
    BY Zenon, <1>4, <2>7, <2>8, <2>11 DEF RecordedDepth, lock_is_held_by_current_thread
  <2>13. LocalInv(t)'
    BY Zenon, <2>5, <2>7 DEF LocalInv
  <2>14. OwnershipRecorded' /\ \A x \in Object : RecordInv(x)'
    BY Zenon, <2>6, <2>10, <2>12, OwnershipStep
  <2> QED BY Zenon, <2>2, <2>3, <2>4, <2>6, <2>13, <2>14, OwnStep
<1> QED
  BY Zenon, <1>6, <1>7 DEF lock_monitor_wait

\* The waiter queues itself, saves its count and releases the record.
LEMMA wait_release_Inv ==
  ASSUME IInv, NEW t \in Thread, wait_release(t)
  PROVE  IInv'
<1>0. PICK o \in Object : o = obj[t]
  <2>1. pc[t] # "run"
    BY Zenon DEF wait_release
  <2> QED BY Zenon, <2>1 DEF IInv, LocalInv
<1>1. TypeOK /\ RecordInv(o) /\ waiters[o] \in Seq(Thread) /\ lr_count[o] \in Nat
  BY Zenon DEF IInv, TypeOK
<1>2. /\ pc[t] = "wrelease" /\ pc' = [pc EXCEPT ![t] = "wtest"] /\ obj' = obj
      /\ waiters' = [waiters EXCEPT ![o] = Append(waiters[o], t)]
      /\ lockcount' = [lockcount EXCEPT ![t] = lr_count[o]]
      /\ lr_count' = [lr_count EXCEPT ![o] = 0]
      /\ lr_owner' = [lr_owner EXCEPT ![o] = NoThread]
      /\ lr_mutex' = [lr_mutex EXCEPT ![o] = NoThread]
      /\ UNCHANGED <<lockword, flc, interrupted, signaled, timed, entering>>
  BY Zenon, <1>0 DEF wait_release, lock_record_exit, Goto
<1>3. lockword[o] = Fat /\ lr_mutex[o] = t
  BY ZenonT(60), <1>0, <1>2 DEF IInv, LocalInv
<1>4. /\ held' \in [Thread -> [Object -> Nat]] /\ held'[t][o] = 0
      /\ \A v \in Thread, x \in Object : v # t \/ x # o => held'[v][x] = held[v][x]
  <2>1. Holds(t, o, 0)
    BY Zenon, <1>0 DEF Holds, wait_release
  <2> QED BY <1>1, <2>1, HeldUpdate
<1>5. waiters' \in [Object -> Seq(Thread)]
  <2>1. Append(waiters[o], t) \in Seq(Thread)
    BY <1>1
  <2> QED BY Zenon, <1>1, <1>2, <2>1 DEF TypeOK
<1>6. TypeOK'
  BY Zenon, <1>1, <1>2, <1>4, <1>5, PCFacts DEF TypeOK, flc, entering
<1>7. OthersStay(t) /\ FlcStays(t) /\ KeepsReleasing(t)
  BY Zenon, <1>1, <1>2
     DEF TypeOK, OthersStay, FlcStays, FlcBusy, KeepsReleasing, Releasing, flc, entering
<1>8. OwnLocksOnly(t) /\ OnlyHolds(t, o) /\ ReleasesOpenly(t)
  BY Zenon, <1>1, <1>2, <1>3, <1>4 DEF TypeOK, OwnLocksOnly, OnlyHolds, ReleasesOpenly
<1>9. /\ pc'[t] = "wtest" /\ obj'[t] = o /\ lockword'[o] = Fat
      /\ lr_mutex'[o] = NoThread /\ lr_owner'[o] = NoThread /\ lr_count'[o] = 0
  BY Zenon, <1>0, <1>1, <1>2, <1>3 DEF TypeOK
<1>10. FreeFor(t, o) /\ FreeFor(t, o)' /\ RecordInv(o)'
  BY Zenon, <1>3, <1>9, WordShapes DEF FreeFor, RecordInv
<1>11. held'[t][o] = RecordedDepth(t, o)'
  BY Zenon, <1>4, <1>9, WordShapes, LockAssumption DEF RecordedDepth, lock_is_held_by_current_thread
<1>12. LocalInv(t)'
  BY Zenon, <1>9, LockAssumption DEF LocalInv
<1>13. OwnershipRecorded' /\ \A x \in Object : RecordInv(x)'
  BY Zenon, <1>8, <1>10, <1>11, OwnershipStep
<1> QED
  BY Zenon, <1>6, <1>7, <1>8, <1>12, <1>13, OwnStep

\* The waiter locks the record again, restores its count and leaves the list.
LEMMA wait_enter_Inv ==
  ASSUME IInv, NEW t \in Thread, wait_enter(t)
  PROVE  IInv'
<1>0. PICK o \in Object : o = obj[t]
  <2>1. pc[t] # "run"
    BY Zenon DEF wait_enter
  <2> QED BY Zenon, <2>1 DEF IInv, LocalInv
<1>1. TypeOK /\ RecordInv(o) /\ waiters[o] \in Seq(Thread) /\ lockcount[t] \in Nat
  BY Zenon DEF IInv, TypeOK
<1>2. /\ pc[t] = "wenter"
      /\ lr_mutex[o] = NoThread
      /\ lr_mutex' = [lr_mutex EXCEPT ![o] = t]
      /\ lr_owner' = [lr_owner EXCEPT ![o] = t]
      /\ waiters' = [waiters EXCEPT ![o] = list_remove(waiters[o], t)]
      /\ lr_count' = [lr_count EXCEPT ![o] = lockcount[t]]
      /\ lockcount' = [lockcount EXCEPT ![t] = 0]
      /\ timed' = [timed EXCEPT ![t] = "never"]
      /\ UNCHANGED <<lockword, flc, interrupted, entering>>
  BY Zenon, <1>0 DEF wait_enter, lock_record_enter
<1>3. signaled' = signaled \/ signaled' = [signaled EXCEPT ![t] = FALSE]
  BY Zenon DEF wait_enter
<1>4. PICK l \in {"run", "wclear", "wclearie"} :
        /\ pc' = [pc EXCEPT ![t] = l]
        /\ obj' = obj \/ (l = "run" /\ obj' = [obj EXCEPT ![t] = NoObject])
  BY Zenon DEF wait_enter, Return, Goto
<1>5. obj' \in [Thread -> Object \cup {NoObject}] /\ \A v \in Thread \ {t} : obj'[v] = obj[v]
  BY ZenonT(60), <1>1, <1>4 DEF TypeOK
<1>6. lockword[o] = Fat
  BY Zenon, <1>0, <1>2 DEF IInv, LocalInv
<1>7. /\ held' \in [Thread -> [Object -> Nat]] /\ held'[t][o] = lockcount[t] + 1
      /\ \A v \in Thread, x \in Object : v # t \/ x # o => held'[v][x] = held[v][x]
  <2>1. Holds(t, o, lockcount[t] + 1) /\ lockcount[t] + 1 \in Nat
    BY <1>0, <1>1 DEF Holds, wait_enter
  <2> QED BY ZenonT(60), <1>1, <2>1, HeldUpdate
<1>8. waiters' \in [Object -> Seq(Thread)] /\ signaled' \in [Thread -> BOOLEAN]
  <2>1. list_remove(waiters[o], t) \in Seq(Thread)
    BY Zenon, <1>1, list_removeType
  <2>2. waiters' \in [Object -> Seq(Thread)]
    BY Zenon, <1>1, <1>2, <2>1 DEF TypeOK
  <2>3. signaled' \in [Thread -> BOOLEAN]
    BY Zenon, <1>1, <1>3 DEF TypeOK
  <2> QED BY Zenon, <2>2, <2>3
<1>9. TypeOK'
  BY ZenonT(60), <1>1, <1>2, <1>4, <1>5, <1>7, <1>8, PCFacts DEF TypeOK, flc, entering
<1>10. OthersStay(t) /\ FlcStays(t) /\ KeepsReleasing(t)
  BY Zenon, <1>1, <1>2, <1>4, <1>5
     DEF TypeOK, OthersStay, FlcStays, FlcBusy, KeepsReleasing, Releasing, flc, entering
<1>11. OwnLocksOnly(t) /\ OnlyHolds(t, o) /\ ReleasesOpenly(t)
  BY Zenon, <1>1, <1>2, <1>7 DEF TypeOK, OwnLocksOnly, OnlyHolds, ReleasesOpenly
<1>12. /\ pc'[t] = l /\ (l # "run" => obj'[t] = o) /\ lockword'[o] = Fat
       /\ lr_mutex'[o] = t /\ lr_owner'[o] = t /\ lr_count'[o] = lockcount[t]
  BY Zenon, <1>0, <1>1, <1>2, <1>4, <1>6 DEF TypeOK
<1>13. FreeFor(t, o) /\ FreeFor(t, o)' /\ RecordInv(o)'
  BY ZenonT(60), <1>2, <1>6, <1>12, WordShapes, LockAssumption DEF FreeFor, RecordInv
<1>14. held'[t][o] = RecordedDepth(t, o)'
  BY Zenon, <1>7, <1>12, WordShapes DEF RecordedDepth, lock_is_held_by_current_thread
<1>15. LocalInv(t)'
  BY Zenon, <1>12 DEF LocalInv
<1>16. OwnershipRecorded' /\ \A x \in Object : RecordInv(x)'
  BY Zenon, <1>11, <1>13, <1>14, OwnershipStep
<1> QED
  BY Zenon, <1>9, <1>10, <1>11, <1>15, <1>16, OwnStep

=============================================================================
