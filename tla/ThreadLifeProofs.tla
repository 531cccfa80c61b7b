-------------------------- MODULE ThreadLifeProofs --------------------------
(***************************************************************************)
(* Proofs about ThreadLife, for any number of threads and of thread data   *)
(* structures, when attaching a thread does not fail.                      *)
(***************************************************************************)
EXTENDS ThreadLife, FiniteSetTheorems, TLAPS

Making == {"start", "internal", "internalobject", "create", "wait"}
Attaching == {"attach", "attachobject"}

\* What a thread may be doing, and when it names a structure in new.
PcInv ==
  \A o \in Os :
    /\ new[o] # 0 <=> pc[o] \in Making \cup Attaching \cup {"born"}
    /\ pc[o] \in Attaching => new[o] = current[o]
    /\ pc[o] \in {"join", "joinwait", "joined"} => o = Main
    /\ pc[o] \in Attaching \cup {"out"} => o \notin Started
    /\ pc[o] \in {"born", "unborn"} => o \in Started

\* No structure is used twice, except by a thread being started and its creator.
ApartAt(o, p) ==
  /\ Running(o) /\ Running(p) /\ current[o] = current[p] => o = p
  /\ Running(o) /\ new[p] # 0 /\ current[o] = new[p] => o = p /\ pc[o] = "attachobject"
  /\ new[o] # 0 /\ new[o] = new[p] /\ o # p =>
       \/ pc[o] = "wait" /\ pc[p] = "born"
       \/ pc[o] = "born" /\ pc[p] = "wait"

\* Where the structures are that a thread uses.
PlacedAt(o) ==
  /\ Running(o) => current[o] \in active
  /\ Running(o) /\ pc[o] # "attachobject" => current[o] \in object
  /\ pc[o] \in Building => new[o] \notin active
  /\ pc[o] \in Listed => new[o] \in active
  /\ pc[o] \in {"start", "create", "wait", "born"} => new[o] \in object
  /\ pc[o] \in Building \cup {"attachobject", "internalobject", "create"} => new[o] \notin cleanup
  /\ new[o] \notin free
  /\ o \notin Started /\ Running(o) => current[o] \notin cleanup \cup daemon
  /\ pc[o] \in Attaching => new[o] \notin daemon

\* The structure of a detached external thread is lost: nobody uses it again.
LostAt(o) ==
  /\ current[o] \notin object \cup free \cup cleanup \cup active
  /\ current[o] <= last_index
  /\ \A p \in Os : /\ Running(p) => current[p] # current[o]
                   /\ new[p] # 0 => new[p] # current[o]

Apart == \A o, p \in Os : ApartAt(o, p)
Placed == \A o \in Os : PlacedAt(o)
Lost == \A o \in Os : pc[o] = "out" => LostAt(o)

SetsInv ==
  /\ free \cup active \cup object \cup cleanup \subseteq 1..last_index
  /\ \A o \in Os : new[o] <= last_index
  /\ free \cap (active \cup cleanup) = {}
  /\ cleanup \cap active \subseteq object

IInv == TypeOK /\ PcInv /\ Apart /\ Placed /\ Lost /\ SetsInv

-----------------------------------------------------------------------------
(* Creating a thread *)

\* A structure thread_new returns is used by nobody.
LEMMA FreshIndex ==
  ASSUME IInv, NEW i \in Index, i \in FreeThreads, Taken(i)
  PROVE  /\ i \notin active \cup cleanup \cup free' /\ free' \subseteq free
         /\ last_index' \in Index /\ last_index <= last_index' /\ i <= last_index'
         /\ \A o \in Os : /\ new[o] # i
                          /\ Running(o) => current[o] # i
                          /\ pc[o] = "out" => current[o] # i
<1>1. /\ free \subseteq Index /\ active \subseteq Index /\ cleanup \subseteq Index
      /\ last_index \in Index /\ Index \subseteq Int
      /\ new \in [Os -> 0..MaxIndex] /\ current \in [Os -> 0..MaxIndex]
  BY LifeAssumption DEF IInv, TypeOK, Index
<1>2. CASE free # {}
  <2>1. i \in free /\ i <= last_index /\ free' = free \ {i} /\ last_index' = last_index
    BY <1>1, <1>2 DEF FreeThreads, Taken, IInv, SetsInv
  <2>2. \A o \in Os : Running(o) => current[o] # i
    BY Zenon, <2>1 DEF IInv, Placed, PlacedAt, SetsInv
  <2> QED BY <1>1, <2>1, <2>2 DEF IInv, Placed, PlacedAt, Lost, LostAt, SetsInv
<1>3. CASE free = {}
  <2>1. i = last_index + 1 /\ last_index' = i /\ free' = {}
    BY <1>1, <1>3 DEF FreeThreads, Taken
  <2>2. \A o \in Os : Running(o) => current[o] # i
    BY <1>1, <2>1 DEF IInv, Placed, PlacedAt, SetsInv
  <2>3. i \notin active \cup cleanup
    BY <1>1, <2>1 DEF IInv, SetsInv
  <2>4. \A o \in Os : new[o] # i /\ (pc[o] = "out" => current[o] # i)
    BY <1>1, <2>1 DEF IInv, SetsInv, Lost, LostAt
  <2> QED BY <1>1, <2>1, <2>2, <2>3, <2>4
<1> QED BY Zenon, <1>2, <1>3

\* Thread k makes structure i, and nothing happens to the list of active threads.
Makes(k, i, d, n, h) ==
  /\ thread_new(i, d, n, h)
  /\ UNCHANGED <<active, cleanup, number>>
  /\ new' = [new EXCEPT ![k] = i]

\* The sets of structures after thread_new.
LEMMA NewSets ==
  ASSUME IInv, NEW i \in Index, NEW d \in BOOLEAN, NEW n \in BOOLEAN, NEW h \in BOOLEAN,
         NEW k \in Os, Makes(k, i, d, n, h)
  PROVE  /\ SetsInv'
         /\ free' \subseteq Index /\ object' \subseteq Index
         /\ daemon' \subseteq Index /\ internal' \subseteq Index
         /\ \A j : j # i => (j \in object' <=> j \in object) /\ (j \in daemon' <=> j \in daemon)
         /\ i \in object' <=> h
         /\ i \in daemon' <=> d
<1> USE DEF Makes
<1>1. /\ i \notin active \cup cleanup \cup free' /\ free' \subseteq free
      /\ last_index' \in Index /\ last_index <= last_index' /\ i <= last_index'
      /\ \A o \in Os : new[o] # i
  BY Zenon, FreshIndex DEF thread_new
<1>2. /\ free \subseteq Index /\ object \subseteq Index /\ last_index \in Index /\ Index \subseteq Int
      /\ daemon \subseteq Index /\ internal \subseteq Index
      /\ new \in [Os -> 0..MaxIndex]
  BY LifeAssumption DEF IInv, TypeOK, Index
<1>3. /\ object' \subseteq object \cup {i} /\ object \subseteq object' \cup {i}
      /\ daemon' \subseteq daemon \cup {i} /\ internal' \subseteq internal \cup {i}
      /\ \A j : j # i => (j \in object' <=> j \in object) /\ (j \in daemon' <=> j \in daemon)
      /\ (i \in object' <=> h) /\ (i \in daemon' <=> d)
  BY Zenon DEF thread_new
<1>4. SetsInv'
  <2>1. free' \cup active' \cup object' \cup cleanup' \subseteq 1..last_index'
    <3>1. free' \cup active' \cup object' \cup cleanup'
             \subseteq (free \cup active \cup object \cup cleanup) \cup {i}
      BY Zenon, <1>1, <1>3
    <3>2. free \cup active \cup object \cup cleanup \subseteq 1..last_index
      BY Zenon DEF IInv, SetsInv
    <3>3. 1..last_index \subseteq 1..last_index' /\ i \in 1..last_index'
      BY <1>1, <1>2 DEF Index
    <3> QED BY Zenon, <3>1, <3>2, <3>3
  <2>2. \A o \in Os : new'[o] <= last_index'
    BY <1>1, <1>2 DEF IInv, SetsInv, Index
  <2>3. free' \cap (active' \cup cleanup') = {} /\ cleanup' \cap active' \subseteq object'
    BY Zenon, <1>1, <1>3 DEF IInv, SetsInv
  <2> QED BY Zenon, <2>1, <2>2, <2>3 DEF SetsInv
<1> QED BY Zenon, <1>1, <1>2, <1>3, <1>4

\* A running thread makes a structure for a new thread.
LEMMA MakeInv ==
  ASSUME IInv, NEW o \in Os, pc[o] = "run", NEW l \in {"start", "internal"}, Goto(o, l),
         NEW i \in Index, NEW d \in BOOLEAN, NEW n \in BOOLEAN, NEW h \in BOOLEAN,
         thread_new(i, d, n, h), l = "start" => h,
         new' = [new EXCEPT ![o] = i], UNCHANGED <<active, number, cleanup, current>>
  PROVE  IInv'
<1>1. /\ i \notin active \cup cleanup \cup free' /\ free' \subseteq free /\ i # 0
      /\ last_index' \in Index /\ last_index <= last_index' /\ i <= last_index'
      /\ \A p \in Os : /\ new[p] # i
                       /\ Running(p) => current[p] # i
                       /\ pc[p] = "out" => current[p] # i
  BY FreshIndex DEF thread_new, Index
<1>2. /\ SetsInv'
      /\ free' \subseteq Index /\ object' \subseteq Index
      /\ daemon' \subseteq Index /\ internal' \subseteq Index
      /\ \A j : j # i => (j \in object' <=> j \in object) /\ (j \in daemon' <=> j \in daemon)
      /\ i \in object' <=> h
  <2>1. Makes(o, i, d, n, h)
    BY Zenon DEF Makes
  <2> QED BY <2>1, NewSets
<1>3. TypeOK'
  BY <1>1, <1>2 DEF IInv, TypeOK, Goto, Index, Building, Listed
<1>4. /\ pc'[o] = l /\ new'[o] = i /\ current' = current
      /\ \A p \in Os : p # o => pc'[p] = pc[p] /\ new'[p] = new[p]
      /\ Running(o) /\ Running(o)' /\ new[o] = 0
      /\ \A p \in Os : Running(p)' <=> Running(p)
  BY Zenon DEF IInv, TypeOK, PcInv, Goto, Running, Making, Attaching
<1>5. PcInv'
  BY <1>1, <1>4 DEF IInv, PcInv, Making, Attaching
<1>6. Apart'
  BY <1>1, <1>4 DEF IInv, Apart, ApartAt
<1>7. Placed'
  <2> SUFFICES ASSUME NEW p \in Os
               PROVE  PlacedAt(p)'
    BY Zenon DEF Placed
  <2>1. CASE p = o
    BY <1>1, <1>2, <1>4, <2>1 DEF IInv, Placed, PlacedAt, Building, Listed, Attaching
  <2>2. CASE p # o
    BY <1>1, <1>2, <1>4, <2>2 DEF IInv, Placed, PlacedAt
  <2> QED BY Zenon, <2>1, <2>2
<1>8. Lost'
  <2> SUFFICES ASSUME NEW p \in Os, pc'[p] = "out"
               PROVE  LostAt(p)'
    BY Zenon DEF Lost
  <2>1. p # o /\ pc[p] = "out"
    BY Zenon, <1>4
  <2>2. current[p] \in Int /\ last_index \in Int /\ last_index' \in Int
    BY <1>1, LifeAssumption DEF IInv, TypeOK, Index
  <2> QED BY <1>1, <1>2, <1>4, <2>1, <2>2 DEF IInv, Lost, LostAt
<1> QED BY Zenon, <1>2, <1>3, <1>5, <1>6, <1>7, <1>8 DEF IInv

\* An external thread makes a structure for itself.
LEMMA AttachInv ==
  ASSUME IInv, NEW o \in Os, attach(o)
  PROVE  IInv'
<1>0. pc[o] = "out" /\ o \notin Started /\ UNCHANGED cleanup
  BY Zenon DEF attach, IInv, PcInv, Attaching
<1>1. ~Attached(o)
  BY Zenon, <1>0 DEF Attached, IInv, Lost, LostAt
<1>2. PICK i \in Index : /\ thread_new(i, FALSE, FALSE, FALSE)
                         /\ current' = [current EXCEPT ![o] = i]
                         /\ new' = [new EXCEPT ![o] = i]
  BY Zenon, <1>1 DEF attach
<1>3. Goto(o, "attach") /\ UNCHANGED <<active, number>>
  BY Zenon, <1>1 DEF attach
<1>4. /\ i \notin active \cup cleanup \cup free' /\ free' \subseteq free /\ i # 0
      /\ last_index' \in Index /\ last_index <= last_index' /\ i <= last_index'
      /\ \A p \in Os : /\ new[p] # i
                       /\ Running(p) => current[p] # i
                       /\ pc[p] = "out" => current[p] # i
  BY <1>2, FreshIndex DEF thread_new, Index
<1>5. /\ SetsInv'
      /\ free' \subseteq Index /\ object' \subseteq Index
      /\ daemon' \subseteq Index /\ internal' \subseteq Index
      /\ \A j : j # i => (j \in object' <=> j \in object) /\ (j \in daemon' <=> j \in daemon)
      /\ i \notin daemon'
  <2>1. Makes(o, i, FALSE, FALSE, FALSE)
    BY Zenon, <1>0, <1>2, <1>3 DEF Makes
  <2> QED BY Zenon, <2>1, NewSets
<1>6. TypeOK'
  BY <1>0, <1>2, <1>3, <1>4, <1>5 DEF IInv, TypeOK, Goto, Index, Building, Listed
<1>7. /\ pc'[o] = "attach" /\ new'[o] = i /\ current'[o] = i
      /\ \A p \in Os : p # o => pc'[p] = pc[p] /\ new'[p] = new[p] /\ current'[p] = current[p]
      /\ ~Running(o) /\ ~Running(o)'
      /\ \A p \in Os : p # o => (Running(p)' <=> Running(p))
  BY Zenon, <1>0, <1>2, <1>3 DEF IInv, TypeOK, Goto, Running
<1>8. PcInv'
  BY <1>0, <1>4, <1>7 DEF IInv, PcInv, Making, Attaching
<1>9. Apart'
  BY <1>4, <1>7 DEF IInv, Apart, ApartAt
<1>10. Placed'
  <2> SUFFICES ASSUME NEW p \in Os
               PROVE  PlacedAt(p)'
    BY Zenon DEF Placed
  <2>1. CASE p = o
    BY Zenon, <1>0, <1>3, <1>4, <1>5, <1>7, <2>1 DEF IInv, Placed, PlacedAt, Building, Listed, Attaching
  <2>2. CASE p # o
    BY Zenon, <1>0, <1>3, <1>4, <1>5, <1>7, <2>2 DEF IInv, Placed, PlacedAt, PcInv, Attaching
  <2> QED BY Zenon, <2>1, <2>2
<1>11. Lost'
  <2> SUFFICES ASSUME NEW p \in Os, pc'[p] = "out"
               PROVE  LostAt(p)'
    BY Zenon DEF Lost
  <2>1. p # o /\ pc[p] = "out"
    BY Zenon, <1>7
  <2>2. current[p] \in Int /\ last_index \in Int /\ last_index' \in Int
    BY <1>4, LifeAssumption DEF IInv, TypeOK, Index
  <2> QED BY <1>0, <1>3, <1>4, <1>5, <1>7, <2>1, <2>2 DEF IInv, Lost, LostAt
<1> QED BY Zenon, <1>5, <1>6, <1>8, <1>9, <1>10, <1>11 DEF IInv

\* A new thread enters the active list.
LEMMA AddInv ==
  ASSUME IInv, NEW o \in Os, add(o)
  PROVE  IInv'
<1> DEFINE i == new[o]
<1>1. /\ pc[o] \in Building /\ active' = active \cup {i}
      /\ UNCHANGED <<last_index, free, object, daemon, internal, cleanup, current, new>>
      /\ number' \in {number, number + 1}
      /\ Goto(o, CASE pc[o] = "attach" -> "attachobject"
                   [] pc[o] = "internal" -> "internalobject"
                   [] pc[o] = "start" -> "create")
  BY Zenon DEF add, add_to_active_thread_list, Building, flags
<1>2. /\ i \in Index /\ i # 0 /\ i \notin free /\ i \notin cleanup /\ i \notin active /\ i <= last_index
      /\ pc[o] \in Attaching => i = current[o] /\ i \notin daemon /\ o \notin Started
      /\ pc[o] = "start" => i \in object
  BY <1>1, LifeAssumption
     DEF IInv, TypeOK, Index, PcInv, Placed, PlacedAt, SetsInv, Building, Making, Attaching
<1>3. /\ pc'[o] \in {"attachobject", "internalobject", "create"}
      /\ pc'[o] = "attachobject" <=> pc[o] = "attach"
      /\ pc'[o] = "internalobject" <=> pc[o] = "internal"
      /\ pc'[o] = "create" <=> pc[o] = "start"
      /\ \A p \in Os : p # o => pc'[p] = pc[p]
      /\ pc' \in [Os -> Building \cup Listed \cup
                       {"unborn", "out", "run", "join", "joinwait", "joined"}]
  BY Zenon, <1>1 DEF IInv, TypeOK, Goto, Building, Listed
<1>4. /\ Running(o) <=> pc[o] # "attach"
      /\ Running(o)'
      /\ \A p \in Os : p # o => (Running(p)' <=> Running(p))
  BY Zenon, <1>1, <1>3 DEF Running, Building
<1>5. \A p \in Os : p # o => new[p] # i /\ (Running(p) => current[p] # i)
  BY Zenon, <1>1, <1>2 DEF IInv, Apart, ApartAt, Building
<1>6. \A p \in Os : pc[p] = "out" => current[p] # i
  BY Zenon, <1>2 DEF IInv, Lost, LostAt
<1>7. TypeOK'
  BY <1>1, <1>2, <1>3 DEF IInv, TypeOK
<1> HIDE DEF i
<1>8. PcInv'
  BY Zenon, <1>1, <1>3 DEF IInv, PcInv, Making, Attaching, Building
<1>9. Apart'
  <2> SUFFICES ASSUME NEW p \in Os, NEW q \in Os
               PROVE  ApartAt(p, q)'
    BY Zenon DEF Apart
  <2>1. ApartAt(p, q)
    BY Zenon DEF IInv, Apart
  <2>2. CASE p # o /\ q # o
    BY Zenon, <1>1, <1>3, <1>4, <2>1, <2>2 DEF ApartAt
  <2>3. CASE p = o \/ q = o
    <3>1. pc[o] = "attach" => current[o] = i
      BY Zenon, <1>2 DEF Attaching
    <3> QED BY Zenon, <1>1, <1>3, <1>4, <1>5, <2>1, <2>3, <3>1 DEF ApartAt, i, Building
  <2> QED BY Zenon, <2>2, <2>3
<1>10. Placed'
  <2> SUFFICES ASSUME NEW p \in Os
               PROVE  PlacedAt(p)'
    BY Zenon DEF Placed
  <2>0. PlacedAt(p)
    BY Zenon DEF IInv, Placed
  <2>1. CASE p = o
    BY Zenon, <1>1, <1>2, <1>3, <1>4, <2>0, <2>1 DEF PlacedAt, Building, Listed, Attaching, i
  <2>2. CASE p # o
    BY Zenon, <1>1, <1>3, <1>4, <1>5, <2>0, <2>2 DEF PlacedAt
  <2> QED BY Zenon, <2>1, <2>2
<1>11. Lost'
  <2> SUFFICES ASSUME NEW p \in Os, pc'[p] = "out"
               PROVE  LostAt(p)'
    BY Zenon DEF Lost
  <2>1. p # o /\ pc[p] = "out" /\ LostAt(p)
    BY Zenon, <1>3 DEF IInv, Lost
  <2>2. pc[o] = "attach" => current[o] = i
    BY Zenon, <1>2 DEF Attaching
  <2> QED BY Zenon, <1>1, <1>4, <1>6, <2>1, <2>2 DEF LostAt
<1>12. SetsInv'
  BY <1>1, <1>2, LifeAssumption DEF IInv, TypeOK, SetsInv, Index
<1> QED BY Zenon, <1>7, <1>8, <1>9, <1>10, <1>11, <1>12 DEF IInv

\* thread_create_object succeeds.
LEMMA ObjectInv ==
  ASSUME IInv, NEW o \in Os, thread_create_object(o)
  PROVE  IInv'
<1> DEFINE i == new[o]
<1>1. /\ pc[o] \in {"attachobject", "internalobject"} /\ object' = object \cup {i}
      /\ UNCHANGED <<last_index, free, active, number, daemon, internal, cleanup, current>>
      /\ pc[o] = "attachobject" =>
           /\ Goto(o, IF o = Main THEN "join" ELSE "run")
           /\ new' = [new EXCEPT ![o] = 0]
      /\ pc[o] = "internalobject" => Goto(o, "create") /\ UNCHANGED new
  BY Zenon DEF thread_create_object, lists, flags
<1>2. /\ i \in Index /\ i # 0 /\ i \in active /\ i \notin cleanup /\ i <= last_index
      /\ pc[o] = "attachobject" => i = current[o] /\ o \notin Started
  BY Zenon, <1>1, LifeAssumption
     DEF IInv, TypeOK, Index, PcInv, Placed, PlacedAt, SetsInv, Listed, Making, Attaching
<1>3. /\ pc[o] = "attachobject" => /\ pc'[o] = IF o = Main THEN "join" ELSE "run"
                                  /\ new'[o] = 0
      /\ pc[o] = "internalobject" => pc'[o] = "create" /\ new'[o] = i
      /\ \A p \in Os : p # o => pc'[p] = pc[p] /\ new'[p] = new[p]
  BY Zenon, <1>1 DEF IInv, TypeOK, Goto
<1>4. TypeOK'
  BY <1>1, <1>2, LifeAssumption DEF IInv, TypeOK, Goto, Listed
<1>5. /\ Running(o) /\ Running(o)'
      /\ \A p \in Os : p # o => (Running(p)' <=> Running(p))
  BY Zenon, <1>1, <1>3 DEF Running
<1>6. \A p \in Os : pc[p] = "out" => current[p] # i
  BY Zenon, <1>2 DEF IInv, Lost, LostAt
<1> HIDE DEF i
<1>7. PcInv'
  BY <1>1, <1>2, <1>3 DEF IInv, PcInv, Making, Attaching
<1>8. Apart'
  <2> SUFFICES ASSUME NEW p \in Os, NEW q \in Os
               PROVE  ApartAt(p, q)'
    BY Zenon DEF Apart
  <2>1. ApartAt(p, q)
    BY Zenon DEF IInv, Apart
  <2>2. CASE p # o /\ q # o
    BY Zenon, <1>1, <1>3, <1>5, <2>1, <2>2 DEF ApartAt
  <2>3. CASE p = o \/ q = o
    BY Zenon, <1>1, <1>2, <1>3, <1>5, <2>1, <2>3 DEF ApartAt, i
  <2> QED BY Zenon, <2>2, <2>3
<1>9. Placed'
  <2> SUFFICES ASSUME NEW p \in Os
               PROVE  PlacedAt(p)'
    BY Zenon DEF Placed
  <2>0. PlacedAt(p)
    BY Zenon DEF IInv, Placed
  <2>1. CASE p = o
    <3>1. 0 \notin free
      BY DEF IInv, TypeOK, Index
    <3> QED BY Zenon, <1>1, <1>2, <1>3, <1>5, <2>0, <2>1, <3>1 DEF PlacedAt, Building, Listed, Attaching, i
  <2>2. CASE p # o
    BY Zenon, <1>1, <1>3, <1>5, <2>0, <2>2 DEF PlacedAt
  <2> QED BY Zenon, <2>1, <2>2
<1>10. Lost'
  <2> SUFFICES ASSUME NEW p \in Os, pc'[p] = "out"
               PROVE  LostAt(p)'
    BY Zenon DEF Lost
  <2>1. p # o /\ pc[p] = "out" /\ LostAt(p)
    BY Zenon, <1>1, <1>3 DEF IInv, Lost
  <2> QED BY Zenon, <1>1, <1>3, <1>5, <1>6, <2>1 DEF LostAt
<1>11. SetsInv'
  BY <1>1, <1>2, <1>3, LifeAssumption DEF IInv, TypeOK, SetsInv, Index
<1> QED BY Zenon, <1>4, <1>7, <1>8, <1>9, <1>10, <1>11 DEF IInv

\* It fails for an internal thread, whose structure is released.
LEMMA ObjectFailsInv ==
  ASSUME IInv, "attach" \notin Failing, NEW o \in Os, thread_create_object_fails(o)
  PROVE  IInv'
<1> DEFINE i == new[o]
<1>1. /\ pc[o] = "internalobject" /\ object' \in {object, object \cup {i}}
      /\ active' = active \ {i} /\ free' = free \cup {i}
      /\ number' \in {number, number - 1}
      /\ Goto(o, "run") /\ new' = [new EXCEPT ![o] = 0]
      /\ UNCHANGED <<last_index, daemon, internal, cleanup, current>>
  BY Zenon DEF thread_create_object_fails, release_thread, remove_from_active_thread_list, flags
<1>2. i \in Index /\ i # 0 /\ i \in active /\ i \notin cleanup /\ i <= last_index
  BY Zenon, <1>1, LifeAssumption
     DEF IInv, TypeOK, Index, PcInv, Placed, PlacedAt, SetsInv, Listed, Making
<1>3. /\ pc'[o] = "run" /\ new'[o] = 0
      /\ \A p \in Os : p # o => pc'[p] = pc[p] /\ new'[p] = new[p]
  BY Zenon, <1>1 DEF IInv, TypeOK, Goto
<1>4. TypeOK'
  BY <1>1, <1>2, LifeAssumption DEF IInv, TypeOK, Goto
<1>5. /\ Running(o) /\ Running(o)'
      /\ \A p \in Os : p # o => (Running(p)' <=> Running(p))
  BY Zenon, <1>1, <1>3 DEF Running
<1>6. \A p \in Os : /\ pc[p] = "out" => current[p] # i
                    /\ Running(p) => current[p] # i
                    /\ p # o => new[p] # i
  BY Zenon, <1>1, <1>2 DEF IInv, Lost, LostAt, Apart, ApartAt
<1> HIDE DEF i
<1>7. PcInv'
  BY Zenon, <1>1, <1>3 DEF IInv, PcInv, Making, Attaching
<1>8. Apart'
  <2> SUFFICES ASSUME NEW p \in Os, NEW q \in Os
               PROVE  ApartAt(p, q)'
    BY Zenon DEF Apart
  <2>1. ApartAt(p, q)
    BY Zenon DEF IInv, Apart
  <2> QED BY Zenon, <1>1, <1>3, <1>5, <2>1 DEF ApartAt
<1>9. Placed'
  <2> SUFFICES ASSUME NEW p \in Os
               PROVE  PlacedAt(p)'
    BY Zenon DEF Placed
  <2>0. PlacedAt(p)
    BY Zenon DEF IInv, Placed
  <2>1. CASE p = o
    <3>1. 0 \notin free /\ 0 # i
      BY <1>2 DEF IInv, TypeOK, Index
    <3> QED BY <1>1, <1>3, <1>5, <1>6, <2>0, <2>1, <3>1 DEF PlacedAt, Building, Listed, Attaching
  <2>2. CASE p # o
    BY <1>1, <1>3, <1>5, <1>6, <2>0, <2>2 DEF PlacedAt
  <2> QED BY Zenon, <2>1, <2>2
<1>10. Lost'
  <2> SUFFICES ASSUME NEW p \in Os, pc'[p] = "out"
               PROVE  LostAt(p)'
    BY Zenon DEF Lost
  <2>1. p # o /\ pc[p] = "out" /\ LostAt(p)
    BY Zenon, <1>3 DEF IInv, Lost
  <2> QED BY Zenon, <1>1, <1>3, <1>5, <1>6, <2>1 DEF LostAt
<1>11. SetsInv'
  BY <1>1, <1>2, <1>3, LifeAssumption DEF IInv, TypeOK, SetsInv, Index
<1> QED BY Zenon, <1>4, <1>7, <1>8, <1>9, <1>10, <1>11 DEF IInv

\* The thread is created by the operating system.
LEMMA CreateInv ==
  ASSUME IInv, NEW o \in Os, NEW c \in Started, threads_impl_thread_start(o, c)
  PROVE  IInv'
<1> DEFINE i == new[o]
<1>0. /\ new' = [new EXCEPT ![c] = i]
      /\ pc' = [pc EXCEPT ![o] = "wait", ![c] = "born"]
  BY Zenon DEF threads_impl_thread_start
<1>1. /\ pc[o] = "create" /\ pc[c] = "unborn" /\ c \in Os /\ c # o
      /\ cleanup' = cleanup \cup {i}
      /\ UNCHANGED <<last_index, free, active, number, object, daemon, internal, current>>
  BY Zenon DEF threads_impl_thread_start, lists, flags, Started
<1>2. /\ i \in Index /\ i # 0 /\ i \in active /\ i \in object /\ i \notin free
      /\ i <= last_index /\ new[c] = 0 /\ new[o] = i
  BY Zenon, <1>1, LifeAssumption
     DEF IInv, TypeOK, Index, PcInv, Placed, PlacedAt, SetsInv, Listed, Making, Attaching
<1>3. /\ pc'[o] = "wait" /\ new'[o] = i /\ pc'[c] = "born" /\ new'[c] = i
      /\ \A p \in Os : p \notin {o, c} => pc'[p] = pc[p] /\ new'[p] = new[p]
  BY Zenon, <1>0, <1>1 DEF IInv, TypeOK
<1>4. TypeOK'
  BY Zenon, <1>0, <1>1, <1>2, LifeAssumption DEF IInv, TypeOK, Listed, Index
<1>5. /\ Running(o) /\ Running(o)' /\ ~Running(c) /\ ~Running(c)'
      /\ \A p \in Os : p \notin {o, c} => (Running(p)' <=> Running(p))
  BY Zenon, <1>1, <1>3 DEF Running
<1>6. \A p \in Os : /\ pc[p] = "out" => current[p] # i
                    /\ Running(p) => current[p] # i
                    /\ p # o => new[p] # i
  BY Zenon, <1>1, <1>2 DEF IInv, Lost, LostAt, Apart, ApartAt
<1> HIDE DEF i
<1>7. PcInv'
  BY <1>1, <1>2, <1>3 DEF IInv, PcInv, Making, Attaching
<1>8. Apart'
  <2> SUFFICES ASSUME NEW p \in Os, NEW q \in Os
               PROVE  ApartAt(p, q)'
    BY Zenon DEF Apart
  <2>1. ApartAt(p, q)
    BY Zenon DEF IInv, Apart
  <2>2. CASE p # c /\ q # c
    <3>1. pc[p] \in {"wait", "born"} => pc'[p] = pc[p]
      BY Zenon, <1>1, <1>3, <2>2
    <3>2. pc[q] \in {"wait", "born"} => pc'[q] = pc[q]
      BY Zenon, <1>1, <1>3, <2>2
    <3>3. /\ new'[p] = new[p] /\ new'[q] = new[q] /\ current' = current
          /\ Running(p)' <=> Running(p)
          /\ Running(q)' <=> Running(q)
          /\ pc'[p] = "attachobject" <=> pc[p] = "attachobject"
      BY Zenon, <1>1, <1>2, <1>3, <1>5, <2>2
    <3> QED BY Zenon, <2>1, <3>1, <3>2, <3>3 DEF ApartAt
  <2>3. \A r \in Os \ {c} : /\ new'[r] = i => r = o
                            /\ Running(r)' => current'[r] # i
    BY Zenon, <1>1, <1>3, <1>5, <1>6
  <2>4. CASE p = c
    BY Zenon, <1>1, <1>3, <1>5, <2>3, <2>4 DEF ApartAt
  <2>5. CASE q = c /\ p # c
    <3>1. ~Running(q)' /\ new'[q] = i /\ pc'[q] = "born"
      BY Zenon, <1>3, <1>5, <2>5
    <3>2. Running(p)' => current'[p] # new'[q]
      BY Zenon, <2>3, <2>5, <3>1
    <3>3. new'[p] = new'[q] => pc'[p] = "wait"
      BY Zenon, <1>3, <2>3, <2>5, <3>1
    <3> QED BY Zenon, <3>1, <3>2, <3>3 DEF ApartAt
  <2> QED BY Zenon, <2>2, <2>4, <2>5
<1>9. Placed'
  <2> SUFFICES ASSUME NEW p \in Os
               PROVE  PlacedAt(p)'
    BY Zenon DEF Placed
  <2>0. PlacedAt(p)
    BY Zenon DEF IInv, Placed
  <2>1. CASE p \in {o, c}
    BY Zenon, <1>1, <1>2, <1>3, <1>5, <1>6, <2>0, <2>1 DEF PlacedAt, Building, Listed, Attaching
  <2>2. CASE p \notin {o, c}
    BY Zenon, <1>1, <1>3, <1>5, <1>6, <2>0, <2>2 DEF PlacedAt
  <2> QED BY Zenon, <2>1, <2>2
<1>10. Lost'
  <2> SUFFICES ASSUME NEW p \in Os, pc'[p] = "out"
               PROVE  LostAt(p)'
    BY Zenon DEF Lost
  <2>1. p \notin {o, c} /\ pc[p] = "out" /\ LostAt(p)
    BY Zenon, <1>3 DEF IInv, Lost
  <2> QED BY <1>1, <1>3, <1>5, <1>6, <2>1 DEF LostAt
<1>11. SetsInv'
  BY <1>1, <1>2, <1>3, LifeAssumption DEF IInv, TypeOK, SetsInv, Index
<1> QED BY Zenon, <1>4, <1>7, <1>8, <1>9, <1>10, <1>11 DEF IInv

\* The started thread has its structure, and its creator goes on.
LEMMA StartupInv ==
  ASSUME IInv, NEW o \in Os, NEW c \in Started, threads_startup_thread(o, c)
  PROVE  IInv'
<1> DEFINE i == new[c]
<1>0. /\ current' = [current EXCEPT ![c] = i]
      /\ new' = [new EXCEPT ![o] = 0, ![c] = 0]
      /\ pc' = [pc EXCEPT ![o] = "run", ![c] = "run"]
  BY Zenon DEF threads_startup_thread
<1>1. /\ pc[o] = "wait" /\ pc[c] = "born" /\ new[o] = i /\ c \in Os /\ c # o
      /\ UNCHANGED <<last_index, free, active, number, object, daemon, internal, cleanup>>
  BY Zenon DEF threads_startup_thread, lists, flags, Started
<1>2. i \in Index /\ i # 0 /\ i \in active /\ i \in object /\ i \notin free /\ new[c] = i
  BY Zenon, <1>1, LifeAssumption
     DEF IInv, TypeOK, Index, PcInv, Placed, PlacedAt, Listed, Making, Attaching
<1>3. /\ pc'[o] = "run" /\ new'[o] = 0 /\ pc'[c] = "run" /\ new'[c] = 0
      /\ current'[c] = i /\ \A p \in Os : p # c => current'[p] = current[p]
      /\ \A p \in Os : p \notin {o, c} => pc'[p] = pc[p] /\ new'[p] = new[p]
  BY Zenon, <1>0, <1>1 DEF IInv, TypeOK
<1>4. TypeOK'
  BY <1>0, <1>1, <1>2, LifeAssumption DEF IInv, TypeOK, Index
<1>5. /\ Running(o) /\ Running(o)' /\ ~Running(c) /\ Running(c)'
      /\ \A p \in Os : p \notin {o, c} => (Running(p)' <=> Running(p))
  BY Zenon, <1>1, <1>3 DEF Running
<1>6. \A p \in Os : /\ pc[p] = "out" => current[p] # i
                    /\ Running(p) => current[p] # i
                    /\ p \notin {o, c} => new[p] # i
  BY Zenon, <1>1, <1>2 DEF IInv, Lost, LostAt, Apart, ApartAt
<1> HIDE DEF i
<1>7. PcInv'
  BY <1>1, <1>3 DEF IInv, PcInv, Making, Attaching
<1>8. Apart'
  <2> SUFFICES ASSUME NEW p \in Os, NEW q \in Os
               PROVE  ApartAt(p, q)'
    BY Zenon DEF Apart
  <2>1. ApartAt(p, q)
    BY Zenon DEF IInv, Apart
  <2>2. CASE p # c /\ q # c
    BY Zenon, <1>1, <1>3, <1>5, <2>1, <2>2 DEF ApartAt
  <2>3. CASE p = c \/ q = c
    BY ZenonT(60), <1>1, <1>2, <1>3, <1>5, <1>6, <2>1, <2>3 DEF ApartAt
  <2> QED BY Zenon, <2>2, <2>3
<1>9. Placed'
  <2> SUFFICES ASSUME NEW p \in Os
               PROVE  PlacedAt(p)'
    BY Zenon DEF Placed
  <2>0. PlacedAt(p)
    BY Zenon DEF IInv, Placed
  <2>1. CASE p \in {o, c}
    <3>1. 0 \notin free
      BY DEF IInv, TypeOK, Index
    <3> QED BY Zenon, <1>1, <1>2, <1>3, <1>5, <2>0, <2>1, <3>1 DEF PlacedAt, Building, Listed, Attaching
  <2>2. CASE p \notin {o, c}
    BY Zenon, <1>1, <1>3, <1>5, <2>0, <2>2 DEF PlacedAt
  <2> QED BY Zenon, <2>1, <2>2
<1>10. Lost'
  <2> SUFFICES ASSUME NEW p \in Os, pc'[p] = "out"
               PROVE  LostAt(p)'
    BY Zenon DEF Lost
  <2>1. p \notin {o, c} /\ pc[p] = "out" /\ LostAt(p)
    BY Zenon, <1>3 DEF IInv, Lost
  <2> QED BY <1>1, <1>3, <1>5, <1>6, <2>1 DEF LostAt
<1>11. SetsInv'
  <2>1. 0 <= last_index
    BY LifeAssumption DEF IInv, TypeOK, Index
  <2> QED BY Zenon, <1>1, <1>3, <2>1 DEF IInv, SetsInv
<1> QED BY Zenon, <1>4, <1>7, <1>8, <1>9, <1>10, <1>11 DEF IInv

-----------------------------------------------------------------------------
(* The end of a thread *)

\* A thread detaches itself.
LEMMA DetachInv ==
  ASSUME IInv, NEW o \in Os, thread_detach_current_thread(o)
  PROVE  IInv'
<1> DEFINE i == current[o]
<1>1. /\ pc[o] = "run" /\ active' = active \ {i} /\ object' = object \ {i}
      /\ number' \in {number, number - 1} /\ Detached(o)
      /\ UNCHANGED <<last_index, free, daemon, internal, cleanup, current, new>>
  BY Zenon DEF thread_detach_current_thread, thread_free, remove_from_active_thread_list, flags
<1>2. /\ i \in Index /\ i \in active /\ i \notin free /\ i <= last_index /\ Running(o)
      /\ o \notin Started => i \notin cleanup
  BY <1>1, LifeAssumption DEF IInv, TypeOK, Index, Placed, PlacedAt, SetsInv, Running
<1>3. /\ pc'[o] = (IF o \in Started THEN "unborn" ELSE "out")
      /\ \A p \in Os : p # o => pc'[p] = pc[p] \/ (pc[p] = "joinwait" /\ pc'[p] = "join")
  BY Zenon, <1>1 DEF Detached
<1>4. TypeOK'
  BY <1>1 DEF IInv, TypeOK, Detached
<1>5. /\ ~Running(o)'
      /\ \A p \in Os : p # o => (Running(p)' <=> Running(p))
  BY Zenon, <1>3 DEF Running
<1>6. \A p \in Os : /\ pc[p] = "out" => current[p] # i
                    /\ Running(p) /\ p # o => current[p] # i
                    /\ new[p] # 0 => new[p] # i
  BY Zenon, <1>1, <1>2 DEF IInv, Lost, LostAt, Apart, ApartAt
<1> HIDE DEF i
<1>7. PcInv'
  BY <1>1, <1>3 DEF IInv, PcInv, Making, Attaching
<1>8. Apart'
  <2> SUFFICES ASSUME NEW p \in Os, NEW q \in Os
               PROVE  ApartAt(p, q)'
    BY Zenon DEF Apart
  <2>1. ApartAt(p, q)
    BY Zenon DEF IInv, Apart
  <2> QED BY Zenon, <1>1, <1>3, <1>5, <2>1 DEF ApartAt
<1>9. Placed'
  <2> SUFFICES ASSUME NEW p \in Os
               PROVE  PlacedAt(p)'
    BY Zenon DEF Placed
  <2>0. PlacedAt(p)
    BY Zenon DEF IInv, Placed
  <2>1. pc[p] \in Listed \cup Building => new[p] # 0
    BY Zenon DEF IInv, PcInv, Building, Listed, Making, Attaching
  <2>2. CASE p = o
    BY Zenon, <1>1, <1>3, <1>5, <2>0, <2>2 DEF PlacedAt, Building, Listed, Attaching
  <2>3. CASE p # o
    BY Zenon, <1>1, <1>3, <1>5, <1>6, <2>0, <2>1, <2>3 DEF PlacedAt, Building, Listed, Attaching
  <2> QED BY Zenon, <2>2, <2>3
<1>10. Lost'
  <2> SUFFICES ASSUME NEW p \in Os, pc'[p] = "out"
               PROVE  LostAt(p)'
    BY Zenon DEF Lost
  <2>1. CASE p = o
    BY Zenon, <1>1, <1>2, <1>3, <1>5, <1>6, <2>1 DEF LostAt, i
  <2>2. CASE p # o
    <3>1. pc[p] = "out" /\ LostAt(p)
      BY Zenon, <1>3, <2>2 DEF IInv, Lost
    <3> QED BY Zenon, <1>1, <1>5, <3>1 DEF LostAt
  <2> QED BY Zenon, <2>1, <2>2
<1>11. SetsInv'
  BY Zenon, <1>1 DEF IInv, SetsInv
<1> QED BY Zenon, <1>4, <1>7, <1>8, <1>9, <1>10, <1>11 DEF IInv

\* A thread only goes on in its code: it ends as it is, or the main thread waits.
LEMMA GotoInv ==
  ASSUME IInv, NEW o \in Os, NEW l, Goto(o, l),
         \/ pc[o] = "run" /\ l = "unborn" /\ o \in Started
         \/ pc[o] \in {"join", "joinwait"} /\ l \in {"join", "joinwait", "joined"},
         UNCHANGED <<lists, object, flags, cleanup, current, new>>
  PROVE  IInv'
<1>1. UNCHANGED <<last_index, free, active, number, object, daemon, internal, cleanup, current, new>>
  BY Zenon DEF lists, flags
<1>2. pc'[o] = l /\ \A p \in Os : p # o => pc'[p] = pc[p]
  BY Zenon DEF IInv, TypeOK, Goto
<1>3. TypeOK'
  BY Zenon, <1>1 DEF IInv, TypeOK, Goto
<1>4. \A p \in Os : Running(p)' => Running(p)
  BY Zenon, <1>2 DEF Running
<1>5. PcInv'
  BY <1>1, <1>2 DEF IInv, PcInv, Making, Attaching
<1>6. /\ l \notin Building \cup Listed \cup Attaching \cup {"out"}
      /\ pc[o] \notin {"attachobject", "wait", "born"}
  BY Zenon DEF Building, Listed, Attaching
<1>7. Apart'
  <2> SUFFICES ASSUME NEW p \in Os, NEW q \in Os
               PROVE  ApartAt(p, q)'
    BY Zenon DEF Apart
  <2>1. ApartAt(p, q)
    BY Zenon DEF IInv, Apart
  <2>2. new[o] = 0
    BY Zenon DEF IInv, PcInv, Making, Attaching
  <2> QED BY Zenon, <1>1, <1>2, <1>4, <1>6, <2>1, <2>2 DEF ApartAt
<1>8. Placed'
  <2> SUFFICES ASSUME NEW p \in Os
               PROVE  PlacedAt(p)'
    BY Zenon DEF Placed
  <2>1. PlacedAt(p)
    BY Zenon DEF IInv, Placed
  <2>2. CASE p = o
    BY Zenon, <1>1, <1>2, <1>4, <1>6, <2>1, <2>2 DEF PlacedAt, Building, Listed
  <2>3. CASE p # o
    BY Zenon, <1>1, <1>2, <1>4, <2>1, <2>3 DEF PlacedAt
  <2> QED BY Zenon, <2>2, <2>3
<1>9. Lost'
  BY Zenon, <1>1, <1>2, <1>4, <1>6 DEF IInv, Lost, LostAt
<1>10. SetsInv'
  BY Zenon, <1>1 DEF IInv, SetsInv
<1> QED BY Zenon, <1>3, <1>5, <1>7, <1>8, <1>9, <1>10 DEF IInv

\* The finalizer of a dead thread releases its structure.
LEMMA CleanupInv ==
  ASSUME IInv, NEW i \in Index, thread_cleanup_finalizer(i)
  PROVE  IInv'
<1>1. /\ i \in cleanup /\ i \notin object /\ i \notin active
      /\ cleanup' = cleanup \ {i} /\ free' = free \cup {i}
      /\ UNCHANGED <<last_index, active, number, object, daemon, internal, current, new, pc>>
  BY Zenon DEF thread_cleanup_finalizer, Unreachable, flags, IInv, SetsInv
<1>2. \A p \in Os : Running(p)' <=> Running(p)
  BY Zenon, <1>1 DEF Running
<1>3. \A p \in Os : new[p] # i
  <2> SUFFICES ASSUME NEW p \in Os, new[p] = i
               PROVE  FALSE
    BY Zenon
  <2>1. i # 0
    BY LifeAssumption DEF Index
  <2>2. pc[p] \in Building \cup Listed
    BY Zenon, <2>1 DEF IInv, PcInv, Building, Listed, Making, Attaching
  <2> QED BY Zenon, <1>1, <2>2 DEF IInv, Placed, PlacedAt
<1>4. \A p \in Os : pc[p] = "out" => current[p] # i
  BY Zenon, <1>1 DEF IInv, Lost, LostAt
<1>5. TypeOK'
  BY Zenon, <1>1 DEF IInv, TypeOK
<1>6. PcInv' /\ Apart'
  BY <1>1, <1>2 DEF IInv, PcInv, Apart, ApartAt
<1>7. Placed'
  BY Zenon, <1>1, <1>2, <1>3 DEF IInv, Placed, PlacedAt
<1>8. Lost'
  BY Zenon, <1>1, <1>2, <1>4 DEF IInv, Lost, LostAt
<1>9. SetsInv'
  BY <1>1 DEF IInv, SetsInv
<1> QED BY Zenon, <1>5, <1>6, <1>7, <1>8, <1>9 DEF IInv

-----------------------------------------------------------------------------
(* The theorems *)

\* The initial state satisfies the invariant.
LEMMA InitInv == Init => IInv
<1> SUFFICES ASSUME Init PROVE IInv
  BY Zenon
<1>1. /\ last_index = 1 /\ free = {} /\ active = {1} /\ object = {1} /\ cleanup = {}
      /\ daemon = {} /\ internal = {} /\ number = 1
      /\ \A o \in Os : /\ current[o] = IF o = Main THEN 1 ELSE 0
                       /\ new[o] = 0
                       /\ pc[o] \in {"run", "out", "unborn"}
                       /\ pc[o] = "run" <=> o = Main
                       /\ pc[o] = "out" <=> o \in External
                       /\ pc[o] = "unborn" <=> o \in Started
                       /\ Running(o) <=> o = Main
      /\ Main \in Os /\ Main \notin Started /\ External \cap Started = {}
  BY Zenon, LifeAssumption DEF Init, Started, Running
<1>2. TypeOK
  BY LifeAssumption DEF Init, TypeOK, Index, Building, Listed
<1>3. PcInv /\ Apart
  BY Zenon, <1>1 DEF PcInv, Apart, ApartAt, Making, Attaching
<1>4. Placed
  BY Zenon, <1>1 DEF Placed, PlacedAt, Building, Listed, Attaching
<1>5. Lost
  BY <1>1, LifeAssumption DEF Lost, LostAt
<1>6. SetsInv
  BY <1>1 DEF SetsInv
<1> QED BY Zenon, <1>2, <1>3, <1>4, <1>5, <1>6 DEF IInv

\* Every step preserves the invariant.
LEMMA NextInv ==
  ASSUME IInv, "attach" \notin Failing, [Next]_vars
  PROVE  IInv'
<1>1. CASE UNCHANGED vars
  <2>1. /\ UNCHANGED <<last_index, free, active, number>>
        /\ UNCHANGED <<object, daemon, internal, cleanup, current, new, pc>>
    BY Zenon, <1>1 DEF vars, lists, flags
  <2>2. TypeOK' /\ SetsInv'
    BY Zenon, <2>1 DEF IInv, TypeOK, SetsInv
  <2>3. PcInv'
    BY Zenon, <2>1 DEF IInv, PcInv, Running
  <2>4. Apart'
    BY <2>1 DEF IInv, Apart, ApartAt, Running
  <2>5. Placed'
    BY Zenon, <2>1 DEF IInv, Placed, PlacedAt, Running
  <2>6. Lost'
    BY Zenon, <2>1 DEF IInv, Lost, LostAt, Running
  <2> QED BY Zenon, <2>2, <2>3, <2>4, <2>5, <2>6 DEF IInv
<1>2. ASSUME NEW o \in Os, Step(o)
      PROVE  IInv'
  <2>1. CASE attach(o)
    BY Zenon, <2>1, AttachInv
  <2>2. CASE add(o)
    BY Zenon, <2>2, AddInv
  <2>3. CASE thread_create_object(o)
    BY Zenon, <2>3, ObjectInv
  <2>4. CASE thread_create_object_fails(o)
    BY Zenon, <2>4, ObjectFailsInv
  <2>5. CASE threads_thread_start_internal(o)
    BY Zenon, <2>5, MakeInv DEF threads_thread_start_internal
  <2>6. ASSUME NEW d \in BOOLEAN, threads_thread_start(o, d)
        PROVE  IInv'
    BY ZenonT(60), <2>6, MakeInv DEF threads_thread_start
  <2>7. ASSUME NEW c \in Started, threads_impl_thread_start(o, c)
        PROVE  IInv'
    BY Zenon, <2>7, CreateInv
  <2>8. ASSUME NEW c \in Started, threads_startup_thread(o, c)
        PROVE  IInv'
    BY Zenon, <2>8, StartupInv
  <2>9. CASE thread_detach_current_thread(o)
    BY Zenon, <2>9, DetachInv
  <2>10. CASE detach_fails(o)
    BY Zenon, <2>10, GotoInv DEF detach_fails
  <2> QED BY Zenon, <1>2, <2>1, <2>2, <2>3, <2>4, <2>5, <2>6, <2>7, <2>8, <2>9, <2>10 DEF Step
<1>3. ASSUME NEW i \in Index, thread_cleanup_finalizer(i)
      PROVE  IInv'
  BY Zenon, <1>3, CleanupInv
<1>4. CASE threads_join_all_threads
  BY Zenon, <1>4, LifeAssumption, GotoInv DEF threads_join_all_threads
<1>5. CASE join_spurious
  BY Zenon, <1>5, LifeAssumption, GotoInv DEF join_spurious
<1> QED BY Zenon, <1>1, <1>2, <1>3, <1>4, <1>5 DEF Next

\* The inductive invariant holds as long as attaching a thread does not fail.
THEOREM Invariance == ASSUME "attach" \notin Failing PROVE Spec => []IInv
<1>1. Init => IInv
  BY Zenon, InitInv
<1>2. IInv /\ [Next]_vars => IInv'
  BY Zenon, NextInv
<1> QED BY <1>1, <1>2, PTL DEF Spec

\* No thread data structure is used twice, or used and free.
THEOREM LifeApart == ASSUME "attach" \notin Failing PROVE Spec => []StructuresApart
<1>1. IInv => StructuresApart
  <2> SUFFICES ASSUME IInv PROVE StructuresApart
    BY Zenon
  <2>1. \A o \in Os : Running(o) => current[o] \notin free
    BY Zenon DEF IInv, Placed, PlacedAt, SetsInv
  <2>2. \A i \in Index : Unreachable(i) => i \notin active
    BY Zenon DEF IInv, SetsInv, Unreachable
  <2> QED BY Zenon, <2>1, <2>2 DEF IInv, Apart, ApartAt, Placed, PlacedAt, SetsInv, StructuresApart
<1> QED BY <1>1, Invariance, PTL

\* Every running thread is on the active list, with its object.
THEOREM LifeListed == ASSUME "attach" \notin Failing PROVE Spec => []RunningListed
<1>1. IInv => RunningListed
  <2> SUFFICES ASSUME IInv PROVE RunningListed
    BY Zenon
  <2>1. \A o \in External : o \in Os
    BY Zenon, LifeAssumption
  <2>2. \A o \in Os : pc[o] = "run" => Running(o)
    BY Zenon DEF Running
  <2> QED BY Zenon, <2>1, <2>2 DEF IInv, Placed, PlacedAt, Lost, LostAt, Attached, RunningListed
<1> QED BY <1>1, Invariance, PTL

\* Two different non-daemon threads on the active list make the main thread wait.
LEMMA TwoJoin ==
  ASSUME TypeOK, NEW i \in active \ daemon, NEW j \in active \ daemon, i # j
  PROVE  MustJoin
<1> DEFINE S == active \ daemon
<1>1. IsFiniteSet(S)
  <2>1. IsFiniteSet(1..MaxIndex)
    BY LifeAssumption, FS_Interval
  <2>2. S \subseteq 1..MaxIndex
    BY Zenon DEF TypeOK, Index
  <2> QED BY Zenon, <2>1, <2>2, FS_Subset
<1>2. IsFiniteSet({i}) /\ Cardinality({i}) = 1
  BY Zenon, FS_Singleton
<1>3. IsFiniteSet({i} \cup {j}) /\ Cardinality({i} \cup {j}) = 2
  <2>1. j \notin {i}
    BY Zenon
  <2>2. Cardinality({i} \cup {j}) = Cardinality({i}) + 1 /\ IsFiniteSet({i} \cup {j})
    BY Zenon, <1>2, <2>1, FS_AddElement, Zenon
  <2> QED BY <1>2, <2>2
<1>4. Cardinality({i} \cup {j}) <= Cardinality(S)
  <2>1. {i} \cup {j} \subseteq S
    BY Zenon
  <2> QED BY Zenon, <1>1, <2>1, FS_Subset
<1>5. Cardinality(S) \in Nat
  BY Zenon, <1>1, FS_CardinalityType
<1> QED BY <1>3, <1>4, <1>5 DEF MustJoin, get_number_of_non_daemon_threads

\* threads_join_all_threads returns only when no other non-daemon thread is left.
THEOREM LifeJoin == ASSUME "attach" \notin Failing PROVE Spec => JoinReturnsAlone
<1> DEFINE P == pc[Main] = "join" /\ pc'[Main] = "joined" =>
                  \A o \in Os \ {Main} :
                    /\ Running(o) => current[o] \in daemon
                    /\ pc[o] \in Listed => new[o] \in daemon
<1>1. IInv /\ [Next]_vars => [P]_vars
  <2> SUFFICES ASSUME IInv, Next, pc[Main] = "join", pc'[Main] = "joined"
               PROVE  \A o \in Os \ {Main} :
                        /\ Running(o) => current[o] \in daemon
                        /\ pc[o] \in Listed => new[o] \in daemon
    BY Zenon
  <2>1. Main \in Os /\ Main \notin Started /\ Running(Main) /\ pc = [p \in Os |-> pc[p]]
    <3>1. pc = [p \in Os |-> pc[p]]
      BY Zenon DEF IInv, TypeOK, Building, Listed
    <3> QED BY Zenon, <3>1, LifeAssumption DEF Started, Running
  <2>2. threads_join_all_threads
    <3>1. \A o \in Os : ~Step(o)
      <4> SUFFICES ASSUME NEW o \in Os, Step(o)
                   PROVE  FALSE
        BY Zenon
      <4>1. CASE thread_detach_current_thread(o)
        BY Zenon, <2>1, <4>1 DEF thread_detach_current_thread, Detached
      <4>2. ASSUME NEW c \in Started,
                   threads_impl_thread_start(o, c) \/ threads_startup_thread(o, c)
            PROVE  FALSE
        BY Zenon, <2>1, <4>2 DEF threads_impl_thread_start, threads_startup_thread
      <4>3. ASSUME NEW l, Goto(o, l), l # "joined"
            PROVE  FALSE
        BY Zenon, <2>1, <4>3 DEF Goto
      <4>4. CASE add(o)
        BY Zenon, <2>1, <4>3, <4>4 DEF add
      <4>5. CASE \/ attach(o) \/ threads_thread_start_internal(o)
                 \/ \E d \in BOOLEAN : threads_thread_start(o, d)
        BY Zenon, <4>3, <4>5 DEF attach, threads_thread_start, threads_thread_start_internal
      <4>6. CASE thread_create_object(o) \/ thread_create_object_fails(o) \/ detach_fails(o)
        BY Zenon, <4>3, <4>6 DEF thread_create_object, thread_create_object_fails, detach_fails
      <4> QED BY Zenon, <4>1, <4>2, <4>4, <4>5, <4>6 DEF Step
    <3>2. \A i \in Index : ~thread_cleanup_finalizer(i)
      BY Zenon DEF thread_cleanup_finalizer
    <3>3. ~join_spurious
      BY Zenon DEF join_spurious
    <3> QED BY Zenon, <3>1, <3>2, <3>3 DEF Next
  <2>3. ~MustJoin
    BY Zenon, <2>1, <2>2 DEF threads_join_all_threads, Goto
  <2>4. current[Main] \in active \ daemon
    BY Zenon, <2>1 DEF IInv, Placed, PlacedAt
  <2> SUFFICES ASSUME NEW o \in Os \ {Main}
               PROVE  /\ Running(o) => current[o] \in daemon
                      /\ pc[o] \in Listed => new[o] \in daemon
    BY Zenon
  <2>5. Running(o) => current[o] \in active /\ current[o] # current[Main]
    BY Zenon, <2>1 DEF IInv, Placed, PlacedAt, Apart, ApartAt
  <2>6. pc[o] \in Listed => new[o] \in active /\ new[o] # current[Main]
    <3>1. pc[o] \in Listed => new[o] # 0
      BY Zenon DEF IInv, PcInv, Listed, Making, Attaching
    <3> QED BY Zenon, <2>1, <3>1 DEF IInv, Placed, PlacedAt, Apart, ApartAt
  <2> QED BY Zenon, <2>3, <2>4, <2>5, <2>6, TwoJoin DEF IInv
<1> QED BY <1>1, Invariance, PTL DEF Spec, JoinReturnsAlone
=============================================================================
