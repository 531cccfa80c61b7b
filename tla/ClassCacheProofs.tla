-------------------------- MODULE ClassCacheProofs --------------------------
(***************************************************************************)
(* Proofs about ClassCache, for any threads, loaders and classes.          *)
(*                                                                         *)
(* A step changes the entries in one of a few ways, one lemma each: a      *)
(* loader is recorded for an entry (Record), two entries are merged, an    *)
(* entry is resolved, or a new one is made.                                *)
(***************************************************************************)
EXTENDS ClassCache, TLAPS

\* The sets of entries the cache may hold.
Sound(E) ==
  /\ E \subseteq Entry
  /\ \A e \in E : e.classobj = NULL => e.loaders = {}
  /\ \A d, e \in E :
       \/ d.classobj # NULL /\ d.classobj = e.classobj
       \/ Members(d) \cap Members(e) # {}
       => d = e
  /\ \A e \in E : e.classobj # NULL => classloader[e.classobj] \in e.loaders

ClassesOf(E) == {e.classobj : e \in E} \ {NULL}

Storing == {"load", "boot", "define", "link"}
Fresh == {"boot", "define"}

\* The threads on their way to the cache: with a class that is in it already, or
\* with one they have just created for the loader, and nobody else has.
WorkInv ==
  /\ pc \in [Thread -> {"idle", "java", "bootstrap"} \cup Storing]
  /\ ldr \in [Thread -> Loader \cup {NULL}]
  /\ cls \in [Thread -> Class \cup {NULL}]
  /\ \A t \in Thread :
       /\ pc[t] \in Storing => ldr[t] \in Loader /\ cls[t] \in Class
       /\ pc[t] = "java" => ldr[t] \in Loader
       /\ pc[t] \in Storing \ Fresh => cls[t] \in Cached
       /\ pc[t] \in Fresh => cls[t] \notin Cached /\ classloader[cls[t]] = ldr[t]
  /\ \A t, u \in Thread :
       pc[t] \in Fresh /\ pc[u] \in Fresh /\ cls[t] = cls[u] => t = u

IInv ==
  /\ Sound(classes)
  /\ classloader \in [Class -> Loader \cup {NULL}]
  /\ freed \subseteq Class
  /\ WorkInv

-----------------------------------------------------------------------------
(* Changes of the entries *)

\* Loader l, not in any other entry, is recorded for the resolved entry e.
LEMMA RecordSound ==
  ASSUME Sound(classes), NEW e \in classes, NEW l \in Loader, e.classobj # NULL,
         \A d \in classes : l \in Members(d) => d = e
  PROVE  /\ Sound((classes \ {e}) \cup {With(e, l)})
         /\ ClassesOf((classes \ {e}) \cup {With(e, l)}) = Cached
<1> DEFINE n == With(e, l)
           E == (classes \ {e}) \cup {n}
<1>0. e \in Entry
  BY Zenon DEF Sound
<1>1. /\ n \in Entry /\ n.classobj = e.classobj
      /\ n.loaders = e.loaders \cup {l} /\ n.constraints = e.constraints
  BY Zenon, <1>0 DEF With, Tuple, Entry
<1>2. Members(n) = Members(e) \cup {l}
  BY Zenon, <1>1 DEF Members
<1> HIDE DEF n
<1>3. \A d \in classes \ {e} : Members(d) \cap Members(n) = {} /\ d.classobj # n.classobj
  BY <1>1, <1>2 DEF Sound
<1>4. Sound(E)
  BY Zenon, <1>1, <1>3 DEF Sound
<1>5. ClassesOf(E) = Cached
  BY Zenon, <1>1 DEF ClassesOf, Cached
<1> QED BY Zenon, <1>4, <1>5 DEF n

\* An unresolved entry e is resolved to a class c that has none.
LEMMA ResolveSound ==
  ASSUME Sound(classes), NEW e \in classes, NEW c \in Class,
         e.classobj = NULL, classloader[c] \in e.constraints, c \notin Cached
  PROVE  LET E == (classes \ {e}) \cup {ResolvedBy(e, classloader[c], c)}
         IN  Sound(E) /\ ClassesOf(E) = Cached \cup {c}
<1> DEFINE n == ResolvedBy(e, classloader[c], c)
           E == (classes \ {e}) \cup {n}
<1>0. e \in Entry
  BY Zenon DEF Sound
<1>1. /\ n \in Entry /\ n.classobj = c
      /\ n.loaders = e.loaders \cup {classloader[c]} /\ n.constraints = e.constraints
  BY Zenon, <1>0 DEF ResolvedBy, Tuple, Entry
<1> HIDE DEF n
<1>2. Members(n) = Members(e)
  BY Zenon, <1>1 DEF Members
<1>3. \A d \in classes \ {e} : Members(d) \cap Members(n) = {} /\ d.classobj # n.classobj
  <2> SUFFICES ASSUME NEW d \in classes \ {e}
               PROVE  Members(d) \cap Members(n) = {} /\ d.classobj # n.classobj
    BY Zenon
  <2>1. Members(d) \cap Members(e) = {}
    BY Zenon DEF Sound
  <2>2. d.classobj # c
    BY Zenon, CacheAssumption DEF Cached
  <2> QED BY Zenon, <2>1, <2>2, <1>1, <1>2
<1>4. Sound(E)
  <2>1. c # NULL
    BY Zenon, CacheAssumption
  <2> QED BY Zenon, <2>1, <1>1, <1>3 DEF Sound
<1>5. ClassesOf(E) = Cached \cup {c}
  BY ZenonT(60), <1>1, CacheAssumption DEF ClassesOf, Cached
<1> QED BY Zenon, <1>4, <1>5 DEF n

\* Two different entries, not resolved to different classes, are merged.
LEMMA MergeSound ==
  ASSUME Sound(classes), NEW a \in classes, NEW b \in classes, a # b, Mergeable(a, b)
  PROVE  /\ Sound((classes \ {a, b}) \cup {Merge(a, b)})
         /\ ClassesOf((classes \ {a, b}) \cup {Merge(a, b)}) = Cached
<1> DEFINE n == Merge(a, b)
           E == (classes \ {a, b}) \cup {n}
<1>0. a \in Entry /\ b \in Entry
  BY Zenon DEF Sound
<1>1. /\ n \in Entry
      /\ n.classobj = IF a.classobj = NULL THEN b.classobj ELSE a.classobj
      /\ n.loaders = a.loaders \cup b.loaders
      /\ n.constraints = a.constraints \cup b.constraints
  BY Zenon, <1>0 DEF Merge, EitherClass, Tuple, Entry
<1>2. Members(n) = Members(a) \cup Members(b)
  BY Zenon, <1>1 DEF Members
<1> HIDE DEF n
<1>3. a.classobj = NULL \/ b.classobj = NULL
  BY Zenon DEF Sound, Mergeable
<1>4. \A d \in classes \ {a, b} :
         /\ Members(d) \cap Members(n) = {}
         /\ d.classobj = NULL \/ d.classobj # n.classobj
  BY Zenon, <1>1, <1>2 DEF Sound
<1>5. n.classobj = NULL => n.loaders = {}
  BY Zenon, <1>1 DEF Sound
<1>6. n.classobj # NULL => classloader[n.classobj] \in n.loaders
  BY Zenon, <1>1 DEF Sound
<1>7. Sound(E)
  BY Zenon, <1>1, <1>4, <1>5, <1>6 DEF Sound
<1>8. ClassesOf(E) = Cached
  BY Zenon, <1>1, <1>3 DEF ClassesOf, Cached
<1> QED BY Zenon, <1>7, <1>8 DEF n

\* The unresolved entry e is resolved to the class of entry b and merged with it.
LEMMA ResolveMergeSound ==
  ASSUME Sound(classes), NEW e \in classes, NEW b \in classes, NEW l \in e.constraints,
         e.classobj = NULL, b.classobj # NULL
  PROVE  LET E == (classes \ {e, b}) \cup {Merge(With(e, l), b)}
         IN  Sound(E) /\ ClassesOf(E) = Cached
<1> DEFINE n == Merge(With(e, l), b)
           E == (classes \ {e, b}) \cup {n}
<1>0. e \in Entry /\ b \in Entry
  BY Zenon DEF Sound
<1>1. /\ n \in Entry /\ n.classobj = b.classobj
      /\ n.loaders = e.loaders \cup {l} \cup b.loaders
      /\ n.constraints = e.constraints \cup b.constraints
  BY Zenon, <1>0 DEF Merge, With, EitherClass, Tuple, Entry
<1>2. Members(n) = Members(e) \cup Members(b)
  BY Zenon, <1>1 DEF Members
<1> HIDE DEF n
<1>3. \A d \in classes \ {e, b} :
         Members(d) \cap Members(n) = {} /\ d.classobj # n.classobj
  BY Zenon, <1>1, <1>2 DEF Sound
<1>4. classloader[n.classobj] \in n.loaders
  BY Zenon, <1>1 DEF Sound
<1>5. Sound(E)
  BY Zenon, <1>1, <1>3, <1>4 DEF Sound
<1>6. ClassesOf(E) = Cached
  BY Zenon, <1>1 DEF ClassesOf, Cached
<1> QED BY Zenon, <1>5, <1>6 DEF n

\* A new entry with members no entry has: a new class with its definer, or two
\* constrained loaders.
LEMMA NewSound ==
  ASSUME Sound(classes), NEW n \in Entry,
         n.classobj = NULL => n.loaders = {},
         n.classobj # NULL => classloader[n.classobj] \in n.loaders,
         n.classobj \notin Cached,
         \A d \in classes : Members(d) \cap Members(n) = {}
  PROVE  /\ Sound(classes \cup {n})
         /\ ClassesOf(classes \cup {n}) = Cached \cup ({n.classobj} \ {NULL})
<1>1. \A d \in classes : d.classobj = NULL \/ d.classobj # n.classobj
  BY Zenon DEF Cached
<1>2. Sound(classes \cup {n})
  BY Zenon, <1>1 DEF Sound
<1>3. ClassesOf(classes \cup {n}) = Cached \cup ({n.classobj} \ {NULL})
  BY Zenon DEF ClassesOf, Cached
<1> QED BY Zenon, <1>2, <1>3

\* A loader in no entry is constrained to entry e.
LEMMA ConstrainSound ==
  ASSUME Sound(classes), NEW e \in classes, NEW l \in Loader,
         \A d \in classes : l \notin Members(d)
  PROVE  LET E == (classes \ {e}) \cup {ConstrainedTo(e, l)}
         IN  Sound(E) /\ ClassesOf(E) = Cached
<1> DEFINE n == ConstrainedTo(e, l)
           E == (classes \ {e}) \cup {n}
<1>0. e \in Entry
  BY Zenon DEF Sound
<1>1. /\ n \in Entry /\ n.classobj = e.classobj
      /\ n.loaders = e.loaders /\ n.constraints = e.constraints \cup {l}
  BY Zenon, <1>0 DEF ConstrainedTo, Tuple, Entry
<1>2. Members(n) = Members(e) \cup {l}
  BY Zenon, <1>1 DEF Members
<1> HIDE DEF n
<1>3. \A d \in classes \ {e} :
         /\ Members(d) \cap Members(n) = {}
         /\ d.classobj = NULL \/ d.classobj # n.classobj
  BY <1>1, <1>2 DEF Sound
<1>4. Sound(E)
  BY Zenon, <1>1, <1>3 DEF Sound
<1>5. ClassesOf(E) = Cached
  BY Zenon, <1>1 DEF ClassesOf, Cached
<1> QED BY Zenon, <1>4, <1>5 DEF n

-----------------------------------------------------------------------------
(* The operations *)

\* No loader that StoreFinds does not find is an initiating loader.
LEMMA NotFound ==
  ASSUME NEW l, ~StoreFinds(l)
  PROVE  \A e \in classes : l \notin e.loaders
BY Zenon DEF StoreFinds, Lookup

\* classcache_store keeps the entries sound and adds the class.
LEMMA StoreNewSound ==
  ASSUME IInv, NEW t \in Thread, pc[t] \in Storing, StoreNew(t, ldr[t], cls[t])
  PROVE  Sound(classes') /\ ClassesOf(classes') = Cached \cup {cls[t]}
<1> DEFINE l == ldr[t]
           c == cls[t]
<1> SUFFICES Sound(classes') /\ ClassesOf(classes') = Cached \cup {c}
  BY Zenon
<1>1. /\ l \in Loader /\ c \in Class /\ c # NULL
      /\ c \notin Cached => classloader[c] = l
  BY Zenon, CacheAssumption DEF IInv, WorkInv
<1>2. Sound(classes)
  BY Zenon DEF IInv
<1>3. \A e \in classes : l \notin e.loaders
  BY Zenon, NotFound DEF StoreNew
<1>4. \A e \in classes : e.classobj = c => c \in Cached
  BY Zenon, <1>1 DEF Cached
<1> HIDE DEF l, c
<1>5. CASE \E e \in classes : /\ l \in e.constraints /\ ~Clash(e, c)
                              /\ IF e.classobj # NULL
                                 THEN classes' = (classes \ {e}) \cup {With(e, l)}
                                 ELSE Resolved(e, l, c)
  <2>1. PICK e \in classes : /\ l \in e.constraints /\ ~Clash(e, c)
                             /\ IF e.classobj # NULL
                                THEN classes' = (classes \ {e}) \cup {With(e, l)}
                                ELSE Resolved(e, l, c)
    BY Zenon, <1>5
  <2>2. \A d \in classes : l \in Members(d) => d = e
    BY Zenon, <1>2, <2>1 DEF Sound, Members
  <2>3. CASE e.classobj # NULL
    <3>1. e.classobj = c
      BY Zenon, <2>1, <2>3 DEF Clash
    <3> QED BY Zenon, <3>1, <1>1, <1>2, <1>4, <2>1, <2>2, <2>3, RecordSound
  <2>4. CASE e.classobj = NULL
    <3>1. Resolved(e, l, c)
      BY Zenon, <2>1, <2>4
    <3>2. CASE \E b \in classes : /\ b.classobj = c
                                  /\ classes' = (classes \ {e, b}) \cup {Merge(With(e, l), b)}
      <4>1. PICK b \in classes : /\ b.classobj = c
                                 /\ classes' = (classes \ {e, b}) \cup {Merge(With(e, l), b)}
        BY Zenon, <3>2
      <4> QED BY Zenon, <4>1, <1>1, <1>2, <1>4, <2>1, <2>4, ResolveMergeSound
    <3>3. CASE /\ c \notin Cached
               /\ classes' = (classes \ {e}) \cup {ResolvedBy(e, l, c)}
      BY Zenon, <3>3, <1>1, <1>2, <2>1, <2>4, ResolveSound
    <3> QED BY Zenon, <3>1, <3>2, <3>3 DEF Resolved
  <2> QED BY Zenon, <2>3, <2>4
<1>6. CASE \A e \in classes : l \notin e.constraints
  <2>1. \A e \in classes : l \notin Members(e)
    BY Zenon, <1>3, <1>6 DEF Members
  <2>2. CASE \E e \in classes : /\ e.classobj = c
                                /\ classes' = (classes \ {e}) \cup {With(e, l)}
    <3>1. PICK e \in classes : /\ e.classobj = c
                               /\ classes' = (classes \ {e}) \cup {With(e, l)}
      BY Zenon, <2>2
    <3> QED BY Zenon, <3>1, <1>1, <1>2, <1>4, <2>1, RecordSound
  <2>3. CASE c \notin Cached /\ classes' = classes \cup {Tuple(c, {l}, {})}
    <3> DEFINE n == Tuple(c, {l}, {})
    <3>1. /\ n \in Entry /\ n.classobj = c /\ n.loaders = {l} /\ n.constraints = {}
      BY Zenon, <1>1 DEF Tuple, Entry
    <3>2. Members(n) = {l}
      BY Zenon, <3>1 DEF Members
    <3> HIDE DEF n
    <3>3. \A d \in classes : Members(d) \cap Members(n) = {}
      BY Zenon, <2>1, <3>2
    <3>4. /\ Sound(classes \cup {n})
          /\ ClassesOf(classes \cup {n}) = Cached \cup ({n.classobj} \ {NULL})
      BY Zenon, <1>1, <1>2, <2>3, <3>1, <3>3, NewSound
    <3> QED BY SMTT(30), <3>1, <3>4, <2>3, <1>1 DEF n
  <2> QED BY Zenon, <2>2, <2>3, <1>6 DEF StoreNew, l, c
<1> QED BY Zenon, <1>5, <1>6 DEF StoreNew, l, c

\* classcache_add_constraint keeps the entries sound, with their classes.
LEMMA ConstrainedSound ==
  ASSUME Sound(classes), NEW a \in Loader, NEW b \in Loader, Constrained(a, b)
  PROVE  Sound(classes') /\ ClassesOf(classes') = Cached
<1>0. ClassesOf(classes) = Cached
  BY Zenon DEF ClassesOf, Cached
<1>1. CASE \E x \in EntriesOf(a), y \in EntriesOf(b) :
              /\ x = y \/ Mergeable(x, y)
              /\ classes' = IF x = y THEN classes ELSE (classes \ {x, y}) \cup {Merge(x, y)}
  <2>1. PICK x \in EntriesOf(a), y \in EntriesOf(b) :
              /\ x = y \/ Mergeable(x, y)
              /\ classes' = IF x = y THEN classes ELSE (classes \ {x, y}) \cup {Merge(x, y)}
    BY Zenon, <1>1
  <2>2. x \in classes /\ y \in classes
    BY Zenon DEF EntriesOf
  <2>3. CASE x = y
    BY Zenon, <2>1, <2>3, <1>0
  <2>4. CASE x # y
    BY Zenon, <2>1, <2>2, <2>4, MergeSound
  <2> QED BY Zenon, <2>3, <2>4
<1>2. CASE \E x \in EntriesOf(a) \cup EntriesOf(b), l \in {a, b} :
              /\ EntriesOf(l) = {}
              /\ classes' = (classes \ {x}) \cup {ConstrainedTo(x, l)}
  <2>1. PICK x \in EntriesOf(a) \cup EntriesOf(b), l \in {a, b} :
              /\ EntriesOf(l) = {}
              /\ classes' = (classes \ {x}) \cup {ConstrainedTo(x, l)}
    BY Zenon, <1>2
  <2>2. x \in classes /\ l \in Loader /\ \A d \in classes : l \notin Members(d)
    BY Zenon, <2>1 DEF EntriesOf
  <2> QED BY Zenon, <2>1, <2>2, ConstrainSound
<1>3. CASE /\ EntriesOf(a) \cup EntriesOf(b) = {}
           /\ classes' = classes \cup {Tuple(NULL, {}, {a, b})}
  <2> DEFINE n == Tuple(NULL, {}, {a, b})
  <2>1. /\ n \in Entry /\ n.classobj = NULL /\ n.loaders = {} /\ n.constraints = {a, b}
    BY Zenon DEF Tuple, Entry
  <2>2. Members(n) = {a, b}
    BY Zenon, <2>1 DEF Members
  <2> HIDE DEF n
  <2>3. \A d \in classes : Members(d) \cap Members(n) = {}
    BY Zenon, <1>3, <2>2 DEF EntriesOf
  <2>4. NULL \notin Cached
    BY Zenon DEF Cached
  <2>5. /\ Sound(classes \cup {n})
        /\ ClassesOf(classes \cup {n}) = Cached \cup ({n.classobj} \ {NULL})
    BY Zenon, <2>1, <2>3, <2>4, NewSound
  <2> QED BY Zenon, <1>3, <2>1, <2>5 DEF n
<1> QED BY Zenon, <1>1, <1>2, <1>3 DEF Constrained

-----------------------------------------------------------------------------
(* The inductive invariant *)

\* A class in the cache has a defining loader.
LEMMA CachedDefined ==
  ASSUME IInv
  PROVE  \A c \in Cached : c \in Class /\ classloader[c] \in Loader
BY DEF IInv, Sound, Cached, Entry

\* A thread takes up work on a class of the cache, or no class.
LEMMA DoingInv ==
  ASSUME IInv, NEW t \in Thread, NEW l \in Loader \cup {NULL}, NEW c \in Class \cup {NULL},
         NEW p \in {"idle", "java", "bootstrap", "load", "link"}, Doing(t, l, p, c),
         p # "idle" => l \in Loader,
         p \in {"load", "link"} => c \in Cached,
         UNCHANGED <<classes, classloader, freed>>
  PROVE  IInv'
<1>1. Sound(classes)'
  BY Zenon DEF IInv, Sound
<1>2. Cached' = Cached
  BY Zenon DEF Cached
<1>3. \A d \in Cached : d \in Class
  BY Zenon, CachedDefined
<1>4. /\ pc' = [pc EXCEPT ![t] = p] /\ ldr' = [ldr EXCEPT ![t] = l]
      /\ cls' = [cls EXCEPT ![t] = c]
  BY Zenon DEF Doing
<1>5. WorkInv'
  <2>1. /\ pc' \in [Thread -> {"idle", "java", "bootstrap"} \cup Storing]
        /\ ldr' \in [Thread -> Loader \cup {NULL}]
        /\ cls' \in [Thread -> Class \cup {NULL}]
    BY Zenon, <1>4 DEF IInv, WorkInv, Storing
  <2>2. ASSUME NEW u \in Thread
        PROVE  /\ pc'[u] \in Storing => ldr'[u] \in Loader /\ cls'[u] \in Class
               /\ pc'[u] = "java" => ldr'[u] \in Loader
               /\ pc'[u] \in Storing \ Fresh => cls'[u] \in Cached
               /\ pc'[u] \in Fresh => cls'[u] \notin Cached /\ classloader[cls'[u]] = ldr'[u]
    <3>1. CASE u = t
      BY Zenon, <3>1, <1>3, <1>4 DEF IInv, WorkInv, Storing, Fresh
    <3>2. CASE u # t
      BY Zenon, <3>2, <1>4 DEF IInv, WorkInv
    <3> QED BY Zenon, <3>1, <3>2
  <2>3. ASSUME NEW u \in Thread, NEW v \in Thread,
               pc'[u] \in Fresh, pc'[v] \in Fresh, cls'[u] = cls'[v]
        PROVE  u = v
    BY Zenon, <2>3, <1>4 DEF IInv, WorkInv, Fresh
  <2> QED BY Zenon, <2>1, <2>2, <2>3, <1>2 DEF WorkInv
<1> QED BY Zenon, <1>1, <1>5 DEF IInv

\* A thread creates a class for loader l and takes it to the cache.
LEMMA CreateInv ==
  ASSUME IInv, NEW t \in Thread, NEW l \in Loader, NEW c \in Class, NEW p \in Fresh,
         Create(c, l), Doing(t, l, p, c), UNCHANGED <<classes, freed>>
  PROVE  IInv'
<1>1. /\ classloader[c] = NULL
      /\ classloader' = [classloader EXCEPT ![c] = l]
  BY Zenon DEF Create
<1>2. c \notin Cached
  BY Zenon, <1>1, CachedDefined, CacheAssumption
<1>3. \A d \in Class : d # c => classloader'[d] = classloader[d]
  BY Zenon, <1>1 DEF IInv
<1>4. Sound(classes)'
  <2>1. \A e \in classes : e.classobj # NULL => e.classobj \in Cached
    BY Zenon DEF Cached
  <2>2. \A e \in classes : e.classobj # NULL => classloader'[e.classobj] = classloader[e.classobj]
    BY Zenon, <2>1, <1>2, <1>3, CachedDefined
  <2> QED BY Zenon, <2>2 DEF IInv, Sound
<1>5. Cached' = Cached
  BY Zenon DEF Cached
<1>6. /\ pc' = [pc EXCEPT ![t] = p] /\ ldr' = [ldr EXCEPT ![t] = l]
      /\ cls' = [cls EXCEPT ![t] = c]
  BY Zenon DEF Doing
<1>7. WorkInv'
  <2>1. /\ pc' \in [Thread -> {"idle", "java", "bootstrap"} \cup Storing]
        /\ ldr' \in [Thread -> Loader \cup {NULL}]
        /\ cls' \in [Thread -> Class \cup {NULL}]
    BY Zenon, <1>6 DEF IInv, WorkInv, Storing, Fresh
  <2>2. \A u \in Thread : pc[u] \in Fresh => cls[u] # c
    BY Zenon, <1>1, CacheAssumption DEF IInv, WorkInv, Storing, Fresh
  <2>3. ASSUME NEW u \in Thread
        PROVE  /\ pc'[u] \in Storing => ldr'[u] \in Loader /\ cls'[u] \in Class
               /\ pc'[u] = "java" => ldr'[u] \in Loader
               /\ pc'[u] \in Storing \ Fresh => cls'[u] \in Cached
               /\ pc'[u] \in Fresh => cls'[u] \notin Cached /\ classloader'[cls'[u]] = ldr'[u]
    <3>1. CASE u = t
      BY Zenon, <3>1, <1>1, <1>2, <1>6 DEF IInv, WorkInv, Storing, Fresh
    <3>2. CASE u # t
      BY Zenon, <3>2, <1>3, <1>6, <2>2 DEF IInv, WorkInv, Storing, Fresh
    <3> QED BY Zenon, <3>1, <3>2
  <2>4. ASSUME NEW u \in Thread, NEW v \in Thread,
               pc'[u] \in Fresh, pc'[v] \in Fresh, cls'[u] = cls'[v]
        PROVE  u = v
    BY Zenon, <2>4, <1>6, <2>2 DEF IInv, WorkInv
  <2> QED BY Zenon, <2>1, <2>3, <2>4, <1>5 DEF WorkInv
<1>8. classloader' \in [Class -> Loader \cup {NULL}]
  BY Zenon, <1>1 DEF IInv
<1> QED BY Zenon, <1>4, <1>7, <1>8 DEF IInv

\* classcache_store returns: the thread has no class any more, and the cache may
\* have gained the one it had.
LEMMA StoredInv ==
  ASSUME IInv, NEW t \in Thread, pc[t] \in Storing, Doing(t, NULL, "idle", NULL),
         UNCHANGED classloader, freed' \subseteq freed \cup {cls[t]},
         Sound(classes'), ClassesOf(classes') \in {Cached, Cached \cup {cls[t]}}
  PROVE  IInv'
<1>1. Sound(classes)'
  BY Zenon DEF Sound
<1>2. Cached' \in {Cached, Cached \cup {cls[t]}}
  BY Zenon DEF Cached, ClassesOf
<1>3. /\ pc' = [pc EXCEPT ![t] = "idle"] /\ ldr' = [ldr EXCEPT ![t] = NULL]
      /\ cls' = [cls EXCEPT ![t] = NULL]
  BY Zenon DEF Doing
<1>4. \A u \in Thread : u # t /\ pc[u] \in Fresh => cls[u] # cls[t]
  BY Zenon DEF IInv, WorkInv
<1>5. WorkInv'
  <2>1. /\ pc' \in [Thread -> {"idle", "java", "bootstrap"} \cup Storing]
        /\ ldr' \in [Thread -> Loader \cup {NULL}]
        /\ cls' \in [Thread -> Class \cup {NULL}]
    BY Zenon, <1>3 DEF IInv, WorkInv, Storing
  <2>2. ASSUME NEW u \in Thread
        PROVE  /\ pc'[u] \in Storing => ldr'[u] \in Loader /\ cls'[u] \in Class
               /\ pc'[u] = "java" => ldr'[u] \in Loader
               /\ pc'[u] \in Storing \ Fresh => cls'[u] \in Cached'
               /\ pc'[u] \in Fresh => cls'[u] \notin Cached' /\ classloader[cls'[u]] = ldr'[u]
    <3>1. CASE u = t
      BY Zenon, <3>1, <1>3 DEF IInv, WorkInv, Storing, Fresh
    <3>2. CASE u # t
      BY Zenon, <3>2, <1>2, <1>3, <1>4 DEF IInv, WorkInv, Storing, Fresh
    <3> QED BY Zenon, <3>1, <3>2
  <2>3. ASSUME NEW u \in Thread, NEW v \in Thread,
               pc'[u] \in Fresh, pc'[v] \in Fresh, cls'[u] = cls'[v]
        PROVE  u = v
    BY Zenon, <2>3, <1>3 DEF IInv, WorkInv, Fresh
  <2> QED BY Zenon, <2>1, <2>2, <2>3 DEF WorkInv
<1>6. freed' \subseteq Class
  BY Zenon DEF IInv, WorkInv
<1> QED BY Zenon, <1>1, <1>5, <1>6 DEF IInv

\* The initial state satisfies the invariant.
LEMMA InitInv == Init => IInv
BY Zenon DEF Init, IInv, Sound, WorkInv, Storing, Fresh

\* A step of classcache_store preserves it.
LEMMA StoreInv ==
  ASSUME IInv, NEW t \in Thread, store(t)
  PROVE  IInv'
<1>1. pc[t] \in Storing /\ Doing(t, NULL, "idle", NULL) /\ UNCHANGED classloader
  BY Zenon DEF store, Storing
<1>2. freed' \subseteq freed \cup {cls[t]}
  BY Zenon DEF store
<1>3. CASE StoreNew(t, ldr[t], cls[t])
  BY Zenon, <1>1, <1>2, <1>3, StoreNewSound, StoredInv
<1>4. CASE UNCHANGED classes
  <2>1. Sound(classes') /\ ClassesOf(classes') = Cached
    BY Zenon, <1>4 DEF IInv, ClassesOf, Cached
  <2> QED BY Zenon, <1>1, <1>2, <2>1, StoredInv
<1> QED BY Zenon, <1>3, <1>4 DEF store, StoreOld, StoreRefused

\* Every step preserves it.
LEMMA NextInv ==
  ASSUME IInv, [Next]_vars
  PROVE  IInv'
<1>1. CASE UNCHANGED vars
  BY Zenon, <1>1 DEF vars, work, IInv, Sound, WorkInv, Cached
<1>2. CASE Next
  <2> PICK t \in Thread :
        \/ \E a, b \in Loader : classcache_add_constraint(t, a, b)
        \/ \E l \in Loader : load_lookup(t, l) \/ class_define(t, l)
        \/ load_class_from_classloader(t) \/ load_class_bootstrap(t)
        \/ link_class_intern(t) \/ store(t)
    BY Zenon, <1>2 DEF Next
  <2>0. Sound(classes) /\ \A c \in Cached : c \in Class /\ classloader[c] \in Loader
    BY Zenon, CachedDefined DEF IInv
  <2>1. ASSUME NEW a \in Loader, NEW b \in Loader, classcache_add_constraint(t, a, b)
        PROVE  IInv'
    <3>1. Sound(classes') /\ ClassesOf(classes') = Cached
      <4>1. CASE Constrained(a, b)
        BY Zenon, <4>1, <2>0, ConstrainedSound
      <4>2. CASE UNCHANGED classes
        BY Zenon, <4>2, <2>0 DEF ClassesOf, Cached
      <4> QED BY Zenon, <2>1, <4>1, <4>2 DEF classcache_add_constraint
    <3>2. Cached' = Cached
      BY Zenon, <3>1 DEF Cached, ClassesOf
    <3>3. UNCHANGED <<classloader, freed, pc, ldr, cls>>
      BY Zenon, <2>1 DEF classcache_add_constraint, work
    <3> QED BY Zenon, <3>1, <3>2, <3>3 DEF IInv, Sound, WorkInv
  <2>2. ASSUME NEW l \in Loader, load_lookup(t, l)
        PROVE  IInv'
    <3>1. CASE Doing(t, NULL, "idle", NULL)
      BY Zenon, <2>2, <3>1, DoingInv DEF load_lookup
    <3>2. CASE Doing(t, l, IF l = Boot THEN "bootstrap" ELSE "java", NULL)
      BY Zenon, <2>2, <3>2, DoingInv DEF load_lookup
    <3> QED BY Zenon, <2>2, <3>1, <3>2 DEF load_lookup, Return
  <2>3. ASSUME NEW l \in Loader, class_define(t, l)
        PROVE  IInv'
    <3>1. CASE \E c \in Class : Create(c, l) /\ Doing(t, l, "define", c)
      BY Zenon, <2>3, <3>1, CreateInv DEF class_define, Fresh
    <3>2. CASE Doing(t, NULL, "idle", NULL) /\ UNCHANGED classloader
      BY Zenon, <2>3, <3>2, DoingInv DEF class_define
    <3> QED BY Zenon, <2>3, <3>1, <3>2 DEF class_define, Return
  <2>4. CASE load_class_from_classloader(t)
    <3>1. ldr[t] \in Loader
      BY Zenon, <2>4 DEF load_class_from_classloader, IInv, WorkInv
    <3>2. CASE \E c \in Cached : Doing(t, ldr[t], "load", c)
      BY Zenon, <2>0, <2>4, <3>1, <3>2, DoingInv DEF load_class_from_classloader
    <3>3. CASE Doing(t, NULL, "idle", NULL)
      BY Zenon, <2>4, <3>3, DoingInv DEF load_class_from_classloader
    <3> QED BY Zenon, <2>4, <3>2, <3>3 DEF load_class_from_classloader, Return
  <2>5. CASE load_class_bootstrap(t)
    <3>1. CASE \E c \in Class : Create(c, Boot) /\ Doing(t, Boot, "boot", c)
      BY Zenon, <2>5, <3>1, CreateInv, CacheAssumption DEF load_class_bootstrap, Fresh
    <3>2. CASE Doing(t, NULL, "idle", NULL) /\ UNCHANGED classloader
      BY Zenon, <2>5, <3>2, DoingInv DEF load_class_bootstrap
    <3> QED BY Zenon, <2>5, <3>1, <3>2 DEF load_class_bootstrap, Return
  <2>6. CASE link_class_intern(t)
    BY Zenon, <2>0, <2>6, DoingInv DEF link_class_intern
  <2>7. CASE store(t)
    BY Zenon, <2>7, StoreInv
  <2> QED BY Zenon, <2>1, <2>2, <2>3, <2>4, <2>5, <2>6, <2>7
<1> QED BY Zenon, <1>1, <1>2

\* The inductive invariant holds in every state.
THEOREM Invariance == Spec => []IInv
BY InitInv, NextInv, PTL DEF Spec

\* The entries of the cache stand apart (classcache.cpp:103), for any number of
\* loaders and threads.
THEOREM CacheApart == Spec => []EntriesApart
<1>1. IInv => EntriesApart
  BY Zenon DEF IInv, Sound, EntriesApart
<1> QED BY <1>1, Invariance, PTL

\* A cached class is recorded for its defining loader.
THEOREM CacheDefiner == Spec => []DefinerInitiates
<1>1. IInv => DefinerInitiates
  BY Zenon DEF IInv, Sound, DefinerInitiates
<1> QED BY <1>1, Invariance, PTL

-----------------------------------------------------------------------------
(* Freeing *)

Typed ==
  /\ result \in [Thread -> Results]
  /\ accepted \subseteq SUBSET Loader

\* What classcache_lookup finds is a class recorded for the loader.
LEMMA LookupFinds ==
  ASSUME IInv, NEW l \in Loader, NEW c \in Lookup(l)
  PROVE  c \in Class /\ \E e \in classes : l \in e.loaders /\ e.classobj = c
BY Zenon DEF IInv, Sound, Lookup, Entry

\* Answers and accepted constraints keep their types.
LEMMA TypedNext ==
  ASSUME IInv, Typed, [Next]_vars
  PROVE  Typed'
<1>0. /\ {None, LinkageError, Exception} \subseteq Results
      /\ \A l \in Loader, c \in Class : <<l, c>> \in Results
  BY Zenon DEF Results
<1>1. CASE UNCHANGED vars
  BY Zenon, <1>1 DEF vars, Typed
<1>2. CASE Next
  <2> PICK t \in Thread :
        \/ \E a, b \in Loader : classcache_add_constraint(t, a, b)
        \/ \E l \in Loader : load_lookup(t, l) \/ class_define(t, l)
        \/ load_class_from_classloader(t) \/ load_class_bootstrap(t)
        \/ link_class_intern(t) \/ store(t)
    BY Zenon, <1>2 DEF Next
  <2>1. ASSUME NEW a \in Loader, NEW b \in Loader, classcache_add_constraint(t, a, b)
        PROVE  Typed'
    BY Zenon, <1>0, <2>1 DEF classcache_add_constraint, Typed
  <2>2. ASSUME NEW l \in Loader, load_lookup(t, l)
        PROVE  Typed'
    <3>1. \A c \in Lookup(l) : <<l, c>> \in Results
      BY Zenon, <1>0, LookupFinds
    <3> QED BY Zenon, <2>2, <3>1 DEF load_lookup, Return, Typed
  <2>3. ASSUME NEW l \in Loader, class_define(t, l)
        PROVE  Typed'
    BY Zenon, <1>0, <2>3 DEF class_define, Return, Typed
  <2>4. CASE load_class_from_classloader(t)
    BY Zenon, <1>0, <2>4 DEF load_class_from_classloader, Return, Typed
  <2>5. CASE load_class_bootstrap(t)
    BY Zenon, <1>0, <2>5 DEF load_class_bootstrap, Return, Typed
  <2>6. CASE link_class_intern(t)
    BY Zenon, <2>6 DEF link_class_intern, Typed
  <2>7. CASE store(t)
    <3>1. ldr[t] \in Loader /\ cls[t] \in Class
      BY Zenon, <2>7 DEF store, IInv, WorkInv, Storing
    <3>2. \A c \in Lookup(ldr[t]) : <<ldr[t], c>> \in Results
      BY Zenon, <1>0, <3>1, LookupFinds
    <3>3. <<ldr[t], cls[t]>> \in Results
      BY Zenon, <1>0, <3>1
    <3>4. \E r \in Results : result' = [result EXCEPT ![t] = r]
      <4>1. CASE StoreOld(t, ldr[t])
        BY Zenon, <3>2, <4>1 DEF StoreOld
      <4>2. CASE StoreNew(t, ldr[t], cls[t])
        BY Zenon, <3>3, <4>2 DEF StoreNew
      <4>3. CASE StoreRefused(t, ldr[t], cls[t])
        BY Zenon, <1>0, <4>3 DEF StoreRefused
      <4> QED BY Zenon, <2>7, <4>1, <4>2, <4>3 DEF store
    <3>5. UNCHANGED accepted
      BY Zenon, <2>7 DEF store
    <3> QED BY Zenon, <3>4, <3>5 DEF Typed
  <2> QED BY Zenon, <2>1, <2>2, <2>3, <2>4, <2>5, <2>6, <2>7
<1> QED BY Zenon, <1>1, <1>2

\* Answers and accepted constraints have their types.
LEMMA TypedAlways == Spec => []Typed
<1>1. Init => Typed
  BY Zenon DEF Init, Typed, Results
<1> QED BY <1>1, TypedNext, Invariance, PTL DEF Spec

\* class_free is called on a class of the cache only by a load that is refused.
THEOREM CacheFree == Spec => FreedUncached
<1> DEFINE P == \A c \in (freed' \ freed) \cap Cached' :
                   \E t \in Thread : pc[t] = "load" /\ result'[t] = LinkageError
<1>1. IInv /\ Typed /\ [Next]_vars => [P]_vars
  <2> SUFFICES ASSUME IInv, Typed, Next
               PROVE  P
    BY Zenon DEF vars
  <2>1. CASE UNCHANGED freed
    BY Zenon, <2>1
  <2>2. ASSUME NEW t \in Thread, store(t)
        PROVE  P
    <3>1. pc[t] \in Fresh => cls[t] \notin Cached
      BY Zenon DEF IInv, WorkInv
    <3>2. CASE StoreNew(t, ldr[t], cls[t]) /\ UNCHANGED freed
      BY Zenon, <3>2
    <3>3. CASE /\ StoreOld(t, ldr[t])
               /\ freed' = IF pc[t] \in MayFree /\ cls[t] \notin Lookup(ldr[t])
                           THEN freed \cup {cls[t]} ELSE freed
      <4>1. Cached' = Cached
        BY Zenon, <3>3 DEF StoreOld, Cached
      <4> QED BY Zenon, <3>1, <3>3, <4>1 DEF MayFree, Fresh
    <3>4. CASE /\ StoreRefused(t, ldr[t], cls[t])
               /\ freed' = IF pc[t] \in FreesRefused THEN freed \cup {cls[t]} ELSE freed
      <4>1. Cached' = Cached
        BY Zenon, <3>4 DEF StoreRefused, Cached
      <4>2. result'[t] = LinkageError
        BY Zenon, <3>4 DEF StoreRefused, Typed
      <4> QED BY Zenon, <3>1, <3>4, <4>1, <4>2 DEF FreesRefused, Fresh
    <3> QED BY Zenon, <2>2, <3>2, <3>3, <3>4 DEF store
  <2> QED BY Zenon, <2>1, <2>2 DEF Next, classcache_add_constraint, load_lookup, class_define,
             load_class_from_classloader, load_class_bootstrap, link_class_intern
<1> QED BY <1>1, Invariance, TypedAlways, PTL DEF Spec, FreedUncached

-----------------------------------------------------------------------------
(* The loading constraints *)

\* The resolutions the entries E record.
Res(E) == UNION {e.loaders \X {e.classobj} : e \in E}

\* The loaders of an entry resolve the name alike.
Agree(f, E) == \A e \in E : \A a, b \in Members(e) : f[a] = f[b]

\* Every accepted constraint is inside an entry.
Covers(E, con) == \A s \in con : \E e \in E : s \subseteq Members(e)

\* The entries demand no more than what has been resolved and accepted.
Forced(E, con) ==
  \A f \in [Loader -> Class] : Abstract!Satisfies(f, Res(E), con) => Agree(f, E)

ConInv == Covers(classes, accepted) /\ Forced(classes, accepted)

\* The pairs of Res.
LEMMA ResPairs ==
  ASSUME NEW E
  PROVE  /\ \A p \in Res(E) : \E e \in E : \E l \in e.loaders : p = <<l, e.classobj>>
         /\ \A e \in E : \A l \in e.loaders : <<l, e.classobj>> \in Res(E)
<1>1. ASSUME NEW p \in Res(E)
      PROVE  \E e \in E : \E l \in e.loaders : p = <<l, e.classobj>>
  <2>1. PICK e \in E : p \in e.loaders \X {e.classobj}
    BY Zenon DEF Res
  <2> QED BY <2>1
<1>2. ASSUME NEW e \in E, NEW l \in e.loaders
      PROVE  <<l, e.classobj>> \in Res(E)
  BY DEF Res
<1> QED BY Zenon, <1>1, <1>2

\* A resolution that satisfies more satisfies less.
LEMMA SatisfiesLess ==
  ASSUME NEW f, NEW r, NEW s, NEW c, NEW d, r \subseteq s, c \subseteq d,
         Abstract!Satisfies(f, s, d)
  PROVE  Abstract!Satisfies(f, r, c)
BY Zenon DEF Abstract!Satisfies

\* Entries that are apart and cover the accepted constraints can be satisfied: every
\* loader resolves to the class of its entry.
LEMMA Consistent ==
  ASSUME NEW E, Sound(E), NEW con \in SUBSET SUBSET Loader, Covers(E, con)
  PROVE  Abstract!Possible(Res(E), con)
<1> DEFINE In(l) == {e \in E : l \in Members(e) /\ e.classobj # NULL}
           f == [l \in Loader |-> IF In(l) # {} THEN (CHOOSE e \in In(l) : TRUE).classobj
                                  ELSE CHOOSE c \in Class : TRUE]
<1>1. \A l \in Loader, e \in E :
        l \in Members(e) => f[l] = IF e.classobj # NULL THEN e.classobj
                                  ELSE CHOOSE c \in Class : TRUE
  <2> SUFFICES ASSUME NEW l \in Loader, NEW e \in E, l \in Members(e)
               PROVE  f[l] = IF e.classobj # NULL THEN e.classobj
                             ELSE CHOOSE c \in Class : TRUE
    BY Zenon
  <2>1. \A d \in E : l \in Members(d) => d = e
    BY Zenon DEF Sound
  <2>2. CASE e.classobj # NULL
    <3>1. In(l) = {e}
      BY Zenon, <2>1, <2>2
    <3> QED BY <2>2, <3>1
  <2>3. CASE e.classobj = NULL
    <3>1. In(l) = {}
      BY Zenon, <2>1, <2>3
    <3> QED BY <2>3, <3>1
  <2> QED BY Zenon, <2>2, <2>3
<1>2. f \in [Loader -> Class]
  <2> SUFFICES ASSUME NEW l \in Loader
               PROVE  f[l] \in Class
    BY Zenon
  <2>1. CASE In(l) # {}
    <3>1. PICK e \in In(l) : TRUE
      BY Zenon, <2>1
    <3>2. e.classobj \in Class
      BY Zenon, <3>1 DEF Sound, Entry
    <3> QED BY Zenon, <1>1, <3>1, <3>2
  <2>2. CASE In(l) = {}
    <3>1. (CHOOSE c \in Class : TRUE) \in Class
      BY Zenon, CacheAssumption
    <3> QED BY Zenon, <2>2, <3>1
  <2> QED BY Zenon, <2>1, <2>2
<1> HIDE DEF f
<1>3. \A p \in Res(E) : f[p[1]] = p[2]
  <2> SUFFICES ASSUME NEW p \in Res(E)
               PROVE  f[p[1]] = p[2]
    BY Zenon
  <2>1. PICK e \in E : \E l \in e.loaders : p = <<l, e.classobj>>
    BY Zenon, ResPairs
  <2>2. PICK l \in e.loaders : p = <<l, e.classobj>>
    BY Zenon, <2>1
  <2>3. e.classobj # NULL /\ l \in Loader /\ l \in Members(e)
    BY Zenon DEF Sound, Members, Entry
  <2> QED BY Zenon, <1>1, <2>2, <2>3
<1>4. \A s \in con : \A a, b \in s : f[a] = f[b]
  <2> SUFFICES ASSUME NEW s \in con, NEW a \in s, NEW b \in s
               PROVE  f[a] = f[b]
    BY Zenon
  <2>1. PICK e \in E : s \subseteq Members(e)
    BY Zenon DEF Covers
  <2> QED BY Zenon, <1>1, <2>1
<1> QED BY Zenon, <1>2, <1>3, <1>4 DEF Abstract!Possible, Abstract!Satisfies

\* In a resolved entry every member resolves to its class, since the definer does.
LEMMA EntryClass ==
  ASSUME Sound(classes), NEW f, NEW con, Abstract!Satisfies(f, Res(classes), con),
         Agree(f, classes), NEW e \in classes, e.classobj # NULL
  PROVE  \A a \in Members(e) : f[a] = e.classobj
<1> DEFINE l == classloader[e.classobj]
<1>1. l \in e.loaders
  BY Zenon DEF Sound
<1> HIDE DEF l
<1>2. <<l, e.classobj>> \in Res(classes)
  BY Zenon, <1>1, ResPairs
<1>3. f[l] = e.classobj
  <2>1. \A p \in Res(classes) : f[p[1]] = p[2]
    BY Zenon DEF Abstract!Satisfies
  <2> QED BY Zenon, <1>2, <2>1
<1>4. l \in Members(e)
  BY Zenon, <1>1 DEF Members
<1> QED BY Zenon, <1>3, <1>4 DEF Agree

\* Entries old may be replaced by n, which has their members and resolves the loaders
\* L, when the constraints add are accepted.
Replaces(old, n, L, add) ==
  /\ old \subseteq classes
  /\ \A e \in old : Members(e) \subseteq Members(n)
  /\ \A e \in old : e.classobj = n.classobj \/ e.loaders = {}
  /\ \A k : k \in n.loaders <=> k \in L \/ \E e \in old : k \in e.loaders
  /\ \A s \in add : s \subseteq Members(n)
  /\ \A f \in [Loader -> Class] :
       /\ Agree(f, classes)
       /\ Abstract!Satisfies(f, Res(classes) \cup (L \X {n.classobj}), accepted \cup add)
       => \A k, m \in Members(n) : f[k] = f[m]

\* That replacement adds the resolutions of L and covers the constraints.
LEMMA Replace ==
  ASSUME ConInv, NEW old, NEW n, NEW L, NEW add, Replaces(old, n, L, add)
  PROVE  LET E == (classes \ old) \cup {n}
         IN  /\ Res(E) = Res(classes) \cup (L \X {n.classobj})
             /\ Covers(E, accepted \cup add)
             /\ Forced(E, accepted \cup add)
<1> DEFINE E == (classes \ old) \cup {n}
           R == Res(classes) \cup (L \X {n.classobj})
<1>0. /\ old \subseteq classes
      /\ \A e \in old : Members(e) \subseteq Members(n)
      /\ \A e \in old : e.classobj = n.classobj \/ e.loaders = {}
      /\ \A k : k \in n.loaders <=> k \in L \/ \E e \in old : k \in e.loaders
      /\ \A s \in add : s \subseteq Members(n)
      /\ \A f \in [Loader -> Class] :
           /\ Agree(f, classes)
           /\ Abstract!Satisfies(f, R, accepted \cup add)
           => \A k, m \in Members(n) : f[k] = f[m]
  BY Zenon DEF Replaces
<1> USE <1>0
<1>1. Res(E) = R
  <2>1. ASSUME NEW p \in Res(E)
        PROVE  p \in R
    <3>1. PICK e \in E : \E l \in e.loaders : p = <<l, e.classobj>>
      BY ResPairs
    <3>2. PICK l \in e.loaders : p = <<l, e.classobj>>
      BY Zenon, <3>1
    <3>3. CASE e \in classes
      BY Zenon, <3>2, <3>3, ResPairs
    <3>4. CASE e = n /\ l \in L
      BY Zenon, <3>2, <3>4
    <3>5. CASE e = n /\ l \notin L
      <4>1. PICK d \in old : l \in d.loaders
        BY Zenon, <3>5
      <4>2. d.classobj = n.classobj /\ d \in classes
        BY Zenon, <4>1
      <4>3. <<l, d.classobj>> \in Res(classes)
        BY Zenon, <4>1, <4>2, ResPairs
      <4> QED BY Zenon, <3>2, <3>5, <4>2, <4>3
    <3> QED BY Zenon, <3>3, <3>4, <3>5
  <2>2. ASSUME NEW p \in Res(classes)
        PROVE  p \in Res(E)
    <3>1. PICK e \in classes : \E l \in e.loaders : p = <<l, e.classobj>>
      BY ResPairs
    <3>2. PICK l \in e.loaders : p = <<l, e.classobj>>
      BY Zenon, <3>1
    <3>3. CASE e \in E
      BY Zenon, <3>2, <3>3, ResPairs
    <3>4. CASE e \in old
      <4>1. e.classobj = n.classobj /\ l \in n.loaders /\ n \in E
        BY Zenon, <3>4
      <4>2. <<l, n.classobj>> \in Res(E)
        BY Zenon, <4>1, ResPairs
      <4> QED BY Zenon, <3>2, <4>1, <4>2
    <3> QED BY Zenon, <3>3, <3>4
  <2>3. ASSUME NEW p \in L \X {n.classobj}
        PROVE  p \in Res(E)
    <3>1. PICK l \in L : p = <<l, n.classobj>>
      BY <2>3
    <3>2. l \in n.loaders /\ n \in E
      BY Zenon
    <3> QED BY Zenon, <3>1, <3>2, ResPairs
  <2> QED BY Zenon, <2>1, <2>2, <2>3
<1>2. Covers(E, accepted \cup add)
  <2> SUFFICES ASSUME NEW s \in accepted \cup add
               PROVE  \E e \in E : s \subseteq Members(e)
    BY Zenon DEF Covers
  <2>1. CASE s \in add
    BY Zenon, <2>1
  <2>2. CASE s \in accepted
    <3>1. PICK e \in classes : s \subseteq Members(e)
      BY Zenon, <2>2 DEF ConInv, Covers
    <3>2. CASE e \in old
      <4>1. Members(e) \subseteq Members(n)
        BY Zenon, <3>2
      <4>2. s \subseteq Members(n)
        BY Zenon, <3>1, <4>1
      <4> QED BY Zenon, <4>2
    <3>3. CASE e \notin old
      BY Zenon, <3>1, <3>3
    <3> QED BY Zenon, <3>2, <3>3
  <2> QED BY Zenon, <2>1, <2>2
<1>3. Forced(E, accepted \cup add)
  <2> SUFFICES ASSUME NEW f \in [Loader -> Class],
                      Abstract!Satisfies(f, Res(E), accepted \cup add)
               PROVE  Agree(f, E)
    BY Zenon DEF Forced
  <2> HIDE DEF E
  <2>1. Abstract!Satisfies(f, R, accepted \cup add)
    BY Zenon, <1>1
  <2>2. Abstract!Satisfies(f, Res(classes), accepted)
    BY <2>1, SatisfiesLess
  <2>3. Agree(f, classes)
    BY Zenon, <2>2 DEF ConInv, Forced
  <2>4. \A k, m \in Members(n) : f[k] = f[m]
    BY Zenon, <2>1, <2>3
  <2> QED BY Zenon, <2>3, <2>4 DEF Agree, E
<1> QED BY Zenon, <1>1, <1>2, <1>3

\* A store of class c for loader l records that resolution, and nothing else.
LEMMA StoreNewRes ==
  ASSUME IInv, ConInv, NEW t \in Thread, pc[t] \in Storing, StoreNew(t, ldr[t], cls[t])
  PROVE  /\ Res(classes') = Res(classes) \cup {<<ldr[t], cls[t]>>}
         /\ Covers(classes', accepted) /\ Forced(classes', accepted)
<1> DEFINE l == ldr[t]
           c == cls[t]
           Good(E) == /\ Res(E) = Res(classes) \cup {<<l, c>>}
                      /\ Covers(E, accepted) /\ Forced(E, accepted)
<1> SUFFICES Good(classes')
  BY Zenon
<1>1. /\ l \in Loader /\ c \in Class /\ c # NULL
      /\ Sound(classes)
  BY Zenon, CacheAssumption DEF IInv, WorkInv
<1>2. \A e \in classes : l \notin e.loaders
  BY Zenon, NotFound DEF StoreNew
<1> HIDE DEF l, c
<1>3. ASSUME NEW old \in SUBSET classes, NEW n, n.classobj = c,
             \A e \in old : /\ Members(e) \subseteq Members(n)
                            /\ e.classobj = c \/ e.loaders = {},
             \A k : k \in n.loaders <=> k \in {l} \/ \E e \in old : k \in e.loaders,
             \A f \in [Loader -> Class] :
               /\ Agree(f, classes) /\ f[l] = c
               /\ \A e \in classes : e.classobj = c => \A a \in Members(e) : f[a] = c
               => \A k, m \in Members(n) : f[k] = f[m]
      PROVE  Good((classes \ old) \cup {n})
  <2>1. ASSUME NEW f \in [Loader -> Class], Agree(f, classes),
               Abstract!Satisfies(f, Res(classes) \cup ({l} \X {n.classobj}), accepted \cup {})
        PROVE  \A k, m \in Members(n) : f[k] = f[m]
    <3>1. Abstract!Satisfies(f, Res(classes), accepted)
      <4>1. /\ Res(classes) \subseteq Res(classes) \cup ({l} \X {n.classobj})
            /\ accepted \subseteq accepted \cup {}
        BY Zenon
      <4> QED BY Zenon, <2>1, <4>1, SatisfiesLess
    <3>2. \A e \in classes : e.classobj = c => \A a \in Members(e) : f[a] = c
      BY Zenon, <1>1, <2>1, <3>1, EntryClass
    <3>3. f[l] = c
      <4>1. <<l, c>> \in {l} \X {n.classobj}
        BY Zenon, <1>3
      <4> QED BY Zenon, <2>1, <4>1 DEF Abstract!Satisfies
    <3> QED BY Zenon, <1>3, <2>1, <3>2, <3>3
  <2>2. \A e \in old : /\ Members(e) \subseteq Members(n)
                       /\ e.classobj = n.classobj \/ e.loaders = {}
    BY Zenon, <1>3
  <2> DEFINE E == (classes \ old) \cup {n}
             L == {l}
             add == {}
  <2>5. \A k : k \in n.loaders <=> k \in L \/ \E e \in old : k \in e.loaders
    BY Zenon, <1>3
  <2>6. \A s \in add : s \subseteq Members(n)
    BY Zenon
  <2>7. \A f \in [Loader -> Class] :
           /\ Agree(f, classes)
           /\ Abstract!Satisfies(f, Res(classes) \cup (L \X {n.classobj}), accepted \cup add)
           => \A k, m \in Members(n) : f[k] = f[m]
    BY Zenon, <2>1
  <2> HIDE DEF L, add
  <2>8. /\ Res(E) = Res(classes) \cup (L \X {n.classobj})
        /\ Covers(E, accepted \cup add) /\ Forced(E, accepted \cup add)
    <3>1. Replaces(old, n, L, add)
      BY Zenon, <2>2, <2>5, <2>6, <2>7 DEF Replaces
    <3> QED BY Zenon, <3>1, Replace
  <2>3. /\ Res(E) = Res(classes) \cup ({l} \X {n.classobj})
        /\ Covers(E, accepted \cup {}) /\ Forced(E, accepted \cup {})
    BY Zenon, <2>8 DEF L, add
  <2>4. {l} \X {n.classobj} = {<<l, c>>} /\ accepted \cup {} = accepted
    BY <1>3
  <2> QED BY Zenon, <2>3, <2>4
<1> HIDE DEF Good
<1>4. CASE \E e \in classes : /\ l \in e.constraints /\ ~Clash(e, c)
                              /\ IF e.classobj # NULL
                                 THEN classes' = (classes \ {e}) \cup {With(e, l)}
                                 ELSE Resolved(e, l, c)
  <2>1. PICK e \in classes : /\ l \in e.constraints /\ ~Clash(e, c)
                             /\ IF e.classobj # NULL
                                THEN classes' = (classes \ {e}) \cup {With(e, l)}
                                ELSE Resolved(e, l, c)
    BY Zenon, <1>4
  <2>2. e \in Entry /\ l \in Members(e) /\ {e} \in SUBSET classes
    BY Zenon, <1>1, <2>1 DEF Sound, Members
  <2>3. CASE e.classobj # NULL
    <3> DEFINE n == With(e, l)
    <3>1. /\ n.classobj = c /\ n.loaders = e.loaders \cup {l} /\ e.classobj = c
          /\ n.constraints = e.constraints
      BY Zenon, <2>1, <2>2, <2>3 DEF Clash, With, Tuple, Entry
    <3>2. Members(n) = Members(e)
      BY Zenon, <2>2, <3>1 DEF Members
    <3>3. classes' = (classes \ {e}) \cup {n}
      BY Zenon, <2>1, <2>3
    <3> HIDE DEF n
    <3>4. \A f \in [Loader -> Class] : Agree(f, classes) =>
             \A a, b \in Members(n) : f[a] = f[b]
      BY Zenon, <3>2 DEF Agree
    <3> QED BY Zenon, <1>3, <2>2, <3>1, <3>2, <3>3, <3>4
  <2>4. CASE e.classobj = NULL
    <3>0. Resolved(e, l, c) /\ e.loaders = {}
      BY Zenon, <1>1, <2>1, <2>4 DEF Sound
    <3>1. CASE \E b \in classes : /\ b.classobj = c
                                  /\ classes' = (classes \ {e, b}) \cup {Merge(With(e, l), b)}
      <4>1. PICK b \in classes : /\ b.classobj = c
                                 /\ classes' = (classes \ {e, b}) \cup {Merge(With(e, l), b)}
        BY Zenon, <3>1
      <4> DEFINE n == Merge(With(e, l), b)
      <4>2. /\ n.classobj = c /\ n.loaders = e.loaders \cup {l} \cup b.loaders
            /\ n.constraints = e.constraints \cup b.constraints
        BY Zenon, <2>2, <2>4, <4>1 DEF Merge, With, EitherClass, Tuple, Entry
      <4>3. Members(n) = Members(e) \cup Members(b)
        BY Zenon, <2>2, <4>2 DEF Members
      <4>4. classes' = (classes \ {e, b}) \cup {n} /\ {e, b} \in SUBSET classes
        BY Zenon, <4>1
      <4> HIDE DEF n
      <4>5. ASSUME NEW f \in [Loader -> Class], Agree(f, classes), f[l] = c,
                   \A d \in classes : d.classobj = c => \A a \in Members(d) : f[a] = c
            PROVE  \A a, b2 \in Members(n) : f[a] = f[b2]
        <5>1. \A a \in Members(e) : f[a] = c
          BY Zenon, <2>2, <4>5 DEF Agree
        <5>2. \A a \in Members(b) : f[a] = c
          BY Zenon, <4>1, <4>5
        <5> QED BY Zenon, <4>3, <5>1, <5>2
      <4>6. \A d \in {e, b} : /\ Members(d) \subseteq Members(n)
                              /\ d.classobj = c \/ d.loaders = {}
        BY Zenon, <3>0, <4>1, <4>3
      <4>7. \A k : k \in n.loaders <=> k \in {l} \/ \E d \in {e, b} : k \in d.loaders
        BY Zenon, <4>2
      <4> QED BY Zenon, <1>3, <4>2, <4>4, <4>5, <4>6, <4>7
    <3>2. CASE classes' = (classes \ {e}) \cup {ResolvedBy(e, l, c)}
      <4> DEFINE n == ResolvedBy(e, l, c)
      <4>1. /\ n.classobj = c /\ n.loaders = e.loaders \cup {l}
            /\ n.constraints = e.constraints
        BY Zenon, <2>2 DEF ResolvedBy, Tuple, Entry
      <4>2. Members(n) = Members(e)
        BY Zenon, <2>2, <4>1 DEF Members
      <4>3. classes' = (classes \ {e}) \cup {n}
        BY Zenon, <3>2
      <4> HIDE DEF n
      <4>4. \A f \in [Loader -> Class] : Agree(f, classes) =>
               \A a, b \in Members(n) : f[a] = f[b]
        BY Zenon, <4>2 DEF Agree
      <4> QED BY Zenon, <1>3, <2>2, <3>0, <4>1, <4>2, <4>3, <4>4
    <3> QED BY Zenon, <3>0, <3>1, <3>2 DEF Resolved
  <2> QED BY Zenon, <2>3, <2>4
<1>5. CASE \E e \in classes : e.classobj = c /\ classes' = (classes \ {e}) \cup {With(e, l)}
  <2>1. PICK e \in classes : e.classobj = c /\ classes' = (classes \ {e}) \cup {With(e, l)}
    BY Zenon, <1>5
  <2> DEFINE n == With(e, l)
  <2>2. /\ n.classobj = c /\ n.loaders = e.loaders \cup {l} /\ n.constraints = e.constraints
    BY Zenon, <2>1 DEF With, Tuple
  <2>3. Members(n) = Members(e) \cup {l}
    BY Zenon, <2>2 DEF Members
  <2>4. classes' = (classes \ {e}) \cup {n} /\ {e} \in SUBSET classes
    BY Zenon, <2>1
  <2> HIDE DEF n
  <2>5. ASSUME NEW f \in [Loader -> Class], Agree(f, classes), f[l] = c,
               \A d \in classes : d.classobj = c => \A a \in Members(d) : f[a] = c
        PROVE  \A a, b \in Members(n) : f[a] = f[b]
    BY Zenon, <2>1, <2>3, <2>5
  <2>6. \A d \in {e} : /\ Members(d) \subseteq Members(n)
                       /\ d.classobj = c \/ d.loaders = {}
    BY Zenon, <2>1, <2>3
  <2>7. \A k : k \in n.loaders <=> k \in {l} \/ \E d \in {e} : k \in d.loaders
    BY Zenon, <2>2
  <2> QED BY Zenon, <1>3, <2>2, <2>4, <2>5, <2>6, <2>7
<1>6. CASE classes' = classes \cup {Tuple(c, {l}, {})}
  <2> DEFINE n == Tuple(c, {l}, {})
  <2>1. n.classobj = c /\ n.loaders = {l} /\ Members(n) = {l}
    BY Zenon DEF Tuple, Members
  <2> HIDE DEF n
  <2>2. Good((classes \ {}) \cup {n})
    BY Zenon, <1>3, <2>1
  <2>3. classes' = (classes \ {}) \cup {n}
    BY Zenon, <1>6 DEF n
  <2> QED BY Zenon, <2>2, <2>3
<1> QED BY Zenon, <1>4, <1>5, <1>6 DEF StoreNew, l, c

\* An accepted constraint leaves the resolutions alone.
LEMMA ConstrainedRes ==
  ASSUME Sound(classes), ConInv, NEW a \in Loader, NEW b \in Loader, a # b, Constrained(a, b)
  PROVE  /\ Res(classes') = Res(classes)
         /\ Covers(classes', accepted \cup {{a, b}}) /\ Forced(classes', accepted \cup {{a, b}})
<1> DEFINE add == {{a, b}}
           Good(E) == /\ Res(E) = Res(classes)
                      /\ Covers(E, accepted \cup add) /\ Forced(E, accepted \cup add)
<1> SUFFICES Good(classes')
  BY Zenon
<1>0. \A f : Agree(f, classes) => \A e \in classes : \A k, m \in Members(e) : f[k] = f[m]
  BY Zenon DEF Agree
<1>1. ASSUME NEW old \in SUBSET classes, NEW n,
             \A e \in old : /\ Members(e) \subseteq Members(n)
                            /\ e.classobj = n.classobj \/ e.loaders = {},
             \A k : k \in n.loaders <=> \E e \in old : k \in e.loaders,
             a \in Members(n), b \in Members(n),
             \A f \in [Loader -> Class] : Agree(f, classes) /\ f[a] = f[b] =>
               \A k, m \in Members(n) : f[k] = f[m]
      PROVE  Good((classes \ old) \cup {n})
  <2> DEFINE E == (classes \ old) \cup {n}
             L == {}
  <2>1. \A k : k \in n.loaders <=> k \in L \/ \E e \in old : k \in e.loaders
    BY Zenon, <1>1
  <2>2. \A s \in add : s \subseteq Members(n)
    BY Zenon, <1>1
  <2>3. ASSUME NEW f \in [Loader -> Class], Agree(f, classes),
               Abstract!Satisfies(f, Res(classes) \cup (L \X {n.classobj}), accepted \cup add)
        PROVE  \A k, m \in Members(n) : f[k] = f[m]
    <3>1. f[a] = f[b]
      BY ZenonT(60), <2>3 DEF Abstract!Satisfies
    <3> QED BY Zenon, <1>1, <2>3, <3>1
  <2>4. L \X {n.classobj} = {}
    BY Zenon
  <2>5. \A f \in [Loader -> Class] :
           /\ Agree(f, classes)
           /\ Abstract!Satisfies(f, Res(classes) \cup (L \X {n.classobj}), accepted \cup add)
           => \A k, m \in Members(n) : f[k] = f[m]
    BY Zenon, <2>3
  <2>7. \A e \in old : /\ Members(e) \subseteq Members(n)
                       /\ e.classobj = n.classobj \/ e.loaders = {}
    BY Zenon, <1>1
  <2> HIDE DEF L, add, Good
  <2>6. /\ Res(E) = Res(classes) \cup (L \X {n.classobj})
        /\ Covers(E, accepted \cup add) /\ Forced(E, accepted \cup add)
    <3>1. Replaces(old, n, L, add)
      BY Zenon, <2>1, <2>2, <2>5, <2>7 DEF Replaces
    <3> QED BY Zenon, <3>1, Replace
  <2> QED BY SMTT(30), <2>4, <2>6 DEF Good
<1> HIDE DEF Good
<1>2. CASE \E x \in EntriesOf(a), y \in EntriesOf(b) :
              /\ x = y \/ Mergeable(x, y)
              /\ classes' = IF x = y THEN classes ELSE (classes \ {x, y}) \cup {Merge(x, y)}
  <2>1. PICK x \in EntriesOf(a), y \in EntriesOf(b) :
              /\ x = y \/ Mergeable(x, y)
              /\ classes' = IF x = y THEN classes ELSE (classes \ {x, y}) \cup {Merge(x, y)}
    BY Zenon, <1>2
  <2>2. /\ x \in classes /\ y \in classes /\ x \in Entry /\ y \in Entry
        /\ a \in Members(x) /\ b \in Members(y)
    BY Zenon DEF EntriesOf, Sound
  <2>3. CASE x = y
    <3>1. Good((classes \ {x}) \cup {x})
      <4>1. \A f \in [Loader -> Class] : Agree(f, classes) /\ f[a] = f[b] =>
               \A k, m \in Members(x) : f[k] = f[m]
        BY Zenon, <1>0, <2>2
      <4>2. {x} \in SUBSET classes /\ a \in Members(x) /\ b \in Members(x)
        BY Zenon, <2>2, <2>3
      <4> QED BY Zenon, <1>1, <4>1, <4>2
    <3>2. classes' = (classes \ {x}) \cup {x}
      BY Zenon, <2>1, <2>2, <2>3
    <3> QED BY Zenon, <3>1, <3>2
  <2>4. CASE x # y
    <3> DEFINE n == Merge(x, y)
    <3>1. /\ n.classobj = IF x.classobj = NULL THEN y.classobj ELSE x.classobj
          /\ n.loaders = x.loaders \cup y.loaders
          /\ n.constraints = x.constraints \cup y.constraints
      BY Zenon, <2>2 DEF Merge, EitherClass, Tuple, Entry
    <3>2. Members(n) = Members(x) \cup Members(y)
      BY Zenon, <3>1 DEF Members
    <3>3. classes' = (classes \ {x, y}) \cup {n} /\ {x, y} \in SUBSET classes
      BY Zenon, <2>1, <2>2, <2>4
    <3> HIDE DEF n
    <3>4. x.classobj = NULL \/ y.classobj = NULL
      BY Zenon, <2>1, <2>2, <2>4 DEF Sound, Mergeable
    <3>5. \A d \in {x, y} : Members(d) \subseteq Members(n)
      BY Zenon, <3>2
    <3>6. \A d \in {x, y} : d.classobj = n.classobj \/ d.loaders = {}
      BY Zenon, <2>2, <3>1, <3>4 DEF Sound
    <3>7. \A k : k \in n.loaders <=> \E d \in {x, y} : k \in d.loaders
      BY Zenon, <3>1
    <3>8. ASSUME NEW f \in [Loader -> Class], Agree(f, classes), f[a] = f[b]
          PROVE  \A k, m \in Members(n) : f[k] = f[m]
      <4>1. \A k \in Members(x) : f[k] = f[a]
        BY Zenon, <1>0, <2>2, <3>8
      <4>2. \A k \in Members(y) : f[k] = f[a]
        BY Zenon, <1>0, <2>2, <3>8
      <4> QED BY Zenon, <3>2, <4>1, <4>2
    <3>9. a \in Members(n) /\ b \in Members(n)
      BY Zenon, <2>2, <3>2
    <3> QED BY Zenon, <1>1, <3>3, <3>5, <3>6, <3>7, <3>8, <3>9
  <2> QED BY Zenon, <2>3, <2>4
<1>3. CASE \E x \in EntriesOf(a) \cup EntriesOf(b), l \in {a, b} :
              /\ EntriesOf(l) = {}
              /\ classes' = (classes \ {x}) \cup {ConstrainedTo(x, l)}
  <2>1. PICK x \in EntriesOf(a) \cup EntriesOf(b), l \in {a, b} :
              /\ EntriesOf(l) = {}
              /\ classes' = (classes \ {x}) \cup {ConstrainedTo(x, l)}
    BY Zenon, <1>3
  <2>2. PICK k \in {a, b} : k # l /\ k \in Members(x)
    BY Zenon, <2>1 DEF EntriesOf
  <2>3. x \in classes /\ x \in Entry /\ {a, b} = {k, l}
    BY Zenon, <2>1, <2>2 DEF EntriesOf, Sound
  <2> DEFINE n == ConstrainedTo(x, l)
  <2>4. /\ n.classobj = x.classobj /\ n.loaders = x.loaders
        /\ n.constraints = x.constraints \cup {l}
    BY Zenon, <2>3 DEF ConstrainedTo, Tuple, Entry
  <2>5. Members(n) = Members(x) \cup {l}
    BY Zenon, <2>4 DEF Members
  <2>6. classes' = (classes \ {x}) \cup {n} /\ {x} \in SUBSET classes
    BY Zenon, <2>1, <2>3
  <2> HIDE DEF n
  <2>7. /\ \A d \in {x} : Members(d) \subseteq Members(n)
        /\ \A d \in {x} : d.classobj = n.classobj
        /\ \A m : m \in n.loaders <=> \E d \in {x} : m \in d.loaders
    BY Zenon, <2>4, <2>5
  <2>8. ASSUME NEW f \in [Loader -> Class], Agree(f, classes), f[a] = f[b]
        PROVE  \A m, p \in Members(n) : f[m] = f[p]
    <3>1. \A m \in Members(x) : f[m] = f[k]
      BY Zenon, <1>0, <2>2, <2>3, <2>8
    <3>2. f[l] = f[k]
      BY Zenon, <2>2, <2>8
    <3> QED BY Zenon, <2>5, <3>1, <3>2
  <2>9. a \in Members(n) /\ b \in Members(n)
    BY Zenon, <2>2, <2>3, <2>5
  <2> QED BY Zenon, <1>1, <2>6, <2>7, <2>8, <2>9
<1>4. CASE classes' = classes \cup {Tuple(NULL, {}, {a, b})}
  <2> DEFINE n == Tuple(NULL, {}, {a, b})
  <2>1. n.loaders = {} /\ Members(n) = {a, b}
    BY Zenon DEF Tuple, Members
  <2> HIDE DEF n
  <2>2. \A f \in [Loader -> Class] : f[a] = f[b] => \A k, m \in Members(n) : f[k] = f[m]
    BY Zenon, <2>1
  <2>3. Good((classes \ {}) \cup {n})
    BY Zenon, <1>1, <2>1, <2>2
  <2>4. classes' = (classes \ {}) \cup {n}
    BY Zenon, <1>4 DEF n
  <2> QED BY Zenon, <2>3, <2>4
<1> QED BY Zenon, <1>2, <1>3, <1>4 DEF Constrained

\* The abstract steps, under the refinement mapping.
LEMMA AbstractSteps ==
  ASSUME NEW t \in Thread
  PROVE  /\ /\ UNCHANGED <<result, accepted>> /\ Res(classes') = Res(classes)
            => UNCHANGED Abstract!absVars
         /\ /\ result' = [result EXCEPT ![t] = Exception]
            /\ Res(classes') = Res(classes) /\ UNCHANGED accepted
            => Abstract!AbsNext
         /\ \A l \in Loader, c \in Class :
              /\ result' = [result EXCEPT ![t] = <<l, c>>] /\ <<l, c>> \in Res(classes)
              /\ Res(classes') = Res(classes) /\ UNCHANGED accepted
              => Abstract!AbsNext
         /\ \A l \in Loader, c \in Class :
              /\ result' = [result EXCEPT ![t] = <<l, c>>]
              /\ \A d \in Class : <<l, d>> \notin Res(classes)
              /\ Res(classes') = Res(classes) \cup {<<l, c>>} /\ UNCHANGED accepted
              /\ Abstract!Possible(Res(classes'), accepted)
              => Abstract!AbsNext
         /\ \A l \in Loader, c \in Class :
              /\ result' = [result EXCEPT ![t] = LinkageError]
              /\ Res(classes') = Res(classes) /\ UNCHANGED accepted
              /\ ~Abstract!Possible(Res(classes) \cup {<<l, c>>}, accepted)
              => Abstract!AbsNext
         /\ \A a, b \in Loader :
              /\ result' = [result EXCEPT ![t] = None]
              /\ Res(classes') = Res(classes) /\ accepted' = accepted \cup {{a, b}}
              /\ Abstract!Possible(Res(classes), accepted')
              => Abstract!AbsNext
         /\ \A a, b \in Loader :
              /\ result' = [result EXCEPT ![t] = LinkageError]
              /\ Res(classes') = Res(classes) /\ UNCHANGED accepted
              /\ ~Abstract!Possible(Res(classes), accepted \cup {{a, b}})
              => Abstract!AbsNext
<1>1. /\ UNCHANGED <<result, accepted>> /\ Res(classes') = Res(classes)
      => UNCHANGED Abstract!absVars
  BY Zenon DEF Abstract!absVars, Res
<1>2. /\ result' = [result EXCEPT ![t] = Exception]
      /\ Res(classes') = Res(classes) /\ UNCHANGED accepted
      => Abstract!AbsNext
  BY Zenon DEF Abstract!AbsNext, Abstract!NotFound, Abstract!Tell, Res, Exception, Abstract!Exception
<1>3. ASSUME NEW l \in Loader, NEW c \in Class,
             result' = [result EXCEPT ![t] = <<l, c>>], <<l, c>> \in Res(classes),
             Res(classes') = Res(classes), UNCHANGED accepted
      PROVE  Abstract!AbsNext
  <2>1. Abstract!Find(t, l, c)
    BY Zenon, <1>3 DEF Abstract!Find, Abstract!Tell, Res
  <2> QED BY Zenon, <2>1 DEF Abstract!AbsNext
<1>4. ASSUME NEW l \in Loader, NEW c \in Class,
             result' = [result EXCEPT ![t] = <<l, c>>],
             \A d \in Class : <<l, d>> \notin Res(classes),
             Res(classes') = Res(classes) \cup {<<l, c>>}, UNCHANGED accepted,
             Abstract!Possible(Res(classes'), accepted)
      PROVE  Abstract!AbsNext
  <2>1. Abstract!Resolve(t, l, c)
    BY Zenon, <1>4 DEF Abstract!Resolve, Abstract!Tell, Res
  <2> QED BY Zenon, <2>1 DEF Abstract!AbsNext
<1>5. ASSUME NEW l \in Loader, NEW c \in Class,
             result' = [result EXCEPT ![t] = LinkageError],
             Res(classes') = Res(classes), UNCHANGED accepted,
             ~Abstract!Possible(Res(classes) \cup {<<l, c>>}, accepted)
      PROVE  Abstract!AbsNext
  <2>1. Abstract!RefuseResolve(t, l, c)
    BY Zenon, <1>5 DEF Abstract!RefuseResolve, Abstract!Tell, Res, LinkageError, Abstract!LinkageError
  <2> QED BY Zenon, <2>1 DEF Abstract!AbsNext
<1>6. ASSUME NEW a \in Loader, NEW b \in Loader,
             result' = [result EXCEPT ![t] = None],
             Res(classes') = Res(classes), accepted' = accepted \cup {{a, b}},
             Abstract!Possible(Res(classes), accepted')
      PROVE  Abstract!AbsNext
  <2>1. Abstract!Constrain(t, a, b)
    BY Zenon, <1>6 DEF Abstract!Constrain, Abstract!Tell, Res, None, Abstract!None
  <2> QED BY Zenon, <2>1 DEF Abstract!AbsNext
<1>7. ASSUME NEW a \in Loader, NEW b \in Loader,
             result' = [result EXCEPT ![t] = LinkageError],
             Res(classes') = Res(classes), UNCHANGED accepted,
             ~Abstract!Possible(Res(classes), accepted \cup {{a, b}})
      PROVE  Abstract!AbsNext
  <2>1. Abstract!RefuseConstrain(t, a, b)
    BY Zenon, <1>7 DEF Abstract!RefuseConstrain, Abstract!Tell, Res, LinkageError, Abstract!LinkageError
  <2> QED BY Zenon, <2>1 DEF Abstract!AbsNext
<1> QED BY Zenon, <1>1, <1>2, <1>3, <1>4, <1>5, <1>6, <1>7

\* A refused store would contradict what was resolved and accepted before.
LEMMA RefusedImpossible ==
  ASSUME Sound(classes), ConInv, NEW e \in classes, NEW l \in Members(e), NEW c \in Class,
         Clash(e, c)
  PROVE  ~Abstract!Possible(Res(classes) \cup {<<l, c>>}, accepted)
<1> SUFFICES ASSUME NEW f \in [Loader -> Class],
                    Abstract!Satisfies(f, Res(classes) \cup {<<l, c>>}, accepted)
             PROVE  FALSE
  BY SMTT(30) DEF Abstract!Possible
<1>1. Abstract!Satisfies(f, Res(classes), accepted)
  BY Zenon, SatisfiesLess
<1>2. Agree(f, classes)
  BY Zenon, <1>1 DEF ConInv, Forced
<1>3. e.classobj # NULL /\ e.classobj # c
  BY Zenon DEF Clash
<1>4. f[l] = e.classobj
  BY Zenon, <1>1, <1>2, <1>3, EntryClass
<1>5. f[l] = c
  <2>1. \A p \in Res(classes) \cup {<<l, c>>} : f[p[1]] = p[2]
    BY Zenon DEF Abstract!Satisfies
  <2>2. <<l, c>> \in Res(classes) \cup {<<l, c>>} /\ l \in Loader
    BY Zenon DEF Sound, Members, Entry
  <2> QED BY Zenon, <2>1, <2>2
<1> QED BY Zenon, <1>3, <1>4, <1>5

\* So would a refused constraint.
LEMMA UnmergeableImpossible ==
  ASSUME Sound(classes), ConInv, NEW x \in classes, NEW y \in classes, ~Mergeable(x, y),
         NEW a \in Members(x), NEW b \in Members(y)
  PROVE  ~Abstract!Possible(Res(classes), accepted \cup {{a, b}})
<1> SUFFICES ASSUME NEW f \in [Loader -> Class],
                    Abstract!Satisfies(f, Res(classes), accepted \cup {{a, b}})
             PROVE  FALSE
  BY Zenon DEF Abstract!Possible
<1>1. Abstract!Satisfies(f, Res(classes), accepted)
  BY SatisfiesLess
<1>2. Agree(f, classes)
  BY Zenon, <1>1 DEF ConInv, Forced
<1>3. x.classobj # NULL /\ y.classobj # NULL /\ x.classobj # y.classobj
  BY Zenon DEF Mergeable
<1>4. f[a] = x.classobj
  BY Zenon, <1>1, <1>2, <1>3, EntryClass
<1>5. f[b] = y.classobj
  BY Zenon, <1>1, <1>2, <1>3, EntryClass
<1>6. f[a] = f[b]
  <2>1. \A s \in accepted \cup {{a, b}} : \A k, m \in s : f[k] = f[m]
    BY Zenon DEF Abstract!Satisfies
  <2>2. {a, b} \in accepted \cup {{a, b}} /\ a \in Loader /\ b \in Loader
    BY Zenon DEF Sound, Members, Entry
  <2> QED BY Zenon, <2>1, <2>2
<1> QED BY Zenon, <1>3, <1>4, <1>5, <1>6

AbsStep == Abstract!AbsNext \/ UNCHANGED Abstract!absVars

\* A step that leaves the cache alone is a stutter, a Find or a NotFound.
LEMMA QuietRefines ==
  ASSUME IInv, ConInv, NEW t \in Thread, UNCHANGED <<classes, accepted>>,
         \/ UNCHANGED result
         \/ result' = [result EXCEPT ![t] = Exception]
         \/ \E l \in Loader : \E c \in Lookup(l) : result' = [result EXCEPT ![t] = <<l, c>>]
  PROVE  ConInv' /\ AbsStep
<1>1. Res(classes') = Res(classes)
  BY Zenon
<1>2. ConInv'
  BY Zenon DEF ConInv, Covers, Forced, Agree, Res
<1>3. ASSUME NEW l \in Loader, NEW c \in Lookup(l), result' = [result EXCEPT ![t] = <<l, c>>]
      PROVE  AbsStep
  <2>1. c \in Class /\ \E e \in classes : l \in e.loaders /\ e.classobj = c
    BY Zenon, LookupFinds
  <2>2. <<l, c>> \in Res(classes)
    BY Zenon, <2>1, ResPairs
  <2> QED BY Zenon, <1>1, <1>3, <2>1, <2>2, AbstractSteps DEF AbsStep
<1> QED BY Zenon, <1>1, <1>2, <1>3, AbstractSteps DEF AbsStep

\* classcache_store implements Find, Resolve or RefuseResolve.
LEMMA StoreRefines ==
  ASSUME IInv, Typed, ConInv, NEW t \in Thread, store(t)
  PROVE  ConInv' /\ AbsStep
<1>1. /\ ldr[t] \in Loader /\ cls[t] \in Class /\ pc[t] \in Storing
      /\ Sound(classes) /\ UNCHANGED <<classloader, accepted>>
  BY Zenon DEF store, IInv, WorkInv, Storing
<1>2. CASE StoreOld(t, ldr[t])
  BY Zenon, <1>1, <1>2, QuietRefines DEF StoreOld
<1>3. CASE StoreNew(t, ldr[t], cls[t])
  <2>1. /\ Res(classes') = Res(classes) \cup {<<ldr[t], cls[t]>>}
        /\ Covers(classes', accepted) /\ Forced(classes', accepted)
    BY Zenon, <1>1, <1>3, StoreNewRes
  <2>2. ConInv'
    BY Zenon, <1>1, <2>1 DEF ConInv, Covers, Forced, Agree, Res
  <2>3. Abstract!Possible(Res(classes'), accepted)
    <3>1. Sound(classes')
      BY Zenon, <1>1, <1>3, StoreNewSound
    <3>2. accepted \in SUBSET SUBSET Loader
      BY Zenon DEF Typed
    <3> QED BY Zenon, <2>1, <3>1, <3>2, Consistent
  <2>4. \A d \in Class : <<ldr[t], d>> \notin Res(classes)
    <3> SUFFICES ASSUME NEW d \in Class, <<ldr[t], d>> \in Res(classes)
                 PROVE  FALSE
      BY Zenon
    <3>1. PICK e \in classes : \E l \in e.loaders : <<ldr[t], d>> = <<l, e.classobj>>
      BY Zenon, ResPairs
    <3>2. ldr[t] \in e.loaders
      BY Zenon, <3>1
    <3> QED BY Zenon, <1>3, <3>2, NotFound DEF StoreNew
  <2>5. result' = [result EXCEPT ![t] = <<ldr[t], cls[t]>>]
    BY Zenon, <1>3 DEF StoreNew
  <2>6. Abstract!AbsNext
    BY Zenon, <1>1, <2>1, <2>3, <2>4, <2>5, AbstractSteps
  <2> QED BY Zenon, <2>2, <2>6 DEF AbsStep
<1>4. CASE StoreRefused(t, ldr[t], cls[t])
  <2>1. PICK e \in classes : ldr[t] \in e.constraints /\ Clash(e, cls[t])
    BY Zenon, <1>4 DEF StoreRefused
  <2>2. ldr[t] \in Members(e)
    BY Zenon, <2>1 DEF Members
  <2>3. ~Abstract!Possible(Res(classes) \cup {<<ldr[t], cls[t]>>}, accepted)
    BY Zenon, <1>1, <2>1, <2>2, RefusedImpossible
  <2>4. UNCHANGED classes /\ result' = [result EXCEPT ![t] = LinkageError]
    BY Zenon, <1>4 DEF StoreRefused
  <2>5. Abstract!AbsNext
    BY Zenon, <1>1, <2>3, <2>4, AbstractSteps
  <2>6. ConInv'
    BY Zenon, <1>1, <2>4 DEF ConInv, Covers, Forced, Agree, Res
  <2> QED BY Zenon, <2>5, <2>6 DEF AbsStep
<1> QED BY Zenon, <1>2, <1>3, <1>4 DEF store

\* classcache_add_constraint implements Constrain or RefuseConstrain.
LEMMA ConstraintRefines ==
  ASSUME IInv, Typed, ConInv, NEW t \in Thread, NEW a \in Loader, NEW b \in Loader,
         classcache_add_constraint(t, a, b)
  PROVE  ConInv' /\ AbsStep
<1>1. a # b /\ Sound(classes) /\ UNCHANGED classloader
  BY Zenon DEF classcache_add_constraint, IInv
<1>2. CASE /\ Constrained(a, b) /\ accepted' = accepted \cup {{a, b}}
           /\ result' = [result EXCEPT ![t] = None]
  <2>1. /\ Res(classes') = Res(classes)
        /\ Covers(classes', accepted') /\ Forced(classes', accepted')
    BY SMTT(30), <1>1, <1>2, ConstrainedRes
  <2>2. ConInv'
    BY Zenon, <2>1 DEF ConInv, Covers, Forced, Agree, Res
  <2>3. Abstract!Possible(Res(classes'), accepted')
    <3>1. Sound(classes')
      BY Zenon, <1>1, <1>2, ConstrainedSound
    <3>2. accepted' \in SUBSET SUBSET Loader
      BY Zenon, <1>2 DEF Typed
    <3> QED BY Zenon, <2>1, <3>1, <3>2, Consistent
  <2>4. Abstract!AbsNext
    BY Zenon, <1>2, <2>1, <2>3, AbstractSteps
  <2> QED BY Zenon, <2>2, <2>4 DEF AbsStep
<1>3. CASE /\ \E x \in EntriesOf(a), y \in EntriesOf(b) : x # y /\ ~Mergeable(x, y)
           /\ result' = [result EXCEPT ![t] = LinkageError]
           /\ UNCHANGED <<classes, accepted>>
  <2>1. PICK x \in EntriesOf(a), y \in EntriesOf(b) : ~Mergeable(x, y)
    BY Zenon, <1>3
  <2>2. x \in classes /\ y \in classes /\ a \in Members(x) /\ b \in Members(y)
    BY Zenon DEF EntriesOf
  <2>3. ~Abstract!Possible(Res(classes), accepted \cup {{a, b}})
    BY Zenon, <1>1, <2>1, <2>2, UnmergeableImpossible
  <2>4. Abstract!AbsNext
    BY Zenon, <1>3, <2>3, AbstractSteps
  <2>5. ConInv'
    BY Zenon, <1>3 DEF ConInv, Covers, Forced, Agree, Res
  <2> QED BY Zenon, <2>4, <2>5 DEF AbsStep
<1> QED BY Zenon, <1>2, <1>3 DEF classcache_add_constraint

\* Every step implements a step of the loading constraints, or a stutter.
LEMMA NextRefines ==
  ASSUME IInv, Typed, ConInv, [Next]_vars
  PROVE  ConInv' /\ AbsStep
<1>1. CASE UNCHANGED vars
  <2>1. UNCHANGED <<classes, accepted, result>>
    BY Zenon, <1>1 DEF vars
  <2>2. ConInv'
    BY Zenon, <2>1 DEF ConInv, Covers, Forced, Agree, Res
  <2>3. UNCHANGED Abstract!absVars
    BY Zenon, <2>1 DEF Abstract!absVars
  <2> QED BY Zenon, <2>2, <2>3 DEF AbsStep
<1>2. CASE Next
  <2> PICK t \in Thread :
        \/ \E a, b \in Loader : classcache_add_constraint(t, a, b)
        \/ \E l \in Loader : load_lookup(t, l) \/ class_define(t, l)
        \/ load_class_from_classloader(t) \/ load_class_bootstrap(t)
        \/ link_class_intern(t) \/ store(t)
    BY Zenon, <1>2 DEF Next
  <2>1. CASE \E a, b \in Loader : classcache_add_constraint(t, a, b)
    BY Zenon, <2>1, ConstraintRefines
  <2>2. ASSUME NEW l \in Loader, load_lookup(t, l)
        PROVE  ConInv' /\ AbsStep
    BY Zenon, <2>2, QuietRefines DEF load_lookup, Return
  <2>3. ASSUME NEW l \in Loader, class_define(t, l)
        PROVE  ConInv' /\ AbsStep
    BY Zenon, <2>3, QuietRefines DEF class_define, Return
  <2>4. CASE load_class_from_classloader(t)
    BY Zenon, <2>4, QuietRefines DEF load_class_from_classloader, Return
  <2>5. CASE load_class_bootstrap(t)
    BY Zenon, <2>5, QuietRefines DEF load_class_bootstrap, Return
  <2>6. CASE link_class_intern(t)
    BY Zenon, <2>6, QuietRefines DEF link_class_intern
  <2>7. CASE store(t)
    BY Zenon, <2>7, StoreRefines
  <2> QED BY Zenon, <2>1, <2>2, <2>3, <2>4, <2>5, <2>6, <2>7
<1> QED BY Zenon, <1>1, <1>2

\* classcache_store and classcache_add_constraint refuse exactly what no resolution of
\* the name could satisfy, and a loader resolves it to one class for ever.
THEOREM CacheRefines == Spec => AbstractSpec
<1>1. Init => ConInv /\ Abstract!AbsInit
  BY Zenon DEF Init, ConInv, Covers, Forced, Agree, Abstract!AbsInit, None, Abstract!None
<1>2. IInv /\ Typed /\ ConInv /\ [Next]_vars => ConInv' /\ [Abstract!AbsNext]_(Abstract!absVars)
  BY Zenon, NextRefines DEF AbsStep
<1> QED BY <1>1, <1>2, Invariance, TypedAlways, PTL DEF Spec, AbstractSpec, Abstract!AbsSpec

=============================================================================
