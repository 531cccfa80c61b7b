------------------------------ MODULE ClassCache ------------------------------
(***************************************************************************)
(* The loaded class cache (vm/classcache.cpp), for one class name, and the *)
(* ways classes get into it: load_class_from_classloader and               *)
(* load_class_bootstrap (vm/loader.cpp), class_define (vm/class.cpp) and   *)
(* the linker.  Every operation on the cache is one step, under its mutex. *)
(* Names do not interact; the hash table that finds the entries of a name  *)
(* is left out.  A list of loaders or of entries is a set: the searches    *)
(* stop at the first match, and EntriesApart says there is only one.       *)
(*                                                                         *)
(* A Java class loader is arbitrary: it returns any class of that name     *)
(* that has been given to Java code, and defines classes as it likes.      *)
(***************************************************************************)
EXTENDS Naturals

CONSTANTS
  Thread, Loader,
  Boot,         \* the bootstrap loader
  Class,        \* classinfo structures
  NULL

ASSUME CacheAssumption ==
  Boot \in Loader /\ NULL \notin Class /\ NULL \notin Loader /\ Class # {}

VARIABLES
  classes,      \* the classcache_class_entry tuples of the name
  classloader,  \* the defining loader of a class; NULL: not created yet
  freed,        \* the classes given to class_free
  pc, ldr, cls, \* what a thread does, with which initiating loader and class
  result,       \* what the last operation of a thread returned
  accepted      \* history: the constraints add_constraint has accepted

work == <<pc, ldr, cls>>
vars == <<classes, classloader, freed, work, result, accepted>>

Entry == [classobj : Class \cup {NULL}, loaders : SUBSET Loader, constraints : SUBSET Loader]

\* An operation returns a pair of loader and class, or one of these.
None == <<"none">>
LinkageError == <<"LinkageError">>
Exception == <<"Exception">>
Results == (Loader \X Class) \cup {None, LinkageError, Exception}

Init ==
  /\ classes = {}
  /\ classloader = [c \in Class |-> NULL]
  /\ freed = {}
  /\ pc = [t \in Thread |-> "idle"]
  /\ ldr = [t \in Thread |-> NULL]
  /\ cls = [t \in Thread |-> NULL]
  /\ result = [t \in Thread |-> None]
  /\ accepted = {}

-----------------------------------------------------------------------------
(* The cache *)

Members(e) == e.loaders \cup e.constraints
Cached == {e.classobj : e \in classes} \ {NULL}

\* classcache_lookup(l): what it may return.
Lookup(l) == {e.classobj : e \in {d \in classes : l \in d.loaders}}

\* classcache_lookup_defined_or_initiated(l).
LookupDefined(l) == Lookup(l) \cup {c \in Cached : classloader[c] = l}

\* A tuple (Cx, IL, CL).
Tuple(cx, il, cl) == [classobj |-> cx, loaders |-> il, constraints |-> cl]

EitherClass(a, b) == IF a.classobj = NULL THEN b.classobj ELSE a.classobj

\* Fault: the constrained loaders of the second entry are lost.
Merge_drop(a, b) == Tuple(EitherClass(a, b), a.loaders \cup b.loaders, a.constraints)

\* Fault: the initiating loaders of the second entry are lost.
Merge_first(a, b) == Tuple(EitherClass(a, b), a.loaders, a.constraints \cup b.constraints)

\* classcache_merge_class_entries, with classcache_merge_loaders: the entry that
\* stands for both.
Merge(a, b) ==
  Tuple(EitherClass(a, b), a.loaders \cup b.loaders, a.constraints \cup b.constraints)

\* classcache_new_loader_entry: a loader is recorded as initiating loader, or as
\* constrained; e is resolved to c by loader l.
With(e, l) == Tuple(e.classobj, e.loaders \cup {l}, e.constraints)
ConstrainedTo(e, l) == Tuple(e.classobj, e.loaders, e.constraints \cup {l})
ResolvedBy(e, l, c) == Tuple(c, e.loaders \cup {l}, e.constraints)

\* Entry e, to which the loader is constrained, is resolved to another class.
Clash(e, c) == e.classobj \notin {NULL, c}

\* Fault: the first resolution of an entry does not look for the entry of c.
Resolved_apart(e, l, c) ==
  classes' = (classes \ {e}) \cup {ResolvedBy(e, l, c)}

\* The first resolution of entry e, to which l is constrained; an entry of c is
\* merged with it.
Resolved(e, l, c) ==
  \/ \E b \in classes :
       /\ b.classobj = c
       /\ classes' = (classes \ {e, b}) \cup {Merge(With(e, l), b)}
  \/ /\ c \notin Cached
     /\ classes' = (classes \ {e}) \cup {ResolvedBy(e, l, c)}

StoreFinds(l) == Lookup(l) # {}

\* classcache_store(l, c, mayfree) returns: the class stored before, c, or an
\* exception.
StoreOld(t, l) ==
  /\ StoreFinds(l)
  /\ \E d \in Lookup(l) : result' = [result EXCEPT ![t] = <<l, d>>]
  /\ UNCHANGED classes

StoreNew(t, l, c) ==
  /\ ~StoreFinds(l)
  /\ \/ \E e \in classes :
          /\ l \in e.constraints
          /\ ~Clash(e, c)
          /\ IF e.classobj # NULL
             THEN classes' = (classes \ {e}) \cup {With(e, l)}
             ELSE Resolved(e, l, c)
     \/ /\ \A e \in classes : l \notin e.constraints
        /\ \/ \E e \in classes :
                /\ e.classobj = c
                /\ classes' = (classes \ {e}) \cup {With(e, l)}
           \/ c \notin Cached /\ classes' = classes \cup {Tuple(c, {l}, {})}
  /\ result' = [result EXCEPT ![t] = <<l, c>>]

StoreRefused(t, l, c) ==
  /\ ~StoreFinds(l)
  /\ \E e \in classes : l \in e.constraints /\ Clash(e, c)
  /\ result' = [result EXCEPT ![t] = LinkageError]
  /\ UNCHANGED classes

\* classcache_find_loader.
EntriesOf(l) == {e \in classes : l \in Members(e)}

Mergeable(a, b) == a.classobj = NULL \/ b.classobj = NULL \/ a.classobj = b.classobj

\* classcache_add_constraint(a, b), for different loaders: merge two entries, add
\* a loader to the only entry, or make a new entry.
Constrained(a, b) ==
  \/ \E x \in EntriesOf(a), y \in EntriesOf(b) :
       /\ x = y \/ Mergeable(x, y)
       /\ classes' = IF x = y THEN classes ELSE (classes \ {x, y}) \cup {Merge(x, y)}
  \/ \E x \in EntriesOf(a) \cup EntriesOf(b), l \in {a, b} :
       /\ EntriesOf(l) = {}
       /\ classes' = (classes \ {x}) \cup {ConstrainedTo(x, l)}
  \/ /\ EntriesOf(a) \cup EntriesOf(b) = {}
     /\ classes' = classes \cup {Tuple(NULL, {}, {a, b})}

classcache_add_constraint(t, a, b) ==
  /\ pc[t] = "idle" /\ a # b
  /\ \/ /\ Constrained(a, b)
        /\ accepted' = accepted \cup {{a, b}}
        /\ result' = [result EXCEPT ![t] = None]
     \/ /\ \E x \in EntriesOf(a), y \in EntriesOf(b) : x # y /\ ~Mergeable(x, y)
        /\ result' = [result EXCEPT ![t] = LinkageError]
        /\ UNCHANGED <<classes, accepted>>
  /\ UNCHANGED <<classloader, freed, work>>

-----------------------------------------------------------------------------
(* Loading, defining and linking classes *)

Doing(t, l, p, c) ==
  /\ pc' = [pc EXCEPT ![t] = p]
  /\ ldr' = [ldr EXCEPT ![t] = l]
  /\ cls' = [cls EXCEPT ![t] = c]

Return(t, r) ==
  /\ Doing(t, NULL, "idle", NULL)
  /\ result' = [result EXCEPT ![t] = r]

\* load_class_from_classloader and load_class_bootstrap look the name up.
load_lookup(t, l) ==
  /\ pc[t] = "idle"
  /\ \/ \E c \in Lookup(l) : Return(t, <<l, c>>)
     \/ /\ Lookup(l) = {}
        /\ Doing(t, l, IF l = Boot THEN "bootstrap" ELSE "java", NULL)
        /\ UNCHANGED result
  /\ UNCHANGED <<classes, classloader, freed, accepted>>

\* The Java method loadClass of the loader returns, or throws.
load_class_from_classloader(t) ==
  /\ pc[t] = "java"
  /\ \/ \E c \in Cached : Doing(t, ldr[t], "load", c) /\ UNCHANGED result
     \/ Return(t, Exception)
  /\ UNCHANGED <<classes, classloader, freed, accepted>>

\* class_create_classinfo: a new class c defined by loader l.
Create(c, l) ==
  /\ classloader[c] = NULL
  /\ classloader' = [classloader EXCEPT ![c] = l]

\* load_class_bootstrap reads the class file, or finds none.
load_class_bootstrap(t) ==
  /\ pc[t] = "bootstrap"
  /\ \/ \E c \in Class :
          Create(c, Boot) /\ Doing(t, Boot, "boot", c) /\ UNCHANGED result
     \/ Return(t, Exception) /\ UNCHANGED classloader
  /\ UNCHANGED <<classes, freed, accepted>>

\* class_define, up to the cache; by then another thread may have defined it too.
class_define(t, l) ==
  /\ pc[t] = "idle" /\ l # Boot
  /\ \/ /\ LookupDefined(l) = {}
        /\ \E c \in Class : Create(c, l) /\ Doing(t, l, "define", c)
        /\ UNCHANGED result
     \/ LookupDefined(l) # {} /\ Return(t, Exception) /\ UNCHANGED classloader
  /\ UNCHANGED <<classes, freed, accepted>>

\* link_class_intern caches the self-reference of a class.
link_class_intern(t) ==
  /\ pc[t] = "idle"
  /\ \E c \in Cached : classloader[c] # Boot /\ Doing(t, classloader[c], "link", c)
  /\ UNCHANGED <<classes, classloader, freed, result, accepted>>

\* Fault: a class returned by a Java class loader may be freed.
MayFree_load == {"boot", "define", "load"}

\* The callers that pass mayfree, and those that free the class of a refused store.
MayFree == {"boot", "define"}
FreesRefused == {"boot", "load"}

\* The callers of classcache_store.
store(t) ==
  /\ pc[t] \in {"load", "boot", "define", "link"}
  /\ \/ /\ StoreOld(t, ldr[t])
        /\ freed' = IF pc[t] \in MayFree /\ cls[t] \notin Lookup(ldr[t])
                    THEN freed \cup {cls[t]} ELSE freed
     \/ StoreNew(t, ldr[t], cls[t]) /\ UNCHANGED freed
     \/ /\ StoreRefused(t, ldr[t], cls[t])
        /\ freed' = IF pc[t] \in FreesRefused THEN freed \cup {cls[t]} ELSE freed
  /\ Doing(t, NULL, "idle", NULL)
  /\ UNCHANGED <<classloader, accepted>>

Next ==
  \E t \in Thread :
    \/ \E a, b \in Loader : classcache_add_constraint(t, a, b)
    \/ \E l \in Loader : load_lookup(t, l) \/ class_define(t, l)
    \/ load_class_from_classloader(t) \/ load_class_bootstrap(t)
    \/ link_class_intern(t) \/ store(t)

Spec == Init /\ [][Next]_vars

-----------------------------------------------------------------------------
(* Properties *)

\* Every variable has its type.
TypeOK ==
  /\ classes \subseteq Entry
  /\ classloader \in [Class -> Loader \cup {NULL}]
  /\ freed \subseteq Class
  /\ pc \in [Thread -> {"idle", "java", "bootstrap", "load", "boot", "define", "link"}]
  /\ ldr \in [Thread -> Loader \cup {NULL}]
  /\ cls \in [Thread -> Class \cup {NULL}]
  /\ result \in [Thread -> Results]
  /\ accepted \subseteq SUBSET Loader

\* The representation the cache documents (classcache.cpp:103): an unresolved
\* entry has no initiating loader, a class has one entry, and a loader is in one.
EntriesApart ==
  /\ \A e \in classes : e.classobj = NULL => e.loaders = {}
  /\ \A d, e \in classes :
       \/ d.classobj # NULL /\ d.classobj = e.classobj
       \/ Members(d) \cap Members(e) # {}
       => d = e

\* A class in the cache is recorded for its defining loader: self-references
\* resolve without loading (linker.cpp:643), and a duplicate definition is seen.
DefinerInitiates ==
  \A e \in classes : e.classobj # NULL => classloader[e.classobj] \in e.loaders

\* A class is freed only while no entry of the cache refers to it, except by a
\* load that is refused.
FreedUncached ==
  [][\A c \in (freed' \ freed) \cap Cached' :
       \E t \in Thread : pc[t] = "load" /\ result'[t] = LinkageError]_vars

\* The cache implements the abstract loading constraints.
Abstract == INSTANCE LoadingConstraints WITH
  resolved <- UNION {e.loaders \X {e.classobj} : e \in classes},
  constrained <- accepted, answer <- result
AbstractSpec == Abstract!AbsSpec
===============================================================================
