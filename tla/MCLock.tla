------------------------------- MODULE MCLock -------------------------------
(* Instances of Lock for TLC. *)
EXTENDS Lock, Functions, FiniteSets, TLC

\* All objects alike: clients may nest monitors in any order.
AnyOrder == [o \in Object |-> 0]

\* Clients nest monitors in one fixed order and cannot deadlock each other.
FixedOrder == CHOOSE f \in [Object -> 1..Cardinality(Object)] : IsInjective(f)

\* Threads and objects are interchangeable where they all run one program ...
Symmetry == Permutations(Thread) \cup Permutations(Object)

\* ... and otherwise the waiting threads are.
WaiterSymmetry == Permutations(Waiter)
=============================================================================
