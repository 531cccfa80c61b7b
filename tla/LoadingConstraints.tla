-------------------------- MODULE LoadingConstraints --------------------------
(***************************************************************************)
(* What the class cache promises for one class name: a loader resolves it  *)
(* to one class for ever, accepted loading constraints are kept, and a     *)
(* request is refused exactly when no resolution of the name could satisfy *)
(* it together with what was accepted before.                              *)
(***************************************************************************)
CONSTANTS Thread, Loader, Class

VARIABLES
  resolved,      \* the pairs <<l, c>>: loader l has resolved the name to c
  constrained,   \* the sets {a, b}: loaders a and b must agree
  answer         \* what each thread was told last

absVars == <<resolved, constrained, answer>>

\* An answer is a pair of a loader and its class, or one of these.
None == <<"none">>
LinkageError == <<"LinkageError">>
Exception == <<"Exception">>

\* f resolves the name for every loader as far as res and con determine it.
Satisfies(f, res, con) ==
  /\ \A p \in res : f[p[1]] = p[2]
  /\ \A s \in con : \A a, b \in s : f[a] = f[b]

Possible(res, con) == \E f \in [Loader -> Class] : Satisfies(f, res, con)

AbsInit == resolved = {} /\ constrained = {} /\ answer = [t \in Thread |-> None]

Tell(t, a) == answer' = [answer EXCEPT ![t] = a]

Find(t, l, c) ==
  /\ Tell(t, <<l, c>>)
  /\ <<l, c>> \in resolved
  /\ UNCHANGED <<resolved, constrained>>

Resolve(t, l, c) ==
  /\ Tell(t, <<l, c>>)
  /\ resolved' = resolved \cup {<<l, c>>}
  /\ UNCHANGED constrained
  /\ \A d \in Class : <<l, d>> \notin resolved
  /\ Possible(resolved', constrained)

RefuseResolve(t, l, c) ==
  /\ Tell(t, LinkageError)
  /\ UNCHANGED <<resolved, constrained>>
  /\ ~Possible(resolved \cup {<<l, c>>}, constrained)

Constrain(t, a, b) ==
  /\ Tell(t, None)
  /\ constrained' = constrained \cup {{a, b}}
  /\ UNCHANGED resolved
  /\ Possible(resolved, constrained')

RefuseConstrain(t, a, b) ==
  /\ Tell(t, LinkageError)
  /\ UNCHANGED <<resolved, constrained>>
  /\ ~Possible(resolved, constrained \cup {{a, b}})

\* The class is not found, or defined twice.
NotFound(t) == Tell(t, Exception) /\ UNCHANGED <<resolved, constrained>>

AbsNext ==
  \E t \in Thread :
    \/ NotFound(t)
    \/ \E l \in Loader, c \in Class : Find(t, l, c) \/ Resolve(t, l, c) \/ RefuseResolve(t, l, c)
    \/ \E a, b \in Loader : Constrain(t, a, b) \/ RefuseConstrain(t, a, b)

AbsSpec == AbsInit /\ [][AbsNext]_absVars
===============================================================================
