---------------------------- MODULE JavaMonitor ----------------------------
(***************************************************************************)
(* What Java promises of object monitors, whatever implements them:        *)
(* a recursive lock per object, a wait set per object, and notify and      *)
(* notifyAll, which only the holder of the monitor may call.  Module Lock  *)
(* is shown to implement this specification.                               *)
(***************************************************************************)
EXTENDS Integers

CONSTANTS Thread, Object, NoObject

VARIABLES
  held,      \* how often each thread holds each monitor
  wait_on,   \* the object whose wait set a thread is in
  depth,     \* how often a waiting thread held the monitor before
  notified   \* whether a waiting thread has been notified

vars == <<held, wait_on, depth, notified>>

\* Nobody but t holds the monitor of o.
FreeFor(t, o) == \A u \in Thread \ {t} : held[u][o] = 0

Init ==
  /\ held = [t \in Thread |-> [o \in Object |-> 0]]
  /\ wait_on = [t \in Thread |-> NoObject]
  /\ depth = [t \in Thread |-> 0]
  /\ notified = [t \in Thread |-> FALSE]

Enter(t, o) ==
  /\ wait_on[t] = NoObject
  /\ FreeFor(t, o)
  /\ held' = [held EXCEPT ![t][o] = @ + 1]
  /\ UNCHANGED <<wait_on, depth, notified>>

Exit(t, o) ==
  /\ wait_on[t] = NoObject
  /\ held[t][o] > 0
  /\ held' = [held EXCEPT ![t][o] = @ - 1]
  /\ UNCHANGED <<wait_on, depth, notified>>

\* Join the wait set and give up the monitor completely.
Wait(t, o) ==
  /\ wait_on[t] = NoObject
  /\ held[t][o] > 0
  /\ wait_on' = [wait_on EXCEPT ![t] = o]
  /\ depth' = [depth EXCEPT ![t] = held[t][o]]
  /\ held' = [held EXCEPT ![t][o] = 0]
  /\ UNCHANGED notified

Unnotified(o) == {u \in Thread : wait_on[u] = o /\ ~notified[u]}

\* Notify one waiter, if there is one that has not been notified yet.
Notify(t, o) ==
  /\ held[t][o] > 0
  /\ \E u \in Unnotified(o) : notified' = [notified EXCEPT ![u] = TRUE]
  /\ UNCHANGED <<held, wait_on, depth>>

NotifyAll(t, o) ==
  /\ held[t][o] > 0
  /\ notified' = [u \in Thread |-> notified[u] \/ u \in Unnotified(o)]
  /\ UNCHANGED <<held, wait_on, depth>>

\* Leave the wait set, for whatever reason, holding the monitor as before.
Resume(t) ==
  /\ wait_on[t] # NoObject
  /\ FreeFor(t, wait_on[t])
  /\ held' = [held EXCEPT ![t][wait_on[t]] = depth[t]]
  /\ wait_on' = [wait_on EXCEPT ![t] = NoObject]
  /\ depth' = [depth EXCEPT ![t] = 0]
  /\ notified' = [notified EXCEPT ![t] = FALSE]

Next == \E t \in Thread :
  \/ \E o \in Object :
       Enter(t, o) \/ Exit(t, o) \/ Wait(t, o) \/ Notify(t, o) \/ NotifyAll(t, o)
  \/ Resume(t)

Spec == Init /\ [][Next]_vars
=============================================================================
