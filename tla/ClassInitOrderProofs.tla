------------------------ MODULE ClassInitOrderProofs ------------------------
(***************************************************************************)
(* Proofs about the order in which classes are initialized: superclasses   *)
(* first (initialize_class_intern), and no access without a check before   *)
(* its class (the code generator and the patchers), for any classes, code, *)
(* programs and threads.                                                   *)
(***************************************************************************)
EXTENDS ClassInitProofs

-----------------------------------------------------------------------------
(* The superclasses of a class *)

\* A set of classes with the superclasses of its classes.
Closed(S) == \A b \in S : super[b] # None => super[b] \in S

\* The least such set with the superclass of c.
Least(c) ==
  IF super[c] = None THEN {}
  ELSE {a \in Class : \A S \in SUBSET Class : Closed(S) /\ super[c] \in S => a \in S}

LEMMA LeastUnfolds ==
  ASSUME NEW c \in Class
  PROVE  Least(c) = IF super[c] = None THEN {} ELSE {super[c]} \cup Least(super[c])
<1>1. CASE super[c] = None
  BY Zenon, <1>1 DEF Least
<1>2. CASE super[c] # None
  <2> DEFINE s == super[c]
  <2>1. s \in Class /\ Least(s) \subseteq Class
    BY Zenon, <1>2, InitAssumption DEF Least
  <2>2. Least(c) = {a \in Class : \A S \in SUBSET Class : Closed(S) /\ s \in S => a \in S}
    BY Zenon, <1>2 DEF Least
  <2>3. \A S \in SUBSET Class : Closed(S) /\ s \in S => Least(s) \subseteq S
    BY Zenon, <2>1 DEF Least, Closed
  <2>4. Closed({s} \cup Least(s))
    <3>1. super[s] # None => super[s] \in Least(s)
      <4>1. super[s] # None => super[s] \in Class
        BY Zenon, <2>1, InitAssumption
      <4> QED BY Zenon, <4>1 DEF Least
    <3>2. ASSUME NEW b \in Least(s), super[b] # None PROVE super[b] \in Least(s)
      <4>1. b \in Class /\ super[b] \in Class /\ super[s] # None
        BY Zenon, <2>1, <3>2, InitAssumption DEF Least
      <4>2. \A S \in SUBSET Class : Closed(S) /\ super[s] \in S => b \in S
        BY Zenon, <4>1 DEF Least
      <4>3. \A S \in SUBSET Class : Closed(S) /\ super[s] \in S => super[b] \in S
        BY Zenon, <3>2, <4>2 DEF Closed
      <4> QED BY Zenon, <4>1, <4>3 DEF Least
    <3> QED BY Zenon, <3>1, <3>2 DEF Closed
  <2> HIDE DEF s
  <2>5. {s} \cup Least(s) \in SUBSET Class /\ s \in {s} \cup Least(s)
    BY Zenon, <2>1
  <2>6. Least(c) \subseteq {s} \cup Least(s)
    BY Zenon, <2>2, <2>4, <2>5
  <2>7. {s} \cup Least(s) \subseteq Least(c)
    BY Zenon, <2>1, <2>2, <2>3
  <2>8. Least(c) = {s} \cup Least(s)
    BY Zenon, <2>6, <2>7
  <2> QED BY Zenon, <1>2, <2>8 DEF s
<1> QED BY Zenon, <1>1, <1>2

\* So the recursive definition of Supers has a solution.
LEMMA SupersUnfolds ==
  ASSUME NEW c \in Class
  PROVE  Supers[c] = IF super[c] = None THEN {} ELSE {super[c]} \cup Supers[super[c]]
<1> DEFINE Eq(f) == f = [a \in Class |-> IF super[a] = None THEN {} ELSE {super[a]} \cup f[super[a]]]
           L == [a \in Class |-> Least(a)]
<1>1. ASSUME NEW a \in Class
      PROVE  L[a] = IF super[a] = None THEN {} ELSE {super[a]} \cup L[super[a]]
  <2>1. super[a] # None => super[a] \in Class /\ L[super[a]] = Least(super[a])
    BY Zenon, InitAssumption
  <2>2. L[a] = Least(a)
    BY Zenon
  <2> HIDE DEF L
  <2> QED BY Zenon, <2>1, <2>2, LeastUnfolds
<1>2. Eq(L)
  BY Zenon, <1>1
<1>3. Eq(CHOOSE f : Eq(f))
  <2> HIDE DEF Eq, L
  <2> QED BY Zenon, <1>2
<1>4. Eq(Supers)
  BY Zenon, <1>3 DEF Supers
<1> QED BY Zenon, <1>4

LEMMA SuperFacts ==
  ASSUME NEW c \in Class, super[c] # None
  PROVE  super[c] \in Class /\ super[c] \in Supers[c] /\ Supers[super[c]] \subseteq Supers[c]
BY Zenon, SupersUnfolds, InitAssumption

-----------------------------------------------------------------------------
(* The inductive invariant *)

\* For a stack s of n frames.  Frames i to j - 1 wait for a superclass each.
Chain(s, i, j) == \A k \in i..j - 1 : s[k].at = "super"

\* An initialization is called for the superclass, or the class of the field,
\* of its caller, ...
Called(s, n, i) ==
  /\ s[i].at = "super" => super[s[i].of] # None
  /\ s[i].at = "super" /\ i # n => s[i + 1].of = super[s[i].of]
  /\ s[i].at = "patch" /\ i # n => s[i + 1].of = Ref[s[i].of]

\* ... the frames that wait for superclasses go up the superclasses, ...
Rises(s, i, j) ==
  i < j /\ Chain(s, i, j) =>
    s[j].of \in Supers[s[i].of] /\ Supers[s[j].of] \subseteq Supers[s[i].of]

\* ... to the active frame or a running <clinit>.
Running(s, n, i) == \E j \in i..n : Chain(s, i, j) /\ s[j].at = "clinit"
Reaches(s, n, i) == s[i].at = "super" => Chain(s, i, n) \/ Running(s, n, i)

Linked(s, n) ==
  \A i \in 1..n : Called(s, n, i) /\ (\A j \in 1..n : Rises(s, i, j)) /\ Reaches(s, n, i)

\* The initialization of frame i ends with an outcome for its class, or with the
\* failure of the <clinit> of a superclass: that <clinit>, or its own, is
\* running, or the superclasses are done and the last of them returned true.
Doing(t, i) ==
  \/ Running(stack[t], Depth(t), i)
  \/ Chain(stack[t], i, Depth(t)) /\ Top(t).at = "super" /\ ret[t]

\* The initialization of a class was begun, and is not given up but for the
\* failure of the <clinit> of a superclass.
Solid(c) ==
  \/ Settled(c) # {}
  \/ \E a \in Supers[c] : a \in Class /\ "ERROR" \in state[a]
  \/ \E t \in Thread : \E i \in 1..Depth(t) :
       stack[t][i].op = "init" /\ stack[t][i].of = c /\ Doing(t, i)

\* What an initialize_class that returned true has done for its caller.
Returned(t) ==
  Depth(t) > 0 /\ ret[t] =>
    /\ Top(t).at = "super" => Solid(super[Top(t).of])
    /\ Top(t).at = "patch" => Solid(Ref[Top(t).of])

\* A class that is done, or whose <clinit> runs, has its superclass begun.
Starts(c) == Settled(c) # {} \/ \E t \in Thread : RunsClinit(t, c)
SupersBegun == \A c \in Class : super[c] # None /\ Starts(c) => Solid(super[c])

\* An access without a check has its class done or begun.
SitesBegun == \A x \in Code :
  /\ code[x] = "plain" => Settled(Ref[x]) # {}
  /\ code[x] = "elided" => Solid(Ref[x])

JInv ==
  /\ \A t \in Thread : Linked(stack[t], Depth(t)) /\ Returned(t)
  /\ SupersBegun /\ SitesBegun

-----------------------------------------------------------------------------
(* Stacks that differ in the last frame *)

Agree(s, r, n) == \A i \in 1..n - 1 : r[i] = s[i]

LEMMA ChainAgrees ==
  ASSUME NEW s, NEW r, NEW n \in Nat \ {0}, Agree(s, r, n), NEW i \in 1..n, NEW j \in 1..n
  PROVE  Chain(r, i, j) <=> Chain(s, i, j)
<1>1. \A k \in i..j - 1 : r[k] = s[k]
  BY DEF Agree
<1> QED BY Zenon, <1>1 DEF Chain

LEMMA LinkedPop ==
  ASSUME NEW s, NEW r, NEW n \in Nat \ {0}, Agree(s, r, n), Linked(s, n)
  PROVE  Linked(r, n - 1)
<1> SUFFICES ASSUME NEW i \in 1..n - 1
             PROVE  /\ Called(r, n - 1, i) /\ Reaches(r, n - 1, i)
                    /\ \A j \in 1..n - 1 : Rises(r, i, j)
  BY Zenon DEF Linked
<1>0. i \in 1..n /\ i # n /\ r[i] = s[i] /\ (i # n - 1 => r[i + 1] = s[i + 1])
  BY DEF Agree
<1>1. Called(r, n - 1, i)
  <2>1. Called(s, n, i)
    BY Zenon, <1>0 DEF Linked
  <2> QED BY Zenon, <1>0, <2>1 DEF Called
<1>2. ASSUME NEW j \in 1..n - 1 PROVE Rises(r, i, j)
  <2>1. j \in 1..n /\ r[j] = s[j]
    BY DEF Agree
  <2>2. Rises(s, i, j) /\ (Chain(r, i, j) <=> Chain(s, i, j))
    BY Zenon, <1>0, <2>1, ChainAgrees DEF Linked
  <2> QED BY Zenon, <1>0, <2>1, <2>2 DEF Rises
<1>3. ASSUME r[i].at = "super"
      PROVE  Chain(r, i, n - 1) \/ Running(r, n - 1, i)
  <2>1. CASE Chain(s, i, n)
    <3>1. Chain(s, i, n - 1) /\ n - 1 \in 1..n
      BY <2>1 DEF Chain
    <3> QED BY Zenon, <1>0, <3>1, ChainAgrees
  <2>2. ASSUME NEW j \in i..n, j # n, Chain(s, i, j), s[j].at = "clinit"
        PROVE  Running(r, n - 1, i)
    <3>1. j \in 1..n /\ j \in i..n - 1 /\ r[j] = s[j]
      BY <2>2 DEF Agree
    <3> QED BY Zenon, <1>0, <2>2, <3>1, ChainAgrees DEF Running
  <2>3. Chain(s, i, n) \/ Running(s, n, i)
    BY Zenon, <1>0, <1>3 DEF Linked, Reaches
  <2> QED BY Zenon, <2>1, <2>2, <2>3 DEF Running
<1> QED BY Zenon, <1>1, <1>2, <1>3 DEF Reaches

LEMMA LinkedMove ==
  ASSUME NEW s, NEW r, NEW n \in Nat \ {0}, Agree(s, r, n), Linked(s, n),
         r[n].of = s[n].of, r[n].at # "super"
  PROVE  Linked(r, n)
<1> SUFFICES ASSUME NEW i \in 1..n
             PROVE  Called(r, n, i) /\ Reaches(r, n, i) /\ \A j \in 1..n : Rises(r, i, j)
  BY Zenon DEF Linked
<1>0. /\ \A j \in 1..n : (j # n => r[j] = s[j]) /\ r[j].of = s[j].of
      /\ n \in 1..n /\ (i # n => i + 1 \in 1..n)
  BY DEF Agree
<1>1. Called(r, n, i)
  <2>1. CASE i = n
    BY Zenon, <2>1 DEF Called
  <2>2. CASE i # n
    <3>1. Called(s, n, i) /\ r[i] = s[i] /\ r[i + 1].of = s[i + 1].of
      BY Zenon, <1>0, <2>2 DEF Linked
    <3> QED BY Zenon, <3>1 DEF Called
  <2> QED BY Zenon, <2>1, <2>2
<1>2. ASSUME NEW j \in 1..n PROVE Rises(r, i, j)
  <2>1. Rises(s, i, j) /\ (Chain(r, i, j) <=> Chain(s, i, j))
    BY Zenon, ChainAgrees DEF Linked
  <2>2. r[i].of = s[i].of /\ r[j].of = s[j].of
    BY Zenon, <1>0
  <2> QED BY Zenon, <2>1, <2>2 DEF Rises
<1>3. ASSUME r[i].at = "super"
      PROVE  Chain(r, i, n) \/ Running(r, n, i)
  <2>1. s[i].at = "super"
    BY Zenon, <1>0, <1>3
  <2>2. Chain(s, i, n) \/ Running(s, n, i)
    BY Zenon, <2>1 DEF Linked, Reaches
  <2>3. Chain(s, i, n) => Chain(r, i, n)
    BY Zenon, <1>0, ChainAgrees
  <2>4. ASSUME NEW j \in i..n, Chain(s, i, j), s[j].at = "clinit", j # n
        PROVE  Chain(r, i, j) /\ r[j].at = "clinit"
    <3>1. j \in 1..n
      OBVIOUS
    <3> QED BY Zenon, <1>0, <2>4, <3>1, ChainAgrees
  <2> QED BY Zenon, <2>2, <2>3, <2>4 DEF Running
<1> QED BY Zenon, <1>1, <1>2, <1>3 DEF Reaches

\* The last frame goes on, and calls another.
LEMMA LinkedPush ==
  ASSUME NEW s, NEW r, NEW n \in Nat \ {0}, Agree(s, r, n), Linked(s, n),
         r[n].of = s[n].of, r[n + 1].at \notin {"super", "clinit"},
         r[n].at = "super" => s[n].of \in Class /\ super[s[n].of] # None /\ r[n + 1].of = super[s[n].of],
         r[n].at = "patch" => r[n + 1].of = Ref[s[n].of],
         r[n].at \in {"super", "clinit"} \/ n = 1 \/ s[n - 1].at # "super"
  PROVE  Linked(r, n + 1)
<1>0. /\ \A j \in 1..n : (j # n => r[j] = s[j]) /\ r[j].of = s[j].of
      /\ n \in 1..n
  BY DEF Agree
<1>1. ASSUME NEW i \in 1..n PROVE Called(r, n + 1, i)
  <2>0. i # n + 1 /\ (i # n => i + 1 \in 1..n)
    OBVIOUS
  <2>1. CASE i = n
    BY Zenon, <2>0, <2>1 DEF Called
  <2>2. CASE i # n
    <3>1. Called(s, n, i) /\ r[i] = s[i] /\ r[i + 1].of = s[i + 1].of
      BY Zenon, <1>0, <2>0, <2>2 DEF Linked
    <3> QED BY Zenon, <2>2, <3>1 DEF Called
  <2> QED BY Zenon, <2>1, <2>2
<1>2. ASSUME NEW i \in 1..n, NEW j \in 1..n PROVE Rises(r, i, j)
  <2>1. Rises(s, i, j) /\ (Chain(r, i, j) <=> Chain(s, i, j))
    BY Zenon, ChainAgrees DEF Linked
  <2>2. r[i].of = s[i].of /\ r[j].of = s[j].of
    BY Zenon, <1>0
  <2> QED BY Zenon, <2>1, <2>2 DEF Rises
<1>3. ASSUME NEW i \in 1..n PROVE Rises(r, i, n + 1)
  <2> SUFFICES ASSUME Chain(r, i, n + 1)
               PROVE  /\ r[n + 1].of \in Supers[r[i].of]
                      /\ Supers[r[n + 1].of] \subseteq Supers[r[i].of]
    BY Zenon DEF Rises
  <2>1. r[n].at = "super" /\ Chain(r, i, n) /\ (i = n \/ i < n)
    BY DEF Chain
  <2>2. r[n + 1].of \in Supers[s[n].of] /\ Supers[r[n + 1].of] \subseteq Supers[s[n].of]
    BY Zenon, <2>1, SuperFacts
  <2>3. i < n => s[n].of \in Supers[s[i].of] /\ Supers[s[n].of] \subseteq Supers[s[i].of]
    BY Zenon, <1>0, <2>1, ChainAgrees DEF Linked, Rises
  <2>4. r[i].of = s[i].of
    BY Zenon, <1>0
  <2> QED BY Zenon, <2>1, <2>2, <2>3, <2>4
<1>4. ASSUME NEW i \in 1..n, r[i].at = "super"
      PROVE  Chain(r, i, n + 1) \/ Running(r, n + 1, i)
  <2>1. /\ \A j \in i..n : j \in 1..n /\ j \in i..n + 1
        /\ r[n].at = "super" /\ Chain(r, i, n) => Chain(r, i, n + 1)
        /\ i # n /\ Chain(s, i, n) => s[n - 1].at = "super" /\ n # 1
        /\ n \in i..n
    BY DEF Chain
  <2>2. CASE i = n
    <3>1. Chain(r, n, n + 1)
      BY <1>4, <2>2 DEF Chain
    <3> QED BY Zenon, <2>2, <3>1
  <2>3. CASE i # n /\ Chain(s, i, n)
    <3>1. Chain(r, i, n) /\ r[n].at \in {"super", "clinit"}
      BY Zenon, <1>0, <2>1, <2>3, ChainAgrees
    <3> QED BY Zenon, <2>1, <3>1 DEF Running
  <2>4. ASSUME NEW j \in i..n, j # n, Chain(s, i, j), s[j].at = "clinit"
        PROVE  Running(r, n + 1, i)
    <3>1. j \in 1..n /\ j \in i..n + 1 /\ r[j] = s[j]
      BY Zenon, <1>0, <2>1, <2>4
    <3> QED BY Zenon, <2>4, <3>1, ChainAgrees DEF Running
  <2>5. i # n => Chain(s, i, n) \/ Running(s, n, i)
    BY Zenon, <1>0, <1>4 DEF Linked, Reaches
  <2> QED BY Zenon, <2>2, <2>3, <2>4, <2>5 DEF Running
<1>5. /\ \A i \in 1..n + 1 : i \in 1..n \/ i = n + 1
      /\ \A j \in 1..n + 1 : ~(n + 1 < j)
  OBVIOUS
<1>6. Called(r, n + 1, n + 1) /\ Reaches(r, n + 1, n + 1) /\ \A j \in 1..n + 1 : Rises(r, n + 1, j)
  <2>1. r[n + 1].at # "super"
    BY Zenon
  <2> QED BY Zenon, <1>5, <2>1 DEF Called, Reaches, Rises
<1>7. \A i \in 1..n : /\ Called(r, n + 1, i) /\ Reaches(r, n + 1, i)
                      /\ \A j \in 1..n + 1 : Rises(r, i, j)
  BY Zenon, <1>1, <1>2, <1>3, <1>4, <1>5 DEF Reaches
<1> QED BY Zenon, <1>5, <1>6, <1>7 DEF Linked

\* Either the active frame has no part in it, or it runs the <clinit>.
LEMMA RunningCases ==
  ASSUME NEW s, NEW n \in Nat \ {0}, NEW i \in 1..n, Running(s, n, i)
  PROVE  Running(s, n - 1, i) \/ (Chain(s, i, n) /\ s[n].at = "clinit")
<1>1. PICK j \in i..n : Chain(s, i, j) /\ s[j].at = "clinit"
  BY Zenon DEF Running
<1>2. j # n => j \in i..n - 1
  OBVIOUS
<1> QED BY Zenon, <1>1, <1>2 DEF Running

LEMMA RunningStays ==
  ASSUME NEW s, NEW r, NEW n \in Nat \ {0}, NEW m \in Nat, m >= n - 1, Agree(s, r, n),
         NEW i \in 1..n, Running(s, n - 1, i)
  PROVE  i \in 1..m /\ r[i] = s[i] /\ Running(r, m, i)
<1>1. PICK j \in i..n - 1 : Chain(s, i, j) /\ s[j].at = "clinit"
  BY Zenon DEF Running
<1>2. j \in i..m /\ j \in 1..n /\ r[j] = s[j] /\ i \in 1..m /\ r[i] = s[i]
  BY DEF Agree
<1>3. Chain(r, i, j)
  BY Zenon, <1>1, <1>2, ChainAgrees
<1> QED BY Zenon, <1>1, <1>2, <1>3 DEF Running

\* The <clinit> of the active frame goes on or starts.
LEMMA ChainClinit ==
  ASSUME NEW s, NEW r, NEW n \in Nat \ {0}, NEW m \in Nat, m >= n, Agree(s, r, n),
         NEW i \in 1..n, Chain(s, i, n), r[n].at = "clinit"
  PROVE  i \in 1..m /\ Running(r, m, i)
<1>1. n \in i..m /\ n \in 1..n /\ i \in 1..m
  OBVIOUS
<1>2. Chain(r, i, n)
  BY Zenon, <1>1, ChainAgrees
<1> QED BY Zenon, <1>1, <1>2 DEF Running

\* The active frame returns.
LEMMA ChainReturn ==
  ASSUME NEW s, NEW r, NEW n \in Nat \ {0}, Agree(s, r, n), NEW i \in 1..n - 1, Chain(s, i, n)
  PROVE  r[i] = s[i] /\ Chain(r, i, n - 1) /\ r[n - 1].at = "super"
<1>1. /\ n - 1 \in 1..n /\ i \in 1..n /\ r[i] = s[i]
      /\ r[n - 1] = s[n - 1] /\ s[n - 1].at = "super" /\ Chain(s, i, n - 1)
  BY DEF Agree, Chain
<1>2. Chain(r, i, n - 1)
  BY Zenon, <1>1, ChainAgrees
<1> QED BY Zenon, <1>1, <1>2

-----------------------------------------------------------------------------
(* What is begun stays begun *)

\* The active frame runs a <clinit>, or is about to: initializations below
\* count on it.
Active(t) == Top(t).at = "clinit" \/ (Top(t).at = "super" /\ ret[t])

\* How a step of t treats such a frame: it starts or goes on with the <clinit>,
\* or ends the initialization with an outcome.
Onward(t) ==
  \/ /\ Depth(t)' >= Depth(t) /\ stack'[t][Depth(t)].at = "clinit"
     /\ stack'[t][Depth(t)].op = Top(t).op /\ stack'[t][Depth(t)].of = Top(t).of
  \/ /\ Depth(t)' = Depth(t) - 1
     /\ (ret'[t] /\ "INITIALIZED" \in state'[Top(t).of]) \/ "ERROR" \in state'[Top(t).of]

Acts(t) ==
  /\ \A u \in Thread : u # t => stack'[u] = stack[u] /\ ret'[u] = ret[u]
  /\ Depth(t)' \in Nat
  /\ \/ Depth(t) = 0
     \/ /\ Below(t) /\ Depth(t)' >= Depth(t) - 1
        /\ Active(t) => Onward(t)

LEMMA AnIndex == ASSUME NEW n, NEW i \in 1..n PROVE n # 0
OBVIOUS

LEMMA TopClass ==
  ASSUME IInv, NEW t \in Thread, Depth(t) # 0, Active(t)
  PROVE  Top(t).op = "init" /\ Top(t).of \in Class
<1>1. Depth(t) \in Nat
  BY DEF IInv, Types, StackOK, Depth
<1>2. Top(t) \in Frames
  BY <1>1, TopType DEF IInv, Types
<1> QED BY Zenon, <1>2, FrameFields DEF Active, RunAts

LEMMA SolidKept ==
  ASSUME IInv, JInv, ClinitStep, Types', NEW t \in Thread, Acts(t), NEW c \in Class, Solid(c)
  PROVE  Solid(c)'
<1>1. CASE Settled(c) # {}
  BY Zenon, <1>1 DEF ClinitStep, Solid
<1>2. ASSUME NEW a \in Supers[c], a \in Class, "ERROR" \in state[a] PROVE Solid(c)'
  <2>1. "ERROR" \in Settled(a)
    BY Zenon, <1>2 DEF Settled
  <2>2. "ERROR" \in Settled(a)'
    BY Zenon, <1>2, <2>1 DEF ClinitStep
  <2>3. "ERROR" \in state'[a]
    BY Zenon, <2>2 DEF Settled
  <2> QED BY Zenon, <1>2, <2>3 DEF Solid
<1>3. ASSUME NEW u \in Thread, u # t, NEW i \in 1..Depth(u),
             stack[u][i].op = "init", stack[u][i].of = c, Doing(u, i)
      PROVE  Solid(c)'
  <2>1. stack'[u] = stack[u] /\ ret'[u] = ret[u] /\ Depth(u)' = Depth(u)
    BY Zenon, <1>3 DEF Acts, Depth
  <2>2. Doing(u, i)'
    BY Zenon, <1>3, <2>1 DEF Doing, Top
  <2> QED BY Zenon, <1>3, <2>1, <2>2 DEF Solid
<1>4. ASSUME NEW i \in 1..Depth(t),
             stack[t][i].op = "init", stack[t][i].of = c, Doing(t, i)
      PROVE  Solid(c)'
  <2> DEFINE s == stack[t]
             r == stack'[t]
             n == Depth(t)
             m == Depth(t)'
  <2>0. i \in 1..n /\ s[i].op = "init" /\ s[i].of = c /\ s[n] = Top(t)
    BY Zenon, <1>4 DEF Top
  <2>1. Depth(t) # 0
    BY Zenon, <1>4, AnIndex
  <2>2. /\ n \in Nat \ {0} /\ m \in Nat /\ m >= n - 1 /\ Agree(s, r, n)
        /\ Active(t) => Onward(t)
    BY Zenon, <2>1 DEF Acts, Below, Agree
  <2>3. ASSUME i \in 1..m, r[i].op = "init", r[i].of = c, Running(r, m, i)
        PROVE  Solid(c)'
    BY Zenon, <2>3 DEF Solid, Doing
  <2>4. CASE Chain(s, i, n) /\ Active(t)
    <3>1. Top(t).of \in Class
      BY Zenon, <2>1, <2>4, TopClass
    <3>2. \/ m >= n /\ r[n].at = "clinit" /\ r[n].op = s[n].op /\ r[n].of = s[n].of
          \/ m = n - 1 /\ ret'[t] /\ "INITIALIZED" \in state'[s[n].of]
          \/ m = n - 1 /\ "ERROR" \in state'[s[n].of]
      BY Zenon, <2>0, <2>2, <2>4 DEF Onward
    <3>3. CASE i = n /\ ("INITIALIZED" \in state'[s[n].of] \/ "ERROR" \in state'[s[n].of])
      <4>1. "INITIALIZED" \in state'[c] \/ "ERROR" \in state'[c]
        BY Zenon, <2>0, <3>3
      <4> QED BY Zenon, <4>1 DEF Solid, Settled
    <3>4. CASE "ERROR" \in state'[s[n].of] /\ i # n
      <4>1. n \in 1..n /\ i < n
        BY <2>0, <2>2, <3>4
      <4>2. s[n].of \in Supers[c]
        BY Zenon, <2>0, <2>4, <4>1 DEF JInv, Linked, Rises
      <4> QED BY Zenon, <2>0, <3>1, <3>4, <4>2 DEF Solid
    <3>5. CASE m >= n /\ r[n].at = "clinit" /\ r[n].op = s[n].op /\ r[n].of = s[n].of
      <4> HIDE DEF s, r, n, m
      <4>1. i \in 1..m /\ Running(r, m, i)
        BY Zenon, <2>0, <2>2, <2>4, <3>5, ChainClinit
      <4>2. i # n => r[i] = s[i]
        BY <2>0, <2>2 DEF Agree
      <4>3. r[i].op = "init" /\ r[i].of = c
        BY Zenon, <2>0, <3>5, <4>2
      <4> QED BY Zenon, <2>3, <4>1, <4>3
    <3>6. CASE m = n - 1 /\ ret'[t] /\ i # n
      <4>1. i \in 1..n - 1 /\ r[i] = s[i] /\ Chain(r, i, n - 1) /\ r[n - 1].at = "super"
        <5> HIDE DEF s, r, n, m
        <5>1. i \in 1..n - 1
          BY <2>0, <2>2, <3>6
        <5> QED BY <2>2, <2>4, <5>1, ChainReturn
      <4>2. i \in 1..m /\ r[i].op = "init" /\ r[i].of = c /\ Chain(r, i, m) /\ r[m].at = "super"
        BY Zenon, <2>0, <3>6, <4>1
      <4>3. Doing(t, i)'
        BY Zenon, <3>6, <4>2 DEF Doing, Top
      <4> QED BY Zenon, <4>2, <4>3 DEF Solid
    <3> QED BY Zenon, <3>2, <3>3, <3>4, <3>5, <3>6
  <2>5. CASE Running(s, n - 1, i)
    <3> HIDE DEF s, r, n, m
    <3>1. i \in 1..m /\ r[i] = s[i] /\ Running(r, m, i)
      BY Zenon, <2>0, <2>2, <2>5, RunningStays
    <3> QED BY Zenon, <2>0, <2>3, <3>1
  <2>6. Running(s, n, i) => Running(s, n - 1, i) \/ (Chain(s, i, n) /\ s[n].at = "clinit")
    <3> HIDE DEF s, r, n, m
    <3> QED BY Zenon, <2>0, <2>2, RunningCases
  <2> QED BY Zenon, <1>4, <2>0, <2>4, <2>5, <2>6 DEF Doing, Active
<1> QED BY Zenon, <1>1, <1>2, <1>3, <1>4 DEF Solid

\* The classes a frame names.
LEMMA FrameClass ==
  ASSUME IInv, JInv, NEW t \in Thread, NEW i \in 1..Depth(t)
  PROVE  /\ stack[t][i].at = "super" => stack[t][i].of \in Class /\ super[stack[t][i].of] \in Class
         /\ stack[t][i].at = "patch" => stack[t][i].of \in Code /\ Ref[stack[t][i].of] \in Class
<1>1. stack[t][i] \in Frames
  BY DEF IInv, Types, StackOK, Depth
<1>2. /\ stack[t][i].at = "super" => stack[t][i].of \in Class
      /\ stack[t][i].at = "patch" => stack[t][i].of \in Code
  BY Zenon, <1>1, FrameFields DEF InitAts, RunAts
<1>3. stack[t][i].at = "super" => super[stack[t][i].of] # None
  BY Zenon DEF JInv, Linked, Called
<1> QED BY Zenon, <1>2, <1>3, InitAssumption

LEMMA ReturnedKept ==
  ASSUME IInv, JInv, ClinitStep, Types', NEW t \in Thread, Acts(t),
         NEW u \in Thread, stack'[u] = stack[u], ret'[u] = ret[u]
  PROVE  Returned(u)'
<1>1. Depth(u)' = Depth(u) /\ Top(u)' = Top(u) /\ Returned(u)
  BY Zenon DEF Depth, Top, JInv
<1>2. ASSUME Depth(u) > 0, ret[u]
      PROVE  /\ Top(u).at = "super" => Solid(super[Top(u).of]) /\ super[Top(u).of] \in Class
             /\ Top(u).at = "patch" => Solid(Ref[Top(u).of]) /\ Ref[Top(u).of] \in Class
  <2>1. Depth(u) \in 1..Depth(u)
    BY <1>2 DEF IInv, Types, StackOK, Depth
  <2> QED BY Zenon, <1>1, <1>2, <2>1, FrameClass DEF Returned, Top
<1>3. PICK s : s = super[Top(u).of]
  BY Zenon
<1>4. PICK c : c = Ref[Top(u).of]
  BY Zenon
<1>5. s = super[Top(u)'.of] /\ c = Ref[Top(u)'.of]
  BY Zenon, <1>1, <1>3, <1>4
<1>6. Depth(u)' > 0 /\ ret'[u] =>
        (Top(u)'.at = "super" => Solid(s)') /\ (Top(u)'.at = "patch" => Solid(c)')
  BY Zenon, <1>1, <1>2, <1>3, <1>4, SolidKept
<1> QED BY Zenon, <1>5, <1>6 DEF Returned

\* What is to be shown of a step of thread t.
LEMMA OrderStep ==
  ASSUME IInv, JInv, IInv', ClinitStep, NEW t \in Thread, Acts(t),
         Linked(stack'[t], Depth(t)'), Returned(t)',
         \A c \in Class : super[c] # None /\ Starts(c)' => Starts(c) \/ Solid(super[c]),
         \A x \in Code : /\ code'[x] = "plain" => code[x] = "plain" \/ Settled(Ref[x]) # {}
                         /\ code'[x] = "elided" => code[x] = "elided" \/ Solid(Ref[x])
  PROVE  JInv'
<1>0. \A c \in Class : Solid(c) => Solid(c)'
  BY Zenon, SolidKept DEF IInv
<1>1. ASSUME NEW u \in Thread, u # t PROVE Linked(stack[u], Depth(u))' /\ Returned(u)'
  <2>1. stack'[u] = stack[u] /\ ret'[u] = ret[u] /\ Depth(u)' = Depth(u)
    BY Zenon, <1>1 DEF Acts, Depth
  <2>2. Linked(stack'[u], Depth(u)')
    BY Zenon, <2>1 DEF JInv
  <2>3. Returned(u)'
    BY Zenon, <2>1, ReturnedKept DEF IInv
  <2> QED BY Zenon, <2>2, <2>3
<1>2. \A u \in Thread : Linked(stack[u], Depth(u))' /\ Returned(u)'
  BY Zenon, <1>1
<1>3. SupersBegun'
  <2> SUFFICES ASSUME NEW c \in Class, super[c] # None, Starts(c)' PROVE Solid(super[c])'
    BY Zenon DEF SupersBegun
  <2>1. super[c] \in Class /\ Solid(super[c])
    BY Zenon, InitAssumption DEF JInv, SupersBegun
  <2> QED BY Zenon, <1>0, <2>1
<1>4. SitesBegun'
  <2> SUFFICES ASSUME NEW x \in Code
               PROVE  /\ code'[x] = "plain" => Settled(Ref[x])' # {}
                      /\ code'[x] = "elided" => Solid(Ref[x])'
    BY Zenon DEF SitesBegun
  <2>1. Ref[x] \in Class
    BY Zenon, InitAssumption
  <2>2. code'[x] = "plain" => Settled(Ref[x]) # {}
    BY Zenon DEF JInv, SitesBegun
  <2>3. code'[x] = "elided" => Solid(Ref[x])
    BY Zenon DEF JInv, SitesBegun
  <2>4. Settled(Ref[x]) # {} => Settled(Ref[x])' # {}
    BY Zenon, <2>1 DEF ClinitStep
  <2> QED BY Zenon, <1>0, <2>1, <2>2, <2>3, <2>4
<1> QED BY Zenon, <1>2, <1>3, <1>4 DEF JInv

-----------------------------------------------------------------------------
(* The stacks after a step *)

LEMMA RunsNow ==
  ASSUME IInv, NEW u \in Thread, NEW c, NEW i \in 1..Depth(u),
         stack[u][i].op = "init", stack[u][i].of = c, stack[u][i].at = "clinit"
  PROVE  RunsClinit(u, c)
<1>1. DOMAIN stack[u] = 1..Depth(u)
  BY DEF IInv, Types, StackOK, Depth
<1> QED BY Zenon, <1>1 DEF RunsClinit, Has

LEMMA RunsNext ==
  ASSUME IInv', NEW u \in Thread, NEW c, RunsClinit(u, c)'
  PROVE  \E i \in 1..Depth(u)' : /\ stack'[u][i].op = "init" /\ stack'[u][i].of = c
                                 /\ stack'[u][i].at = "clinit"
<1>1. DOMAIN stack'[u] = 1..Depth(u)'
  BY DEF IInv, Types, StackOK, Depth
<1> QED BY Zenon, <1>1 DEF RunsClinit, Has

\* No <clinit> of another class than those of D is started.
LEMMA RunsAfter ==
  ASSUME IInv, IInv', NEW t \in Thread, Below(t), NEW D,
         \A i \in 1..Depth(t)' : i \in 1..Depth(t) - 1 \/ stack'[t][i].at # "clinit" \/ stack'[t][i].of \in D
  PROVE  \A u \in Thread : \A c \in Class : RunsClinit(u, c)' => RunsClinit(u, c) \/ c \in D
<1> SUFFICES ASSUME NEW u \in Thread, NEW c \in Class, RunsClinit(u, c)'
             PROVE  RunsClinit(u, c) \/ c \in D
  BY Zenon
<1>1. PICK i \in 1..Depth(u)' : /\ stack'[u][i].op = "init" /\ stack'[u][i].of = c
                                /\ stack'[u][i].at = "clinit"
  BY RunsNext
<1>2. CASE u # t
  <2>1. stack'[u] = stack[u] /\ Depth(u)' = Depth(u)
    BY Zenon, <1>2 DEF Below, Depth
  <2>2. /\ i \in 1..Depth(u) /\ stack[u][i].op = "init" /\ stack[u][i].of = c
        /\ stack[u][i].at = "clinit"
    BY Zenon, <1>1, <2>1
  <2> QED BY Zenon, <2>2, RunsNow
<1>3. CASE u = t /\ i \in 1..Depth(t) - 1
  <2>1. i \in 1..Depth(t) /\ stack'[t][i] = stack[t][i]
    BY <1>3 DEF Below
  <2>2. /\ i \in 1..Depth(u) /\ stack[u][i].op = "init" /\ stack[u][i].of = c
        /\ stack[u][i].at = "clinit"
    BY Zenon, <1>1, <1>3, <2>1
  <2> QED BY Zenon, <2>2, RunsNow
<1> QED BY Zenon, <1>1, <1>2, <1>3

LEMMA PopOrder ==
  ASSUME IInv, JInv, IInv', NEW t \in Thread, Pops(t)
  PROVE  /\ Linked(stack'[t], Depth(t)') /\ Depth(t)' = Depth(t) - 1
         /\ \A u \in Thread : \A c \in Class : RunsClinit(u, c)' => RunsClinit(u, c)
<1> DEFINE s == stack[t]
           r == stack'[t]
           n == Depth(t)
           D == {}
<1>1. /\ n \in Nat \ {0} /\ Agree(s, r, n) /\ Depth(t)' = n - 1 /\ Linked(s, n) /\ Below(t)
  BY Zenon DEF Pops, Below, Agree, Depth, JInv
<1> HIDE DEF s, r, n, D
<1>2. Linked(r, n - 1)
  BY Zenon, <1>1, LinkedPop
<1>3. \A i \in 1..Depth(t)' : i \in 1..Depth(t) - 1 \/ stack'[t][i].at # "clinit" \/ stack'[t][i].of \in D
  BY Zenon, <1>1 DEF n
<1>4. \A u \in Thread : \A c \in Class : RunsClinit(u, c)' => RunsClinit(u, c) \/ c \in D
  BY Zenon, <1>1, <1>3, RunsAfter
<1> QED BY Zenon, <1>1, <1>2, <1>4 DEF s, r, n, D

LEMMA MoveOrder ==
  ASSUME IInv, JInv, IInv', NEW t \in Thread, NEW a, a # "super", Moves(t, a)
  PROVE  /\ Linked(stack'[t], Depth(t)') /\ Depth(t)' = Depth(t)
         /\ \A u \in Thread : \A c \in Class :
              RunsClinit(u, c)' => RunsClinit(u, c) \/ (a = "clinit" /\ c = Top(t).of)
<1> DEFINE s == stack[t]
           r == stack'[t]
           n == Depth(t)
           D == {c \in Class : a = "clinit" /\ c = Top(t).of}
<1>1. /\ n \in Nat \ {0} /\ Agree(s, r, n) /\ Depth(t)' = n /\ Linked(s, n) /\ Below(t)
      /\ r[n].of = s[n].of /\ r[n].at = a /\ s[n] = Top(t)
  BY Zenon DEF Moves, Below, Agree, Depth, JInv, Is, Top
<1>2. r[n].at = "clinit" => r[n].of \in D
  <2>1. r[n] \in Frames
    <3>1. stack'[t] \in Seq(Frames) /\ n \in 1..Len(stack'[t])
      BY <1>1 DEF IInv, Types, StackOK, Depth
    <3> QED BY <3>1
  <2>2. r[n].at = "clinit" => r[n].of \in Class
    BY Zenon, <2>1, FrameFields DEF RunAts
  <2> QED BY Zenon, <1>1, <2>2
<1> HIDE DEF s, r, n, D
<1>3. Linked(r, n)
  BY Zenon, <1>1, LinkedMove
<1>4. \A i \in 1..Depth(t)' : i \in 1..Depth(t) - 1 \/ i = n
  BY <1>1 DEF n
<1>5. \A i \in 1..Depth(t)' : i \in 1..Depth(t) - 1 \/ stack'[t][i].at # "clinit" \/ stack'[t][i].of \in D
  BY Zenon, <1>2, <1>4 DEF r
<1>6. \A u \in Thread : \A c \in Class : RunsClinit(u, c)' => RunsClinit(u, c) \/ c \in D
  BY Zenon, <1>1, <1>5, RunsAfter
<1> QED BY Zenon, <1>1, <1>3, <1>6 DEF s, r, n, D

LEMMA PushOrder ==
  ASSUME IInv, JInv, IInv', NEW t \in Thread, NEW a, NEW op, NEW of, NEW b \in {"enter", "call"},
         Pushes(t, a, op, of, b),
         a = "super" => Top(t).of \in Class /\ super[Top(t).of] # None /\ of = super[Top(t).of],
         a = "patch" => of = Ref[Top(t).of],
         a \in {"super", "clinit"} \/ Depth(t) = 1 \/ stack[t][Depth(t) - 1].at # "super"
  PROVE  /\ Linked(stack'[t], Depth(t)') /\ Depth(t)' = Depth(t) + 1
         /\ \A u \in Thread : \A c \in Class :
              RunsClinit(u, c)' => RunsClinit(u, c) \/ (a = "clinit" /\ c = Top(t).of)
<1> DEFINE s == stack[t]
           r == stack'[t]
           n == Depth(t)
           D == {c \in Class : a = "clinit" /\ c = Top(t).of}
<1>1. /\ n \in Nat \ {0} /\ Agree(s, r, n) /\ Depth(t)' = n + 1 /\ Linked(s, n) /\ Below(t)
      /\ r[n].of = s[n].of /\ r[n].at = a /\ s[n] = Top(t)
      /\ r[n + 1].of = of /\ r[n + 1].at = b
  BY Zenon DEF Pushes, Below, Agree, Depth, JInv, Is, Top
<1>2. r[n].at = "clinit" => r[n].of \in D
  <2>1. r[n] \in Frames
    <3>1. stack'[t] \in Seq(Frames) /\ n \in 1..Len(stack'[t])
      BY <1>1 DEF IInv, Types, StackOK, Depth
    <3> QED BY <3>1
  <2>2. r[n].at = "clinit" => r[n].of \in Class
    BY Zenon, <2>1, FrameFields DEF RunAts
  <2> QED BY Zenon, <1>1, <2>2
<1>3. /\ r[n + 1].at \notin {"super", "clinit"}
      /\ r[n].at = "super" => s[n].of \in Class /\ super[s[n].of] # None /\ r[n + 1].of = super[s[n].of]
      /\ r[n].at = "patch" => r[n + 1].of = Ref[s[n].of]
      /\ r[n].at \in {"super", "clinit"} \/ n = 1 \/ s[n - 1].at # "super"
  BY Zenon, <1>1
<1> HIDE DEF s, r, n, D
<1>4. Linked(r, n + 1)
  BY Zenon, <1>1, <1>3, LinkedPush
<1>5. \A i \in 1..Depth(t)' : i \in 1..Depth(t) - 1 \/ i = n \/ i = n + 1
  BY <1>1 DEF n
<1>6. \A i \in 1..Depth(t)' : i \in 1..Depth(t) - 1 \/ stack'[t][i].at # "clinit" \/ stack'[t][i].of \in D
  BY Zenon, <1>2, <1>3, <1>5 DEF r
<1>7. \A u \in Thread : \A c \in Class : RunsClinit(u, c)' => RunsClinit(u, c) \/ c \in D
  BY Zenon, <1>1, <1>6, RunsAfter
<1> QED BY Zenon, <1>1, <1>4, <1>7 DEF s, r, n, D

\* A class that thread t initializes below its active frame is begun, unless
\* the active frame initializes one of its superclasses.
LEMMA HeldBelow ==
  ASSUME IInv, JInv, NEW t \in Thread, NEW c \in Class, NEW i \in 1..Depth(t),
         FrameAt(t, i, c, Held), i # Depth(t)
  PROVE  Solid(c) \/ Chain(stack[t], i, Depth(t))
<1>1. stack[t][i].op = "init" /\ stack[t][i].of = c /\ stack[t][i].at \in {"super", "clinit"}
  <2>1. stack[t][i].at \in Waiting \/ stack[t][i].at = "clinit"
    BY Zenon DEF IInv, Shape
  <2> QED BY Zenon, <2>1 DEF FrameAt, Held, Waiting
<1>2. CASE stack[t][i].at = "clinit"
  <2>1. i \in i..Depth(t) /\ Chain(stack[t], i, i)
    BY DEF Chain, IInv, Types, StackOK, Depth
  <2> QED BY Zenon, <1>1, <1>2, <2>1 DEF Solid, Doing, Running
<1>3. CASE stack[t][i].at = "super"
  <2>1. Chain(stack[t], i, Depth(t)) \/ Running(stack[t], Depth(t), i)
    BY Zenon, <1>3 DEF JInv, Linked, Reaches
  <2> QED BY Zenon, <1>1, <2>1 DEF Solid, Doing
<1> QED BY Zenon, <1>1, <1>2, <1>3

\* Under code there is a <clinit>, or nothing.
LEMMA RunTop ==
  ASSUME IInv, NEW t \in Thread, Depth(t) \in Nat \ {0}, Top(t).op = "run"
  PROVE  /\ Depth(t) = 1 \/ stack[t][Depth(t) - 1].at = "clinit"
         /\ \A i \in 1..Depth(t) : i # Depth(t) => ~Chain(stack[t], i, Depth(t))
<1> DEFINE n == Depth(t)
<1>1. n # 1 => stack[t][n - 1].at = "clinit"
  <2>1. n # 1 => n - 1 \in 1..n /\ n - 1 # n /\ n - 1 + 1 = n
    OBVIOUS
  <2> QED BY Zenon, <2>1 DEF IInv, Shape, Top
<1>2. ASSUME NEW i \in 1..n, i # n, Chain(stack[t], i, n) PROVE stack[t][n - 1].at = "super" /\ n # 1
  BY <1>2 DEF Chain
<1> QED BY Zenon, <1>1, <1>2

-----------------------------------------------------------------------------
(* The steps of code *)

\* What such a step leaves of the stack.
CodeOrder(t) ==
  \/ UNCHANGED <<stack, ret>>
  \/ Pops(t)
  \/ \E a \in {"body", "compile", "lock"} : Moves(t, a)
  \/ \E c : Pushes(t, "compile", "init", c, "enter")
  \/ Pushes(t, "patch", "init", Ref[Top(t).of], "enter")

LEMMA CodeStep ==
  ASSUME IInv, JInv, IInv', ClinitStep, NEW t \in Thread, Depth(t) \in Nat \ {0}, Top(t).op = "run",
         UNCHANGED state, \A u \in Thread : u # t => ret'[u] = ret[u], CodeOrder(t),
         \A x \in Code : /\ code'[x] = "plain" => code[x] = "plain" \/ Settled(Ref[x]) # {}
                         /\ code'[x] = "elided" => code[x] = "elided" \/ Solid(Ref[x])
  PROVE  JInv'
<1>0. ~Active(t)
  <2>1. Top(t) \in Frames
    BY TopType DEF IInv, Types
  <2> QED BY Zenon, <2>1, FrameFields DEF Active, RunAts
<1>1. Depth(t) = 1 \/ stack[t][Depth(t) - 1].at = "clinit"
  BY Zenon, RunTop
<1>2. ASSUME Below(t), Linked(stack'[t], Depth(t)'), Depth(t)' \in Nat, Depth(t)' >= Depth(t) - 1,
             Depth(t)' > 0 => Top(t)'.at \notin {"super", "patch"},
             \A u \in Thread : \A c \in Class : RunsClinit(u, c)' => RunsClinit(u, c)
      PROVE  JInv'
  <2>1. Acts(t)
    BY Zenon, <1>0, <1>2 DEF Acts, Below
  <2>2. Returned(t)'
    BY Zenon, <1>2 DEF Returned
  <2>3. \A c \in Class : Starts(c)' => Starts(c)
    BY Zenon, <1>2 DEF Starts, Settled
  <2> QED BY Zenon, <1>2, <2>1, <2>2, <2>3, OrderStep
<1>3. CASE Pops(t)
  <2>1. Linked(stack'[t], Depth(t)') /\ Depth(t)' = Depth(t) - 1 /\ Below(t)
    BY Zenon, <1>3, PopOrder DEF Pops
  <2>2. \A u \in Thread : \A c \in Class : RunsClinit(u, c)' => RunsClinit(u, c)
    BY Zenon, <1>3, PopOrder
  <2>3. /\ Depth(t)' \in Nat /\ Depth(t)' >= Depth(t) - 1
        /\ Depth(t)' > 0 => Depth(t) - 1 \in 1..Depth(t) - 1 /\ Depth(t) # 1
    BY <2>1
  <2>4. Depth(t)' > 0 => Top(t)' = stack[t][Depth(t) - 1]
    BY Zenon, <2>1, <2>3 DEF Top, Below
  <2> QED BY Zenon, <1>1, <1>2, <2>1, <2>2, <2>3, <2>4
<1>4. ASSUME NEW a \in {"body", "compile", "lock"}, Moves(t, a) PROVE JInv'
  <2>1. /\ Linked(stack'[t], Depth(t)') /\ Depth(t)' = Depth(t) /\ Below(t)
        /\ Top(t)'.at = a
    BY Zenon, <1>4, MoveOrder DEF Moves, Is, Top
  <2>2. \A u \in Thread : \A c \in Class : RunsClinit(u, c)' => RunsClinit(u, c)
    BY Zenon, <1>4, MoveOrder
  <2>3. Depth(t)' \in Nat /\ Depth(t)' >= Depth(t) - 1
    BY <2>1
  <2> QED BY Zenon, <1>2, <2>1, <2>2, <2>3
<1>5. ASSUME NEW a \in {"compile", "patch"}, NEW c, Pushes(t, a, "init", c, "enter"),
             a = "patch" => c = Ref[Top(t).of]
      PROVE  JInv'
  <2>1. Depth(t) = 1 \/ stack[t][Depth(t) - 1].at # "super"
    BY Zenon, <1>1
  <2>2. /\ Linked(stack'[t], Depth(t)') /\ Depth(t)' = Depth(t) + 1
        /\ \A u \in Thread : \A d \in Class : RunsClinit(u, d)' => RunsClinit(u, d)
    BY Zenon, <1>5, <2>1, PushOrder
  <2>3. Below(t) /\ Top(t)'.at = "enter"
    BY Zenon, <1>5, <2>2 DEF Pushes, Is, Top
  <2>4. Depth(t)' \in Nat /\ Depth(t)' >= Depth(t) - 1
    BY <2>2
  <2> QED BY Zenon, <1>2, <2>2, <2>3, <2>4
<1>6. CASE UNCHANGED <<stack, ret>>
  <2>1. /\ Linked(stack'[t], Depth(t)') /\ Depth(t)' = Depth(t) /\ Top(t)' = Top(t)
        /\ \A u \in Thread : stack'[u] = stack[u] /\ ret'[u] = ret[u]
    BY Zenon, <1>6 DEF JInv, Depth, Top
  <2>2. StackOK' /\ Depth(t)' \in Nat /\ Depth(t)' >= Depth(t) - 1
    BY <2>1 DEF IInv, Types
  <2>3. Acts(t)
    BY Zenon, <1>0, <1>6, <2>1, <2>2 DEF Acts, Below
  <2>4. \A c \in Class : Starts(c)' => Starts(c)
    BY Zenon, <1>6 DEF Starts, Settled, RunsClinit, Has
  <2>5. Returned(t)'
    BY Zenon, <2>1, <2>3, ReturnedKept DEF IInv
  <2> QED BY Zenon, <2>1, <2>3, <2>4, <2>5, OrderStep
<1> QED BY Zenon, <1>3, <1>4, <1>5, <1>6 DEF CodeOrder

LEMMA CallOrder ==
  ASSUME IInv, JInv, IInv', ClinitStep, NEW t \in Thread, call(t)
  PROVE  JInv'
<1> DEFINE x == Top(t).of
<1>1. /\ StackOK /\ Depth(t) > 0 /\ Depth(t) \in Nat \ {0} /\ Top(t).op = "run" /\ Top(t).at = "call"
      /\ Home[x] \in Class
  BY Zenon, AtFacts, InitAssumption DEF call
<1>2. /\ UNCHANGED <<state, code>> /\ \A u \in Thread : u # t => ret'[u] = ret[u]
      /\ \/ Stack(t, MovedTo(t, "body")) \/ Stack(t, MovedTo(t, "compile"))
         \/ Stack(t, Append(MovedTo(t, "compile"), Frame("init", Home[x], "enter")))
  BY Zenon DEF call, IInv, Types
<1> HIDE DEF x
<1>3. \/ Moves(t, "body") \/ Moves(t, "compile")
      \/ Pushes(t, "compile", "init", Home[x], "enter")
  BY <1>1, <1>2, MovedToEffect, NewFrames DEF InitAts, RunAts
<1>4. CodeOrder(t)
  BY Zenon, <1>3 DEF CodeOrder
<1> QED BY Zenon, <1>1, <1>2, <1>4, CodeStep

\* The code generator leaves out the check of a class that the thread that
\* compiles is initializing: the active frame is none of that initialization.
LEMMA AlmostSolid ==
  ASSUME IInv, JInv, NEW t \in Thread, Depth(t) \in Nat \ {0}, Top(t).op = "run", NEW c \in Class,
         class_is_or_almost_initialized(t, c)
  PROVE  Solid(c)
<1>1. CASE Initialized(c)
  BY Zenon, <1>1 DEF Initialized, Solid, Settled
<1>2. CASE "INITIALIZING" \in state[c] /\ initializing_thread[c] = t
  <2>1. PICK i \in 1..Depth(t) : FrameAt(t, i, c, Held)
    BY Zenon, <1>2 DEF IInv, Underway
  <2>2. i # Depth(t)
    BY Zenon, <2>1 DEF FrameAt, Top
  <2>3. ~Chain(stack[t], i, Depth(t))
    BY Zenon, <2>2, RunTop
  <2> QED BY Zenon, <2>1, <2>2, <2>3, HeldBelow
<1> QED BY Zenon, <1>1, <1>2 DEF class_is_or_almost_initialized

LEMMA UnguardedCases ==
  ASSUME NEW c
  PROVE  /\ Unguarded(c) = "plain" => Settled(c) # {}
         /\ Unguarded(c) = "plain" \/ Unguarded(c) = "elided"
BY Zenon DEF Unguarded, Initialized, Settled

LEMMA CompileOrder ==
  ASSUME IInv, JInv, IInv', ClinitStep, NEW t \in Thread, jit_compile(t)
  PROVE  JInv'
<1>0. PICK x \in Code : x = Top(t).of
  BY Zenon, AtFacts DEF jit_compile
<1>1. /\ StackOK /\ Depth(t) > 0 /\ Depth(t) \in Nat \ {0} /\ Top(t).op = "run" /\ Ref[x] \in Class
  BY Zenon, AtFacts, InitAssumption DEF jit_compile
<1>2. /\ UNCHANGED <<state, ret>> /\ (Stack(t, Popped(t)) \/ Stack(t, MovedTo(t, "body")))
      /\ \/ UNCHANGED code
         \/ \E resolved \in BOOLEAN : code' = [code EXCEPT ![x] = Emitted(t, Ref[x], resolved)]
  BY Zenon, <1>0 DEF jit_compile, Throw
<1>3. CodeOrder(t)
  <2>1. Pops(t) \/ Moves(t, "body")
    BY Zenon, <1>1, <1>2, MovedToEffect, PopEffect DEF InitAts, RunAts
  <2> QED BY Zenon, <2>1 DEF CodeOrder
<1>4. \A resolved \in BOOLEAN :
        /\ Emitted(t, Ref[x], resolved) = "plain" => Settled(Ref[x]) # {}
        /\ Emitted(t, Ref[x], resolved) = "elided" => Solid(Ref[x])
  BY Zenon, <1>1, AlmostSolid, UnguardedCases DEF Emitted
<1>5. ASSUME NEW y \in Code
      PROVE  /\ code'[y] = "plain" => code[y] = "plain" \/ Settled(Ref[y]) # {}
             /\ code'[y] = "elided" => code[y] = "elided" \/ Solid(Ref[y])
  <2>1. \/ code'[y] = code[y]
        \/ y = x /\ \E resolved \in BOOLEAN : code'[y] = Emitted(t, Ref[x], resolved)
    BY Zenon, <1>2 DEF IInv, Types
  <2> QED BY Zenon, <1>4, <2>1
<1> QED BY Zenon, <1>1, <1>2, <1>3, <1>5, CodeStep

LEMMA BodyOrder ==
  ASSUME IInv, JInv, IInv', ClinitStep, NEW t \in Thread, access(t) \/ trap(t)
  PROVE  JInv'
<1>1. StackOK /\ Depth(t) > 0 /\ Depth(t) \in Nat \ {0} /\ Top(t).op = "run"
  BY Zenon, AtFacts DEF access, trap
<1>2. UNCHANGED <<state, code, ret>> /\ (Stack(t, Popped(t)) \/ Stack(t, MovedTo(t, "lock")))
  BY Zenon DEF access, trap
<1>3. CodeOrder(t)
  <2>1. Pops(t) \/ Moves(t, "lock")
    BY Zenon, <1>1, <1>2, MovedToEffect, PopEffect DEF InitAts, RunAts
  <2> QED BY Zenon, <2>1 DEF CodeOrder
<1> QED BY Zenon, <1>1, <1>2, <1>3, CodeStep

LEMMA PatcherOrder ==
  ASSUME IInv, JInv, IInv', ClinitStep, NEW t \in Thread, patcher_handler(t) \/ patcher_returned(t)
  PROVE  JInv'
<1>0. At(t, "run", "lock") \/ At(t, "run", "patch")
  BY Zenon DEF patcher_handler, patcher_returned
<1>1. PICK x \in Code : x = Top(t).of
  BY Zenon, <1>0, AtFacts
<1>2. /\ StackOK /\ Depth(t) > 0 /\ Depth(t) \in Nat \ {0} /\ Top(t).op = "run" /\ Ref[x] \in Class
  BY Zenon, <1>0, AtFacts, InitAssumption
<1>3. /\ UNCHANGED <<state, ret>>
      /\ \/ UNCHANGED stack \/ Stack(t, MovedTo(t, "body")) \/ Stack(t, Popped(t))
         \/ Stack(t, Append(MovedTo(t, "patch"), Frame("init", Ref[x], "enter")))
  BY Zenon, <1>1 DEF patcher_handler, patcher_returned, Patched, Throw
<1>4. CodeOrder(t)
  <2>1. /\ Frame("init", Ref[x], "enter") \in Frames
        /\ Frame("init", Ref[x], "enter").op = "init"
        /\ Frame("init", Ref[x], "enter").of = Ref[x]
        /\ Frame("init", Ref[x], "enter").at = "enter"
    BY Zenon, <1>2, NewFrames
  <2>2. /\ Stack(t, MovedTo(t, "body")) => Moves(t, "body")
        /\ Stack(t, Append(MovedTo(t, "patch"), Frame("init", Ref[x], "enter")))
             => Pushes(t, "patch", "init", Ref[x], "enter")
    BY Zenon, <1>2, <2>1, MovedToEffect DEF InitAts, RunAts
  <2> QED BY Zenon, <1>1, <1>2, <1>3, <2>2, PopEffect DEF CodeOrder
<1>5. \/ UNCHANGED code
      \/ code' = [code EXCEPT ![x] = code[x]]
      \/ code' = [code EXCEPT ![x] = "plain"] /\ Settled(Ref[x]) # {}
      \/ code' = [code EXCEPT ![x] = Unguarded(Ref[x])] /\ Solid(Ref[x])
  <2>1. CASE patcher_handler(t)
    <3>1. Initialized(Ref[x]) => Settled(Ref[x]) # {}
      BY Zenon DEF Initialized, Settled
    <3> QED BY Zenon, <1>1, <2>1, <3>1 DEF patcher_handler
  <2>2. CASE patcher_returned(t)
    <3>1. ret[t] => Solid(Ref[x])
      BY Zenon, <1>1, <1>2, <2>2 DEF patcher_returned, At, JInv, Returned
    <3> QED BY Zenon, <1>1, <2>2, <3>1 DEF patcher_returned
  <2> QED BY Zenon, <2>1, <2>2
<1>6. ASSUME NEW y \in Code
      PROVE  /\ code'[y] = "plain" => code[y] = "plain" \/ Settled(Ref[y]) # {}
             /\ code'[y] = "elided" => code[y] = "elided" \/ Solid(Ref[y])
  <2>1. \/ code'[y] = code[y]
        \/ y = x /\ code'[y] = "plain" /\ Settled(Ref[x]) # {}
        \/ y = x /\ code'[y] = Unguarded(Ref[x]) /\ Solid(Ref[x])
    BY Zenon, <1>5 DEF IInv, Types
  <2> QED BY Zenon, <2>1, UnguardedCases
<1> QED BY Zenon, <1>2, <1>3, <1>4, <1>6, CodeStep

\* A thread runs code from outside of any initializer.
LEMMA RunOrder ==
  ASSUME IInv, JInv, IInv', ClinitStep, NEW t \in Thread, run(t)
  PROVE  JInv'
<1>1. PICK x \in todo[t] : Stack(t, <<Frame("run", x, "call")>>)
  BY Zenon DEF run
<1> DEFINE g == Frame("run", x, "call")
<1>2. stack[t] = <<>> /\ UNCHANGED <<state, code, ret>> /\ stack' = [stack EXCEPT ![t] = <<g>>]
  BY Zenon, <1>1 DEF run, Stack
<1>3. g.at = "call"
  BY Zenon DEF Frame
<1> HIDE DEF g
<1>4. stack'[t] = <<g>> /\ \A u \in Thread : u # t => stack'[u] = stack[u]
  BY Zenon, <1>2 DEF IInv, Types, StackOK
<1>5. Depth(t) = 0 /\ Depth(t)' = 1 /\ stack'[t][1].at = "call" /\ Top(t)'.at = "call"
  BY <1>2, <1>3, <1>4 DEF Depth, Top
<1>6. Linked(stack'[t], 1)
  BY <1>5 DEF Linked, Called, Rises, Reaches
<1>7. Acts(t) /\ Returned(t)'
  BY <1>2, <1>4, <1>5 DEF Acts, Returned
<1>8. ASSUME NEW c \in Class, Starts(c)' PROVE Starts(c)
  <2>1. CASE Settled(c)' # {}
    BY Zenon, <1>2, <2>1 DEF Settled, Starts
  <2>2. ASSUME NEW u \in Thread, RunsClinit(u, c)' PROVE RunsClinit(u, c)
    <3>1. \E i \in 1..Depth(u)' : stack'[u][i].at = "clinit"
      BY <2>2, RunsNext
    <3>2. u # t
      BY <1>5, <3>1
    <3>3. stack'[u] = stack[u]
      BY Zenon, <1>4, <3>2
    <3> QED BY Zenon, <2>2, <3>3 DEF RunsClinit, Has
  <2> QED BY Zenon, <1>8, <2>1, <2>2 DEF Starts
<1> QED BY Zenon, <1>2, <1>5, <1>6, <1>7, <1>8, OrderStep

-----------------------------------------------------------------------------
(* The steps of initializations *)

\* An initialization of c returns, and its caller may count on c.
LEMMA ReturnsSolid ==
  ASSUME IInv, JInv, NEW t \in Thread, NEW at, At(t, "init", at), Pops(t),
         NEW c, c = Top(t).of, ret'[t] => Solid(c)'
  PROVE  Returned(t)'
<1> DEFINE n == Depth(t)
<1>1. Depth(t)' > 0 /\ Depth(t)' = n - 1 /\ n \in Nat \ {0} /\ \A i \in 1..n - 1 : stack'[t][i] = stack[t][i]
  BY Zenon, CallerWaits DEF Pops, Below, Depth
<1>2. n - 1 \in 1..n - 1 /\ n - 1 \in 1..n /\ n - 1 # n /\ n - 1 + 1 = n
  BY <1>1
<1>3. Top(t)' = stack[t][n - 1]
  BY Zenon, <1>1, <1>2 DEF Top
<1>4. /\ stack[t][n - 1].at = "super" => c = super[stack[t][n - 1].of]
      /\ stack[t][n - 1].at = "patch" => c = Ref[stack[t][n - 1].of]
  <2>1. Called(stack[t], n, n - 1)
    BY Zenon, <1>2 DEF JInv, Linked
  <2> QED BY Zenon, <1>2, <2>1 DEF Called, Top
<1>5. /\ Top(t)'.at = "super" => c = super[Top(t)'.of]
      /\ Top(t)'.at = "patch" => c = Ref[Top(t)'.of]
  BY Zenon, <1>3, <1>4
<1> QED BY Zenon, <1>5 DEF Returned

\* initialize_class finds nothing to do.
LEMMA ReturnOrder ==
  ASSUME IInv, JInv, IInv', ClinitStep, NEW t \in Thread, At(t, "init", "enter"),
         Stack(t, Popped(t)), ret' = [ret EXCEPT ![t] = TRUE], UNCHANGED <<state, code>>,
         class_is_or_almost_initialized(t, Top(t).of) \/ "ERROR" \in state[Top(t).of]
  PROVE  JInv'
<1>0. PICK c \in Class : c = Top(t).of
  BY Zenon, AtFacts
<1>1. /\ StackOK /\ Depth(t) > 0 /\ Depth(t) \in Nat \ {0} /\ Top(t).op = "init" /\ Top(t).at = "enter"
  BY Zenon, AtFacts
<1>2. Pops(t) /\ Below(t) /\ Depth(t)' \in Nat /\ Depth(t)' >= Depth(t) - 1
  <2>1. Pops(t)
    BY Zenon, <1>1, PopEffect
  <2>2. Depth(t)' = Depth(t) - 1
    BY Zenon, <2>1, PopOrder
  <2>3. Depth(t)' \in Nat /\ Depth(t)' >= Depth(t) - 1
    BY <1>1, <2>2
  <2> QED BY Zenon, <2>1, <2>3 DEF Pops
<1>3. ret'[t] /\ \A u \in Thread : u # t => ret'[u] = ret[u]
  BY Zenon DEF IInv, Types
<1>4. Acts(t)
  BY Zenon, <1>1, <1>2, <1>3 DEF Acts, Below, Active
<1>5. Solid(c)'
  <2>1. CASE Solid(c)
    BY Zenon, <1>4, <2>1, SolidKept DEF IInv
  <2>2. CASE ~Solid(c)
    <3>1. "INITIALIZING" \in state[c] /\ initializing_thread[c] = t
      BY Zenon, <1>0, <2>2 DEF class_is_or_almost_initialized, Initialized, Solid, Settled
    <3>2. PICK i \in 1..Depth(t) : FrameAt(t, i, c, Held)
      BY Zenon, <3>1 DEF IInv, Underway
    <3>3. i # Depth(t) /\ stack[t][i].op = "init" /\ stack[t][i].of = c
      BY Zenon, <1>1, <3>2 DEF FrameAt, Top, Held
    <3>4. Chain(stack[t], i, Depth(t))
      BY Zenon, <2>2, <3>2, <3>3, HeldBelow
    <3>5. i \in 1..Depth(t) - 1 /\ Depth(t)' = Depth(t) - 1 /\ Agree(stack[t], stack'[t], Depth(t))
      BY <1>1, <1>2, <3>3 DEF Pops, Below, Agree, Depth
    <3>6. /\ stack'[t][i] = stack[t][i] /\ Chain(stack'[t], i, Depth(t) - 1)
          /\ stack'[t][Depth(t) - 1].at = "super"
      BY <1>1, <3>4, <3>5, ChainReturn
    <3>7. i \in 1..Depth(t)' /\ stack'[t][i].op = "init" /\ stack'[t][i].of = c
      BY Zenon, <3>3, <3>5, <3>6
    <3>8. Doing(t, i)'
      BY Zenon, <1>3, <3>5, <3>6 DEF Doing, Top
    <3> QED BY Zenon, <3>7, <3>8 DEF Solid
  <2> QED BY Zenon, <2>1, <2>2
<1>6. Returned(t)'
  BY Zenon, <1>0, <1>2, <1>5, ReturnsSolid
<1>7. Linked(stack'[t], Depth(t)') /\ \A d \in Class : Starts(d)' => Starts(d)
  BY Zenon, <1>2, PopOrder DEF Starts, Settled
<1> QED BY Zenon, <1>4, <1>6, <1>7, OrderStep

LEMMA InitializeOrder ==
  ASSUME IInv, JInv, IInv', ClinitStep, NEW t \in Thread, initialize_class(t)
  PROVE  JInv'
<1>0. PICK c \in Class : c = Top(t).of
  BY Zenon, AtFacts DEF initialize_class
<1>1. /\ At(t, "init", "enter") /\ StackOK /\ Depth(t) > 0 /\ Depth(t) \in Nat \ {0}
      /\ Top(t).op = "init" /\ Top(t).at = "enter" /\ UNCHANGED code
  BY Zenon, AtFacts DEF initialize_class
<1>2. CASE /\ Stack(t, Popped(t)) /\ ret' = [ret EXCEPT ![t] = TRUE] /\ UNCHANGED state
           /\ class_is_or_almost_initialized(t, Top(t).of) \/ "ERROR" \in state[Top(t).of]
  BY Zenon, <1>1, <1>2, ReturnOrder
<1>3. CASE Begun(t, c) /\ Stack(t, MovedTo(t, "link")) /\ UNCHANGED ret
  <2>1. Moves(t, "link") /\ Below(t)
    BY Zenon, <1>1, <1>3, MovedToEffect DEF InitAts, Moves
  <2>2. Linked(stack'[t], Depth(t)') /\ Depth(t)' = Depth(t)
    BY Zenon, <2>1, MoveOrder
  <2>3. Depth(t)' \in Nat /\ Depth(t)' >= Depth(t) - 1
    BY <1>1, <2>2
  <2>4. Acts(t)
    BY Zenon, <1>1, <1>3, <2>1, <2>3 DEF Acts, Below, Active
  <2>5. Returned(t)'
    BY Zenon, <2>1, <2>2 DEF Returned, Top, Moves, Is
  <2>6. \A d \in Class : Settled(d)' = Settled(d)
    <3>1. \A d \in Class : state'[d] = state[d] \/ state'[d] = state[d] \cup {"INITIALIZING"}
      BY Zenon, <1>3 DEF Begun, IInv, Types
    <3> QED BY Zenon, <3>1 DEF Settled
  <2>7. \A d \in Class : Starts(d)' => Starts(d)
    BY <2>1, <2>6, MoveOrder DEF Starts
  <2> QED BY Zenon, <1>1, <2>2, <2>4, <2>5, <2>7, OrderStep
<1> QED BY Zenon, <1>0, <1>2, <1>3 DEF initialize_class

\* initialize_class after initialize_class_intern returned r.
LEMMA FinishOrder ==
  ASSUME IInv, JInv, IInv', ClinitStep, NEW t \in Thread, NEW at \in Held, At(t, "init", at),
         NEW c \in Class, c = Top(t).of,
         NEW flags, "INITIALIZED" \notin flags, NEW r \in BOOLEAN, Finish(t, flags, r), UNCHANGED code,
         Active(t) => r \/ "ERROR" \in flags,
         r \/ "ERROR" \in flags => Starts(c) \/ super[c] = None \/ Solid(super[c])
  PROVE  JInv'
<1>1. /\ StackOK /\ Depth(t) > 0 /\ Depth(t) \in Nat \ {0} /\ Top(t).op = "init"
  BY Zenon, AtFacts
<1>2. Pops(t) /\ Linked(stack'[t], Depth(t)') /\ Depth(t)' = Depth(t) - 1
  <2>1. Pops(t)
    BY Zenon, <1>1, PopEffect DEF Finish
  <2> QED BY Zenon, <2>1, PopOrder
<1>3. /\ r => "INITIALIZED" \in Ended(flags, r)
      /\ "ERROR" \in flags <=> "ERROR" \in Ended(flags, r)
      /\ "INITIALIZED" \in Ended(flags, r) => r
  BY Zenon DEF Ended
<1>4. /\ state'[c] = Ended(flags, r) /\ \A d \in Class : d # c => state'[d] = state[d]
      /\ ret'[t] = r /\ \A u \in Thread : u # t => ret'[u] = ret[u]
  BY Zenon DEF Finish, IInv, Types
<1>5. Depth(t)' \in Nat /\ Depth(t)' >= Depth(t) - 1 /\ Below(t)
  BY <1>1, <1>2 DEF Pops
<1>6. Acts(t)
  <2>1. Active(t) => Onward(t)
    BY Zenon, <1>2, <1>3, <1>4 DEF Onward
  <2> QED BY Zenon, <1>4, <1>5, <2>1 DEF Acts, Below
<1>7. Returned(t)'
  <2>1. ret'[t] => Solid(c)'
    BY ZenonT(60), <1>3, <1>4 DEF Solid, Settled
  <2> QED BY Zenon, <1>2, <2>1, ReturnsSolid
<1>8. ASSUME NEW d \in Class, super[d] # None, Starts(d)' PROVE Starts(d) \/ Solid(super[d])
  <2>1. ASSUME NEW u \in Thread, RunsClinit(u, d)' PROVE Starts(d)
    BY Zenon, <1>2, <2>1, PopOrder DEF Starts
  <2>2. CASE Settled(d)' # {} /\ d # c
    BY Zenon, <1>4, <2>2 DEF Settled, Starts
  <2>3. CASE Settled(d)' # {} /\ d = c
    <3>1. "ERROR" \in state'[c] \/ "INITIALIZED" \in state'[c]
      BY Zenon, <2>3 DEF Settled
    <3> QED BY Zenon, <1>3, <1>4, <1>8, <2>3, <3>1
  <2> QED BY Zenon, <1>8, <2>1, <2>2, <2>3 DEF Starts
<1> QED BY Zenon, <1>2, <1>6, <1>7, <1>8, OrderStep

\* The <clinit>, if there is one.
LEMMA ClinitOrder ==
  ASSUME IInv, JInv, IInv', ClinitStep, NEW t \in Thread, NEW at \in {"link", "super"},
         At(t, "init", at), NEW c \in Class, c = Top(t).of,
         NEW flags, flags \in {state[c], state[c] \cup {"LINKED"}}, Clinit(t, flags), UNCHANGED code,
         super[c] = None \/ Solid(super[c])
  PROVE  JInv'
<1>1. /\ StackOK /\ Depth(t) > 0 /\ Depth(t) \in Nat \ {0} /\ Top(t) \in Frames /\ Top(t).op = "init"
      /\ at \in Held /\ Settled(c) = {}
  BY Zenon, AtFacts, TopHolds DEF Held
<1>2. CASE c \in DOMAIN calls
  <2> DEFINE f == [Top(t) EXCEPT !.at = "clinit", !.todo = calls[c]]
  <2>1. /\ Stack(t, Append(Popped(t), f)) /\ state' = [state EXCEPT ![c] = flags]
        /\ UNCHANGED ret
    BY Zenon, <1>2 DEF Clinit
  <2>2. calls[c] \subseteq Code
    BY Zenon, <1>2, InitAssumption DEF IInv, Types
  <2>3. f \in Frames /\ Is(f, Top(t).op, Top(t).of, "clinit")
    BY Zenon, <1>1, <2>2 DEF Frames, Is
  <2> HIDE DEF f
  <2>4. Moves(t, "clinit")
    BY Zenon, <1>1, <2>1, <2>3, MoveEffect
  <2>5. Linked(stack'[t], Depth(t)') /\ Depth(t)' = Depth(t)
    BY Zenon, <2>4, MoveOrder
  <2>6. Depth(t)' \in Nat /\ Depth(t)' >= Depth(t) - 1 /\ Depth(t)' >= Depth(t)
    BY <1>1, <2>5
  <2>7. Acts(t)
    <3>1. Onward(t)
      BY Zenon, <2>4, <2>6 DEF Moves, Is, Onward
    <3> QED BY Zenon, <2>1, <2>4, <2>6, <3>1 DEF Acts, Below, Moves
  <2>8. Returned(t)'
    BY Zenon, <2>4, <2>5 DEF Returned, Top, Moves, Is
  <2>9. \A d \in Class : Settled(d)' = Settled(d)
    <3>1. \A d \in Class : state'[d] = state[d] \/ state'[d] = state[d] \cup {"LINKED"}
      BY Zenon, <2>1 DEF IInv, Types
    <3> QED BY Zenon, <3>1 DEF Settled
  <2>10. ASSUME NEW d \in Class, super[d] # None, Starts(d)' PROVE Starts(d) \/ Solid(super[d])
    <3>1. \A u \in Thread : RunsClinit(u, d)' => RunsClinit(u, d) \/ d = c
      BY Zenon, <2>4, MoveOrder
    <3> QED BY Zenon, <2>9, <2>10, <3>1 DEF Starts
  <2> QED BY Zenon, <2>5, <2>7, <2>8, <2>10, OrderStep
<1>3. CASE c \notin DOMAIN calls
  <2>1. Finish(t, flags, TRUE)
    BY Zenon, <1>3 DEF Clinit
  <2>2. "INITIALIZED" \notin flags
    BY <1>1 DEF Settled
  <2> QED BY Zenon, <1>1, <2>1, <2>2, FinishOrder
<1> QED BY Zenon, <1>2, <1>3

LEMMA LinkFailsOrder ==
  ASSUME IInv, JInv, IInv', ClinitStep, NEW t \in Thread, link_fails(t)
  PROVE  JInv'
<1>0. PICK c \in Class : c = Top(t).of
  BY Zenon, AtFacts DEF link_fails
<1>1. At(t, "init", "link") /\ Top(t).at = "link" /\ "link" \in Held
  BY Zenon, AtFacts DEF link_fails, Held
<1>2. Finish(t, state[c], FALSE) /\ UNCHANGED code
  BY Zenon, <1>0 DEF link_fails
<1>3. Settled(c) = {}
  BY Zenon, <1>0, <1>1, TopHolds
<1>4. "INITIALIZED" \notin state[c] /\ "ERROR" \notin state[c]
  BY Zenon, <1>3 DEF Settled
<1>5. ~Active(t)
  BY Zenon, <1>1 DEF Active
<1> QED BY Zenon, <1>0, <1>1, <1>2, <1>4, <1>5, FinishOrder

LEMMA InitializeSuperOrder ==
  ASSUME IInv, JInv, IInv', ClinitStep, NEW t \in Thread, initialize_super(t)
  PROVE  JInv'
<1>0. PICK c \in Class : c = Top(t).of
  BY Zenon, AtFacts DEF initialize_super
<1>1. /\ At(t, "init", "link") /\ StackOK /\ Depth(t) > 0 /\ Depth(t) \in Nat \ {0}
      /\ Top(t).op = "init" /\ Top(t).at = "link" /\ UNCHANGED code
  BY Zenon, AtFacts DEF initialize_super
<1>2. CASE NeedsSuper(c)
  <2>1. /\ Stack(t, Append(MovedTo(t, "super"), Frame("init", super[c], "enter")))
        /\ state' = [state EXCEPT ![c] = state[c] \cup {"LINKED"}] /\ UNCHANGED ret
    BY Zenon, <1>0, <1>2 DEF initialize_super
  <2>2. super[c] \in Class /\ super[c] # None
    BY Zenon, <1>2, InitAssumption DEF NeedsSuper
  <2> DEFINE g == Frame("init", super[c], "enter")
  <2>3. g \in Frames /\ g.op = "init" /\ g.of = super[c] /\ g.at = "enter"
    BY Zenon, <2>2, NewFrames
  <2> HIDE DEF g
  <2>4. Pushes(t, "super", "init", super[c], "enter")
    <3>1. Pushes(t, "super", g.op, g.of, g.at)
      BY ZenonT(60), <1>1, <2>1, <2>3, MovedToEffect DEF InitAts, g
    <3> QED BY Zenon, <2>3, <3>1
  <2>5. /\ Linked(stack'[t], Depth(t)') /\ Depth(t)' = Depth(t) + 1
        /\ \A u \in Thread : \A d \in Class : RunsClinit(u, d)' => RunsClinit(u, d)
    BY <1>0, <2>2, <2>4, PushOrder
  <2>6. Depth(t)' \in Nat /\ Depth(t)' >= Depth(t) - 1
    BY <1>1, <2>5
  <2>7. Acts(t)
    BY Zenon, <1>1, <2>1, <2>4, <2>6 DEF Acts, Below, Pushes, Active
  <2>8. Returned(t)'
    BY Zenon, <2>4, <2>5 DEF Returned, Top, Pushes, Is
  <2>9. \A d \in Class : Settled(d)' = Settled(d)
    <3>1. \A d \in Class : state'[d] = state[d] \/ state'[d] = state[d] \cup {"LINKED"}
      BY Zenon, <2>1 DEF IInv, Types
    <3> QED BY Zenon, <3>1 DEF Settled
  <2>10. \A d \in Class : Starts(d)' => Starts(d)
    BY Zenon, <2>5, <2>9 DEF Starts
  <2> QED BY Zenon, <1>1, <2>5, <2>7, <2>8, <2>10, OrderStep
<1>3. CASE ~NeedsSuper(c)
  <2>1. Clinit(t, state[c] \cup {"LINKED"})
    BY Zenon, <1>0, <1>3 DEF initialize_super
  <2>2. super[c] = None \/ Solid(super[c])
    BY Zenon, <1>3 DEF NeedsSuper, Initialized, Solid, Settled
  <2> QED BY Zenon, <1>0, <1>1, <2>1, <2>2, ClinitOrder
<1> QED BY Zenon, <1>2, <1>3

LEMMA SuperReturnedOrder ==
  ASSUME IInv, JInv, IInv', ClinitStep, NEW t \in Thread, super_returned(t)
  PROVE  JInv'
<1>0. PICK c \in Class : c = Top(t).of
  BY Zenon, AtFacts DEF super_returned
<1>1. /\ At(t, "init", "super") /\ Top(t).at = "super" /\ "super" \in Held /\ UNCHANGED code
      /\ Depth(t) > 0
  BY Zenon, AtFacts DEF super_returned, Held
<1>2. CASE ret[t]
  <2>1. Clinit(t, state[c])
    BY Zenon, <1>0, <1>2 DEF super_returned, SuperOk
  <2>2. Solid(super[c])
    BY Zenon, <1>0, <1>1, <1>2 DEF JInv, Returned
  <2> QED BY Zenon, <1>0, <1>1, <2>1, <2>2, ClinitOrder
<1>3. CASE ~ret[t]
  <2>1. Finish(t, state[c], FALSE)
    BY Zenon, <1>0, <1>3 DEF super_returned, SuperOk
  <2>2. Settled(c) = {}
    BY Zenon, <1>0, <1>1, TopHolds
  <2>3. "INITIALIZED" \notin state[c] /\ "ERROR" \notin state[c]
    BY Zenon, <2>2 DEF Settled
  <2>4. ~Active(t)
    BY Zenon, <1>1, <1>3 DEF Active
  <2> QED BY Zenon, <1>0, <1>1, <2>1, <2>3, <2>4, FinishOrder
<1> QED BY Zenon, <1>2, <1>3

LEMMA ClinitCallOrder ==
  ASSUME IInv, JInv, IInv', ClinitStep, NEW t \in Thread, clinit_call(t)
  PROVE  JInv'
<1>1. /\ StackOK /\ Depth(t) > 0 /\ Depth(t) \in Nat \ {0} /\ Top(t).op = "init" /\ Top(t).at = "clinit"
      /\ Top(t) \in Frames /\ Top(t).todo \subseteq Code /\ Top(t).of \in Class
  BY Zenon, AtFacts DEF clinit_call
<1>2. UNCHANGED <<state, code, ret>>
  BY Zenon DEF clinit_call
<1>3. PICK x \in Top(t).todo :
        Stack(t, Append(Append(Popped(t), [Top(t) EXCEPT !.todo = @ \ {x}]), Frame("run", x, "call")))
  BY SMTT(30) DEF clinit_call
<1> DEFINE f == [Top(t) EXCEPT !.todo = @ \ {x}]
           g == Frame("run", x, "call")
<1>4. f \in Frames /\ Is(f, Top(t).op, Top(t).of, "clinit")
  BY Zenon, <1>1 DEF Frames, Is
<1>5. g \in Frames /\ g.op = "run" /\ g.at = "call"
  BY Zenon, <1>1, NewFrames
<1>6. Stack(t, Append(Append(Popped(t), f), g))
  BY Zenon, <1>3
<1> HIDE DEF f, g
<1>7. Pushes(t, "clinit", "run", g.of, "call")
  BY ZenonT(60), <1>1, <1>4, <1>5, <1>6, PushEffect
<1>8. /\ Linked(stack'[t], Depth(t)') /\ Depth(t)' = Depth(t) + 1
      /\ \A u \in Thread : \A c \in Class :
           RunsClinit(u, c)' => RunsClinit(u, c) \/ c = Top(t).of
  BY <1>7, PushOrder
<1>9. Depth(t)' \in Nat /\ Depth(t)' >= Depth(t) - 1 /\ Depth(t)' >= Depth(t)
  BY <1>1, <1>8
<1>10. Acts(t)
  <2>1. Onward(t)
    BY Zenon, <1>7, <1>9 DEF Pushes, Is, Onward
  <2> QED BY Zenon, <1>2, <1>7, <1>9, <2>1 DEF Acts, Below, Pushes
<1>11. Returned(t)'
  BY Zenon, <1>7, <1>8 DEF Returned, Top, Pushes, Is
<1>12. \A c \in Class : Starts(c)' => Starts(c)
  <2>1. RunsClinit(t, Top(t).of)
    <3>1. Depth(t) \in 1..Depth(t)
      BY <1>1
    <3> QED BY Zenon, <1>1, <3>1, RunsNow DEF Top
  <2> QED BY Zenon, <1>2, <1>8, <2>1 DEF Starts, Settled
<1> QED BY Zenon, <1>2, <1>8, <1>10, <1>11, <1>12, OrderStep

LEMMA ClinitReturnsOrder ==
  ASSUME IInv, JInv, IInv', ClinitStep, NEW t \in Thread, NEW throws \in BOOLEAN, clinit_returns(t, throws)
  PROVE  JInv'
<1>0. PICK c \in Class : c = Top(t).of
  BY Zenon, AtFacts DEF clinit_returns
<1>1. /\ At(t, "init", "clinit") /\ "clinit" \in Held /\ UNCHANGED code
      /\ Depth(t) \in Nat \ {0} /\ Top(t).op = "init" /\ Top(t).at = "clinit"
  BY Zenon, AtFacts DEF clinit_returns, Held
<1>2. Finish(t, state[c] \cup {"ERROR"}, FALSE) \/ Finish(t, state[c], TRUE)
  BY Zenon, <1>0 DEF clinit_returns, Failed
<1>3. Settled(c) = {}
  BY Zenon, <1>0, <1>1, TopHolds
<1>4. "INITIALIZED" \notin state[c] /\ "INITIALIZED" \notin state[c] \cup {"ERROR"}
  BY Zenon, <1>3 DEF Settled
<1>5. Starts(c)
  <2>1. Depth(t) \in 1..Depth(t)
    BY <1>1
  <2>2. RunsClinit(t, c)
    BY Zenon, <1>0, <1>1, <2>1, RunsNow DEF Top
  <2> QED BY Zenon, <2>2 DEF Starts
<1>6. CASE Finish(t, state[c] \cup {"ERROR"}, FALSE)
  <2> DEFINE flags == state[c] \cup {"ERROR"}
  <2>1. "ERROR" \in flags /\ "INITIALIZED" \notin flags /\ Finish(t, flags, FALSE)
    BY Zenon, <1>4, <1>6
  <2> HIDE DEF flags
  <2> QED BY Zenon, <1>0, <1>1, <1>5, <2>1, FinishOrder
<1>7. CASE Finish(t, state[c], TRUE)
  BY ZenonT(60), <1>0, <1>1, <1>4, <1>5, <1>7, FinishOrder
<1> QED BY Zenon, <1>2, <1>6, <1>7

-----------------------------------------------------------------------------
(* The theorems *)

LEMMA InitOrder == Init => JInv
<1> SUFFICES ASSUME Init PROVE JInv
  BY Zenon
<1>1. \A t \in Thread : Depth(t) = 0 /\ stack[t] = <<>> /\ 1..Depth(t) = {} /\ ~(Depth(t) > 0)
  BY DEF Init, Depth
<1>2. \A c \in Class : ~Starts(c)
  <2>1. \A t \in Thread : DOMAIN stack[t] = {}
    BY <1>1
  <2> QED BY Zenon, <2>1 DEF Init, Starts, Settled, RunsClinit, Has
<1>3. \A x \in Code : code[x] = "none"
  BY Zenon DEF Init
<1> QED BY Zenon, <1>1, <1>2, <1>3 DEF JInv, Linked, Returned, SupersBegun, SitesBegun

LEMMA NextOrder == IInv /\ IInv' /\ JInv /\ [Next]_vars => JInv'
<1> SUFFICES ASSUME IInv, IInv', JInv, [Next]_vars PROVE JInv'
  BY Zenon
<1>1. ClinitStep \/ UNCHANGED vars
  BY Zenon, NextInv
<1>2. CASE UNCHANGED vars
  <2>1. stack' = stack /\ state' = state /\ code' = code /\ ret' = ret
    BY Zenon, <1>2 DEF vars
  <2>2. \A t \in Thread : Depth(t)' = Depth(t) /\ Top(t)' = Top(t)
    BY Zenon, <2>1 DEF Depth, Top
  <2>3. \A c \in Class : Settled(c)' = Settled(c)
    BY Zenon, <2>1 DEF Settled
  <2>4. \A c \in Class : Solid(c) => Solid(c)'
    BY Zenon, <2>1, <2>2, <2>3 DEF Solid, Doing
  <2>5. \A c \in Class : Starts(c)' => Starts(c)
    BY Zenon, <2>1, <2>3 DEF Starts, RunsClinit, Has
  <2>6. SupersBegun' /\ SitesBegun'
    <3>1. \A c \in Class : super[c] # None => super[c] \in Class
      BY Zenon, InitAssumption
    <3>2. \A x \in Code : Ref[x] \in Class
      BY Zenon, InitAssumption
    <3> QED BY ZenonT(60), <2>1, <2>3, <2>4, <2>5, <3>1, <3>2 DEF JInv, SupersBegun, SitesBegun
  <2>7. ASSUME NEW t \in Thread PROVE Linked(stack[t], Depth(t))' /\ Returned(t)'
    <3>1. Linked(stack[t], Depth(t)) /\ Returned(t)
      BY Zenon DEF JInv
    <3>2. Linked(stack[t], Depth(t))'
      BY Zenon, <2>1, <2>2, <3>1
    <3>3. \A c : Solid(c)' = Solid(c)
      BY ZenonT(60), <2>1, <2>2 DEF Solid, Doing, Settled
    <3>4. Returned(t)'
      BY Zenon, <2>1, <2>2, <3>1, <3>3 DEF Returned
    <3> QED BY Zenon, <3>2, <3>4
  <2> QED BY Zenon, <2>6, <2>7 DEF JInv
<1>3. ASSUME NEW t \in Thread, ThreadStep(t), ClinitStep PROVE JInv'
  <2>1. CASE initialize_class(t) \/ link_fails(t) \/ initialize_super(t) \/ super_returned(t)
    BY Zenon, <1>3, <2>1, InitializeOrder, LinkFailsOrder, InitializeSuperOrder, SuperReturnedOrder
  <2>2. CASE clinit_call(t) \/ \E throws \in BOOLEAN : clinit_returns(t, throws)
    BY Zenon, <1>3, <2>2, ClinitCallOrder, ClinitReturnsOrder
  <2>3. CASE run(t) \/ call(t) \/ jit_compile(t) \/ access(t) \/ trap(t)
    BY Zenon, <1>3, <2>3, RunOrder, CallOrder, CompileOrder, BodyOrder
  <2>4. CASE patcher_handler(t) \/ patcher_returned(t)
    BY Zenon, <1>3, <2>4, PatcherOrder
  <2> QED BY Zenon, <1>3, <2>1, <2>2, <2>3, <2>4 DEF ThreadStep
<1> QED BY Zenon, <1>1, <1>2, <1>3 DEF Next

\* The order of initializations, for any stacks the threads build up: what is
\* begun is not given up, but for the failure of the <clinit> of a superclass.
THEOREM OrderInvariance == Spec => []JInv
<1> QED BY Invariance, InitOrder, NextOrder, PTL DEF Spec

LEMMA SolidEntered ==
  ASSUME IInv, JInv, NEW c \in Class, Solid(c)
  PROVE  Entered(c)
<1>1. ASSUME NEW t \in Thread, NEW i \in 1..Depth(t),
             stack[t][i].op = "init", stack[t][i].of = c, Doing(t, i)
      PROVE  "INITIALIZING" \in state[c]
  <2>1. stack[t][i].at \in {"super", "clinit"}
    <3>1. CASE Running(stack[t], Depth(t), i)
      <4>1. PICK j \in i..Depth(t) : Chain(stack[t], i, j) /\ stack[t][j].at = "clinit"
        BY Zenon, <3>1 DEF Running
      <4>2. i # j => i \in i..j - 1
        OBVIOUS
      <4> QED BY Zenon, <4>1, <4>2 DEF Chain
    <3>2. CASE Chain(stack[t], i, Depth(t)) /\ Top(t).at = "super"
      <4>1. i # Depth(t) => i \in i..Depth(t) - 1
        BY DEF IInv, Types, StackOK, Depth
      <4> QED BY Zenon, <3>2, <4>1 DEF Chain, Top
    <3> QED BY Zenon, <1>1, <3>1, <3>2 DEF Doing
  <2>2. FrameAt(t, i, c, Held)
    BY Zenon, <1>1, <2>1 DEF FrameAt, Held
  <2> QED BY Zenon, <2>2 DEF IInv, Recorded
<1> QED BY Zenon, <1>1 DEF Solid, Entered

\* When a <clinit> runs or a class is done, initialize_class_intern has begun
\* the superclass, and given it up only for a failed <clinit> above it.
THEOREM SuperclassFirst == Spec => []SuperFirst
<1>1. IInv /\ JInv => SuperFirst
  <2> SUFFICES ASSUME IInv, JInv, NEW c \in Class, super[c] # None, Starts(c)
               PROVE  Entered(super[c])
    BY Zenon DEF SuperFirst, Starts
  <2>1. super[c] \in Class /\ Solid(super[c])
    BY Zenon, InitAssumption DEF JInv, SupersBegun
  <2> QED BY Zenon, <2>1, SolidEntered
<1> QED BY <1>1, Invariance, OrderInvariance, PTL

\* The code generator and the patchers leave an access without a check only
\* when its class is done or begun.
THEOREM UncheckedOnlyWhenBegun == Spec => []UncheckedCode
<1>1. IInv /\ JInv => UncheckedCode
  <2> SUFFICES ASSUME IInv, JInv, NEW x \in Code
               PROVE  /\ code[x] = "plain" => Settled(Ref[x]) # {}
                      /\ code[x] = "elided" => Entered(Ref[x])
    BY Zenon DEF UncheckedCode
  <2>1. Ref[x] \in Class
    BY Zenon, InitAssumption
  <2> QED BY Zenon, <2>1, SolidEntered DEF JInv, SitesBegun
<1> QED BY <1>1, Invariance, OrderInvariance, PTL
=============================================================================
