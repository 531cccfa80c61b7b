-------------------------- MODULE ClassInitProofs --------------------------
(***************************************************************************)
(* Proofs about ClassInit: the record of the initializing thread, the      *)
(* single run of every <clinit> and the assertion of trap_handle, for any  *)
(* classes, code, programs and threads.                                    *)
(***************************************************************************)
EXTENDS ClassInit, TLAPS

InitAts == {"enter", "link", "super", "clinit"}
RunAts == {"call", "compile", "body", "lock", "patch"}

\* A frame that moves on is a frame of the same call.
LEMMA FrameFacts ==
  ASSUME NEW f \in Frames, NEW a, f.op = "init" => a \in InitAts, f.op = "run" => a \in RunAts
  PROVE  /\ [f EXCEPT !.at = a] \in Frames
         /\ [f EXCEPT !.at = a].op = f.op /\ [f EXCEPT !.at = a].of = f.of
         /\ [f EXCEPT !.at = a].at = a
<1>1. CASE f \in [op: {"init"}, of: Class, at: InitAts, todo: SUBSET Code]
  BY Zenon, <1>1 DEF Frames, InitAts, RunAts
<1>2. CASE f \in [op: {"run"}, of: Code, at: RunAts, todo: {{}}]
  BY Zenon, <1>2 DEF Frames, InitAts, RunAts
<1> QED BY Zenon, <1>1, <1>2 DEF Frames, InitAts, RunAts

\* What is known of the fields of a frame.
LEMMA FrameFields ==
  ASSUME NEW f \in Frames
  PROVE  \/ f.op = "init" /\ f.of \in Class /\ f.at \in InitAts /\ f.todo \subseteq Code
         \/ f.op = "run" /\ f.of \in Code /\ f.at \in RunAts
BY Zenon DEF Frames, InitAts, RunAts

\* The new frames are frames.
LEMMA NewFrames ==
  /\ \A c \in Class : /\ Frame("init", c, "enter") \in Frames
                      /\ Frame("init", c, "enter").op = "init"
                      /\ Frame("init", c, "enter").of = c
                      /\ Frame("init", c, "enter").at = "enter"
  /\ \A x \in Code : /\ Frame("run", x, "call") \in Frames
                     /\ Frame("run", x, "call").op = "run"
                     /\ Frame("run", x, "call").at = "call"
BY Zenon DEF Frame, Frames

\* Taking the last element off a sequence, and putting one or two there.
LEMMA SeqFacts ==
  ASSUME NEW S, NEW s \in Seq(S), Len(s) > 0, NEW f \in S, NEW g \in S
  PROVE  LET p == SubSeq(s, 1, Len(s) - 1)
         IN  /\ p \in Seq(S) /\ Len(p) = Len(s) - 1
             /\ \A i \in 1..Len(s) - 1 : p[i] = s[i]
             /\ Append(p, f) \in Seq(S) /\ Len(Append(p, f)) = Len(s)
             /\ \A i \in 1..Len(s) - 1 : Append(p, f)[i] = s[i]
             /\ Append(p, f)[Len(s)] = f
             /\ Append(Append(p, f), g) \in Seq(S) /\ Len(Append(Append(p, f), g)) = Len(s) + 1
             /\ \A i \in 1..Len(s) - 1 : Append(Append(p, f), g)[i] = s[i]
             /\ Append(Append(p, f), g)[Len(s)] = f
             /\ Append(Append(p, f), g)[Len(s) + 1] = g
<1> DEFINE p == SubSeq(s, 1, Len(s) - 1)
<1>1. p \in Seq(S) /\ Len(p) = Len(s) - 1 /\ \A i \in 1..Len(s) - 1 : p[i] = s[i]
  OBVIOUS
<1> HIDE DEF p
<1>2. /\ Append(p, f) \in Seq(S) /\ Len(Append(p, f)) = Len(s)
      /\ \A i \in 1..Len(s) - 1 : Append(p, f)[i] = s[i]
      /\ Append(p, f)[Len(s)] = f
  BY <1>1
<1> DEFINE q == Append(p, f)
<1> HIDE DEF q
<1>3. /\ Append(q, g) \in Seq(S) /\ Len(Append(q, g)) = Len(s) + 1
      /\ \A i \in 1..Len(s) - 1 : Append(q, g)[i] = s[i]
      /\ Append(q, g)[Len(s)] = f
      /\ Append(q, g)[Len(s) + 1] = g
  <2>1. q \in Seq(S) /\ Len(q) = Len(s) /\ q[Len(s)] = f /\ \A i \in 1..Len(s) - 1 : q[i] = s[i]
    BY Zenon, <1>2 DEF q
  <2> QED BY <2>1
<1> QED BY Zenon, <1>1, <1>2, <1>3 DEF p, q

-----------------------------------------------------------------------------
(* What a step does to a stack *)

StackOK == stack \in [Thread -> Seq(Frames)]

Is(f, op, of, at) == f.op = op /\ f.of = of /\ f.at = at

\* Only the last frame of thread t may change.
Below(t) ==
  /\ StackOK' /\ Depth(t) \in Nat \ {0}
  /\ \A u \in Thread : u # t => stack'[u] = stack[u]
  /\ \A i \in 1..Depth(t) - 1 : stack'[t][i] = stack[t][i]
Pops(t) == Below(t) /\ Len(stack'[t]) = Depth(t) - 1
Moves(t, a) ==
  /\ Below(t) /\ Len(stack'[t]) = Depth(t)
  /\ Is(stack'[t][Depth(t)], Top(t).op, Top(t).of, a)
Pushes(t, a, op, of, b) ==
  /\ Below(t) /\ Len(stack'[t]) = Depth(t) + 1
  /\ Is(stack'[t][Depth(t)], Top(t).op, Top(t).of, a)
  /\ Is(stack'[t][Depth(t) + 1], op, of, b)

LEMMA TopType ==
  ASSUME StackOK, NEW t \in Thread, Depth(t) > 0
  PROVE  stack[t] \in Seq(Frames) /\ Top(t) \in Frames /\ Depth(t) \in Nat \ {0}
<1>1. stack[t] \in Seq(Frames)
  BY Zenon DEF StackOK
<1> QED BY <1>1 DEF Depth, Top

LEMMA PopEffect ==
  ASSUME StackOK, NEW t \in Thread, Depth(t) > 0, Stack(t, Popped(t))
  PROVE  Pops(t)
<1>1. stack[t] \in Seq(Frames) /\ Top(t) \in Frames /\ Depth(t) \in Nat \ {0}
  BY Zenon, TopType
<1>2. /\ Popped(t) \in Seq(Frames) /\ Len(Popped(t)) = Depth(t) - 1
      /\ \A i \in 1..Depth(t) - 1 : Popped(t)[i] = stack[t][i]
  BY <1>1, SeqFacts DEF Popped, Depth
<1>3. /\ stack'[t] = Popped(t) /\ \A u \in Thread : u # t => stack'[u] = stack[u]
      /\ stack' \in [Thread -> Seq(Frames)]
  BY Zenon, <1>2 DEF Stack, StackOK
<1> QED BY Zenon, <1>1, <1>2, <1>3 DEF Pops, Below, StackOK

\* The last frame is replaced by a frame of the same call ...
LEMMA MoveEffect ==
  ASSUME StackOK, NEW t \in Thread, Depth(t) > 0, NEW f \in Frames, NEW a,
         Is(f, Top(t).op, Top(t).of, a), Stack(t, Append(Popped(t), f))
  PROVE  Moves(t, a)
<1>1. stack[t] \in Seq(Frames) /\ Top(t) \in Frames /\ Depth(t) \in Nat \ {0}
  BY Zenon, TopType
<1> DEFINE s == Append(Popped(t), f)
<1>2. /\ s \in Seq(Frames) /\ Len(s) = Depth(t) /\ s[Depth(t)] = f
      /\ \A i \in 1..Depth(t) - 1 : s[i] = stack[t][i]
  BY <1>1, SeqFacts DEF Popped, Depth
<1> HIDE DEF s
<1>3. /\ stack'[t] = s /\ \A u \in Thread : u # t => stack'[u] = stack[u]
      /\ stack' \in [Thread -> Seq(Frames)]
  BY Zenon, <1>2 DEF Stack, StackOK, s
<1> QED BY Zenon, <1>1, <1>2, <1>3 DEF Moves, Below, StackOK

\* ... and another is put on top.
LEMMA PushEffect ==
  ASSUME StackOK, NEW t \in Thread, Depth(t) > 0, NEW f \in Frames, NEW a, NEW g \in Frames,
         Is(f, Top(t).op, Top(t).of, a), Stack(t, Append(Append(Popped(t), f), g))
  PROVE  Pushes(t, a, g.op, g.of, g.at)
<1>1. stack[t] \in Seq(Frames) /\ Top(t) \in Frames /\ Depth(t) \in Nat \ {0}
  BY Zenon, TopType
<1> DEFINE s == Append(Append(Popped(t), f), g)
<1>2. /\ s \in Seq(Frames) /\ Len(s) = Depth(t) + 1 /\ s[Depth(t)] = f /\ s[Depth(t) + 1] = g
      /\ \A i \in 1..Depth(t) - 1 : s[i] = stack[t][i]
  BY <1>1, SeqFacts DEF Popped, Depth
<1> HIDE DEF s
<1>3. /\ stack'[t] = s /\ \A u \in Thread : u # t => stack'[u] = stack[u]
      /\ stack' \in [Thread -> Seq(Frames)]
  BY Zenon, <1>2 DEF Stack, StackOK, s
<1> QED BY Zenon, <1>1, <1>2, <1>3 DEF Pushes, Below, StackOK, Is

LEMMA MovedToEffect ==
  ASSUME StackOK, NEW t \in Thread, Depth(t) > 0, NEW a,
         Top(t).op = "init" => a \in InitAts, Top(t).op = "run" => a \in RunAts
  PROVE  /\ Stack(t, MovedTo(t, a)) => Moves(t, a)
         /\ \A g \in Frames : Stack(t, Append(MovedTo(t, a), g)) => Pushes(t, a, g.op, g.of, g.at)
<1> DEFINE f == [Top(t) EXCEPT !.at = a]
<1>1. Top(t) \in Frames
  BY Zenon, TopType
<1>2. f \in Frames /\ Is(f, Top(t).op, Top(t).of, a)
  BY Zenon, <1>1, FrameFacts DEF Is
<1>3. MovedTo(t, a) = Append(Popped(t), f)
  BY Zenon DEF MovedTo
<1> HIDE DEF f
<1>4. Stack(t, MovedTo(t, a)) => Moves(t, a)
  BY Zenon, <1>2, <1>3, MoveEffect
<1>5. ASSUME NEW g \in Frames, Stack(t, Append(MovedTo(t, a), g))
      PROVE  Pushes(t, a, g.op, g.of, g.at)
  BY Zenon, <1>2, <1>3, <1>5, PushEffect
<1> QED BY Zenon, <1>4, <1>5

-----------------------------------------------------------------------------
(* The inductive invariant *)

Types ==
  /\ StackOK
  /\ calls \in Programs
  /\ state \in [Class -> SUBSET Flags]
  /\ initializing_thread \in [Class -> Thread \cup {None}]
  /\ code \in [Code -> Sites]
  /\ ret \in [Thread -> BOOLEAN] /\ exc \in [Thread -> BOOLEAN] /\ aborted \in BOOLEAN
  /\ todo \in [Thread -> SUBSET Code]

\* Who called a frame: code at the bottom, and under an initialization an
\* initialization or code that waits for it, under code a <clinit>.
Waiting == {"super", "compile", "patch"}
Shape ==
  \A t \in Thread : \A i \in 1..Depth(t) :
    /\ i = 1 => stack[t][i].op = "run"
    /\ i # Depth(t) =>
         \/ stack[t][i].at \in Waiting /\ stack[t][i + 1].op = "init"
         \/ stack[t][i].at = "clinit" /\ stack[t][i + 1].op = "run"

\* Frame i of thread t initializes c and is at one of A.
FrameAt(t, i, c, A) ==
  i \in 1..Depth(t) /\ stack[t][i].op = "init" /\ stack[t][i].of = c /\ stack[t][i].at \in A
Held == {"link", "super", "clinit"}

\* Who holds the monitor of a class is the one thread that initializes it, ...
Recorded ==
  \A t \in Thread : \A c \in Class : \A i \in 1..Depth(t) :
    FrameAt(t, i, c, Held) =>
      "INITIALIZING" \in state[c] /\ initializing_thread[c] = t

\* ... once.
Once ==
  \A t \in Thread : \A c \in Class : \A i, j \in 1..Depth(t) :
    FrameAt(t, i, c, Held) /\ FrameAt(t, j, c, Held) => i = j

\* A class that is being initialized is not done, and the thread is at it.
Underway ==
  \A c \in Class : "INITIALIZING" \in state[c] =>
    /\ Settled(c) = {}
    /\ initializing_thread[c] \in Thread
    /\ \E i \in 1..Depth(initializing_thread[c]) : FrameAt(initializing_thread[c], i, c, Held)

\* An exception is pending because of a class in error, or is being returned.
SomeError == \E c \in Class : "ERROR" \in state[c]
Returning(t) == ~ret[t] /\ Depth(t) > 0 /\ Top(t).at \in Waiting
Pending == \A t \in Thread : exc[t] => SomeError \/ Returning(t)

IInv == Types /\ Shape /\ Recorded /\ Once /\ Underway /\ Pending /\ AbortAfterError

\* The shape of the stacks is kept.
LEMMA ShapeKept ==
  ASSUME IInv, NEW t \in Thread, NEW a, NEW op, NEW of, NEW b,
         \/ Pops(t) \/ Moves(t, a)
         \/ /\ Pushes(t, a, op, of, b)
            /\ (a \in Waiting /\ op = "init") \/ (a = "clinit" /\ op = "run")
  PROVE  Shape'
<1>1. ASSUME NEW u \in Thread, u # t, NEW i \in 1..Depth(u)'
      PROVE  /\ i = 1 => stack'[u][i].op = "run"
             /\ i # Depth(u)' =>
                  \/ stack'[u][i].at \in Waiting /\ stack'[u][i + 1].op = "init"
                  \/ stack'[u][i].at = "clinit" /\ stack'[u][i + 1].op = "run"
  <2>1. stack'[u] = stack[u]
    BY Zenon, <1>1 DEF Pops, Moves, Pushes, Below
  <2> QED BY <1>1, <2>1 DEF IInv, Shape, Depth
<1>2. ASSUME NEW i \in 1..Depth(t)'
      PROVE  /\ i = 1 => stack'[t][i].op = "run"
             /\ i # Depth(t)' =>
                  \/ stack'[t][i].at \in Waiting /\ stack'[t][i + 1].op = "init"
                  \/ stack'[t][i].at = "clinit" /\ stack'[t][i + 1].op = "run"
  <2> DEFINE d == Depth(t)
  <2>0. d \in Nat \ {0} /\ Depth(t)' = Len(stack'[t])
    BY Zenon DEF Pops, Moves, Pushes, Below, Depth
  <2>1. \A j \in 1..d :
          /\ j = 1 => stack[t][j].op = "run"
          /\ j # d => \/ stack[t][j].at \in Waiting /\ stack[t][j + 1].op = "init"
                      \/ stack[t][j].at = "clinit" /\ stack[t][j + 1].op = "run"
    BY Zenon DEF IInv, Shape
  <2>2. \A j \in 1..d - 1 : stack'[t][j] = stack[t][j]
    BY Zenon DEF Pops, Moves, Pushes, Below
  <2>3. ~Pops(t) => stack'[t][d].op = stack[t][d].op
    BY Zenon DEF Moves, Pushes, Is, Top
  <2> HIDE DEF d
  <2>4. CASE Pops(t)
    <3>1. Depth(t)' = d - 1
      BY Zenon, <2>0, <2>4 DEF Pops, d
    <3> QED BY <2>0, <2>1, <2>2, <3>1
  <2>5. CASE Moves(t, a)
    <3>1. Depth(t)' = d /\ stack'[t][d].op = stack[t][d].op
      BY Zenon, <2>0, <2>5 DEF Moves, d, Is, Top
    <3> QED BY <2>0, <2>1, <2>2, <3>1
  <2>6. CASE /\ Pushes(t, a, op, of, b)
             /\ (a \in Waiting /\ op = "init") \/ (a = "clinit" /\ op = "run")
    <3>1. /\ Depth(t)' = d + 1 /\ stack'[t][d].op = stack[t][d].op
          /\ stack'[t][d].at = a /\ stack'[t][d + 1].op = op
      BY Zenon, <2>0, <2>6 DEF Pushes, d, Is, Top
    <3> QED BY <2>0, <2>1, <2>2, <2>6, <3>1
  <2> QED BY Zenon, <2>4, <2>5, <2>6
<1> QED BY <1>1, <1>2 DEF Shape

\* The initializations at one of A are the same.
SameFrames(A) ==
  \A u \in Thread : \A i \in Nat : \A c \in Class : FrameAt(u, i, c, A)' <=> FrameAt(u, i, c, A)

LEMMA FramesKept ==
  ASSUME IInv, NEW t \in Thread, NEW A, A \subseteq Held, NEW a, NEW op, NEW of, NEW b,
         \/ Pops(t) /\ ~(Top(t).op = "init" /\ Top(t).at \in A)
         \/ Moves(t, a) /\ (Top(t).op = "init" => (Top(t).at \in A <=> a \in A))
         \/ /\ Pushes(t, a, op, of, b)
            /\ Top(t).op = "init" => (Top(t).at \in A <=> a \in A)
            /\ op = "init" => b = "enter"
  PROVE  SameFrames(A)
<1>1. ASSUME NEW u \in Thread, u # t, NEW i \in Nat, NEW c \in Class
      PROVE  FrameAt(u, i, c, A)' <=> FrameAt(u, i, c, A)
  <2>1. stack'[u] = stack[u]
    BY Zenon, <1>1 DEF Pops, Moves, Pushes, Below
  <2> QED BY Zenon, <2>1 DEF FrameAt, Depth
<1>2. ASSUME NEW i \in Nat, NEW c \in Class
      PROVE  FrameAt(t, i, c, A)' <=> FrameAt(t, i, c, A)
  <2> DEFINE d == Depth(t)
  <2>0. d \in Nat \ {0} /\ Depth(t)' = Len(stack'[t])
    BY Zenon DEF Pops, Moves, Pushes, Below, Depth
  <2>2. \A j \in 1..d - 1 : stack'[t][j] = stack[t][j]
    BY Zenon DEF Pops, Moves, Pushes, Below
  <2> HIDE DEF d
  <2>4. CASE Pops(t) /\ ~(Top(t).op = "init" /\ Top(t).at \in A)
    <3>1. Depth(t)' = d - 1 /\ ~(stack[t][d].op = "init" /\ stack[t][d].at \in A)
      BY Zenon, <2>0, <2>4 DEF Pops, d, Top
    <3> QED BY <2>0, <2>2, <3>1 DEF FrameAt, d
  <2>5. CASE Moves(t, a) /\ (Top(t).op = "init" => (Top(t).at \in A <=> a \in A))
    <3>1. /\ Depth(t)' = d /\ stack'[t][d].op = stack[t][d].op
          /\ stack'[t][d].of = stack[t][d].of /\ stack'[t][d].at = a
          /\ stack[t][d].op = "init" => (stack[t][d].at \in A <=> a \in A)
      BY Zenon, <2>0, <2>5 DEF Moves, d, Is, Top
    <3> QED BY <2>0, <2>2, <3>1 DEF FrameAt, d
  <2>6. CASE /\ Pushes(t, a, op, of, b)
             /\ Top(t).op = "init" => (Top(t).at \in A <=> a \in A)
             /\ op = "init" => b = "enter"
    <3>1. /\ Depth(t)' = d + 1 /\ stack'[t][d].op = stack[t][d].op
          /\ stack'[t][d].of = stack[t][d].of /\ stack'[t][d].at = a
          /\ stack'[t][d + 1].op = op /\ stack'[t][d + 1].at = b
          /\ stack[t][d].op = "init" => (stack[t][d].at \in A <=> a \in A)
      BY Zenon, <2>0, <2>6 DEF Pushes, d, Is, Top
    <3>2. "enter" \notin A
      BY Zenon DEF Held
    <3> QED BY <2>0, <2>2, <2>6, <3>1, <3>2 DEF FrameAt, d
  <2> QED BY Zenon, <2>4, <2>5, <2>6
<1> QED BY Zenon, <1>1, <1>2 DEF SameFrames

\* No initialization begins or ends: the monitors keep their owners.
LEMMA OwnersKept ==
  ASSUME IInv, StackOK', SameFrames(Held), initializing_thread' = initializing_thread,
         \A c \in Class : "INITIALIZING" \in state'[c] <=> "INITIALIZING" \in state[c],
         \A c \in Class : "INITIALIZING" \in state[c] => Settled(c)' = {}
  PROVE  Recorded' /\ Once' /\ Underway'
<1>1. \A u \in Thread : \A i \in 1..Depth(u)' : i \in Nat
  <2>1. \A u \in Thread : Len(stack'[u]) \in Nat
    BY DEF StackOK
  <2> QED BY <2>1 DEF Depth
<1>2. \A u \in Thread : \A c \in Class : \A i \in Nat :
        /\ FrameAt(u, i, c, Held)' <=> FrameAt(u, i, c, Held)
        /\ FrameAt(u, i, c, Held) => i \in 1..Depth(u)
        /\ FrameAt(u, i, c, Held)' => i \in 1..Depth(u)'
  BY DEF SameFrames, FrameAt
<1>3. Recorded'
  BY Zenon, <1>1, <1>2 DEF IInv, Recorded
<1>4. Once'
  BY Zenon, <1>1, <1>2 DEF IInv, Once
<1>5. Underway'
  <2> SUFFICES ASSUME NEW c \in Class, "INITIALIZING" \in state[c]
               PROVE  /\ initializing_thread[c] \in Thread
                      /\ \E i \in 1..Depth(initializing_thread[c])' :
                            FrameAt(initializing_thread[c], i, c, Held)'
    BY Zenon DEF Underway
  <2>1. initializing_thread[c] \in Thread
    BY Zenon DEF IInv, Underway
  <2>2. PICK i \in 1..Depth(initializing_thread[c]) :
          FrameAt(initializing_thread[c], i, c, Held)
    BY Zenon DEF IInv, Underway
  <2>3. i \in Nat
    OBVIOUS
  <2> QED BY Zenon, <1>2, <2>1, <2>2, <2>3
<1> QED BY Zenon, <1>3, <1>4, <1>5

\* What ClinitOnce says of a step.
ClinitStep ==
  \A c \in Class :
    /\ \A t \in Thread : ~RunsClinit(t, c) /\ RunsClinit(t, c)' =>
          Settled(c) = {} /\ \A u \in Thread : ~RunsClinit(u, c)
    /\ \A t \in Thread : RunsClinit(t, c) /\ ~RunsClinit(t, c)' => Settled(c)' # {}
    /\ Settled(c) # {} => Settled(c)' = Settled(c)

LEMMA RunsFrame ==
  ASSUME StackOK, NEW t \in Thread, NEW c
  PROVE  /\ RunsClinit(t, c) <=> \E i \in Nat : FrameAt(t, i, c, {"clinit"})
         /\ OwnsMonitor(t, c) <=> \E i \in Nat : FrameAt(t, i, c, Held)
<1>1. DOMAIN stack[t] = 1..Depth(t) /\ Depth(t) \in Nat
  <2>1. stack[t] \in Seq(Frames)
    BY Zenon DEF StackOK
  <2> QED BY <2>1 DEF Depth
<1> QED BY <1>1 DEF RunsClinit, OwnsMonitor, Has, FrameAt, Held

LEMMA RunsKept ==
  ASSUME StackOK, StackOK', SameFrames({"clinit"})
  PROVE  \A t \in Thread : \A c \in Class : RunsClinit(t, c)' <=> RunsClinit(t, c)
<1> SUFFICES ASSUME NEW t \in Thread, NEW c \in Class
             PROVE  RunsClinit(t, c)' <=> RunsClinit(t, c)
  BY Zenon
<1>1. RunsClinit(t, c) <=> \E i \in Nat : FrameAt(t, i, c, {"clinit"})
  BY Zenon, RunsFrame
<1>2. DOMAIN stack'[t] = 1..Depth(t)' /\ Depth(t)' \in Nat
  <2>1. stack'[t] \in Seq(Frames)
    BY Zenon DEF StackOK
  <2> QED BY <2>1 DEF Depth
<1>3. RunsClinit(t, c)' <=> \E i \in Nat : FrameAt(t, i, c, {"clinit"})'
  BY <1>2 DEF RunsClinit, Has, FrameAt
<1> QED BY Zenon, <1>1, <1>3 DEF SameFrames

\* A step that begins and ends no initialization.
Inside == UNCHANGED <<state, initializing_thread>> /\ SameFrames(Held) /\ SameFrames({"clinit"})

LEMMA InsideKeeps ==
  ASSUME IInv, Types', Inside
  PROVE  Recorded' /\ Once' /\ Underway' /\ ClinitStep
<1>1. StackOK /\ StackOK'
  BY Zenon DEF IInv, Types
<1>2. Recorded' /\ Once' /\ Underway'
  <2>1. \A c \in Class : "INITIALIZING" \in state[c] => Settled(c)' = {}
    BY Zenon DEF Inside, IInv, Underway, Settled
  <2> QED BY Zenon, <1>1, <2>1, OwnersKept DEF Inside
<1>3. ClinitStep
  BY Zenon, <1>1, RunsKept DEF Inside, ClinitStep, Settled
<1> QED BY Zenon, <1>2, <1>3

\* Pending exceptions of the other threads stay as they are.
Others(t) ==
  /\ SomeError => SomeError'
  /\ \A u \in Thread : u # t => exc'[u] = exc[u] /\ ret'[u] = ret[u] /\ stack'[u] = stack[u]

LEMMA PendingKept ==
  ASSUME IInv, NEW t \in Thread, Others(t), exc'[t] => SomeError' \/ Returning(t)'
  PROVE  Pending'
<1> SUFFICES ASSUME NEW u \in Thread, u # t, exc'[u] PROVE SomeError' \/ Returning(u)'
  BY Zenon DEF Pending
<1>1. SomeError \/ Returning(u)
  BY Zenon DEF IInv, Pending, Others
<1>2. Returning(u) => Returning(u)'
  BY Zenon DEF Others, Returning, Top, Depth
<1> QED BY Zenon, <1>1, <1>2 DEF Others

LEMMA TopPending ==
  ASSUME IInv, NEW t \in Thread, exc[t], ret[t] \/ Top(t).at \notin Waiting
  PROVE  SomeError
BY Zenon DEF IInv, Pending, Returning

-----------------------------------------------------------------------------
(* The steps of code, and of initialize_class when there is nothing to do *)

\* The stack of t as such a step leaves it.
CodeEffect(t) ==
  \/ UNCHANGED stack
  \/ Pops(t) /\ (Top(t).op = "run" \/ Top(t).at = "enter")
  \/ Top(t).op = "run" /\ \E a : Moves(t, a)
  \/ Top(t).op = "run" /\ \E a \in Waiting : \E c : Pushes(t, a, "init", c, "enter")
  \/ /\ Top(t).op = "init" /\ Top(t).at = "clinit"
     /\ \E x : Pushes(t, "clinit", "run", x, "call")

LEMMA CodeKeeps ==
  ASSUME IInv, NEW t \in Thread, CodeEffect(t), Types', UNCHANGED <<state, initializing_thread>>
  PROVE  Shape' /\ Recorded' /\ Once' /\ Underway' /\ ClinitStep
<1>0. Held \subseteq Held /\ {"clinit"} \subseteq Held /\ "enter" \notin Held
  BY Zenon DEF Held
<1>1. Shape' /\ SameFrames(Held) /\ SameFrames({"clinit"})
  <2>1. CASE UNCHANGED stack
    BY <2>1 DEF IInv, Shape, SameFrames, FrameAt, Depth
  <2>2. CASE Pops(t) /\ (Top(t).op = "run" \/ Top(t).at = "enter")
    <3>1. /\ ~(Top(t).op = "init" /\ Top(t).at \in Held)
          /\ ~(Top(t).op = "init" /\ Top(t).at \in {"clinit"})
      BY Zenon, <1>0, <2>2
    <3> QED BY Zenon, <1>0, <2>2, <3>1, ShapeKept, FramesKept
  <2>3. ASSUME NEW a, Top(t).op = "run", Moves(t, a)
        PROVE  Shape' /\ SameFrames(Held) /\ SameFrames({"clinit"})
    BY Zenon, <1>0, <2>3, ShapeKept, FramesKept
  <2>4. ASSUME NEW a \in Waiting, NEW c, Top(t).op = "run", Pushes(t, a, "init", c, "enter")
        PROVE  Shape' /\ SameFrames(Held) /\ SameFrames({"clinit"})
    BY Zenon, <1>0, <2>4, ShapeKept, FramesKept
  <2>5. ASSUME NEW x, Top(t).at = "clinit", Pushes(t, "clinit", "run", x, "call")
        PROVE  Shape' /\ SameFrames(Held) /\ SameFrames({"clinit"})
    BY <1>0, <2>5, ShapeKept, FramesKept
  <2> QED BY Zenon, <2>1, <2>2, <2>3, <2>4, <2>5 DEF CodeEffect
<1>2. Inside
  BY Zenon, <1>1 DEF Inside
<1> QED BY Zenon, <1>1, <1>2, InsideKeeps

\* The active frame.
LEMMA AtFacts ==
  ASSUME IInv, NEW t \in Thread, NEW op, NEW at, At(t, op, at)
  PROVE  /\ StackOK /\ Depth(t) > 0 /\ Depth(t) \in Nat \ {0} /\ Top(t) \in Frames
         /\ Top(t).op = op /\ Top(t).at = at
         /\ op = "init" => Top(t).of \in Class /\ Top(t).todo \subseteq Code
         /\ op = "run" => Top(t).of \in Code
<1>1. StackOK /\ Depth(t) > 0 /\ Top(t).op = op /\ Top(t).at = at
  BY Zenon DEF At, IInv, Types
<1>2. Top(t) \in Frames /\ Depth(t) \in Nat \ {0}
  BY Zenon, <1>1, TopType
<1> QED BY Zenon, <1>1, <1>2, FrameFields

\* A method is called (jit_compile initializes its class).
LEMMA CallInv ==
  ASSUME IInv, NEW t \in Thread, call(t)
  PROVE  IInv' /\ ClinitStep
<1> DEFINE x == Top(t).of
<1>1. /\ StackOK /\ Depth(t) > 0 /\ x \in Code /\ Top(t).op = "run" /\ Top(t).at = "call"
      /\ Home[x] \in Class
  BY Zenon, AtFacts, InitAssumption DEF call
<1>2. /\ UNCHANGED <<calls, state, initializing_thread, code, exc, todo, aborted>>
      /\ \/ UNCHANGED ret /\ Stack(t, MovedTo(t, "body"))
         \/ /\ ret' = [ret EXCEPT ![t] = TRUE]
            /\ \/ Stack(t, MovedTo(t, "compile"))
               \/ Stack(t, Append(MovedTo(t, "compile"), Frame("init", Home[x], "enter")))
  BY Zenon DEF call
<1> HIDE DEF x
<1>3. \/ Moves(t, "body") \/ Moves(t, "compile")
      \/ Pushes(t, "compile", "init", Home[x], "enter")
  BY <1>1, <1>2, MovedToEffect, NewFrames DEF InitAts, RunAts
<1>4. /\ StackOK' /\ \A u \in Thread : u # t => stack'[u] = stack[u]
      /\ CodeEffect(t)
  BY Zenon, <1>1, <1>3 DEF CodeEffect, Moves, Pushes, Below, Waiting
<1>5. Types' /\ \A u \in Thread : u # t => ret'[u] = ret[u]
  BY Zenon, <1>2, <1>4 DEF IInv, Types
<1>6. Others(t) /\ (exc'[t] => SomeError')
  <2>1. exc[t] => SomeError
    BY Zenon, <1>1, TopPending DEF Waiting
  <2> QED BY Zenon, <1>2, <1>4, <1>5, <2>1 DEF Others, SomeError
<1>7. Pending' /\ AbortAfterError'
  BY Zenon, <1>2, <1>6, PendingKept DEF IInv, AbortAfterError
<1> QED BY Zenon, <1>2, <1>4, <1>5, <1>7, CodeKeeps DEF IInv

\* jit_compile goes on after the initialization of the class.
LEMMA CompileInv ==
  ASSUME IInv, NEW t \in Thread, jit_compile(t)
  PROVE  IInv' /\ ClinitStep
<1> DEFINE x == Top(t).of
<1>1. StackOK /\ Depth(t) > 0 /\ x \in Code /\ Top(t).op = "run" /\ Top(t).at = "compile"
  BY Zenon, AtFacts DEF jit_compile
<1>2. /\ UNCHANGED <<calls, state, initializing_thread, ret, todo, aborted>>
      /\ code' \in [Code -> Sites]
      /\ \/ exc' = [exc EXCEPT ![t] = FALSE] /\ Stack(t, Popped(t))
         \/ ret[t] /\ UNCHANGED exc /\ Stack(t, MovedTo(t, "body"))
  <2>1. code \in [Code -> Sites]
    BY Zenon DEF IInv, Types
  <2>2. \A resolved \in BOOLEAN : Emitted(t, Ref[x], resolved) \in Sites
    BY Zenon DEF Emitted, Unguarded, Sites
  <2>3. code' \in [Code -> Sites]
    BY Zenon, <2>1, <2>2 DEF jit_compile
  <2> QED BY Zenon, <2>3 DEF jit_compile, Throw
<1> HIDE DEF x
<1>3. Pops(t) \/ Moves(t, "body")
  BY Zenon, <1>1, <1>2, MovedToEffect, PopEffect DEF InitAts, RunAts
<1>4. /\ StackOK' /\ \A u \in Thread : u # t => stack'[u] = stack[u]
      /\ CodeEffect(t)
  BY Zenon, <1>1, <1>3 DEF CodeEffect, Moves, Pops, Below
<1>5. Types' /\ \A u \in Thread : u # t => exc'[u] = exc[u]
  BY Zenon, <1>2, <1>4 DEF IInv, Types
<1>6. Others(t) /\ (exc'[t] => SomeError')
  <2>1. exc[t] /\ ret[t] => SomeError
    BY Zenon, TopPending
  <2>2. exc'[t] => exc[t] /\ ret[t]
    BY Zenon, <1>2 DEF IInv, Types
  <2> QED BY Zenon, <1>2, <1>4, <1>5, <2>1, <2>2 DEF Others, SomeError
<1>7. Pending' /\ AbortAfterError'
  BY Zenon, <1>2, <1>6, PendingKept DEF IInv, AbortAfterError
<1> QED BY Zenon, <1>2, <1>4, <1>5, <1>7, CodeKeeps DEF IInv

\* The access and the trap.
LEMMA BodyInv ==
  ASSUME IInv, NEW t \in Thread, access(t) \/ trap(t)
  PROVE  IInv' /\ ClinitStep
<1>1. StackOK /\ Depth(t) > 0 /\ Top(t).op = "run" /\ Top(t).at = "body"
  BY Zenon, AtFacts DEF access, trap
<1>2. /\ UNCHANGED <<calls, state, initializing_thread, code, ret, exc, todo, aborted>>
      /\ Stack(t, Popped(t)) \/ Stack(t, MovedTo(t, "lock"))
  BY Zenon DEF access, trap
<1>3. Pops(t) \/ Moves(t, "lock")
  BY Zenon, <1>1, <1>2, MovedToEffect, PopEffect DEF InitAts, RunAts
<1>4. /\ StackOK' /\ \A u \in Thread : u # t => stack'[u] = stack[u]
      /\ CodeEffect(t)
  BY Zenon, <1>1, <1>3 DEF CodeEffect, Moves, Pops, Below
<1>5. Types'
  BY Zenon, <1>2, <1>4 DEF IInv, Types
<1>6. Others(t) /\ (exc'[t] => SomeError')
  <2>1. exc[t] => SomeError
    BY Zenon, <1>1, TopPending DEF Waiting
  <2> QED BY Zenon, <1>2, <1>4, <2>1 DEF Others, SomeError
<1>7. Pending' /\ AbortAfterError'
  BY Zenon, <1>2, <1>6, PendingKept DEF IInv, AbortAfterError
<1> QED BY Zenon, <1>2, <1>4, <1>5, <1>7, CodeKeeps DEF IInv

\* patcher_handler, before and after initialize_class.
LEMMA PatcherInv ==
  ASSUME IInv, NEW t \in Thread, patcher_handler(t) \/ patcher_returned(t)
  PROVE  IInv' /\ ClinitStep
<1> DEFINE x == Top(t).of
<1>1. /\ StackOK /\ Depth(t) > 0 /\ x \in Code /\ Top(t).op = "run" /\ Top(t).at \in {"lock", "patch"}
      /\ patcher_handler(t) => Top(t).at = "lock"
      /\ Ref[x] \in Class
  <2>1. CASE patcher_handler(t)
    <3>1. At(t, "run", "lock")
      BY Zenon, <2>1 DEF patcher_handler
    <3> QED BY Zenon, <3>1, AtFacts, InitAssumption
  <2>2. CASE patcher_returned(t)
    <3>1. At(t, "run", "patch") /\ ~patcher_handler(t)
      BY Zenon, <2>2 DEF patcher_handler, patcher_returned, At
    <3> QED BY Zenon, <3>1, AtFacts, InitAssumption
  <2> QED BY Zenon, <2>1, <2>2
<1>2. /\ UNCHANGED <<calls, state, initializing_thread, ret, todo>>
      /\ code' \in [Code -> Sites]
      /\ \/ UNCHANGED <<stack, exc>> /\ aborted' = TRUE /\ exc[t] /\ (ret[t] \/ Top(t).at = "lock")
         \/ /\ Stack(t, MovedTo(t, "body")) /\ UNCHANGED <<aborted, exc>> /\ ~exc[t]
         \/ /\ Stack(t, Append(MovedTo(t, "patch"), Frame("init", Ref[x], "enter")))
            /\ UNCHANGED <<aborted, exc>> /\ Top(t).at = "lock"
         \/ Stack(t, Popped(t)) /\ exc' = [exc EXCEPT ![t] = FALSE] /\ UNCHANGED aborted
  <2>1. code \in [Code -> Sites] /\ Unguarded(Ref[x]) \in Sites /\ "plain" \in Sites
    BY Zenon DEF IInv, Types, Unguarded, Sites
  <2>2. CASE patcher_handler(t)
    BY Zenon, <1>1, <2>1, <2>2 DEF patcher_handler, Patched
  <2>3. CASE patcher_returned(t)
    BY Zenon, <1>1, <2>1, <2>3 DEF patcher_returned, Patched, Throw
  <2> QED BY Zenon, <2>2, <2>3
<1> HIDE DEF x
<1>3. \/ UNCHANGED stack \/ Moves(t, "body") \/ Pops(t)
      \/ Pushes(t, "patch", "init", Ref[x], "enter")
  <2>1. /\ Frame("init", Ref[x], "enter") \in Frames
        /\ Frame("init", Ref[x], "enter").op = "init"
        /\ Frame("init", Ref[x], "enter").of = Ref[x]
        /\ Frame("init", Ref[x], "enter").at = "enter"
    BY Zenon, <1>1, NewFrames
  <2>2. /\ Stack(t, MovedTo(t, "body")) => Moves(t, "body")
        /\ Stack(t, Append(MovedTo(t, "patch"), Frame("init", Ref[x], "enter")))
             => Pushes(t, "patch", "init", Ref[x], "enter")
    BY Zenon, <1>1, <2>1, MovedToEffect DEF InitAts, RunAts
  <2> QED BY Zenon, <1>1, <1>2, <2>2, PopEffect
<1>4. /\ StackOK' /\ \A u \in Thread : u # t => stack'[u] = stack[u]
      /\ CodeEffect(t)
  BY Zenon, <1>1, <1>3 DEF CodeEffect, Moves, Pops, Pushes, Below, Waiting, StackOK
<1>5. Types' /\ \A u \in Thread : u # t => exc'[u] = exc[u]
  BY Zenon, <1>2, <1>4 DEF IInv, Types
<1>6. Others(t) /\ (exc'[t] => SomeError') /\ (aborted' => aborted \/ SomeError)
  <2>1. exc[t] /\ (ret[t] \/ Top(t).at = "lock") => SomeError
    BY Zenon, TopPending DEF Waiting
  <2>2. exc'[t] => exc[t] /\ (ret[t] \/ Top(t).at = "lock")
    BY Zenon, <1>2 DEF IInv, Types
  <2>3. SomeError' <=> SomeError
    BY Zenon, <1>2 DEF SomeError
  <2>4. Others(t)
    BY Zenon, <1>2, <1>4, <1>5, <2>3 DEF Others
  <2>5. aborted' => aborted \/ SomeError
    BY Zenon, <1>2, <2>1
  <2> QED BY Zenon, <2>1, <2>2, <2>3, <2>4, <2>5
<1>7. Pending' /\ AbortAfterError'
  BY Zenon, <1>2, <1>6, PendingKept DEF IInv, AbortAfterError, SomeError
<1> QED BY Zenon, <1>2, <1>4, <1>5, <1>7, CodeKeeps DEF IInv

\* A <clinit> calls code.
LEMMA ClinitCallInv ==
  ASSUME IInv, NEW t \in Thread, clinit_call(t)
  PROVE  IInv' /\ ClinitStep
<1>1. /\ StackOK /\ Depth(t) > 0 /\ Top(t).op = "init" /\ Top(t).at = "clinit"
      /\ Top(t) \in Frames /\ Top(t).todo \subseteq Code
  BY Zenon, AtFacts DEF clinit_call
<1>2. PICK x \in Top(t).todo :
        Stack(t, Append(Append(Popped(t), [Top(t) EXCEPT !.todo = @ \ {x}]), Frame("run", x, "call")))
  BY SMTT(30) DEF clinit_call
<1>3. Pushes(t, "clinit", "run", Frame("run", x, "call").of, "call")
  <2> DEFINE f == [Top(t) EXCEPT !.todo = @ \ {x}]
             g == Frame("run", x, "call")
  <2>1. f \in Frames /\ Is(f, Top(t).op, Top(t).of, "clinit")
    BY Zenon, <1>1 DEF Frames, Is
  <2>2. g \in Frames /\ g.op = "run" /\ g.at = "call"
    BY Zenon, <1>1, NewFrames
  <2>3. Stack(t, Append(Append(Popped(t), f), g))
    BY Zenon, <1>2
  <2> HIDE DEF f, g
  <2>4. Pushes(t, "clinit", g.op, g.of, g.at)
    BY Zenon, <1>1, <2>1, <2>2, <2>3, PushEffect
  <2> QED BY Zenon, <2>2, <2>4 DEF g
<1>4. /\ StackOK' /\ \A u \in Thread : u # t => stack'[u] = stack[u]
      /\ CodeEffect(t)
  BY Zenon, <1>1, <1>3 DEF CodeEffect, Pushes, Below
<1>5. UNCHANGED <<calls, state, initializing_thread, code, ret, exc, todo, aborted>>
  BY Zenon DEF clinit_call
<1>6. Types'
  BY Zenon, <1>4, <1>5 DEF IInv, Types
<1>7. Others(t) /\ (exc'[t] => SomeError')
  <2>1. exc[t] => SomeError
    BY Zenon, <1>1, TopPending DEF Waiting
  <2> QED BY Zenon, <1>4, <1>5, <2>1 DEF Others, SomeError
<1>8. Pending' /\ AbortAfterError'
  BY Zenon, <1>5, <1>7, PendingKept DEF IInv, AbortAfterError
<1> QED BY Zenon, <1>4, <1>5, <1>6, <1>8, CodeKeeps DEF IInv

\* A thread runs code from outside of any initializer.
LEMMA RunInv ==
  ASSUME IInv, NEW t \in Thread, run(t)
  PROVE  IInv' /\ ClinitStep
<1>1. PICK x \in todo[t] : /\ Stack(t, <<Frame("run", x, "call")>>)
                           /\ todo' = [todo EXCEPT ![t] = @ \ {x}]
  BY Zenon DEF run
<1>2. /\ stack[t] = <<>> /\ exc' = [exc EXCEPT ![t] = FALSE]
      /\ UNCHANGED <<calls, state, initializing_thread, code, ret, aborted>>
  BY Zenon DEF run
<1> DEFINE g == Frame("run", x, "call")
<1>3. x \in Code /\ g \in Frames /\ g.op = "run"
  BY Zenon, NewFrames DEF IInv, Types
<1> HIDE DEF g
<1>4. /\ stack'[t] = <<g>> /\ \A u \in Thread : u # t => stack'[u] = stack[u]
      /\ StackOK'
  BY <1>1, <1>3 DEF Stack, IInv, Types, StackOK, g
<1>5. Types' /\ (\A u \in Thread : u # t => exc'[u] = exc[u]) /\ ~exc'[t]
  BY Zenon, <1>1, <1>2, <1>4 DEF IInv, Types
<1>6. Depth(t) = 0 /\ Depth(t)' = 1 /\ stack'[t][1] = g
  BY <1>2, <1>4 DEF Depth
<1>7. Shape'
  <2>1. ASSUME NEW u \in Thread, u # t, NEW i \in 1..Depth(u)'
        PROVE  /\ i = 1 => stack'[u][i].op = "run"
               /\ i # Depth(u)' =>
                    \/ stack'[u][i].at \in Waiting /\ stack'[u][i + 1].op = "init"
                    \/ stack'[u][i].at = "clinit" /\ stack'[u][i + 1].op = "run"
    <3>1. stack'[u] = stack[u] /\ Depth(u)' = Depth(u)
      BY Zenon, <1>4, <2>1 DEF Depth
    <3>2. Shape
      BY Zenon DEF IInv
    <3> QED BY <3>1, <3>2 DEF Shape
  <2> QED BY <1>3, <1>6, <2>1 DEF Shape
<1>8. ASSUME NEW A PROVE SameFrames(A)
  <2>1. ASSUME NEW u \in Thread, u # t, NEW i \in Nat, NEW c \in Class
        PROVE  FrameAt(u, i, c, A)' <=> FrameAt(u, i, c, A)
    BY Zenon, <1>4, <2>1 DEF FrameAt, Depth
  <2>2. ASSUME NEW i \in Nat, NEW c \in Class PROVE ~FrameAt(t, i, c, A)' /\ ~FrameAt(t, i, c, A)
    BY <1>3, <1>6 DEF FrameAt
  <2> QED BY Zenon, <2>1, <2>2 DEF SameFrames
<1>9. Recorded' /\ Once' /\ Underway' /\ ClinitStep
  BY Zenon, <1>2, <1>5, <1>8, InsideKeeps DEF Inside
<1>10. Pending' /\ AbortAfterError'
  <2>1. Others(t)
    BY Zenon, <1>2, <1>4, <1>5 DEF Others, SomeError
  <2> QED BY Zenon, <1>2, <1>5, <2>1, PendingKept DEF IInv, AbortAfterError
<1> QED BY Zenon, <1>5, <1>7, <1>9, <1>10 DEF IInv

\* initialize_class finds nothing to do.
LEMMA ReturnInv ==
  ASSUME IInv, NEW t \in Thread, At(t, "init", "enter"), Stack(t, Popped(t)),
         ret' = [ret EXCEPT ![t] = TRUE],
         \/ UNCHANGED exc
         \/ "ERROR" \in state[Top(t).of] /\ exc' = [exc EXCEPT ![t] = TRUE],
         UNCHANGED <<calls, state, initializing_thread, code, todo, aborted>>
  PROVE  IInv' /\ ClinitStep
<1>1. /\ StackOK /\ Depth(t) > 0 /\ Top(t).op = "init" /\ Top(t).at = "enter"
      /\ Top(t).of \in Class
  BY Zenon, AtFacts
<1>2. Pops(t)
  BY Zenon, <1>1, PopEffect
<1>3. /\ StackOK' /\ \A u \in Thread : u # t => stack'[u] = stack[u]
      /\ CodeEffect(t)
  BY Zenon, <1>1, <1>2 DEF CodeEffect, Pops, Below
<1>4. Types' /\ \A u \in Thread : u # t => exc'[u] = exc[u] /\ ret'[u] = ret[u]
  BY Zenon, <1>3 DEF IInv, Types
<1>5. Others(t) /\ (exc'[t] => SomeError')
  <2>1. exc[t] => SomeError
    BY Zenon, <1>1, TopPending DEF Waiting
  <2>2. "ERROR" \in state[Top(t).of] => SomeError
    BY Zenon, <1>1 DEF SomeError
  <2>3. exc'[t] => SomeError
    BY Zenon, <2>1, <2>2
  <2> QED BY Zenon, <1>3, <1>4, <2>3 DEF Others, SomeError
<1>6. Pending' /\ AbortAfterError'
  BY Zenon, <1>5, PendingKept DEF IInv, AbortAfterError
<1> QED BY Zenon, <1>3, <1>4, <1>6, CodeKeeps DEF IInv

-----------------------------------------------------------------------------
(* The steps that begin, go on with and end an initialization *)

\* A thread takes the monitor of class c and begins.
Begins(t, c) ==
  /\ Moves(t, "link") /\ Top(t).op = "init" /\ Top(t).of = c /\ Top(t).at = "enter"
  /\ "INITIALIZING" \in state'[c] /\ Settled(c) = {} /\ Settled(c)' = {}
  /\ initializing_thread'[c] = t
  /\ \A d \in Class : d # c =>
       state'[d] = state[d] /\ initializing_thread'[d] = initializing_thread[d]
  /\ \A u \in Thread : \A i \in Nat : ~FrameAt(u, i, c, Held)

LEMMA BeginKeeps ==
  ASSUME IInv, Types', NEW t \in Thread, NEW c \in Class, Begins(t, c)
  PROVE  Shape' /\ Recorded' /\ Once' /\ Underway' /\ ClinitStep
<1> DEFINE n == Depth(t)
<1>1. Shape'
  BY Zenon, ShapeKept DEF Begins
<1>2. SameFrames({"clinit"})
  <2>1. {"clinit"} \subseteq Held
    BY Zenon DEF Held
  <2>2. Moves(t, "link") /\ (Top(t).op = "init" => (Top(t).at \in {"clinit"} <=> "link" \in {"clinit"}))
    BY Zenon DEF Begins
  <2> QED BY Zenon, <2>1, <2>2, FramesKept
<1>3. n \in Nat \ {0} /\ Depth(t)' = n /\ \A u \in Thread : Depth(u) \in Nat /\ Depth(u)' \in Nat
  BY DEF Begins, Moves, Below, Depth, StackOK, Types, IInv
<1>4. ASSUME NEW u \in Thread, NEW i \in Nat, NEW d \in Class
      PROVE  FrameAt(u, i, d, Held)' <=> FrameAt(u, i, d, Held) \/ (u = t /\ i = n /\ d = c)
  <2>1. CASE u # t
    <3>1. stack'[u] = stack[u]
      BY Zenon, <2>1 DEF Begins, Moves, Below
    <3> QED BY Zenon, <2>1, <3>1 DEF FrameAt, Depth
  <2>2. CASE u = t
    <3>1. \A j \in 1..n - 1 : stack'[t][j] = stack[t][j]
      BY Zenon DEF Begins, Moves, Below
    <3>2. /\ stack'[t][n].op = "init" /\ stack'[t][n].of = c /\ stack'[t][n].at = "link"
          /\ stack[t][n].at = "enter"
      BY Zenon DEF Begins, Moves, Is, Top
    <3> HIDE DEF n
    <3>3. "link" \in Held /\ "enter" \notin Held
      BY Zenon DEF Held
    <3>4. Depth(t) = n /\ Depth(t)' = n /\ n \in Nat \ {0}
      BY Zenon, <1>3 DEF n
    <3>5. CASE i = n
      BY <2>2, <3>2, <3>3, <3>4, <3>5 DEF FrameAt
    <3>6. CASE i # n
      <4>1. i \in 1..n <=> i \in 1..n - 1
        BY <3>4, <3>6
      <4> QED BY Zenon, <2>2, <3>1, <3>4, <3>6, <4>1 DEF FrameAt
    <3> QED BY Zenon, <3>5, <3>6
  <2> QED BY Zenon, <2>1, <2>2
<1> HIDE DEF n
<1>5. \A u \in Thread : \A i \in Nat : \A d \in Class :
        /\ FrameAt(u, i, d, Held) => i \in 1..Depth(u) /\ d # c
        /\ FrameAt(u, i, d, Held)' => i \in 1..Depth(u)'
  BY Zenon DEF FrameAt, Begins
<1>6. Recorded'
  <2> SUFFICES ASSUME NEW u \in Thread, NEW d \in Class, NEW i \in 1..Depth(u)', FrameAt(u, i, d, Held)'
               PROVE  "INITIALIZING" \in state'[d] /\ initializing_thread'[d] = u
    BY Zenon DEF Recorded
  <2>1. i \in Nat
    BY <1>3
  <2>2. CASE u = t /\ d = c
    BY Zenon, <2>2 DEF Begins
  <2>3. CASE FrameAt(u, i, d, Held)
    <3>1. d # c /\ "INITIALIZING" \in state[d] /\ initializing_thread[d] = u
      BY Zenon, <1>5, <2>1, <2>3 DEF IInv, Recorded
    <3> QED BY Zenon, <3>1 DEF Begins
  <2> QED BY Zenon, <1>4, <2>1, <2>2, <2>3
<1>7. Once'
  <2> SUFFICES ASSUME NEW u \in Thread, NEW d \in Class, NEW i \in 1..Depth(u)', NEW j \in 1..Depth(u)',
                      FrameAt(u, i, d, Held)', FrameAt(u, j, d, Held)'
               PROVE  i = j
    BY Zenon DEF Once
  <2>1. i \in Nat /\ j \in Nat
    BY <1>3
  <2>2. CASE d = c
    BY Zenon, <1>4, <1>5, <2>1, <2>2
  <2>3. CASE d # c
    <3>1. FrameAt(u, i, d, Held) /\ FrameAt(u, j, d, Held)
      BY Zenon, <1>4, <2>1, <2>3
    <3>2. i \in 1..Depth(u) /\ j \in 1..Depth(u)
      BY Zenon, <1>5, <2>1, <3>1
    <3> QED BY Zenon, <3>1, <3>2 DEF IInv, Once
  <2> QED BY Zenon, <2>2, <2>3
<1>8. Underway'
  <2> SUFFICES ASSUME NEW d \in Class, "INITIALIZING" \in state'[d]
               PROVE  /\ Settled(d)' = {} /\ initializing_thread'[d] \in Thread
                      /\ \E i \in 1..Depth(initializing_thread[d])' :
                            FrameAt(initializing_thread[d], i, d, Held)'
    BY Zenon DEF Underway
  <2>1. CASE d = c
    <3>1. \E i \in 1..Depth(t)' : FrameAt(t, i, c, Held)'
      <4>1. \A i \in Nat : i = n => FrameAt(t, i, c, Held)'
        BY Zenon, <1>4
      <4>2. n \in Nat /\ n \in 1..Depth(t)'
        BY <1>3
      <4> QED BY Zenon, <4>1, <4>2
    <3>2. initializing_thread'[d] = t
      BY Zenon, <2>1 DEF Begins
    <3>3. \E i \in 1..Depth(initializing_thread[d])' : FrameAt(initializing_thread[d], i, d, Held)'
      BY Zenon, <2>1, <3>1, <3>2 DEF FrameAt, Depth
    <3> QED BY Zenon, <2>1, <3>2, <3>3 DEF Begins
  <2>2. CASE d # c
    <3>1. state'[d] = state[d] /\ initializing_thread'[d] = initializing_thread[d]
      BY Zenon, <2>2 DEF Begins
    <3>2. Settled(d)' = {} /\ initializing_thread[d] \in Thread
      BY Zenon, <3>1 DEF IInv, Underway, Settled
    <3>3. PICK i \in 1..Depth(initializing_thread[d]) : FrameAt(initializing_thread[d], i, d, Held)
      BY Zenon, <3>1 DEF IInv, Underway
    <3>4. i \in Nat
      BY <1>3, <3>2
    <3>5. \A u \in Thread : u = initializing_thread[d] => FrameAt(u, i, d, Held)' /\ i \in 1..Depth(u)'
      BY Zenon, <1>4, <1>5, <3>2, <3>3, <3>4
    <3>6. \E j \in 1..Depth(initializing_thread[d])' : FrameAt(initializing_thread[d], j, d, Held)'
      BY Zenon, <3>1, <3>2, <3>5 DEF FrameAt, Depth
    <3> QED BY Zenon, <3>1, <3>2, <3>6
  <2> QED BY Zenon, <2>1, <2>2
<1>9. ClinitStep
  <2>1. \A u \in Thread : \A d \in Class : RunsClinit(u, d)' <=> RunsClinit(u, d)
    BY Zenon, <1>2, RunsKept DEF IInv, Types
  <2>2. \A d \in Class : Settled(d)' = Settled(d)
    BY Zenon DEF Begins, Settled
  <2> QED BY Zenon, <2>1, <2>2 DEF ClinitStep
<1> QED BY Zenon, <1>1, <1>6, <1>7, <1>8, <1>9

\* Initializations go on: monitors and flags stay, but for CLASS_LINKED.
Continues ==
  /\ UNCHANGED initializing_thread
  /\ \A d \in Class : /\ "INITIALIZING" \in state'[d] <=> "INITIALIZING" \in state[d]
                      /\ Settled(d)' = Settled(d)

\* The frame on top holds its class' monitor, and is the only one that does.
LEMMA TopHolds ==
  ASSUME IInv, NEW t \in Thread, NEW at, At(t, "init", at), at \in Held
  PROVE  /\ Top(t).of \in Class
         /\ "INITIALIZING" \in state[Top(t).of] /\ initializing_thread[Top(t).of] = t
         /\ Settled(Top(t).of) = {}
         /\ \A u \in Thread : \A i \in Nat :
              FrameAt(u, i, Top(t).of, Held) <=> u = t /\ i = Depth(t)
<1> DEFINE c == Top(t).of
<1>1. c \in Class /\ Depth(t) \in Nat \ {0} /\ Top(t).op = "init" /\ Top(t).at = at
  BY Zenon, AtFacts
<1>2. FrameAt(t, Depth(t), c, Held) /\ Depth(t) \in 1..Depth(t)
  BY <1>1 DEF FrameAt, Top
<1> HIDE DEF c
<1>3. "INITIALIZING" \in state[c] /\ initializing_thread[c] = t /\ Settled(c) = {}
  BY Zenon, <1>1, <1>2 DEF IInv, Recorded, Underway
<1>4. ASSUME NEW u \in Thread, NEW i \in Nat, FrameAt(u, i, c, Held)
      PROVE  u = t /\ i = Depth(t)
  <2>1. i \in 1..Depth(u)
    BY Zenon, <1>4 DEF FrameAt
  <2>2. u = t
    BY Zenon, <1>1, <1>3, <1>4, <2>1 DEF IInv, Recorded
  <2> QED BY Zenon, <1>1, <1>2, <1>4, <2>1, <2>2 DEF IInv, Once
<1> QED BY Zenon, <1>1, <1>2, <1>3, <1>4 DEF c

\* The superclass is initialized first.
LEMMA SuperKeeps ==
  ASSUME IInv, Types', NEW t \in Thread, NEW s, At(t, "init", "link"), Continues,
         Pushes(t, "super", "init", s, "enter")
  PROVE  Shape' /\ Recorded' /\ Once' /\ Underway' /\ ClinitStep
<1>1. Top(t).at = "link" /\ StackOK /\ StackOK'
  BY Zenon, AtFacts DEF Types
<1>2. Shape'
  BY Zenon, ShapeKept DEF Waiting
<1>3. SameFrames(Held) /\ SameFrames({"clinit"})
  <2>1. {"clinit"} \subseteq Held /\ "link" \in Held /\ "super" \in Held
    BY Zenon DEF Held
  <2>2. /\ Top(t).at \in Held <=> "super" \in Held
        /\ Top(t).at \in {"clinit"} <=> "super" \in {"clinit"}
    BY Zenon, <1>1, <2>1
  <2> QED BY Zenon, <2>1, <2>2, FramesKept
<1>4. Recorded' /\ Once' /\ Underway'
  <2>1. \A d \in Class : "INITIALIZING" \in state[d] => Settled(d)' = {}
    BY Zenon DEF IInv, Underway, Continues
  <2> QED BY Zenon, <1>1, <1>3, <2>1, OwnersKept DEF Continues
<1>5. ClinitStep
  BY Zenon, <1>1, <1>3, RunsKept DEF Continues, ClinitStep
<1> QED BY Zenon, <1>2, <1>4, <1>5

\* The <clinit> is started.
LEMMA StartKeeps ==
  ASSUME IInv, Types', NEW t \in Thread, NEW at \in {"link", "super"}, At(t, "init", at), Continues,
         Moves(t, "clinit")
  PROVE  Shape' /\ Recorded' /\ Once' /\ Underway' /\ ClinitStep
<1> DEFINE c == Top(t).of
           n == Depth(t)
<1>1. /\ Top(t).at = at /\ Top(t).op = "init" /\ StackOK /\ StackOK' /\ n \in Nat \ {0}
      /\ at \in Held /\ {"clinit"} \subseteq Held
  BY Zenon, AtFacts DEF Types, Held
<1>2. Shape'
  BY Zenon, ShapeKept
<1>3. SameFrames(Held)
  <2>1. Top(t).at \in Held <=> "clinit" \in Held
    BY Zenon, <1>1
  <2> QED BY Zenon, <2>1, FramesKept
<1>4. Recorded' /\ Once' /\ Underway'
  <2>1. \A d \in Class : "INITIALIZING" \in state[d] => Settled(d)' = {}
    BY Zenon DEF IInv, Underway, Continues
  <2> QED BY Zenon, <1>1, <1>3, <2>1, OwnersKept DEF Continues
<1>5. /\ c \in Class /\ Settled(c) = {}
      /\ \A u \in Thread : \A i \in Nat : FrameAt(u, i, c, Held) <=> u = t /\ i = n
  BY Zenon, <1>1, TopHolds
<1>6. ASSUME NEW u \in Thread, NEW i \in Nat, NEW d \in Class, ~(u = t /\ i = n)
      PROVE  FrameAt(u, i, d, {"clinit"})' <=> FrameAt(u, i, d, {"clinit"})
  <2>1. CASE u # t
    <3>1. stack'[u] = stack[u]
      BY Zenon, <2>1 DEF Moves, Below
    <3> QED BY Zenon, <3>1 DEF FrameAt, Depth
  <2>2. CASE u = t
    <3>1. (\A j \in 1..n - 1 : stack'[t][j] = stack[t][j]) /\ Depth(t)' = n
      BY Zenon DEF Moves, Below, Depth
    <3>2. n \in Nat \ {0} /\ Depth(t) = n
      BY Zenon, <1>1
    <3> HIDE DEF n
    <3>3. i \in 1..n <=> i \in 1..n - 1
      BY <1>6, <2>2, <3>2
    <3> QED BY Zenon, <2>2, <3>1, <3>2, <3>3 DEF FrameAt
  <2> QED BY Zenon, <2>1, <2>2
<1>7. \A d \in Class : ~FrameAt(t, n, d, {"clinit"})
  BY Zenon, <1>1 DEF FrameAt, Top
<1>8. stack'[t][n].of = c
  BY Zenon DEF Moves, Is
<1> HIDE DEF c, n
<1>9. \A d \in Class : \A i \in Nat : i = n /\ d # c => ~FrameAt(t, i, d, {"clinit"})'
  BY Zenon, <1>8 DEF FrameAt
<1>10. \A u \in Thread : ~RunsClinit(u, c)
  <2>1. \A u \in Thread : \A i \in Nat : ~FrameAt(u, i, c, {"clinit"})
    <3>1. \A u \in Thread : \A i \in Nat : FrameAt(u, i, c, {"clinit"}) => FrameAt(u, i, c, Held)
      BY Zenon, <1>1 DEF FrameAt
    <3> QED BY Zenon, <1>5, <1>7, <3>1
  <2> QED BY Zenon, <1>1, <2>1, RunsFrame
<1>11. \A u \in Thread : \A d \in Class : d # c => (RunsClinit(u, d)' <=> RunsClinit(u, d))
  <2> SUFFICES ASSUME NEW u \in Thread, NEW d \in Class, d # c
               PROVE  RunsClinit(u, d)' <=> RunsClinit(u, d)
    BY Zenon
  <2>1. RunsClinit(u, d) <=> \E i \in Nat : FrameAt(u, i, d, {"clinit"})
    BY Zenon, <1>1, RunsFrame
  <2>2. DOMAIN stack'[u] = 1..Depth(u)' /\ Depth(u)' \in Nat
    <3>1. stack'[u] \in Seq(Frames)
      BY Zenon, <1>1 DEF StackOK
    <3> QED BY <3>1 DEF Depth
  <2>3. RunsClinit(u, d)' <=> \E i \in Nat : FrameAt(u, i, d, {"clinit"})'
    BY <2>2 DEF RunsClinit, Has, FrameAt
  <2>4. \A i \in Nat : FrameAt(u, i, d, {"clinit"})' <=> FrameAt(u, i, d, {"clinit"})
    BY Zenon, <1>6, <1>7, <1>9
  <2> QED BY Zenon, <2>1, <2>3, <2>4
<1>12. ClinitStep
  BY Zenon, <1>5, <1>10, <1>11 DEF ClinitStep, Continues
<1> QED BY Zenon, <1>2, <1>4, <1>12

\* The initialization ends.
Ends(t, c) ==
  /\ Pops(t) /\ Top(t).op = "init" /\ Top(t).of = c
  /\ UNCHANGED initializing_thread
  /\ "INITIALIZING" \notin state'[c]
  /\ Top(t).at = "clinit" => Settled(c)' # {}
  /\ \A d \in Class : d # c => state'[d] = state[d]

LEMMA EndKeeps ==
  ASSUME IInv, Types', NEW t \in Thread, NEW at \in Held, At(t, "init", at), NEW c \in Class, Ends(t, c)
  PROVE  Shape' /\ Recorded' /\ Once' /\ Underway' /\ ClinitStep
<1> DEFINE n == Depth(t)
<1>1. /\ Top(t).at = at /\ Top(t).of = c /\ StackOK /\ StackOK' /\ n \in Nat \ {0}
      /\ {"clinit"} \subseteq Held /\ \A u \in Thread : Depth(u) \in Nat /\ Depth(u)' \in Nat
  <2>1. Top(t).at = at /\ n \in Nat \ {0} /\ StackOK /\ StackOK'
    BY Zenon, AtFacts DEF Types
  <2>2. \A u \in Thread : Depth(u) \in Nat /\ Depth(u)' \in Nat
    BY <2>1 DEF StackOK, Depth
  <2> QED BY Zenon, <2>1, <2>2 DEF Held, Ends
<1>2. Shape'
  BY Zenon, ShapeKept DEF Ends
<1>3. /\ "INITIALIZING" \in state[c] /\ initializing_thread[c] = t /\ Settled(c) = {}
      /\ \A u \in Thread : \A i \in Nat : FrameAt(u, i, c, Held) <=> u = t /\ i = n
  BY Zenon, <1>1, TopHolds
<1>4. ASSUME NEW A, NEW u \in Thread, NEW i \in Nat, NEW d \in Class
      PROVE  FrameAt(u, i, d, A)' <=> FrameAt(u, i, d, A) /\ ~(u = t /\ i = n)
  <2>1. CASE u # t
    <3>1. stack'[u] = stack[u]
      BY Zenon, <2>1 DEF Ends, Pops, Below
    <3> QED BY Zenon, <2>1, <3>1 DEF FrameAt, Depth
  <2>2. CASE u = t
    <3>1. (\A j \in 1..n - 1 : stack'[t][j] = stack[t][j]) /\ Depth(t)' = n - 1
      BY Zenon DEF Ends, Pops, Below, Depth
    <3>2. n \in Nat \ {0} /\ Depth(t) = n
      BY Zenon, <1>1
    <3> HIDE DEF n
    <3>3. i \in 1..n - 1 <=> i \in 1..n /\ i # n
      BY <3>2
    <3> QED BY Zenon, <2>2, <3>1, <3>2, <3>3 DEF FrameAt
  <2> QED BY Zenon, <2>1, <2>2
<1>5. \A d \in Class : \A A : FrameAt(t, n, d, A) => d = c
  BY Zenon, <1>1 DEF FrameAt, Top
<1> HIDE DEF n
<1>6. \A u \in Thread : \A i \in Nat : \A d \in Class :
        /\ FrameAt(u, i, d, Held) => i \in 1..Depth(u)
        /\ FrameAt(u, i, d, Held)' => i \in 1..Depth(u)' /\ d # c
  <2>1. \A u \in Thread : \A i \in Nat : ~FrameAt(u, i, c, Held)'
    BY Zenon, <1>3, <1>4
  <2> QED BY Zenon, <2>1 DEF FrameAt
<1>7. Recorded'
  <2> SUFFICES ASSUME NEW u \in Thread, NEW d \in Class, NEW i \in 1..Depth(u)', FrameAt(u, i, d, Held)'
               PROVE  "INITIALIZING" \in state'[d] /\ initializing_thread'[d] = u
    BY Zenon DEF Recorded
  <2>1. i \in Nat
    BY <1>1
  <2>2. FrameAt(u, i, d, Held) /\ d # c /\ i \in 1..Depth(u)
    BY Zenon, <1>4, <1>6, <2>1
  <2>3. "INITIALIZING" \in state[d] /\ initializing_thread[d] = u
    BY Zenon, <2>2 DEF IInv, Recorded
  <2> QED BY Zenon, <2>2, <2>3 DEF Ends
<1>8. Once'
  <2> SUFFICES ASSUME NEW u \in Thread, NEW d \in Class, NEW i \in 1..Depth(u)', NEW j \in 1..Depth(u)',
                      FrameAt(u, i, d, Held)', FrameAt(u, j, d, Held)'
               PROVE  i = j
    BY Zenon DEF Once
  <2>1. i \in Nat /\ j \in Nat
    BY <1>1
  <2>2. FrameAt(u, i, d, Held) /\ FrameAt(u, j, d, Held) /\ i \in 1..Depth(u) /\ j \in 1..Depth(u)
    BY Zenon, <1>4, <1>6, <2>1
  <2> QED BY Zenon, <2>2 DEF IInv, Once
<1>9. Underway'
  <2> SUFFICES ASSUME NEW d \in Class, "INITIALIZING" \in state'[d]
               PROVE  /\ Settled(d)' = {} /\ initializing_thread'[d] \in Thread
                      /\ \E i \in 1..Depth(initializing_thread[d])' :
                            FrameAt(initializing_thread[d], i, d, Held)'
    BY Zenon DEF Underway
  <2>1. d # c /\ state'[d] = state[d] /\ initializing_thread'[d] = initializing_thread[d]
    BY Zenon DEF Ends
  <2>2. Settled(d)' = {} /\ initializing_thread[d] \in Thread
    BY Zenon, <2>1 DEF IInv, Underway, Settled
  <2>3. PICK i \in 1..Depth(initializing_thread[d]) : FrameAt(initializing_thread[d], i, d, Held)
    BY Zenon, <2>1 DEF IInv, Underway
  <2>4. i \in Nat
    <3>1. Depth(initializing_thread[d]) \in Nat
      BY Zenon, <1>1, <2>2
    <3> QED BY <3>1
  <2>5. \A u \in Thread : u = initializing_thread[d] => FrameAt(u, i, d, Held)' /\ i \in 1..Depth(u)'
    <3> SUFFICES ASSUME NEW u \in Thread, u = initializing_thread[d]
                 PROVE  FrameAt(u, i, d, Held)' /\ i \in 1..Depth(u)'
      BY Zenon
    <3>1. FrameAt(u, i, d, Held) /\ ~(u = t /\ i = n)
      BY Zenon, <1>5, <2>1, <2>3
    <3>2. FrameAt(u, i, d, Held)'
      BY Zenon, <1>4, <2>4, <3>1
    <3> QED BY Zenon, <1>6, <2>4, <3>2
  <2>6. \E j \in 1..Depth(initializing_thread[d])' : FrameAt(initializing_thread[d], j, d, Held)'
    BY Zenon, <2>1, <2>2, <2>5 DEF FrameAt, Depth
  <2> QED BY Zenon, <2>1, <2>2, <2>6
<1>10. ASSUME NEW u \in Thread, NEW d \in Class
       PROVE  /\ RunsClinit(u, d)' => RunsClinit(u, d)
              /\ RunsClinit(u, d) /\ ~RunsClinit(u, d)' => d = c /\ at = "clinit"
  <2>1. RunsClinit(u, d) <=> \E i \in Nat : FrameAt(u, i, d, {"clinit"})
    BY Zenon, <1>1, RunsFrame
  <2>2. DOMAIN stack'[u] = 1..Depth(u)' /\ Depth(u)' \in Nat
    <3>1. stack'[u] \in Seq(Frames)
      BY Zenon, <1>1 DEF StackOK
    <3> QED BY <3>1 DEF Depth
  <2>3. RunsClinit(u, d)' <=> \E i \in Nat : FrameAt(u, i, d, {"clinit"})'
    BY <2>2 DEF RunsClinit, Has, FrameAt
  <2>4. FrameAt(t, n, d, {"clinit"}) => d = c /\ at = "clinit"
    BY Zenon, <1>1, <1>5 DEF FrameAt, Top, n
  <2> QED BY Zenon, <1>4, <2>1, <2>3, <2>4
<1>11. ClinitStep
  <2>1. \A d \in Class : Settled(d) # {} => Settled(d)' = Settled(d)
    BY Zenon, <1>3 DEF Ends, Settled
  <2>2. at = "clinit" => Settled(c)' # {}
    BY Zenon, <1>1 DEF Ends
  <2> QED BY Zenon, <1>10, <2>1, <2>2 DEF ClinitStep
<1> QED BY Zenon, <1>2, <1>7, <1>8, <1>9, <1>11

\* When an initialization ends, its caller waits for it.
LEMMA CallerWaits ==
  ASSUME IInv, NEW t \in Thread, NEW at, At(t, "init", at), Pops(t)
  PROVE  Depth(t)' > 0 /\ Top(t)'.at \in Waiting
<1> DEFINE n == Depth(t)
<1>1. n \in Nat \ {0} /\ stack[t][n].op = "init"
  BY Zenon, AtFacts DEF Top
<1>2. /\ n = 1 => stack[t][n].op = "run"
      /\ \A j \in 1..n : j # n => \/ stack[t][j].at \in Waiting /\ stack[t][j + 1].op = "init"
                                \/ stack[t][j + 1].op = "run"
  <2>1. n \in 1..n
    BY <1>1
  <2> QED BY Zenon, <2>1 DEF IInv, Shape
<1>3. Depth(t)' = n - 1 /\ \A j \in 1..n - 1 : stack'[t][j] = stack[t][j]
  BY Zenon DEF Pops, Below, Depth
<1> HIDE DEF n
<1>4. n > 1 /\ n - 1 + 1 = n /\ n - 1 \in 1..n /\ n - 1 # n
  BY <1>1, <1>2
<1>5. stack[t][n - 1].at \in Waiting
  BY Zenon, <1>1, <1>2, <1>4
<1>6. Top(t)' = stack[t][n - 1]
  BY <1>1, <1>3, <1>4 DEF Top
<1>7. Depth(t)' > 0
  BY <1>1, <1>3, <1>4
<1> QED BY Zenon, <1>5, <1>6, <1>7

\* initialize_class after initialize_class_intern returned r.
LEMMA FinishInv ==
  ASSUME IInv, NEW t \in Thread, NEW at \in Held, At(t, "init", at),
         NEW flags \in SUBSET Flags, state[Top(t).of] \subseteq flags,
         NEW r \in BOOLEAN, Finish(t, flags, r), at = "clinit" => r \/ "ERROR" \in flags,
         NEW e \in BOOLEAN, exc' = [exc EXCEPT ![t] = e],
         e => SomeError \/ "ERROR" \in flags \/ ~r,
         UNCHANGED <<calls, initializing_thread, code, todo, aborted>>
  PROVE  IInv' /\ ClinitStep
<1>0. PICK c \in Class : c = Top(t).of
  BY Zenon, AtFacts DEF Held
<1>1. StackOK /\ Depth(t) > 0 /\ Top(t).op = "init" /\ Top(t).at = at
  BY Zenon, AtFacts DEF Held
<1>2. Pops(t)
  BY Zenon, <1>1, PopEffect DEF Finish
<1>3. /\ StackOK' /\ (\A u \in Thread : u # t => stack'[u] = stack[u])
  BY Zenon, <1>2 DEF Pops, Below
<1>4. /\ Ended(flags, r) \in SUBSET Flags /\ "INITIALIZING" \notin Ended(flags, r)
      /\ "ERROR" \in flags => "ERROR" \in Ended(flags, r)
      /\ r => "INITIALIZED" \in Ended(flags, r)
  BY Zenon DEF Ended, Flags
<1>5. state' = [state EXCEPT ![c] = Ended(flags, r)] /\ ret' = [ret EXCEPT ![t] = r]
  BY Zenon, <1>0 DEF Finish
<1>6. /\ state' \in [Class -> SUBSET Flags] /\ state'[c] = Ended(flags, r)
      /\ \A d \in Class : d # c => state'[d] = state[d]
  BY Zenon, <1>1, <1>4, <1>5 DEF IInv, Types
<1>7. /\ ret' \in [Thread -> BOOLEAN] /\ ret'[t] = r /\ exc' \in [Thread -> BOOLEAN] /\ exc'[t] = e
      /\ \A u \in Thread : u # t => ret'[u] = ret[u] /\ exc'[u] = exc[u]
  BY Zenon, <1>5 DEF IInv, Types
<1>8. Types'
  BY Zenon, <1>3, <1>6, <1>7 DEF IInv, Types
<1>9. Ends(t, c)
  <2>1. at = "clinit" => "INITIALIZED" \in state'[c] \/ "ERROR" \in state'[c]
    BY Zenon, <1>4, <1>6
  <2>2. at = "clinit" => Settled(c)' # {}
    BY Zenon, <2>1 DEF Settled
  <2> QED BY Zenon, <1>0, <1>1, <1>2, <1>4, <1>6, <2>2 DEF Ends
<1>10. Shape' /\ Recorded' /\ Once' /\ Underway' /\ ClinitStep
  BY Zenon, <1>1, <1>8, <1>9, EndKeeps
<1>11. (SomeError => SomeError') /\ ("ERROR" \in flags => SomeError')
  BY Zenon, <1>0, <1>4, <1>6 DEF SomeError
<1>12. Pending' /\ AbortAfterError'
  <2>1. ~r => Returning(t)'
    <3>1. Depth(t)' > 0 /\ Top(t)'.at \in Waiting
      BY Zenon, <1>2, CallerWaits
    <3> QED BY Zenon, <1>7, <3>1 DEF Returning
  <2>2. Others(t)
    BY Zenon, <1>3, <1>7, <1>11 DEF Others
  <2>3. exc'[t] => SomeError' \/ Returning(t)'
    BY Zenon, <1>7, <1>11, <2>1
  <2> QED BY Zenon, <1>11, <2>2, <2>3, PendingKept DEF IInv, AbortAfterError, SomeError
<1> QED BY Zenon, <1>8, <1>10, <1>12 DEF IInv

\* The <clinit>, if there is one.
LEMMA ClinitInv ==
  ASSUME IInv, NEW t \in Thread, NEW at \in {"link", "super"}, At(t, "init", at),
         NEW flags, flags \in {state[Top(t).of], state[Top(t).of] \cup {"LINKED"}},
         Clinit(t, flags), exc[t] => SomeError,
         UNCHANGED <<calls, initializing_thread, code, exc, todo, aborted>>
  PROVE  IInv' /\ ClinitStep
<1> DEFINE c == Top(t).of
<1>1. /\ c \in Class /\ StackOK /\ Depth(t) > 0 /\ Top(t) \in Frames /\ Top(t).op = "init"
      /\ Top(t).at = at
  BY Zenon, AtFacts
<1>2. /\ state \in [Class -> SUBSET Flags] /\ exc \in [Thread -> BOOLEAN]
      /\ flags \in SUBSET Flags /\ state[c] \subseteq flags
      /\ flags \cap {"INITIALIZING", "INITIALIZED", "ERROR"}
           = state[c] \cap {"INITIALIZING", "INITIALIZED", "ERROR"}
  <2>1. state \in [Class -> SUBSET Flags] /\ exc \in [Thread -> BOOLEAN] /\ "LINKED" \in Flags
    BY Zenon DEF IInv, Types, Flags
  <2> QED BY Zenon, <1>1, <2>1
<1>3. CASE c \in DOMAIN calls
  <2> DEFINE f == [Top(t) EXCEPT !.at = "clinit", !.todo = calls[c]]
  <2>1. /\ Stack(t, Append(Popped(t), f)) /\ state' = [state EXCEPT ![c] = flags]
        /\ UNCHANGED ret
    BY Zenon, <1>3 DEF Clinit
  <2>2. calls[c] \subseteq Code
    BY Zenon, <1>3, InitAssumption DEF IInv, Types
  <2>3. f \in Frames /\ Is(f, Top(t).op, Top(t).of, "clinit")
    BY Zenon, <1>1, <2>2 DEF Frames, Is
  <2> HIDE DEF f, c
  <2>4. Moves(t, "clinit")
    BY Zenon, <1>1, <2>1, <2>3, MoveEffect
  <2>5. StackOK' /\ \A u \in Thread : u # t => stack'[u] = stack[u]
    BY Zenon, <2>4 DEF Moves, Below
  <2>6. /\ state' \in [Class -> SUBSET Flags] /\ state'[c] = flags
        /\ \A d \in Class : d # c => state'[d] = state[d]
    BY Zenon, <1>1, <1>2, <2>1 DEF c
  <2>7. Types'
    BY Zenon, <2>1, <2>5, <2>6 DEF IInv, Types
  <2>8. \A d \in Class : /\ "INITIALIZING" \in state'[d] <=> "INITIALIZING" \in state[d]
                         /\ "ERROR" \in state'[d] <=> "ERROR" \in state[d]
                         /\ Settled(d)' = Settled(d)
    BY Zenon, <1>2, <2>6 DEF Settled
  <2>9. Shape' /\ Recorded' /\ Once' /\ Underway' /\ ClinitStep
    BY Zenon, <2>4, <2>7, <2>8, StartKeeps DEF Continues
  <2>10. Pending' /\ AbortAfterError'
    <3>1. SomeError <=> SomeError'
      BY Zenon, <2>8 DEF SomeError
    <3>2. Others(t) /\ (exc'[t] => SomeError')
      BY Zenon, <2>1, <2>5, <3>1 DEF Others
    <3> QED BY Zenon, <3>1, <3>2, PendingKept DEF IInv, AbortAfterError, SomeError
  <2> QED BY Zenon, <2>7, <2>9, <2>10 DEF IInv
<1>4. CASE c \notin DOMAIN calls
  <2>1. Finish(t, flags, TRUE)
    BY Zenon, <1>4 DEF Clinit
  <2>2. exc' = [exc EXCEPT ![t] = exc[t]] /\ exc[t] \in BOOLEAN
    BY Zenon, <1>2
  <2>3. at \in Held /\ at # "clinit"
    BY Zenon DEF Held
  <2> QED BY Zenon, <1>2, <2>1, <2>2, <2>3, FinishInv
<1> QED BY Zenon, <1>3, <1>4

LEMMA LinkFailsInv ==
  ASSUME IInv, NEW t \in Thread, link_fails(t)
  PROVE  IInv' /\ ClinitStep
<1>1. At(t, "init", "link") /\ "link" \in Held /\ Top(t).of \in Class
  BY Zenon, AtFacts DEF link_fails, Held
<1>2. state[Top(t).of] \in SUBSET Flags
  BY Zenon, <1>1 DEF IInv, Types
<1>3. /\ Finish(t, state[Top(t).of], FALSE) /\ exc' = [exc EXCEPT ![t] = TRUE]
      /\ UNCHANGED <<calls, initializing_thread, code, todo, aborted>>
  BY Zenon DEF link_fails
<1> QED BY Zenon, <1>1, <1>2, <1>3, FinishInv

LEMMA InitializeSuperInv ==
  ASSUME IInv, NEW t \in Thread, initialize_super(t)
  PROVE  IInv' /\ ClinitStep
<1>1. PICK c \in Class : c = Top(t).of
  BY Zenon, AtFacts DEF initialize_super
<1>2. /\ At(t, "init", "link") /\ StackOK /\ Depth(t) > 0 /\ Top(t).op = "init" /\ Top(t).at = "link"
  BY Zenon, AtFacts DEF initialize_super
<1>3. UNCHANGED <<calls, initializing_thread, code, exc, todo, aborted>>
  BY Zenon DEF initialize_super
<1>4. exc[t] => SomeError
  BY Zenon, <1>2, TopPending DEF Waiting
<1>5. CASE NeedsSuper(c)
  <2>1. /\ Stack(t, Append(MovedTo(t, "super"), Frame("init", super[c], "enter")))
        /\ state' = [state EXCEPT ![c] = state[c] \cup {"LINKED"}] /\ UNCHANGED ret
    BY Zenon, <1>1, <1>5 DEF initialize_super
  <2>2. super[c] \in Class
    BY Zenon, <1>5, InitAssumption DEF NeedsSuper
  <2> DEFINE g == Frame("init", super[c], "enter")
  <2>3. g \in Frames /\ g.op = "init" /\ g.of = super[c] /\ g.at = "enter"
    BY Zenon, <2>2, NewFrames
  <2> HIDE DEF g
  <2>4. Pushes(t, "super", "init", super[c], "enter")
    <3>1. Pushes(t, "super", g.op, g.of, g.at)
      BY Zenon, <1>2, <2>1, <2>3, MovedToEffect DEF InitAts, g
    <3> QED BY Zenon, <2>3, <3>1
  <2>5. StackOK' /\ \A u \in Thread : u # t => stack'[u] = stack[u]
    BY Zenon, <2>4 DEF Pushes, Below
  <2>6. /\ state' \in [Class -> SUBSET Flags] /\ state'[c] = state[c] \cup {"LINKED"}
        /\ \A d \in Class : d # c => state'[d] = state[d]
    BY Zenon, <2>1 DEF IInv, Types, Flags
  <2>7. Types'
    BY Zenon, <1>3, <2>1, <2>5, <2>6 DEF IInv, Types
  <2>8. \A d \in Class : /\ "INITIALIZING" \in state'[d] <=> "INITIALIZING" \in state[d]
                         /\ "ERROR" \in state'[d] <=> "ERROR" \in state[d]
                         /\ Settled(d)' = Settled(d)
    BY <2>6 DEF Settled
  <2>9. Shape' /\ Recorded' /\ Once' /\ Underway' /\ ClinitStep
    BY Zenon, <1>2, <1>3, <2>4, <2>7, <2>8, SuperKeeps DEF Continues
  <2>10. Pending' /\ AbortAfterError'
    <3>1. SomeError <=> SomeError'
      BY Zenon, <2>8 DEF SomeError
    <3>2. Others(t) /\ (exc'[t] => SomeError')
      BY Zenon, <1>3, <1>4, <2>1, <2>5, <3>1 DEF Others
    <3> QED BY Zenon, <1>3, <3>1, <3>2, PendingKept DEF IInv, AbortAfterError, SomeError
  <2> QED BY Zenon, <2>7, <2>9, <2>10 DEF IInv
<1>6. CASE ~NeedsSuper(c)
  <2>1. Clinit(t, state[Top(t).of] \cup {"LINKED"})
    BY Zenon, <1>1, <1>6 DEF initialize_super
  <2> QED BY Zenon, <1>2, <1>3, <1>4, <2>1, ClinitInv
<1> QED BY Zenon, <1>5, <1>6

LEMMA SuperReturnedInv ==
  ASSUME IInv, NEW t \in Thread, super_returned(t)
  PROVE  IInv' /\ ClinitStep
<1>1. At(t, "init", "super") /\ "super" \in Held /\ Top(t).of \in Class
  BY Zenon, AtFacts DEF super_returned, Held
<1>2. UNCHANGED <<calls, initializing_thread, code, exc, todo, aborted>>
  BY Zenon DEF super_returned
<1>3. CASE ret[t]
  <2>1. Clinit(t, state[Top(t).of])
    BY Zenon, <1>3 DEF super_returned, SuperOk
  <2>2. exc[t] => SomeError
    BY Zenon, <1>3, TopPending
  <2> QED BY Zenon, <1>1, <1>2, <2>1, <2>2, ClinitInv
<1>4. CASE ~ret[t]
  <2>1. Finish(t, state[Top(t).of], FALSE)
    BY Zenon, <1>4 DEF super_returned, SuperOk
  <2>2. state[Top(t).of] \in SUBSET Flags /\ exc[t] \in BOOLEAN /\ exc' = [exc EXCEPT ![t] = exc[t]]
    BY Zenon, <1>1, <1>2 DEF IInv, Types
  <2> QED BY Zenon, <1>1, <1>2, <2>1, <2>2, FinishInv
<1> QED BY Zenon, <1>3, <1>4

LEMMA ClinitReturnsInv ==
  ASSUME IInv, NEW t \in Thread, NEW throws \in BOOLEAN, clinit_returns(t, throws)
  PROVE  IInv' /\ ClinitStep
<1>1. At(t, "init", "clinit") /\ "clinit" \in Held /\ Top(t).of \in Class
  BY Zenon, AtFacts DEF clinit_returns, Held
<1>2. /\ UNCHANGED <<calls, initializing_thread, code, todo, aborted>>
      /\ exc' = [exc EXCEPT ![t] = exc[t] \/ throws]
  BY Zenon DEF clinit_returns
<1>3. state[Top(t).of] \in SUBSET Flags /\ exc \in [Thread -> BOOLEAN] /\ "ERROR" \in Flags
  BY Zenon, <1>1 DEF IInv, Types, Flags
<1>4. exc'[t] = (exc[t] \/ throws)
  BY Zenon, <1>2, <1>3
<1>5. CASE exc[t] \/ throws
  <2> DEFINE flags == state[Top(t).of] \cup {"ERROR"}
  <2>1. Finish(t, flags, FALSE)
    BY Zenon, <1>4, <1>5 DEF clinit_returns, Failed
  <2>2. flags \in SUBSET Flags /\ state[Top(t).of] \subseteq flags /\ "ERROR" \in flags
    BY Zenon, <1>3
  <2>3. exc' = [exc EXCEPT ![t] = TRUE]
    BY Zenon, <1>2, <1>3, <1>5
  <2> HIDE DEF flags
  <2> QED BY Zenon, <1>1, <1>2, <2>1, <2>2, <2>3, FinishInv
<1>6. CASE ~(exc[t] \/ throws)
  <2>1. Finish(t, state[Top(t).of], TRUE)
    BY Zenon, <1>4, <1>6 DEF clinit_returns
  <2>2. exc' = [exc EXCEPT ![t] = FALSE]
    BY Zenon, <1>2, <1>3, <1>6
  <2> QED BY Zenon, <1>1, <1>2, <1>3, <2>1, <2>2, FinishInv
<1> QED BY Zenon, <1>5, <1>6

LEMMA InitializeInv ==
  ASSUME IInv, NEW t \in Thread, initialize_class(t)
  PROVE  IInv' /\ ClinitStep
<1>1. PICK c \in Class : c = Top(t).of
  BY Zenon, AtFacts DEF initialize_class
<1>2. /\ At(t, "init", "enter") /\ StackOK /\ Depth(t) > 0 /\ Top(t).op = "init" /\ Top(t).at = "enter"
  BY Zenon, AtFacts DEF initialize_class
<1>3. UNCHANGED <<calls, code, todo, aborted>> /\ MonitorFree(t, c)
  BY Zenon, <1>1 DEF initialize_class
<1>4. CASE /\ Stack(t, Popped(t)) /\ ret' = [ret EXCEPT ![t] = TRUE]
           /\ UNCHANGED <<state, initializing_thread>>
           /\ \/ UNCHANGED exc
              \/ "ERROR" \in state[Top(t).of] /\ exc' = [exc EXCEPT ![t] = TRUE]
  BY Zenon, <1>2, <1>3, <1>4, ReturnInv
<1>5. CASE /\ ~class_is_or_almost_initialized(t, c) /\ "ERROR" \notin state[c] /\ Begun(t, c)
           /\ Stack(t, MovedTo(t, "link")) /\ UNCHANGED <<ret, exc>>
  <2>1. Moves(t, "link")
    BY Zenon, <1>2, <1>5, MovedToEffect DEF InitAts
  <2>2. StackOK' /\ \A u \in Thread : u # t => stack'[u] = stack[u]
    BY Zenon, <2>1 DEF Moves, Below
  <2>3. /\ state' \in [Class -> SUBSET Flags] /\ state'[c] = state[c] \cup {"INITIALIZING"}
        /\ initializing_thread' \in [Class -> Thread \cup {None}] /\ initializing_thread'[c] = t
        /\ \A d \in Class : d # c =>
             state'[d] = state[d] /\ initializing_thread'[d] = initializing_thread[d]
    BY Zenon, <1>5 DEF Begun, IInv, Types, Flags
  <2>4. Types'
    BY Zenon, <1>3, <1>5, <2>2, <2>3 DEF IInv, Types
  <2>5. Settled(c) = {} /\ Settled(c)' = {}
    BY Zenon, <1>5, <2>3 DEF Settled, class_is_or_almost_initialized, Initialized
  <2>6. ASSUME NEW u \in Thread, NEW i \in Nat, FrameAt(u, i, c, Held) PROVE FALSE
    <3>1. i \in 1..Depth(u) /\ OwnsMonitor(u, c)
      BY Zenon, <1>2, <2>6, RunsFrame DEF FrameAt
    <3>2. "INITIALIZING" \in state[c] /\ initializing_thread[c] = u
      BY Zenon, <2>6, <3>1 DEF IInv, Recorded
    <3> QED BY Zenon, <1>3, <1>5, <3>1, <3>2 DEF MonitorFree, class_is_or_almost_initialized
  <2>7. Begins(t, c)
    BY Zenon, <1>1, <1>2, <2>1, <2>3, <2>5, <2>6 DEF Begins
  <2>8. Shape' /\ Recorded' /\ Once' /\ Underway' /\ ClinitStep
    BY Zenon, <2>4, <2>7, BeginKeeps
  <2>9. Pending' /\ AbortAfterError'
    <3>1. SomeError <=> SomeError'
      BY <2>3 DEF SomeError
    <3>2. exc[t] => SomeError
      BY Zenon, <1>2, TopPending DEF Waiting
    <3>3. Others(t) /\ (exc'[t] => SomeError')
      BY Zenon, <1>5, <2>2, <3>1, <3>2 DEF Others
    <3> QED BY Zenon, <1>3, <3>1, <3>3, PendingKept DEF IInv, AbortAfterError, SomeError
  <2> QED BY Zenon, <2>4, <2>8, <2>9 DEF IInv
<1> QED BY Zenon, <1>1, <1>4, <1>5 DEF initialize_class

-----------------------------------------------------------------------------
(* The theorems *)

LEMMA InitInv == Init => IInv
<1> SUFFICES ASSUME Init PROVE IInv
  BY Zenon
<1>1. stack \in [Thread -> Seq(Frames)] /\ \A t \in Thread : Depth(t) = 0
  BY DEF Init, Depth
<1>2. Types
  BY Zenon, <1>1 DEF Init, Types, StackOK, Flags, Sites
<1>3. Shape /\ Recorded /\ Once
  <2>1. \A t \in Thread : 1..Depth(t) = {}
    BY <1>1
  <2> QED BY Zenon, <2>1 DEF Shape, Recorded, Once
<1>4. Underway /\ Pending /\ AbortAfterError
  BY Zenon DEF Init, Underway, Pending, AbortAfterError
<1> QED BY Zenon, <1>2, <1>3, <1>4 DEF IInv

LEMMA NextInv == IInv /\ [Next]_vars => IInv' /\ [ClinitStep]_vars
<1> SUFFICES ASSUME IInv, [Next]_vars PROVE IInv' /\ (ClinitStep \/ UNCHANGED vars)
  BY Zenon
<1>1. ASSUME NEW t \in Thread, ThreadStep(t) PROVE IInv' /\ ClinitStep
  <2>1. CASE initialize_class(t)
    BY Zenon, <2>1, InitializeInv
  <2>2. CASE link_fails(t)
    BY Zenon, <2>2, LinkFailsInv
  <2>3. CASE initialize_super(t)
    BY Zenon, <2>3, InitializeSuperInv
  <2>4. CASE super_returned(t)
    BY Zenon, <2>4, SuperReturnedInv
  <2>5. CASE clinit_call(t)
    BY Zenon, <2>5, ClinitCallInv
  <2>6. CASE \E throws \in BOOLEAN : clinit_returns(t, throws)
    BY Zenon, <2>6, ClinitReturnsInv
  <2>7. CASE run(t)
    BY Zenon, <2>7, RunInv
  <2>8. CASE call(t)
    BY Zenon, <2>8, CallInv
  <2>9. CASE jit_compile(t)
    BY Zenon, <2>9, CompileInv
  <2>10. CASE access(t) \/ trap(t)
    BY Zenon, <2>10, BodyInv
  <2>11. CASE patcher_handler(t) \/ patcher_returned(t)
    BY Zenon, <2>11, PatcherInv
  <2> QED BY Zenon, <1>1, <2>1, <2>2, <2>3, <2>4, <2>5, <2>6, <2>7, <2>8, <2>9, <2>10, <2>11 DEF ThreadStep
<1>2. CASE UNCHANGED vars
  <2>1. UNCHANGED <<calls, state, initializing_thread, code, stack, ret, exc, todo, aborted>>
    BY Zenon, <1>2 DEF vars
  <2>2. Types' /\ Shape'
    BY Zenon, <2>1 DEF IInv, Types, StackOK, Shape, Depth
  <2>3. Recorded' /\ Once' /\ Underway'
    <3>1. SameFrames(Held) /\ SameFrames({"clinit"})
      BY Zenon, <2>1 DEF SameFrames, FrameAt, Depth
    <3> QED BY Zenon, <2>1, <2>2, <3>1, InsideKeeps DEF Inside
  <2>4. Pending' /\ AbortAfterError'
    BY Zenon, <2>1 DEF IInv, Pending, SomeError, Returning, Top, Depth, AbortAfterError
  <2> QED BY Zenon, <1>2, <2>2, <2>3, <2>4 DEF IInv
<1> QED BY Zenon, <1>1, <1>2 DEF Next

\* The inductive invariant: the types, the shape of the stacks, and who holds
\* the monitor of a class (initialize_class).
THEOREM Invariance == Spec => []IInv
<1> QED BY InitInv, NextInv, PTL DEF Spec

LEMMA OwnsFromInv == IInv => InitializerOwns
<1> SUFFICES ASSUME IInv, NEW c \in Class, NEW t \in Thread
             PROVE  OwnsMonitor(t, c) <=> ("INITIALIZING" \in state[c] /\ initializing_thread[c] = t)
  BY Zenon DEF InitializerOwns
<1>1. StackOK /\ Depth(t) \in Nat
  BY DEF IInv, Types, StackOK, Depth
<1>2. OwnsMonitor(t, c) <=> \E i \in Nat : FrameAt(t, i, c, Held)
  BY Zenon, <1>1, RunsFrame
<1>3. ASSUME NEW i \in Nat, FrameAt(t, i, c, Held)
      PROVE  "INITIALIZING" \in state[c] /\ initializing_thread[c] = t
  <2>1. i \in 1..Depth(t)
    BY Zenon, <1>3 DEF FrameAt
  <2> QED BY Zenon, <1>3, <2>1 DEF IInv, Recorded
<1>4. ASSUME "INITIALIZING" \in state[c], initializing_thread[c] = t
      PROVE  \E i \in Nat : FrameAt(t, i, c, Held)
  <2>1. \E i \in 1..Depth(t) : FrameAt(t, i, c, Held)
    BY Zenon, <1>4 DEF IInv, Underway
  <2> QED BY <1>1, <2>1
<1> QED BY Zenon, <1>2, <1>3, <1>4

\* The thread recorded in initializing_thread of a class that is marked
\* CLASS_INITIALIZING is the one that holds its monitor (initialize_class).
THEOREM InitializerRecorded == Spec => []InitializerOwns
<1> QED BY Invariance, OwnsFromInv, PTL

\* The assertion of trap_handle fails only when a <clinit> failed before.
THEOREM AbortNeedsError == Spec => []AbortAfterError
<1>1. IInv => AbortAfterError
  BY Zenon DEF IInv
<1> QED BY <1>1, Invariance, PTL

\* No <clinit> is run twice, and its outcome stays (initialize_class and
\* initialize_class_intern).
THEOREM ClinitRunsOnce == Spec => ClinitOnce
<1>1. Spec => [][ClinitStep]_vars
  BY InitInv, NextInv, PTL DEF Spec
<1> QED BY <1>1, PTL DEF ClinitOnce, ClinitStep
=============================================================================
