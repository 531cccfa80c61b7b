----------------------------- MODULE ClassInit -----------------------------
(***************************************************************************)
(* Class initialization (vm/initialize.cpp) together with the two places   *)
(* of the JIT compiler that start it: jit_compile, which initializes the   *)
(* class of a static method before it compiles the method, and the patcher *)
(* traps that guard the static field accesses of compiled code             *)
(* (vm/jit/patcher-common.cpp, vm/jit/trap.cpp).                           *)
(*                                                                         *)
(* A piece of code x is a static method of class Home[x] with one access   *)
(* to a static field of class Ref[x].  Every thread has a stack of frames, *)
(* the last one active:                                                    *)
(*   op "init", of a class: at "enter" before the class' monitor is taken, *)
(*     "link", "super" and "clinit" while it is held;                      *)
(*   op "run", of a piece of code: at "call", "compile", "body", "lock"    *)
(*     (in the trap handler, before the lock of the code's patcher list)   *)
(*     and "patch" (with that lock, the patcher function being called).    *)
(* Both locks are recursive, so their owners are the threads with such     *)
(* frames.  `todo' of a clinit frame is the code it has yet to call.       *)
(* The build is one with assertions: a failed assert stops the VM.         *)
(***************************************************************************)
EXTENDS Integers, Sequences, FiniteSets

CONSTANTS
    Thread, Class, Code,
    None,       \* C's NULL
    super,      \* super[c]: the superclass of c, or None
    Home, Ref,  \* the class of the method x, the class whose field x accesses
    Programs    \* choices of `calls'

ASSUME InitAssumption ==
    /\ super \in [Class -> Class \cup {None}]
    /\ Home \in [Code -> Class] /\ Ref \in [Code -> Class]
    /\ \A p \in Programs : /\ DOMAIN p \subseteq Class
                           /\ \A c \in DOMAIN p : p[c] \subseteq Code

VARIABLES
    calls,                \* its domain: the classes with a <clinit>;
                          \* calls[c]: the code the <clinit> of c calls
    state,                \* classinfo.state, a set of flags
    initializing_thread,  \* classinfo.initializing_thread
    code,                 \* the access of the method's code, see Sites
    stack,                \* the frames of a thread
    ret,                  \* what the last returned initialize_class returned
    exc,                  \* the thread's pending exception, is there one
    todo,                 \* the code a thread has yet to run
    aborted               \* an assertion failed

vars == <<calls, state, initializing_thread, code, stack, ret, exc, todo, aborted>>

Flags == {"LINKED", "INITIALIZING", "INITIALIZED", "ERROR"}

(* "none": the method is not compiled; "trap": a patcher trap guards the   *)
(* access; otherwise nothing does: because the class was initialized or    *)
(* in error ("plain"), or because the compiling or patching thread was     *)
(* itself initializing it ("elided").  The machine code of the last two is *)
(* the same.                                                               *)
Sites == {"none", "trap", "plain", "elided"}

Frames ==
    [op: {"init"}, of: Class, at: {"enter", "link", "super", "clinit"}, todo: SUBSET Code]
      \cup [op: {"run"}, of: Code, at: {"call", "compile", "body", "lock", "patch"}, todo: {{}}]

TypeOK ==
    /\ calls \in Programs
    /\ state \in [Class -> SUBSET Flags]
    /\ initializing_thread \in [Class -> Thread \cup {None}]
    /\ code \in [Code -> Sites]
    /\ \A t \in Thread : \A i \in DOMAIN stack[t] : stack[t][i] \in Frames
    /\ ret \in [Thread -> BOOLEAN]
    /\ exc \in [Thread -> BOOLEAN]
    /\ todo \in [Thread -> SUBSET Code]
    /\ aborted \in BOOLEAN

Init ==
    /\ calls \in Programs
    /\ state = [c \in Class |-> {}]
    /\ initializing_thread = [c \in Class |-> None]
    /\ code = [x \in Code |-> "none"]
    /\ stack = [t \in Thread |-> <<>>]
    /\ ret = [t \in Thread |-> TRUE]
    /\ exc = [t \in Thread |-> FALSE]
    /\ todo = [t \in Thread |-> Code]
    /\ aborted = FALSE

---------------------------------------------------------------------------
(* Frames.                                                                 *)

Frame(op, of, at) == [op |-> op, of |-> of, at |-> at, todo |-> {}]
Depth(t) == Len(stack[t])
Top(t) == stack[t][Depth(t)]
At(t, op, at) == ~aborted /\ Depth(t) > 0 /\ Top(t).op = op /\ Top(t).at = at
Popped(t) == SubSeq(stack[t], 1, Depth(t) - 1)
MovedTo(t, at) == Append(Popped(t), [Top(t) EXCEPT !.at = at])
Stack(t, s) == stack' = [stack EXCEPT ![t] = s]

Has(t, op, of, ats) == \E i \in DOMAIN stack[t] :
    stack[t][i].op = op /\ stack[t][i].of = of /\ stack[t][i].at \in ats
OwnsMonitor(t, c) == Has(t, "init", c, {"link", "super", "clinit"})
OwnsPatchers(t, x) == Has(t, "run", x, {"patch"})

(* Fault: the monitor is not recursive.                                    *)
MonitorFree_once(t, c) == \A u \in Thread : ~OwnsMonitor(u, c)

MonitorFree(t, c) == \A u \in Thread \ {t} : ~OwnsMonitor(u, c)
PatchersFree(t, x) == \A u \in Thread \ {t} : ~OwnsPatchers(u, x)

Initialized(c) == "INITIALIZED" \in state[c]
class_is_or_almost_initialized(t, c) ==
    Initialized(c) \/ ("INITIALIZING" \in state[c] /\ initializing_thread[c] = t)

---------------------------------------------------------------------------
(* vm/initialize.cpp                                                       *)

(* Fault: the initializing thread is not recorded.                         *)
Begun_unrecorded(t, c) ==
    /\ state' = [state EXCEPT ![c] = @ \cup {"INITIALIZING"}]
    /\ UNCHANGED initializing_thread

(* initialize_class up to the call of initialize_class_intern.             *)
Begun(t, c) ==
    /\ initializing_thread' = [initializing_thread EXCEPT ![c] = t]
    /\ state' = [state EXCEPT ![c] = @ \cup {"INITIALIZING"}]

initialize_class(t) ==
    LET c == Top(t).of IN
    /\ At(t, "init", "enter")
    /\ MonitorFree(t, c)
    /\ \/ /\ class_is_or_almost_initialized(t, c)
          /\ Stack(t, Popped(t))
          /\ ret' = [ret EXCEPT ![t] = TRUE]
          /\ UNCHANGED <<state, initializing_thread, exc>>
       \/ /\ ~class_is_or_almost_initialized(t, c)
          /\ "ERROR" \in state[c]
          /\ Stack(t, Popped(t))
          /\ ret' = [ret EXCEPT ![t] = TRUE]
          /\ exc' = [exc EXCEPT ![t] = TRUE]
          /\ UNCHANGED <<state, initializing_thread>>
       \/ /\ ~class_is_or_almost_initialized(t, c)
          /\ "ERROR" \notin state[c]
          /\ Begun(t, c)
          /\ Stack(t, MovedTo(t, "link"))
          /\ UNCHANGED <<ret, exc>>
    /\ UNCHANGED <<calls, code, todo, aborted>>

(* initialize_class after initialize_class_intern returned r.              *)
Ended(flags, r) ==
    (IF r THEN flags \cup {"INITIALIZED"} ELSE flags) \ {"INITIALIZING"}

Finish(t, flags, r) ==
    /\ state' = [state EXCEPT ![Top(t).of] = Ended(flags, r)]
    /\ Stack(t, Popped(t))
    /\ ret' = [ret EXCEPT ![t] = r]

(* The call of <clinit>, if there is one.                                  *)
Clinit(t, flags) ==
    LET c == Top(t).of IN
    IF c \in DOMAIN calls
      THEN /\ Stack(t, Append(Popped(t), [Top(t) EXCEPT !.at = "clinit", !.todo = calls[c]]))
           /\ state' = [state EXCEPT ![c] = flags]
           /\ UNCHANGED ret
      ELSE Finish(t, flags, TRUE)

(* Fault: the superclass is forgotten.                                     *)
NeedsSuper_never(c) == FALSE

(* initialize_class_intern: link_class may fail; the superclass first.     *)
NeedsSuper(c) == super[c] # None /\ ~Initialized(super[c])

link_fails(t) ==
    /\ At(t, "init", "link")
    /\ "LINKED" \notin state[Top(t).of]
    /\ exc' = [exc EXCEPT ![t] = TRUE]
    /\ Finish(t, state[Top(t).of], FALSE)
    /\ UNCHANGED <<calls, initializing_thread, code, todo, aborted>>

initialize_super(t) ==
    LET c == Top(t).of
        linked == state[c] \cup {"LINKED"}
    IN
    /\ At(t, "init", "link")
    /\ IF NeedsSuper(c)
         THEN /\ Stack(t, Append(MovedTo(t, "super"), Frame("init", super[c], "enter")))
              /\ state' = [state EXCEPT ![c] = linked]
              /\ UNCHANGED ret
         ELSE Clinit(t, linked)
    /\ UNCHANGED <<calls, initializing_thread, code, exc, todo, aborted>>

(* Fault: the superclass' failure is ignored.                              *)
SuperOk_ignored(t) == TRUE

SuperOk(t) == ret[t]

super_returned(t) ==
    /\ At(t, "init", "super")
    /\ IF SuperOk(t) THEN Clinit(t, state[Top(t).of])
                    ELSE Finish(t, state[Top(t).of], FALSE)
    /\ UNCHANGED <<calls, initializing_thread, code, exc, todo, aborted>>

(* The <clinit> calls code, catching what the call before threw, ...       *)
clinit_call(t) ==
    /\ At(t, "init", "clinit")
    /\ \E x \in Top(t).todo :
          Stack(t, Append(Append(Popped(t), [Top(t) EXCEPT !.todo = @ \ {x}]),
                          Frame("run", x, "call")))
    /\ UNCHANGED <<calls, state, initializing_thread, code, ret, exc, todo, aborted>>

(* Fault: a failed <clinit> leaves no mark.                                *)
Failed_unmarked(flags) == flags

(* ... and returns, or throws: a pending exception marks the class.        *)
Failed(flags) == flags \cup {"ERROR"}

clinit_returns(t, throws) ==
    /\ At(t, "init", "clinit")
    /\ throws \/ Top(t).todo = {}
    /\ exc' = [exc EXCEPT ![t] = @ \/ throws]
    /\ IF exc'[t] THEN Finish(t, Failed(state[Top(t).of]), FALSE)
                  ELSE Finish(t, state[Top(t).of], TRUE)
    /\ UNCHANGED <<calls, initializing_thread, code, todo, aborted>>

---------------------------------------------------------------------------
(* vm/jit                                                                  *)

(* A thread runs code from outside of any initializer, called from native  *)
(* code that has dealt with the exception of the call before.              *)
run(t) ==
    /\ ~aborted /\ stack[t] = <<>>
    /\ \E x \in todo[t] :
          /\ Stack(t, <<Frame("run", x, "call")>>)
          /\ todo' = [todo EXCEPT ![t] = @ \ {x}]
    /\ exc' = [exc EXCEPT ![t] = FALSE]
    /\ UNCHANGED <<calls, state, initializing_thread, code, ret, aborted>>

(* A call jumps to the code of the method; that of a method that is not    *)
(* compiled is the stub that calls jit_compile.                            *)
call(t) ==
    LET x == Top(t).of IN
    /\ At(t, "run", "call")
    /\ \/ code[x] # "none" /\ Stack(t, MovedTo(t, "body")) /\ UNCHANGED ret
       \/ /\ code[x] = "none"
          /\ ret' = [ret EXCEPT ![t] = TRUE]
          /\ IF Initialized(Home[x])
               THEN Stack(t, MovedTo(t, "compile"))
               ELSE Stack(t, Append(MovedTo(t, "compile"), Frame("init", Home[x], "enter")))
    /\ UNCHANGED <<calls, state, initializing_thread, code, exc, todo, aborted>>

(* An exception is thrown at the call of the active code.                  *)
Throw(t) ==
    /\ Stack(t, Popped(t))
    /\ exc' = [exc EXCEPT ![t] = FALSE]

(* The access without a check, as `t' leaves it behind.                    *)
Unguarded(c) == IF Initialized(c) \/ "ERROR" \in state[c] THEN "plain" ELSE "elided"

(* Fault: the state of the class is not looked at.                         *)
Emitted_unchecked(t, c, resolved) == IF resolved THEN Unguarded(c) ELSE "trap"

(* The code generator emits a trap unless the class of the (resolved)      *)
(* field is initialized or being initialized by the compiling thread.      *)
Emitted(t, c, resolved) ==
    IF resolved /\ class_is_or_almost_initialized(t, c) THEN Unguarded(c) ELSE "trap"

jit_compile(t) ==
    LET x == Top(t).of IN
    /\ At(t, "run", "compile")
    /\ \/ ~ret[t] /\ Throw(t) /\ UNCHANGED code
       \/ /\ ret[t]
          /\ IF code[x] # "none" THEN UNCHANGED code
             ELSE \E resolved \in BOOLEAN :
                    code' = [code EXCEPT ![x] = Emitted(t, Ref[x], resolved)]
          /\ Stack(t, MovedTo(t, "body"))
          /\ UNCHANGED exc
    /\ UNCHANGED <<calls, state, initializing_thread, ret, todo, aborted>>

(* The body: the access, after which the method returns, or the trap.      *)
access(t) ==
    /\ At(t, "run", "body")
    /\ code[Top(t).of] \in {"plain", "elided"}
    /\ Stack(t, Popped(t))
    /\ UNCHANGED <<calls, state, initializing_thread, code, ret, exc, todo, aborted>>

trap(t) ==
    /\ At(t, "run", "body")
    /\ code[Top(t).of] = "trap"
    /\ Stack(t, MovedTo(t, "lock"))
    /\ UNCHANGED <<calls, state, initializing_thread, code, ret, exc, todo, aborted>>

(* trap_handle after patcher_handler returned true: the code is run again. *)
Patched(t) ==
    IF exc[t] THEN aborted' = TRUE /\ UNCHANGED stack
              ELSE Stack(t, MovedTo(t, "body")) /\ UNCHANGED aborted

(* patcher_handler up to the call of initialize_class by the patcher       *)
(* function.                                                               *)
patcher_handler(t) ==
    LET x == Top(t).of
        isPatched == code[x] # "trap"
    IN
    /\ At(t, "run", "lock")
    /\ PatchersFree(t, x)
    /\ \/ /\ isPatched \/ Initialized(Ref[x])
          /\ code' = [code EXCEPT ![x] = IF isPatched THEN @ ELSE "plain"]
          /\ Patched(t)
       \/ /\ ~isPatched /\ ~Initialized(Ref[x])
          /\ Stack(t, Append(MovedTo(t, "patch"), Frame("init", Ref[x], "enter")))
          /\ UNCHANGED <<code, aborted>>
    /\ UNCHANGED <<calls, state, initializing_thread, ret, exc, todo>>

(* The rest: the original code is patched back, or the exception thrown.   *)
patcher_returned(t) ==
    LET x == Top(t).of IN
    /\ At(t, "run", "patch")
    /\ \/ /\ ret[t]
          /\ code' = [code EXCEPT ![x] = Unguarded(Ref[x])]
          /\ Patched(t)
          /\ UNCHANGED exc
       \/ ~ret[t] /\ Throw(t) /\ UNCHANGED <<code, aborted>>
    /\ UNCHANGED <<calls, state, initializing_thread, ret, todo>>

---------------------------------------------------------------------------

ThreadStep(t) ==
    \/ initialize_class(t) \/ link_fails(t) \/ initialize_super(t) \/ super_returned(t)
    \/ clinit_call(t) \/ (\E throws \in BOOLEAN : clinit_returns(t, throws))
    \/ run(t) \/ call(t) \/ jit_compile(t) \/ access(t) \/ trap(t)
    \/ patcher_handler(t) \/ patcher_returned(t)

Next == \E t \in Thread : ThreadStep(t)

Spec == Init /\ [][Next]_vars

(* The scheduler runs every thread that is not blocked.                    *)
FairSpec == Spec /\ \A t \in Thread : WF_vars(ThreadStep(t))

---------------------------------------------------------------------------
(* Properties                                                              *)

(* A class is marked CLASS_INITIALIZING exactly while the thread recorded  *)
(* in initializing_thread is between the two halves of initialize_class    *)
(* with the class' monitor, and nobody else is: what makes the unlocked    *)
(* test class_is_or_almost_initialized sound.                              *)
InitializerOwns == \A c \in Class, t \in Thread :
    OwnsMonitor(t, c) <=> ("INITIALIZING" \in state[c] /\ initializing_thread[c] = t)

(* A <clinit> starts only for a class it has not run for: one that nobody  *)
(* is initializing but the starting thread, once, and that is neither      *)
(* initialized nor in error; and what a <clinit> leaves, CLASS_INITIALIZED *)
(* or CLASS_ERROR and never both, stays.                                   *)
RunsClinit(t, c) == Has(t, "init", c, {"clinit"})
Settled(c) == {"INITIALIZED", "ERROR"} \cap state[c]
ClinitOnce == [][\A c \in Class :
    /\ \A t \in Thread : ~RunsClinit(t, c) /\ RunsClinit(t, c)' =>
          Settled(c) = {} /\ \A u \in Thread : ~RunsClinit(u, c)
    /\ \A t \in Thread : RunsClinit(t, c) /\ ~RunsClinit(t, c)' => Settled(c)' # {}
    /\ Settled(c) # {} => Settled(c)' = Settled(c)]_vars

(* The initialization of a class was begun, and given up only because the  *)
(* <clinit> of a superclass failed.                                        *)
Supers[c \in Class] == IF super[c] = None THEN {} ELSE {super[c]} \cup Supers[super[c]]
Entered(c) ==
    \/ Settled(c) # {} \/ "INITIALIZING" \in state[c]
    \/ \E s \in Supers[c] : "ERROR" \in state[s]

(* A class' superclass comes first: when the <clinit> of a class runs, or  *)
(* the class is done, the superclass is done, or it is being initialized   *)
(* (and the class because some initializer above uses it), or was given up *)
(* because an initializer above failed.                                    *)
SuperFirst == \A c \in Class :
    super[c] # None /\ (Settled(c) # {} \/ \E t \in Thread : RunsClinit(t, c)) =>
        Entered(super[c])

(* Code loses the check of a static field's class, or never gets it, only  *)
(* when the class is done, or, by the thread that is initializing the      *)
(* class.  In the second case the class is still being initialized, or     *)
(* done, or was given up because a superclass failed.                      *)
UncheckedCode == \A x \in Code :
    /\ code[x] = "plain" => Settled(Ref[x]) # {}
    /\ code[x] = "elided" => Entered(Ref[x])

(* The assertion of trap_handle that no exception is pending after a       *)
(* successful patch can fail only when some <clinit> threw before: it is   *)
(* the pending NoClassDefFoundError of an initialize_class that returned   *)
(* true for a class in error.                                              *)
AbortAfterError == aborted => \E c \in Class : "ERROR" \in state[c]

(* Who waits for whom, and the deadlock in which a thread holds the lock   *)
(* of a patcher list while it waits for a class' monitor and another holds *)
(* the monitor while it waits for the patcher list.                        *)
WaitsForMonitor(t, u) == At(t, "init", "enter") /\ u # t /\ OwnsMonitor(u, Top(t).of)
WaitsForPatchers(t, u) == At(t, "run", "lock") /\ u # t /\ OwnsPatchers(u, Top(t).of)
PatcherDeadlock == \E D \in SUBSET Thread :
    /\ \A t \in D : \E u \in D : WaitsForMonitor(t, u) \/ WaitsForPatchers(t, u)
    /\ \E t, u \in D : WaitsForPatchers(t, u)

(* No class' initializer needs, through its superclass and the code it     *)
(* calls, a class whose initializer needs it.                              *)
Needs(p, c) ==
    ({super[c]} \cup UNION {{Home[x], Ref[x]} : x \in IF c \in DOMAIN p THEN p[c] ELSE {}})
      \ {c, None}
Acyclic == {p \in Programs : \E rank \in [Class -> 1..Cardinality(Class)] :
    \A c \in Class : \A d \in Needs(p, c) : rank[d] < rank[c]}

(* In a program whose initializers do not need each other in a circle,     *)
(* every call returns: the monitors of the classes alone never deadlock.   *)
(* The exceptions are the failed assertion and the deadlock with the       *)
(* patcher list, whose lock patcher_handler holds while a <clinit> runs.   *)
CallsReturn == \A t \in Thread :
    (calls \in Acyclic /\ stack[t] # <<>>) ~> (stack[t] = <<>> \/ aborted \/ PatcherDeadlock)

=============================================================================
