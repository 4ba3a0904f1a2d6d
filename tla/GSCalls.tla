------------------------------ MODULE GSCalls -------------------------------
(***************************************************************************)
(* Calls in the virtual machine: Execute and the native functions that     *)
(* call back into it, exceptions, generators, and threads that suspend     *)
(* (GSvm.cpp, GSobject.cpp, GSapi.cpp, GSbaselib.cpp).                     *)
(*                                                                         *)
(* vm[v] is a GSVM (the main one, or a thread of a script):                *)
(*    calls      _callsstack; ci is the last frame                         *)
(*    alloc      _alloccallsstacksize                                      *)
(*    etraps     _etraps, the traps of all frames, last pushed last        *)
(*    nnative    _nnativecalls                                             *)
(*    nmeta      _nmetamethodscall                                         *)
(*    suspended, straps, sroot    the fields _suspended...                 *)
(* One C++ stack, cstack, holds the Executes and native functions that     *)
(* have not returned, of all VMs; only its top runs.  A trap is known by   *)
(* the depth of its frame (for _stackbase) and its nesting level in it.    *)
(***************************************************************************)
EXTENDS Integers, FiniteSets, FiniteSetsExt, Sequences, SequencesExt

CONSTANTS
    VMs, Gens, None,
    MAX_NATIVE_CALLS,    \* 100 in GSvm.h
    InitialCalls,        \* first size of the call stack, 4 in GSVM::Init
    NotifyAll,           \* _notifyallexceptions
    MaxFrames, MaxTraps, \* bounds: frames of a VM, nested try blocks of a frame
                         \* (and how far below 0 OpForeach takes traps)
    Features             \* of the features below, those that programs use

ASSUME BoundsAssumption ==
    MAX_NATIVE_CALLS \in Nat /\ InitialCalls \in Nat \ {0} /\ MaxFrames \in Nat /\ MaxTraps \in Nat
ASSUME NoneAssumption == None \notin Gens
ASSUME FeaturesAssumption ==
    /\ NotifyAll \in BOOLEAN
    /\ Features \subseteq {"foreach",      \* foreach over a generator
                           "apiresume",    \* GS_resume, from a host or native function
                           "apitailcall",  \* closure.call called by Call, not by _OP_CALL
                           "stackfull",    \* EnterFrame has to resize inside a metamethod
                           "moves"}        \* realloc moves a call stack that grows

VARIABLES vm, gen, cstack

vars == <<vm, gen, cstack>>

Top == Last(cstack)
Runs(kind) == cstack # <<>> /\ Top.kind = kind

\* The frame that the top of cstack runs in, and its depth.
Depth(v) == Len(vm[v].calls)
ci(v) == vm[v].calls[Depth(v)]

\* A frame; code: whether ci->_ip is set, as only StartCall and Resume do.
Frame == [code |-> TRUE, root |-> FALSE, gen |-> None, etraps |-> 0]
NativeFrame == [Frame EXCEPT !.code = FALSE]

\* An Execute or a native function.  base: the depth of the call stack when
\* it was called.  for: who called it.  traps: the local of Execute.  fn:
\* which native function it is.
Activation(kind, v, for) ==
    [kind |-> kind, vm |-> v, for |-> for, base |-> Depth(v),
     traps |-> 0, raise |-> FALSE, mode |-> "run", fn |-> "none"]

Kinds == {"execute", "native"}
Fors ==
    {"host",     \* GS_call, GS_resume, GS_wakeupvm: the host or a native function
     "meta",     \* CallMetaMethod, in an instruction
     "handler",  \* CallErrorHandler
     "opcall"}   \* _OP_CALL of a native function
Modes ==
    {"run", "raise", "unwind",     \* Execute: in the loop; at exception_trap before
                                   \* and after the error handler
     "startraise", "startfail",    \* Execute: StartCall failed
     "done", "failed"}             \* closure.call: GS_call has returned
NativeFns == {"suspend", "call", "other"}

-----------------------------------------------------------------------------
(* Returning to whoever called.                                            *)

Mut_Thrown(a) == IF NotifyAll \/ a.traps = 0 THEN "raise" ELSE "unwind"

\* goto exception_trap in Execute a.
Thrown(a) == IF NotifyAll \/ (a.traps = 0 /\ a.raise) THEN "raise" ELSE "unwind"

\* The error handler has returned to it.
Handled(mode) == IF mode = "raise" THEN "unwind" ELSE "startfail"

\* b, when a call that it made for this reason returns.
Resumed(b, for, ok) ==
    CASE for = "handler" -> [b EXCEPT !.mode = Handled(@)]
      [] for \in {"meta", "opcall"} -> IF ok THEN b ELSE [b EXCEPT !.mode = Thrown(b)]
      [] for = "host" -> IF b.fn # "call" THEN b
                         ELSE [b EXCEPT !.mode = IF ok THEN "done" ELSE "failed"]

\* The C++ stack when a call from its top has returned.
Back(stack, for, ok) ==
    IF stack = <<>> THEN stack
    ELSE [stack EXCEPT ![Len(stack)] = Resumed(@, for, ok)]

Mut_Counted(m, a) == [m EXCEPT !.nnative = @ - 1]

\* The top of cstack returns: AutoDec, and the -- of CallNative and
\* CallMetaMethod.
Counted(m, a) ==
    [m EXCEPT !.nnative = @ - 1, !.nmeta = @ - (IF a.for = "meta" THEN 1 ELSE 0)]

\* m is the record of its VM without these.
Finish(m, ok) ==
    /\ vm' = [vm EXCEPT ![Top.vm] = Counted(m, Top)]
    /\ cstack' = Back(Front(cstack), Top.for, ok)

Throw == cstack' = [cstack EXCEPT ![Len(cstack)].mode = Thrown(Top)]

\* GrowCallStack, if the call stack is full.
GrowCallStack(m) == [m EXCEPT !.alloc = IF Len(m.calls) = @ THEN 2 * @ ELSE @]
EnterFrame(m, f) == [GrowCallStack(m) EXCEPT !.calls = Append(@, f)]
LeaveFrame(m) == [m EXCEPT !.calls = Front(@)]

\* Kill the generators of the frames S.
Kill(s, S) ==
    [g \in Gens |-> IF \E f \in S : f.gen = g
                      THEN [state |-> "dead", etraps |-> <<>>, root |-> FALSE]
                      ELSE s[g]]

-----------------------------------------------------------------------------
(* GSVM::Call, with all its outcomes.                                      *)

CanNest(u) == vm[u].nnative + 1 <= MAX_NATIVE_CALLS
HasRoom(u) == Depth(u) < MaxFrames
Full(u, for) == "stackfull" \in Features /\ (vm[u].nmeta > 0 \/ for = "meta")

\* The call has returned before anything ran.
AtOnce(for, ok) == cstack' = Back(cstack, for, ok)

Begin(u, a, f) ==
    /\ HasRoom(u)
    /\ vm' = [vm EXCEPT ![u] = [EnterFrame(vm[u], f) EXCEPT
                 !.nnative = @ + 1, !.nmeta = @ + (IF a.for = "meta" THEN 1 ELSE 0)]]
    /\ cstack' = Append(cstack, a)

\* Execute of a script function: its frame is a root.
CallScript(u, for, raise) ==
    /\ CanNest(u)
    /\ Begin(u, [Activation("execute", u, for) EXCEPT !.raise = raise],
             [Frame EXCEPT !.root = TRUE])
    /\ UNCHANGED gen

\* StartCall refuses the arguments: no frame, and the error handler is called
\* if there are no calls at all.
CallBadly(u, for) ==
    /\ CanNest(u)
    /\ vm' = [vm EXCEPT ![u].nnative = @ + 1,
                        ![u].nmeta = @ + (IF for = "meta" THEN 1 ELSE 0)]
    /\ cstack' = Append(cstack, [Activation("execute", u, for) EXCEPT
                    !.mode = IF Depth(u) = 0 THEN "startraise" ELSE "startfail"])
    /\ UNCHANGED gen

\* A generator function: StartCall enters the frame, Yield empties it into
\* the generator, Return leaves it.
CallGenerator(u, for, g) ==
    /\ CanNest(u)
    /\ gen[g].state = "none"
    /\ gen' = [gen EXCEPT ![g].state = "suspended"]
    /\ vm' = [vm EXCEPT ![u] = GrowCallStack(@)]
    /\ AtOnce(for, TRUE)

\* The same with a call stack that grows and is moved by realloc: Execute,
\* which compares ci with what it was, takes the frame of the caller for that
\* of the function, makes it a root and runs it.
CallGeneratorMoved(u, for, raise, g) ==
    /\ "moves" \in Features
    /\ CanNest(u)
    /\ Depth(u) = vm[u].alloc
    /\ gen[g].state = "none"
    /\ gen' = [gen EXCEPT ![g].state = "suspended"]
    /\ vm' = [vm EXCEPT ![u] = [GrowCallStack(vm[u]) EXCEPT
                 !.nnative = @ + 1, !.nmeta = @ + (IF for = "meta" THEN 1 ELSE 0),
                 !.calls[Depth(u)].root = TRUE]]
    /\ cstack' = Append(cstack, [Activation("execute", u, for) EXCEPT !.raise = raise])

CallNative(u, for, fn) ==
    /\ CanNest(u)
    /\ Begin(u, [Activation("native", u, for) EXCEPT !.fn = fn],
             NativeFrame)
    /\ UNCHANGED gen

\* "Native stack overflow", or what is called is no function, or CallNative
\* refuses the arguments.
CallRefused(for) ==
    /\ AtOnce(for, FALSE)
    /\ UNCHANGED <<vm, gen>>

\* EnterFrame fails, but the frame has been entered.
CallOverflows(u, for) ==
    /\ CanNest(u)
    /\ Full(u, for)
    /\ HasRoom(u)
    /\ vm' = [vm EXCEPT ![u] = EnterFrame(@, NativeFrame)]
    /\ AtOnce(for, FALSE)
    /\ UNCHANGED gen

Call(u, for, raise) ==
    \/ CallScript(u, for, raise)
    \/ CallBadly(u, for)
    \/ \E g \in Gens : CallGenerator(u, for, g) \/ CallGeneratorMoved(u, for, raise, g)
    \/ \E fn \in NativeFns : CallNative(u, for, fn)
    \/ CallRefused(for)
    \/ CallOverflows(u, for)

-----------------------------------------------------------------------------
(* The instructions of the loop of Execute that call, throw or yield.      *)

Running(v) ==
    /\ Runs("execute") /\ Top.mode = "run" /\ Top.vm = v
    /\ Depth(v) > 0 /\ ci(v).code

AddTraps(n) == [cstack EXCEPT ![Len(cstack)].traps = @ + n]

\* Any instruction that fails.
OpThrow(v) ==
    /\ Running(v)
    /\ Throw
    /\ UNCHANGED <<vm, gen>>

\* _OP_CALL of a script function.
OpCall(v) ==
    /\ Running(v)
    /\ HasRoom(v)
    /\ vm' = [vm EXCEPT ![v] = EnterFrame(@, Frame)]
    /\ UNCHANGED <<gen, cstack>>

\* EnterFrame fails, in _OP_CALL or _OP_RESUME.
OpCallOverflows(v) ==
    /\ Running(v)
    /\ Full(v, "opcall")
    /\ HasRoom(v)
    /\ vm' = [vm EXCEPT ![v] = EnterFrame(@, NativeFrame)]
    /\ Throw
    /\ UNCHANGED gen

\* _OP_CALL of a generator function, or of a native function.
OpCallGenerator(v, g) ==
    /\ Running(v)
    /\ gen[g].state = "none"
    /\ gen' = [gen EXCEPT ![g].state = "suspended"]
    /\ vm' = [vm EXCEPT ![v] = GrowCallStack(@)]
    /\ UNCHANGED cstack

OpCallNative(v, fn) == Running(v) /\ CallNative(v, "opcall", fn)

\* Any instruction that calls a metamethod.
OpMeta(v) == Running(v) /\ Call(v, "meta", FALSE)

OpPushTrap(v) ==
    /\ Running(v)
    /\ ci(v).etraps < MaxTraps
    /\ vm' = [vm EXCEPT ![v].etraps = Append(@, [at |-> Depth(v), level |-> ci(v).etraps + 1]),
                        ![v].calls[Depth(v)].etraps = @ + 1]
    /\ cstack' = AddTraps(1)
    /\ UNCHANGED gen

OpPopTrap(v) ==
    /\ Running(v)
    /\ ci(v).etraps > 0
    /\ vm' = [vm EXCEPT ![v].etraps = Front(@), ![v].calls[Depth(v)].etraps = @ - 1]
    /\ cstack' = AddTraps(-1)
    /\ UNCHANGED gen

\* The end of GSVM::Return, and of Execute if the frame was its root.
ReturnFrom(v, stack) ==
    IF ci(v).root
      THEN /\ vm' = [vm EXCEPT ![v] = Counted(LeaveFrame(stack), Top)]
           /\ cstack' = Back(Front(cstack), Top.for, TRUE)
      ELSE vm' = [vm EXCEPT ![v] = LeaveFrame(stack)]

\* The compiler puts _OP_POPTRAP before a return out of try blocks.
OpReturn(v) ==
    /\ Running(v)
    /\ ci(v).etraps = 0
    /\ gen' = Kill(gen, {ci(v)})
    /\ ReturnFrom(v, vm[v])
    /\ ci(v).root \/ UNCHANGED cstack

Mut_Saved(m, n) == [k \in 1 .. n |-> m.etraps[Len(m.etraps) - n + k].level]

\* The n topmost traps, as Yield pushes them into the generator.
Saved(m, n) == [k \in 1 .. n |-> m.etraps[Len(m.etraps) - k + 1].level]

OpYield(v) ==
    LET f == ci(v)
        n == f.etraps
    IN /\ Running(v)
       /\ f.gen # None
       /\ gen' = [gen EXCEPT ![f.gen] = [state |-> "suspended", etraps |-> Saved(vm[v], n),
                                         root |-> f.root]]
       /\ ReturnFrom(v, [vm[v] EXCEPT !.etraps = SubSeq(@, 1, Len(@) - n)])
       /\ f.root \/ cstack' = AddTraps(-n)

\* GSGenerator::Resume: the frame and the traps go back.
Restored(m, g, root) ==
    LET levels == Reverse(gen[g].etraps)
    IN [EnterFrame(m, [Frame EXCEPT !.root = root, !.gen = g, !.etraps = Len(levels)])
          EXCEPT !.etraps = @ \o [k \in 1 .. Len(levels) |->
                                    [at |-> Len(m.calls) + 1, level |-> levels[k]]]]

\* Only a dead generator is refused.
Mut_Resume(v, g) ==
    /\ gen[g].state \in {"suspended", "running"}
    /\ HasRoom(v)
    /\ vm' = [vm EXCEPT ![v] = Restored(@, g, gen[g].root)]
    /\ gen' = [gen EXCEPT ![g] = [state |-> "running", etraps |-> <<>>, root |-> FALSE]]

Resume(v, g) ==
    /\ gen[g].state = "suspended"
    /\ HasRoom(v)
    /\ vm' = [vm EXCEPT ![v] = Restored(@, g, gen[g].root)]
    /\ gen' = [gen EXCEPT ![g] = [state |-> "running", etraps |-> <<>>, root |-> FALSE]]

ResumeRefused(g) ==
    /\ gen[g].state \in {"running", "dead"}
    /\ Throw
    /\ UNCHANGED <<vm, gen>>

OpResume(v, g) ==
    /\ Running(v)
    /\ \/ Resume(v, g) /\ cstack' = AddTraps(Len(gen[g].etraps))
       \/ ResumeRefused(g)

\* _OP_FOREACH over a generator; a dead one ends the loop, and changes nothing.
\* The local traps misses those of the generator, and falls with every round:
\* MaxTraps bounds how far.  That EnterFrame fails in Resume goes unnoticed.
OpForeach(v, g) ==
    /\ "foreach" \in Features
    /\ Running(v)
    /\ \/ /\ Top.traps - Len(gen[g].etraps) >= -MaxTraps
          /\ Resume(v, g)
          /\ UNCHANGED cstack
       \/ gen[g].state = "running" /\ ResumeRefused(g)
       \/ /\ gen[g].state = "suspended" /\ Full(v, "opcall") /\ HasRoom(v)
          /\ vm' = [vm EXCEPT ![v] = EnterFrame(@, NativeFrame)]
          /\ UNCHANGED <<gen, cstack>>

-----------------------------------------------------------------------------
(* exception_trap.                                                         *)

\* There is an error handler, and it is called; whatever it does, the
\* exception goes on.
ErrorHandler(v) ==
    /\ Runs("execute") /\ Top.vm = v
    /\ Top.mode \in {"raise", "startraise"}
    /\ Call(v, "handler", FALSE)

\* The frames at which the loop over ci stops.
Stops(m) == {i \in 1 .. Len(m.calls) : m.calls[i].etraps > 0 \/ m.calls[i].root}

\* Leave frames up to one with a trap, or out of the root frame.
Unwind(v) ==
    LET m == vm[v]
        at == Max({0} \cup Stops(m))
        caught == at > 0 /\ m.calls[at].etraps > 0
        left == IF caught THEN at ELSE Max({0, at - 1})
        out == [m EXCEPT !.calls = SubSeq(@, 1, left)]
    IN /\ Runs("execute") /\ Top.vm = v /\ Top.mode = "unwind"
       /\ gen' = Kill(gen, {m.calls[i] : i \in left + 1 .. Depth(v)})
       /\ IF caught
            THEN /\ vm' = [vm EXCEPT ![v] = [out EXCEPT !.etraps = Front(@),
                                                        !.calls[at].etraps = @ - 1]]
                 /\ cstack' = [cstack EXCEPT ![Len(cstack)].traps = @ - 1,
                                             ![Len(cstack)].mode = "run"]
            ELSE Finish(out, FALSE)

\* StartCall had failed.
StartFails(v) ==
    /\ Runs("execute") /\ Top.vm = v /\ Top.mode = "startfail"
    /\ Finish(vm[v], FALSE)
    /\ UNCHANGED gen

-----------------------------------------------------------------------------
(* Native functions and the host.                                          *)

\* Mutant: no LeaveFrame after a native function that fails.
Mut_NativeReturn(ok) ==
    /\ Runs("native")
    /\ Finish(IF ok THEN LeaveFrame(vm[Top.vm]) ELSE vm[Top.vm], ok)
    /\ UNCHANGED gen

NativeReturn(ok) ==
    /\ Runs("native")
    /\ Finish(LeaveFrame(vm[Top.vm]), ok)
    /\ UNCHANGED gen

\* A function of the host, or of the libraries, is free in what it does.
OtherReturn(ok) == Runs("native") /\ Top.fn = "other" /\ NativeReturn(ok)

HostRuns == cstack = <<>> \/ (Runs("native") /\ Top.fn = "other")

\* GS_call, thread.call.  On a suspended VM it finds no function to call on
\* top of the stack.
ApiCall(u, raise) == HostRuns /\ ~vm[u].suspended /\ Call(u, "host", raise)

\* GS_resume.
ApiResume(u, g) ==
    /\ "apiresume" \in Features
    /\ HostRuns /\ ~vm[u].suspended /\ CanNest(u) /\ HasRoom(u)
    /\ gen[g].state = "suspended"
    /\ vm' = [vm EXCEPT ![u] = [Restored(vm[u], g, TRUE) EXCEPT !.nnative = @ + 1]]
    /\ gen' = [gen EXCEPT ![g] = [state |-> "running", etraps |-> <<>>, root |-> FALSE]]
    /\ cstack' = Append(cstack, [Activation("execute", u, "host") EXCEPT
                                   !.traps = Len(gen[g].etraps), !.raise = TRUE])

\* GS_wakeupvm, thread.wakeup, thread.wakeupthrow.
ApiWakeup(u, throw) ==
    LET root == Max({1} \cup {i \in 1 .. Depth(u) : vm[u].calls[i].root})
        a == [Activation("execute", u, "host") EXCEPT
                !.base = root - 1, !.traps = vm[u].straps, !.raise = TRUE]
    IN /\ HostRuns /\ vm[u].suspended /\ CanNest(u)
       /\ vm' = [vm EXCEPT ![u].nnative = @ + 1, ![u].suspended = FALSE,
                           ![u].calls[Depth(u)].root = vm[u].sroot]
       /\ cstack' = Append(cstack, IF throw THEN [a EXCEPT !.mode = Thrown(a)] ELSE a)
       /\ UNCHANGED gen

\* closure.call.  If its last argument is a function it calls by GS_tailcall:
\* the frame becomes that of the function, which Execute runs.
TailCall ==
    /\ Runs("native") /\ Top.fn = "call" /\ Top.mode = "run"
    /\ Top.for = "opcall" \/ "apitailcall" \in Features
    /\ Finish([vm[Top.vm] EXCEPT !.calls[Depth(Top.vm)].code = TRUE], TRUE)
    /\ UNCHANGED gen

\* Otherwise it calls by GS_call and returns what that returns.
ClosureCall ==
    /\ Runs("native") /\ Top.fn = "call" /\ Top.mode = "run"
    /\ Call(Top.vm, "host", TRUE)

ClosureCallReturn ==
    /\ Runs("native") /\ Top.fn = "call" /\ Top.mode \in {"done", "failed"}
    /\ NativeReturn(Top.mode = "done")

Mut_MaySuspend(v) == ~vm[v].suspended

\* The tests of GSVM::Suspend.
MaySuspend(v) == ~vm[v].suspended /\ vm[v].nnative = 2

\* suspend(): only _OP_CALL heeds the flag.
Suspend(v) ==
    LET e == cstack[Len(cstack) - 1]
        m == LeaveFrame(vm[v])
    IN /\ Runs("native") /\ Top.vm = v /\ Top.fn = "suspend" /\ Top.for = "opcall"
       /\ MaySuspend(v)
       /\ vm' = [vm EXCEPT ![v] = [m EXCEPT !.nnative = @ - 2, !.suspended = TRUE,
                                           !.straps = e.traps,
                                           !.sroot = Last(m.calls).root]]
       /\ cstack' = Back(Front(Front(cstack)), e.for, TRUE)
       /\ UNCHANGED gen

SuspendReturn(v) ==
    /\ Runs("native") /\ Top.vm = v /\ Top.fn = "suspend"
    /\ \/ ~MaySuspend(v) /\ NativeReturn(FALSE)
       \/ MaySuspend(v) /\ Top.for # "opcall" /\ NativeReturn(TRUE)

-----------------------------------------------------------------------------
Init ==
    /\ vm = [v \in VMs |-> [calls |-> <<>>, alloc |-> InitialCalls, etraps |-> <<>>, nnative |-> 0, nmeta |-> 0,
                            suspended |-> FALSE, straps |-> -1, sroot |-> FALSE]]
    /\ gen = [g \in Gens |-> [state |-> "none", etraps |-> <<>>, root |-> FALSE]]
    /\ cstack = <<>>

Instruction(v) ==
    \/ OpThrow(v) \/ OpCall(v) \/ OpCallOverflows(v) \/ OpMeta(v)
    \/ OpPushTrap(v) \/ OpPopTrap(v) \/ OpReturn(v) \/ OpYield(v)
    \/ \E g \in Gens : OpCallGenerator(v, g) \/ OpResume(v, g) \/ OpForeach(v, g)
    \/ \E fn \in NativeFns : OpCallNative(v, fn)

Exception(v) == ErrorHandler(v) \/ Unwind(v) \/ StartFails(v)

Native ==
    \/ \E ok \in BOOLEAN : OtherReturn(ok)
    \/ TailCall \/ ClosureCall \/ ClosureCallReturn
    \/ \E v \in VMs : Suspend(v) \/ SuspendReturn(v)

Api(u) ==
    \/ \E b \in BOOLEAN : ApiCall(u, b) \/ ApiWakeup(u, b)
    \/ \E g \in Gens : ApiResume(u, g)

Next == Native \/ \E v \in VMs : Instruction(v) \/ Exception(v) \/ Api(v)

Spec == Init /\ [][Next]_vars

-----------------------------------------------------------------------------
(* Properties.                                                             *)

FrameType == [code : BOOLEAN, root : BOOLEAN, gen : Gens \cup {None}, etraps : 0 .. MaxTraps]

TypeOK ==
    /\ \A v \in VMs :
          /\ Depth(v) <= MaxFrames /\ Depth(v) <= vm[v].alloc
          /\ \A i \in 1 .. Depth(v) : vm[v].calls[i] \in FrameType
          /\ vm[v].nnative \in 0 .. MAX_NATIVE_CALLS
          /\ vm[v].nmeta \in 0 .. MAX_NATIVE_CALLS
          /\ vm[v].suspended \in BOOLEAN /\ vm[v].sroot \in BOOLEAN /\ vm[v].straps \in Int
    /\ \A g \in Gens : gen[g].state \in {"none", "running", "suspended", "dead"}
    /\ \A i \in 1 .. Len(cstack) :
          /\ cstack[i].kind \in Kinds /\ cstack[i].for \in Fors /\ cstack[i].mode \in Modes
          /\ cstack[i].vm \in VMs

\* The traps of _etraps that belong to frame i of VM v.
TrapsOf(v, i) == {k \in 1 .. Len(vm[v].etraps) : vm[v].etraps[k].at = i}

\* Every frame finds its own traps on _etraps, as many as its _etraps counts,
\* those of inner frames and of inner try blocks above: exception_trap, which
\* takes the topmost, goes to the innermost enclosing catch of the right
\* frame.  Yield and Resume move the traps of a generator out and in again.
TrapsOwned ==
    \A v \in VMs :
        LET tr == vm[v].etraps
        IN /\ \A k \in 1 .. Len(tr) : tr[k].at \in 1 .. Depth(v)
           /\ \A i \in 1 .. Depth(v) :
                 {tr[k].level : k \in TrapsOf(v, i)} = 1 .. vm[v].calls[i].etraps
           /\ \A k, l \in 1 .. Len(tr) : k < l =>
                 \/ tr[k].at < tr[l].at
                 \/ tr[k].at = tr[l].at /\ tr[k].level < tr[l].level

\* _nnativecalls counts the Executes and native functions of the VM that have
\* not returned, on every path out of them: return, exception, suspension,
\* tail call.  Suspend and the overflow check rely on it.
NativeCallsExact ==
    \A v \in VMs :
        /\ vm[v].nnative = Cardinality({i \in 1 .. Len(cstack) : cstack[i].vm = v})
        /\ vm[v].nmeta = Cardinality({i \in 1 .. Len(cstack) :
                                         cstack[i].vm = v /\ cstack[i].for = "meta"})

\* The frames that run generator g.
FramesOf(g) ==
    {x \in VMs \X (1 .. MaxFrames) :
        x[2] <= Depth(x[1]) /\ vm[x[1]].calls[x[2]].gen = g}

\* A generator runs in one frame of one VM at most, and only while its state
\* says so: none is resumed twice, and returns, yields and exceptions that pass
\* through leave none behind.
GeneratorFrames ==
    \A g \in Gens :
        Cardinality(FramesOf(g)) <= IF gen[g].state = "running" THEN 1 ELSE 0

\* No generator is left running without a frame, which nobody could ever resume.
RunningFramed == \A g \in Gens : gen[g].state = "running" => FramesOf(g) # {}

\* A suspended VM waits in a script function, with nothing of it on the C++
\* stack: it can be woken from anywhere, any time later.
SuspendedQuiet ==
    \A v \in VMs : vm[v].suspended =>
        /\ \A i \in 1 .. Len(cstack) : cstack[i].vm # v
        /\ Depth(v) > 0 /\ ci(v).code

\* No frame that was there when a call began is touched while it lasts.
BelowKept ==
    \A k \in 1 .. Len(cstack) :
        LET v == cstack[k].vm
        IN \A i \in 1 .. cstack[k].base :
               i <= Len(vm'[v].calls) /\ vm'[v].calls[i] = vm[v].calls[i]

\* GSvm.cpp:2000, in Call: if(!_suspended) assert(_stackbase == prevstackbase).
\* The call stack is as deep as it was, and of the same frames.
CallRestoresStack ==
    [][/\ BelowKept
       /\ Len(cstack') < Len(cstack) /\ Top.for # "opcall" /\ ~vm'[Top.vm].suspended
            => Len(vm'[Top.vm].calls) = Top.base]_vars

\* The traps set since Execute a began.
TrapsSince(a) ==
    Cardinality({k \in 1 .. Len(vm[a.vm].etraps) : vm[a.vm].etraps[k].at > a.base})

\* The local traps of an Execute that is not interrupted by another of the
\* same VM is the number of traps it can still go to; on it depends whether
\* the error handler hears of an exception.
TrapsCounted ==
    Runs("execute") /\ Top.mode \in {"run", "raise", "unwind"} => Top.traps = TrapsSince(Top)

\* The frames, counters and traps that calls, generators and exceptions all
\* change agree with each other: limits hold, every frame has its own traps,
\* Execute counts those it can go to, and a running generator has its frame.
FramesSound == TypeOK /\ TrapsOwned /\ TrapsCounted /\ RunningFramed

\* Whether the error handler hears of an exception agrees with what becomes
\* of it (unless all are to be notified): it is called only where the exception
\* leaves an Execute that was told to report, and for every such exception of
\* an instruction.
HandlerHearsUncaught ==
    [][\A v \in VMs : ~NotifyAll =>
          /\ ErrorHandler(v) /\ Top.mode = "raise" => Top.raise /\ TrapsSince(Top) = 0
          /\ OpThrow(v) /\ Top.raise /\ TrapsSince(Top) = 0 => Last(cstack').mode = "raise"]_vars

\* GSvm.cpp:1100 and 1330: assert(traps == 0) when a root frame is left.
TrapsZeroAtReturn ==
    \A v \in VMs : Running(v) /\ ci(v).root /\ ci(v).etraps = 0 => Top.traps = 0
=============================================================================
