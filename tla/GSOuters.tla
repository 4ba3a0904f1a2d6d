------------------------------ MODULE GSOuters ------------------------------
(***************************************************************************)
(* Free variables: the outers through which closures reach the locals of   *)
(* functions that run, or ran, on the stack of a virtual machine           *)
(* (GSvm.cpp, GSclosure.h, GSobject.cpp).                                  *)
(*                                                                         *)
(* A variable is known by a member of Vars, and a register, a generator's  *)
(* saved stack or an outer holds the variable whose value is there: the    *)
(* instructions that assign to variables change no variable below, and the *)
(* closures agree with the function when what they reach is its variable.  *)
(*    stack[m]     _stack of the VM m, without the registers of "this";    *)
(*                 None where there is neither a local nor an open outer,  *)
(*                 whether the code empties the register or leaves it so   *)
(*    mem[m]       address and number of the registers allocated           *)
(*    frames[m]    the calls; a frame has its blocks, with the number of   *)
(*                 locals outside each and whether it is the body of a try *)
(*    opens[m]     _openouters                                             *)
(*    outer[o]     a GSOuter: ptr is its _valptr, None for &_value         *)
(*    closure[c]   _outervalues, each with the variable that the program   *)
(*                 text means by it                                        *)
(*    gen[g]       a suspended generator                                   *)
(*    loose        captured variables that the code has lost sight of      *)
(* An outer, or a closure, that nothing refers to is None: it was freed.   *)
(***************************************************************************)
EXTENDS Integers, Sequences, FiniteSets, FiniteSetsExt, SequencesExt

CONSTANTS
    VMs, Vars, Outers, Closures, Gens, None,
    FrameSize,           \* _stacksize of every function
    MaxFrames, MaxBlocks,\* bounds: frames of a VM, blocks of all frames together
    MaxCaptures,         \* bound: free variables of a closure
    InitialSize,         \* first size of a stack
    MIN_STACK_OVERHEAD   \* 15 in GSvm.h

ASSUME BoundsAssumption ==
    /\ FrameSize \in Nat \ {0} /\ InitialSize \in Nat
    /\ {MaxFrames, MaxBlocks, MaxCaptures, MIN_STACK_OVERHEAD} \subseteq Nat
ASSUME NoneAssumption ==
    /\ None \notin Vars \cup Outers \cup Closures \cup Gens
    /\ None \notin [vm : VMs, at : Nat, reg : Nat]
    /\ None \notin [ptr : [vm : VMs, at : Nat, reg : Nat], idx : Nat, value : {None}]
    /\ None \notin [ptr : {None}, idx : Nat, value : Vars]

VARIABLES stack, mem, frames, opens, outer, closure, gen, loose
vars == <<stack, mem, frames, opens, outer, closure, gen, loose>>

Registers == 0 .. MaxFrames * FrameSize - 1

Init ==
    /\ stack = [m \in VMs |-> [i \in Registers |-> None]]
    /\ mem = [m \in VMs |-> [at |-> 0, size |-> InitialSize]]
    /\ frames = [m \in VMs |-> <<>>]
    /\ opens = [m \in VMs |-> <<>>]
    /\ outer = [o \in Outers |-> None]
    /\ closure = [c \in Closures |-> None]
    /\ gen = [g \in Gens |-> None]
    /\ loose = {}

-----------------------------------------------------------------------------
(* What there is. *)

Entries == UNION {Range(closure[c]) : c \in {d \in Closures : closure[d] # None}}
Captured == {e.var : e \in Entries}

\* A variable that nothing holds or means, for the next declaration.
Unused ==
    Vars \ ((UNION {Range(stack[m]) : m \in VMs})
            \cup (UNION {Range(gen[g].regs) : g \in {h \in Gens : gen[h] # None}})
            \cup {outer[o].value : o \in {p \in Outers : outer[p] # None}}
            \cup Captured)

Running(m) == frames[m] # <<>>
Frame(m) == Last(frames[m])
FrameTop(fs) == IF fs = <<>> THEN 0 ELSE Last(fs).base + FrameSize
Local(m, i) == Frame(m).base + i

\* What an outer reaches: registers that were moved elsewhere hold nothing.
Deref(o) ==
    LET p == outer[o].ptr
    IN  CASE p = None -> outer[o].value
          [] p # None /\ p.at = mem[p.vm].at -> stack[p.vm][p.reg]
          [] OTHER -> None

-----------------------------------------------------------------------------
(* The outers, and the open ones of a VM, last register first. *)

\* The outers of os that are at register i or after it and come before any other.
Above(outs, os, i) == Min({n \in 0..Len(os) : n = Len(os) \/ outs[os[n + 1]].ptr.reg < i})

Open(m) == [outs |-> outer, opens |-> opens[m]]

Mut_Place(s, i) == 0

\* How many outers of the list s come before that of register i.
Place(s, i) == Above(s.outs, s.opens, i + 1)

\* FindOuter: the outers s, with the one of register i found or made of new.
FindOuter(s, m, i, new) ==
    LET os == s.opens
        n == Place(s, i)
    IN  IF n < Len(os) /\ s.outs[os[n + 1]].ptr.reg = i
        THEN [s EXCEPT !.found = Append(@, os[n + 1])]
        ELSE [outs |-> [s.outs EXCEPT ![new] =
                          [ptr |-> [vm |-> m, at |-> mem[m].at, reg |-> i], idx |-> i, value |-> None]],
              opens |-> InsertAt(os, n + 1, new),
              found |-> Append(s.found, new)]

\* CloseOuters: the outers of register i and after it get a value of their own.
CloseOuters(m, i) ==
    LET n == Above(outer, opens[m], i)
    IN  [outs |-> [o \in Outers |-> IF o \in Range(SubSeq(opens[m], 1, n))
                                    THEN [outer[o] EXCEPT !.value = Deref(o), !.ptr = None] ELSE outer[o]],
         opens |-> SubSeq(opens[m], n + 1, Len(opens[m]))]

RelocateOuters(outs, m, os, at) ==
    [o \in Outers |-> IF o \in Range(os) THEN [outs[o] EXCEPT !.ptr.at = at, !.ptr.reg = outs[o].idx]
                      ELSE outs[o]]

\* The registers of m that are locals of the frames fs.
LocalRegs(fs) == UNION {f.base..(f.base + f.nlocals - 1) : f \in Range(fs)}

\* The next state, when the registers of m are regs, its calls fs and its outers
\* those of s: what no closure and no list holds is freed.
Settle(m, regs, fs, s) ==
    LET used == LocalRegs(fs) \cup {s.outs[o].ptr.reg : o \in Range(s.opens)}
        held == Range(s.opens) \cup (UNION {Range(opens[n]) : n \in VMs \ {m}}) \cup {e.outer : e \in Entries}
    IN  /\ stack' = [stack EXCEPT ![m] = [i \in Registers |-> IF i \in used THEN regs[i] ELSE None]]
        /\ frames' = [frames EXCEPT ![m] = fs]
        /\ opens' = [opens EXCEPT ![m] = s.opens]
        /\ outer' = [o \in Outers |-> IF o \in held THEN s.outs[o] ELSE None]

-----------------------------------------------------------------------------
(* Frames. *)

\* EnterFrame: the stack grows when it is too small, to another address, and the
\* outers s move with it.
Grows(m, base) == base + FrameSize + MIN_STACK_OVERHEAD > mem[m].size
Grown(m, base) ==
    IF Grows(m, base)
    THEN [mem EXCEPT ![m] = [at |-> 1 - @.at, size |-> base + FrameSize + 4 * MIN_STACK_OVERHEAD]]
    ELSE mem
Mut_Relocated(m, base, s) == s
Relocated(m, base, s) ==
    IF Grows(m, base) THEN [s EXCEPT !.outs = RelocateOuters(@, m, s.opens, 1 - mem[m].at)] ELSE s

EnterFrame(m, regs, fs, s) ==
    LET base == Last(fs).base
    IN  mem' = Grown(m, base) /\ Settle(m, regs, fs, Relocated(m, base, s))

\* LeaveFrame, for all frames after fs.
LeaveFrames(m, fs) == Settle(m, stack[m], fs, CloseOuters(m, frames[m][Len(fs) + 1].base))

NewFrame(base, nlocals, c, g) ==
    [base |-> base, nlocals |-> nlocals, blocks |-> <<>>, closure |-> c, gen |-> g]

Tries(f) == {n \in DOMAIN f.blocks : f.blocks[n].try}

\* What can be called: a closure, or a function with no free variable.
Callees == {None} \cup {c \in Closures : closure[c] # None}
CalleeBase(m) == IF Running(m) THEN Local(m, Frame(m).nlocals) ELSE 0

\* Functions have one parameter; the variables args in registers from base on.
Passed(m, base, args) == [i \in Registers |-> IF i - base + 1 \in DOMAIN args THEN args[i - base + 1] ELSE stack[m][i]]

\* _OP_CALL, or a call by the host: the arguments are the callee's first registers.
Call(m, c, v) ==
    LET base == CalleeBase(m)
    IN  /\ Len(frames[m]) < MaxFrames
        /\ EnterFrame(m, Passed(m, base, <<v>>), Append(frames[m], NewFrame(base, 1, c, None)), Open(m))
        /\ UNCHANGED <<closure, gen, loose>>

\* _OP_TAILCALL: the frame is used again.
TailCall(m, c, v) ==
    LET f == Frame(m)
    IN  /\ Running(m) /\ Tries(f) = {}
        /\ EnterFrame(m, Passed(m, f.base, <<v>>),
                      Append(Front(frames[m]), NewFrame(f.base, 1, c, f.gen)), CloseOuters(m, f.base))
        /\ UNCHANGED <<closure, gen, loose>>

\* Return, of a function or for the last time of a generator.
Return(m) ==
    /\ Running(m)
    /\ LeaveFrames(m, Front(frames[m]))
    /\ UNCHANGED <<mem, closure, gen, loose>>

Catchers(m) == {k \in DOMAIN frames[m] : Tries(frames[m][k]) # {}}

\* An exception that no frame catches.
ThrowOut(m) ==
    /\ Running(m) /\ Catchers(m) = {}
    /\ LeaveFrames(m, <<>>)
    /\ UNCHANGED <<mem, closure, gen, loose>>

\* The captured variables of the registers i to j - 1.
CapturedIn(m, i, j) == Captured \cap {stack[m][r] : r \in i..(j - 1)}

\* An exception that a frame catches: those called by it are left, and the catch
\* block starts with the error in the first register of the try block.  No
\* instruction closes the outers of the variables of the try block.
Catch(m) ==
    LET k == Max(Catchers(m))
        f == frames[m][k]
        n == Max(Tries(f))
        start == f.blocks[n].start
        caught == [f EXCEPT !.nlocals = start + 1,
                            !.blocks = Append(SubSeq(@, 1, n - 1), [start |-> start, try |-> FALSE])]
        fs == Append(SubSeq(frames[m], 1, k - 1), caught)
    IN  /\ Running(m) /\ Catchers(m) # {}
        /\ start < FrameSize
        /\ \E v \in Unused :
              Settle(m, [stack[m] EXCEPT ![f.base + start] = v], fs,
                     IF k < Len(frames[m]) THEN CloseOuters(m, frames[m][k + 1].base) ELSE Open(m))
        /\ loose' = loose \cup CapturedIn(m, f.base + start, f.base + f.nlocals)
        /\ UNCHANGED <<mem, closure, gen>>

-----------------------------------------------------------------------------
(* Locals and blocks. *)

WithFrame(m, f) == Append(Front(frames[m]), f)

AllFrames == (UNION {Range(frames[m]) : m \in VMs}) \cup {gen[g].frame : g \in {h \in Gens : gen[h] # None}}
NumBlocks == MapThenSumSet(LAMBDA f : Len(f.blocks), AllFrames)

\* A local is declared, in the block that the frame is in or as the first of a new
\* one: BEGIN_SCOPE, with the _OP_PUSHTRAP of a try.
DeclareIn(m, blocks) ==
    LET n == Frame(m).nlocals
        f == [Frame(m) EXCEPT !.nlocals = n + 1, !.blocks = blocks]
    IN  /\ Running(m) /\ n < FrameSize
        /\ \E v \in Unused : Settle(m, [stack[m] EXCEPT ![Local(m, n)] = v], WithFrame(m, f), Open(m))
        /\ UNCHANGED <<mem, closure, gen, loose>>

Declare(m) == DeclareIn(m, Frame(m).blocks)
BeginBlock(m, try) ==
    /\ NumBlocks < MaxBlocks
    /\ DeclareIn(m, Append(Frame(m).blocks, [start |-> Frame(m).nlocals, try |-> try]))

\* The outers after the _OP_CLOSE of the innermost block.  The compiler emits it for
\* a block with a variable that a function captures, be that evaluated or not.
ClosedBlock(m) ==
    LET at == Local(m, Last(Frame(m).blocks).start)
    IN  {CloseOuters(m, at)}
        \cup IF CapturedIn(m, at, Local(m, Frame(m).nlocals)) = {} THEN {Open(m)} ELSE {}

\* The block is left for the one that n blocks are open in: at its end (n is one less),
\* or by break and continue, which close the outers of the innermost block only.
LeaveBlock(m, n) ==
    LET blocks == Frame(m).blocks
        start == blocks[n + 1].start
        f == [Frame(m) EXCEPT !.blocks = SubSeq(@, 1, n), !.nlocals = start]
    IN  /\ \E s \in ClosedBlock(m) : Settle(m, stack[m], WithFrame(m, f), s)
        /\ loose' = loose \cup CapturedIn(m, Local(m, start), Local(m, Last(blocks).start))
        /\ UNCHANGED <<mem, closure, gen>>

EndBlock(m) == Running(m) /\ Frame(m).blocks # <<>> /\ LeaveBlock(m, Len(Frame(m).blocks) - 1)
Break(m) == Running(m) /\ \E n \in 0..(Len(Frame(m).blocks) - 2) : LeaveBlock(m, n)

-----------------------------------------------------------------------------
(* Closures. *)

\* The free variables a function can have: locals of the one that makes it
\* (otLOCAL), or that one's own free variables (otOUTER).
Sources(m) ==
    [kind : {"local"}, n : 0..(Frame(m).nlocals - 1)]
    \cup [kind : {"outer"}, n : IF Frame(m).closure = None THEN {} ELSE DOMAIN closure[Frame(m).closure]]

\* The outers found, or made of new, for one source after the other: the list of
\* open outers is searched again for each.
FindOuters(m, src, new) ==
    LET k == Len(src)
        s[i \in 0..k] ==
            IF i = 0 THEN [outs |-> outer, opens |-> opens[m], found |-> <<>>]
            ELSE IF src[i].kind = "local" THEN FindOuter(s[i - 1], m, Local(m, src[i].n), new[i])
            ELSE [s[i - 1] EXCEPT !.found = Append(@, closure[Frame(m).closure][src[i].n].outer)]
    IN  s[k]

\* CLOSURE_OP
MakeClosure(m, c) ==
    /\ Running(m) /\ closure[c] = None
    /\ \E k \in 1..MaxCaptures :
       \E src \in [1..k -> Sources(m)], new \in [1..k -> {o \in Outers : outer[o] = None}] :
          LET s == FindOuters(m, src, new)
              Meant(i) == IF src[i].kind = "local" THEN stack[m][Local(m, src[i].n)]
                          ELSE closure[Frame(m).closure][src[i].n].var
          IN  /\ IsInjective(new) /\ IsInjective(src)
              /\ closure' = [closure EXCEPT ![c] = [i \in 1..k |-> [outer |-> s.found[i], var |-> Meant(i)]]]
              /\ Settle(m, stack[m], frames[m], s)
    /\ UNCHANGED <<mem, gen, loose>>

\* GSClosure::Clone, by bindenv and setroot
CloneClosure(c, d) ==
    /\ closure[c] # None /\ closure[d] = None
    /\ closure' = [closure EXCEPT ![d] = closure[c]]
    /\ UNCHANGED <<stack, mem, frames, opens, outer, gen, loose>>

\* The last reference to a closure that does not run.
DropClosure(c) ==
    /\ closure[c] # None
    /\ \A m \in VMs : \A f \in Range(frames[m]) : f.closure # c
    /\ \A g \in Gens : gen[g] # None => gen[g].frame.closure # c
    /\ closure' = [closure EXCEPT ![c] = None]
    /\ outer' = [o \in Outers |-> IF \/ \E m \in VMs : o \in Range(opens[m])
                                     \/ \E e \in Entries' : e.outer = o
                                  THEN outer[o] ELSE None]
    /\ loose' = {v \in loose : \E e \in Entries' : e.var = v}
    /\ UNCHANGED <<stack, mem, frames, opens, gen>>

-----------------------------------------------------------------------------
(* Generators and threads. *)

NewGenerators == {g \in Gens : gen[g] = None /\ \A m \in VMs : \A f \in Range(frames[m]) : f.gen # g}

\* StartCall of a generator function: the frame is entered, its registers are put
\* in a new generator and emptied, and it is left.
MakeGenerator(m, c, g, v) ==
    LET base == CalleeBase(m)
        s == CloseOuters(m, base)
        emptied == [o \in Outers |-> IF s.outs[o] # outer[o] THEN [s.outs[o] EXCEPT !.value = None] ELSE outer[o]]
    IN  /\ Len(frames[m]) < MaxFrames /\ g \in NewGenerators
        /\ gen' = [gen EXCEPT ![g] = [frame |-> NewFrame(0, 1, c, None), regs |-> <<v>>]]
        /\ mem' = Grown(m, base)
        /\ Settle(m, stack[m], frames[m], Relocated(m, base, [s EXCEPT !.outs = emptied]))
        /\ UNCHANGED <<closure, loose>>

\* _OP_YIELD: the generator takes the values of its variables with it, and the
\* closures keep their own.
Yield(m) ==
    LET f == Frame(m)
    IN  /\ Running(m) /\ f.gen # None
        /\ gen' = [gen EXCEPT ![f.gen] = [frame |-> [f EXCEPT !.gen = None, !.base = 0],
                                          regs |-> [i \in 1..f.nlocals |-> stack[m][f.base + i - 1]]]]
        /\ LeaveFrames(m, Front(frames[m]))
        /\ loose' = loose \cup CapturedIn(m, f.base, f.base + f.nlocals)
        /\ UNCHANGED <<mem, closure>>

\* GSGenerator::Resume
Resume(m, g) ==
    LET base == FrameTop(frames[m])
    IN  /\ Running(m) /\ Len(frames[m]) < MaxFrames /\ gen[g] # None
        /\ EnterFrame(m, Passed(m, base, gen[g].regs),
                      Append(frames[m], [gen[g].frame EXCEPT !.base = base, !.gen = g]), Open(m))
        /\ gen' = [gen EXCEPT ![g] = None]
        /\ UNCHANGED <<closure, loose>>

\* A suspended generator that nothing refers to.
DropGenerator(g) ==
    /\ gen[g] # None
    /\ gen' = [gen EXCEPT ![g] = None]
    /\ UNCHANGED <<stack, mem, frames, opens, outer, closure, loose>>

\* GSVM::Finalize: a thread is freed, suspended or not.
Finalize(m) ==
    /\ Settle(m, stack[m], <<>>, CloseOuters(m, 0))
    /\ mem' = [mem EXCEPT ![m] = [at |-> 0, size |-> InitialSize]]
    /\ UNCHANGED <<closure, gen, loose>>

-----------------------------------------------------------------------------
Next ==
    \/ \E m \in VMs, c \in Callees, v \in Unused :
          \/ Call(m, c, v)
          \/ TailCall(m, c, v)
          \/ \E g \in Gens : MakeGenerator(m, c, g, v)
    \/ \E m \in VMs :
          \/ Return(m) \/ ThrowOut(m) \/ Catch(m)
          \/ Declare(m) \/ EndBlock(m) \/ Break(m)
          \/ \E try \in BOOLEAN : BeginBlock(m, try)
          \/ \E c \in Closures : MakeClosure(m, c)
          \/ Yield(m)
          \/ \E g \in Gens : Resume(m, g)
          \/ Finalize(m)
    \/ \E c, d \in Closures : CloneClosure(c, d)
    \/ \E c \in Closures : DropClosure(c)
    \/ \E g \in Gens : DropGenerator(g)

Spec == Init /\ [][Next]_vars

-----------------------------------------------------------------------------
(* Properties. *)

\* Every free variable of a closure is the one its text means: the local of the
\* function as long as that is in its scope, and its last value afterwards,
\* whatever the stacks and the other closures did meanwhile.  Excepted are only
\* variables that a break, a catch or a yield took out of the code's sight.
ClosuresReachVariables ==
    \A e \in Entries :
        e.var \notin loose =>
            /\ Deref(e.outer) = e.var
            /\ \A m \in VMs : \A f \in Range(frames[m]) : \A i \in f.base..(f.base + f.nlocals - 1) :
                  stack[m][i] = e.var => outer[e.outer].ptr = [vm |-> m, at |-> mem[m].at, reg |-> i]

\* The list of open outers is what FindOuter, CloseOuters and RelocateOuters take
\* it for: one outer a register, last register first, at the index it is to be
\* relocated to, and none of a register that belongs to no call.
OpenOutersSorted ==
    \A m \in VMs :
        /\ \A j, k \in DOMAIN opens[m] : j < k => outer[opens[m][j]].ptr.reg > outer[opens[m][k]].ptr.reg
        /\ \A o \in Range(opens[m]) : /\ outer[o].ptr.vm = m
                                      /\ outer[o].ptr.reg = outer[o].idx
                                      /\ outer[o].idx < FrameTop(frames[m])
=============================================================================
