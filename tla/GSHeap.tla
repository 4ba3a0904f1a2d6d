------------------------------- MODULE GSHeap -------------------------------
(***************************************************************************)
(* Memory management of GameScript: reference counts, weak references, the *)
(* open outers of threads, and the mark and sweep collector that frees     *)
(* cycles (GSobject.h, GSobject.cpp, GSstate.cpp, GSvm.cpp).               *)
(*                                                                         *)
(* A cell is a place that holds a counted reference (a GSObjectPtr, or a   *)
(* pointer kept with __ObjAddRef):                                         *)
(*    <<o, f>>  a field of the collectable object o; the field Delegate    *)
(*              is GSDelegable::_delegate                                  *)
(*    Slots     what RunMark starts from: the stacks of the VMs, the root  *)
(*              table, the registry, the table of host references          *)
(*    Locals    a GSObjectPtr in a C++ frame of a native function          *)
(*              (GSbaselib.cpp: ret in array_map, array_filter,            *)
(*              table_filter), which the collector does not see            *)
(*    GcT, GcN  t and nx in the sweep loop, which raise _uiRef by hand     *)
(*    <<Open, r>>  in the _openouters of a VM, the outer of the register r *)
(*                                                                         *)
(* A register is a place on a VM's stack: a slot of the root VM, or a field *)
(* of a thread.  While its outer (GSOuter) is open, closures read and write *)
(* the register through it; CloseOuters copies the register into the       *)
(* outer's own field Value and takes the outer off the list.  A slot or    *)
(* field that holds an outer stands for one with a closure that has it.    *)
(*                                                                         *)
(* An object whose count reaches 0 is deleted: its destructor drops its    *)
(* fields one by one and may delete others on the way.  The C++ recursion  *)
(* is the stack `dying', and nothing else runs until it is empty.          *)
(***************************************************************************)
EXTENDS Integers, FiniteSets, Sequences

CONSTANTS
    Objects,    \* collectable objects (tables, arrays, closures, ...)
    Weaks,      \* GSWeakRef objects
    Fields,     \* the counted fields of an object
    Delegate,   \* the field that SetDelegate guards
    Threads,    \* the objects that are VMs (GSVM)
    Outers,     \* the objects that are outers (GSOuter)
    Value,      \* the field _value of an outer
    Open,
    Slots, Locals, GcT, GcN,
    Null

Refs == Objects \cup Weaks
Plain == Objects \ (Threads \cup Outers)
Registers == Slots \cup (Threads \X Fields)
OpenCells == {Open} \X Registers
Cells == (Objects \X Fields) \cup Slots \cup Locals \cup {GcT, GcN} \cup OpenCells

ASSUME OutersAssumption ==
    /\ Threads \subseteq Objects /\ Outers \subseteq Objects
    /\ Threads \cap Outers = {}
    /\ Outers # {} => Value \in Fields
    /\ Value # Delegate
    /\ Open \notin Objects
    /\ OpenCells \cap (Slots \cup Locals \cup {GcT, GcN}) = {}
    /\ Null \notin Registers
ASSUME DistinctAssumption ==
    /\ Objects \cap Weaks = {}
    /\ Null \notin Refs
    /\ GcT # GcN
    /\ (Objects \X Fields) \cap (Slots \cup Locals \cup {GcT, GcN}) = {}
    /\ Slots \cap (Locals \cup {GcT, GcN}) = {}
    /\ Locals \cap {GcT, GcN} = {}
ASSUME FiniteAssumption == IsFiniteSet(Cells)

VARIABLES
    cell,       \* what every cell holds
    uiRef,      \* _uiRef without MARK_FLAG
    marked,     \* the objects with MARK_FLAG
    life,       \* of an object: "free" memory, "live", or "dying": in its destructor
    dying,      \* the objects in their destructors, innermost first
    weakref,    \* _weakref of an object
    obj,        \* _obj of a weak reference
    gc_chain, next, prev,   \* the list of all objects
    tchain,     \* the list of the marked ones, of CollectGarbage
    phase,      \* where the collector or the destructor of the state is
    closing,    \* the register whose outer CloseOuters is closing, or Null
    lost        \* history: the outers closed since the sweep began

heap == <<cell, uiRef, life, dying, weakref, obj>>
chain == <<gc_chain, tchain, next, prev>>
closes == <<closing, lost>>
vars == <<heap, marked, chain, phase, closes>>

Phases == {"run", "mark", "finalize", "next", "drop", "advance",
           "close", "closefinalize", "closenext", "closedrop", "closeadvance", "closed"}

Sweeping == {"finalize", "next", "drop", "advance"}

\* No destructor runs and no outer is half closed.
Between == dying = <<>> /\ closing = Null
Idle == phase = "run" /\ Between

-----------------------------------------------------------------------------
(* Lists: GSCollectable::RemoveFromChain and AddToChain.                   *)

\* The links once o has been taken out of its list.
NextWithout(o) ==
    [x \in Objects |-> IF x = o THEN Null
                       ELSE IF x = prev[o] THEN next[o] ELSE next[x]]

Mut_PrevWithout(o) == [prev EXCEPT ![o] = Null]

PrevWithout(o) ==
    [x \in Objects |-> IF x = o THEN Null
                       ELSE IF x = next[o] THEN prev[o] ELSE prev[x]]

\* *chain is &_gc_chain in every call, whichever list o really is in.
HeadWithout(o) == IF prev[o] = Null THEN next[o] ELSE gc_chain

RemoveFromChain(o) ==
    /\ next' = NextWithout(o)
    /\ prev' = PrevWithout(o)
    /\ gc_chain' = HeadWithout(o)
    /\ UNCHANGED tchain

AddToChain(o) ==
    /\ next' = [next EXCEPT ![o] = gc_chain]
    /\ prev' = [x \in Objects |-> IF x = o THEN Null
                                  ELSE IF x = gc_chain THEN o ELSE prev[x]]
    /\ gc_chain' = o
    /\ UNCHANGED tchain

-----------------------------------------------------------------------------
(* Counted assignment: AddRef the new value, release the old one.          *)

\* 1 if the reference v is to r.
One(r, v) == IF r = v THEN 1 ELSE 0

Mut_Counts(c, v) == [r \in Refs |-> uiRef[r] + One(r, v)]

Mut_CountsTwice(c, v) ==
    [r \in Refs |-> uiRef[r] + One(r, v) - 2 * One(r, cell[c])]

\* _uiRef after cell c has been given the value v.
Counts(c, v) == [r \in Refs |-> uiRef[r] + One(r, v) - One(r, cell[c])]

\* GSWeakRef::Release.
WeakRelease(w) ==
    /\ weakref' = IF obj[w] = Null THEN weakref ELSE [weakref EXCEPT ![obj[w]] = Null]
    /\ obj' = [obj EXCEPT ![w] = Null]
    /\ life' = [life EXCEPT ![w] = "free"]
    /\ UNCHANGED <<dying, chain>>

\* Release of an object, up to REMOVE_FROM_CHAIN in its destructor.  (Those of
\* GSTable and GSVM drop the delegate, or all that the thread has, just before:
\* taking the object out of the middle of a list commutes with that.)
ObjRelease(o) ==
    /\ life' = [life EXCEPT ![o] = "dying"]
    /\ dying' = <<o>> \o dying
    /\ RemoveFromChain(o)
    /\ UNCHANGED <<weakref, obj>>

Mut_Dead(c, v) ==
    /\ cell[c] # Null
    /\ Counts(c, v)[cell[c]] <= 1
    /\ cell[c] \notin marked

\* _uiRef, mark and all, reached 0.
Dead(c, v) ==
    /\ cell[c] # Null
    /\ Counts(c, v)[cell[c]] = 0
    /\ cell[c] \notin marked

Assign(c, v) ==
    /\ cell' = [cell EXCEPT ![c] = v]
    /\ uiRef' = Counts(c, v)
    /\ \/ Dead(c, v) /\ cell[c] \in Weaks /\ WeakRelease(cell[c])
       \/ Dead(c, v) /\ cell[c] \in Objects /\ ObjRelease(cell[c])
       \/ ~Dead(c, v) /\ UNCHANGED <<life, dying, weakref, obj, chain>>

-----------------------------------------------------------------------------
(* What scripts and native functions do.                                   *)

OwnFields(o) == {o} \X Fields

\* The outer p, open at the register r.
OpenAt(p, r) == cell[<<Open, r>>] = p

\* What a closure that has the outer p reads and writes.
Variable(p) ==
    IF \E r \in Registers : OpenAt(p, r) THEN {r \in Registers : OpenAt(p, r)}
                                        ELSE {<<p, Value>>}

\* A script has its hands on what the slots hold, on the fields of the objects
\* among these, the stacks of the threads included, and on the free variables
\* of the closures; a native function also fills the object in its local.
Held == {cell[c] : c \in Slots} \ {Null}
Within ==
    Slots \cup (UNION {OwnFields(o) : o \in Held \cap (Plain \cup Threads)})
          \cup (UNION {Variable(p) : p \in Held \cap Outers})
Filled == UNION {OwnFields(o) : o \in {cell[l] : l \in Locals} \cap Plain}
Values ==
    {cell[c] : c \in Within} \cup {cell[<<Open, r>>] : r \in Within \cap Registers}
                             \cup {Null}

\* Every Create: INIT_CHAIN, ADD_TO_CHAIN, and a first reference from an
\* empty stack slot or a local of a native function.
New(o, c) ==
    /\ Idle
    /\ life[o] = "free"
    /\ cell[c] = Null
    /\ cell' = [cell EXCEPT ![c] = o]
    /\ uiRef' = [uiRef EXCEPT ![o] = 1]
    /\ life' = [life EXCEPT ![o] = "live"]
    /\ AddToChain(o)
    /\ UNCHANGED <<dying, weakref, obj, marked, phase, closes>>

\* Any assignment to a slot or to a field other than the delegate.
Store(c, v) ==
    /\ Idle
    /\ v # cell[c]
    /\ Assign(c, v)
    /\ UNCHANGED <<marked, phase, closes>>

Mut_DelegateCycle(o, m) == m = o

\* The test of SetDelegate: o is m or one of m's delegates, so that every set
\* with m and the delegates of its members has o.
DelegateCycle(o, m) ==
    /\ m # Null
    /\ \A S \in SUBSET Objects :
          m \in S /\ (\A x \in S : cell[<<x, Delegate>>] \in S \cup {Null}) => o \in S

SetDelegate(o, m) ==
    /\ Idle
    /\ m # cell[<<o, Delegate>>]
    /\ ~DelegateCycle(o, m)
    /\ Assign(<<o, Delegate>>, m)
    /\ UNCHANGED <<marked, phase, closes>>

\* GetWeakRef, pushed on an empty stack slot: the weak reference the object
\* has already, or a new one.
GetWeakRef(o, w, c) ==
    /\ Idle
    /\ cell[c] = Null
    /\ \/ weakref[o] = w
       \/ weakref[o] = Null /\ life[w] = "free"
    /\ cell' = [cell EXCEPT ![c] = w]
    /\ uiRef' = [uiRef EXCEPT ![w] = @ + 1]
    /\ life' = [life EXCEPT ![w] = "live"]
    /\ weakref' = [weakref EXCEPT ![o] = w]
    /\ obj' = [obj EXCEPT ![w] = o]
    /\ UNCHANGED <<dying, marked, chain, phase, closes>>

\* _realval: a weak reference read as its object, or as null.
Deref(w, c) ==
    /\ Idle
    /\ obj[w] # cell[c]
    /\ Assign(c, obj[w])
    /\ UNCHANGED <<marked, phase, closes>>

\* The native function pushes its result and returns.
Return(l, c) ==
    /\ Idle
    /\ cell[l] # Null
    /\ cell[c] = Null
    /\ cell' = [cell EXCEPT ![c] = cell[l], ![l] = Null]
    /\ UNCHANGED <<uiRef, life, dying, weakref, obj, marked, chain, phase, closes>>

-----------------------------------------------------------------------------
(* Open outers.                                                            *)

\* FindOuter, when the register has no outer yet: a new one, counted by the
\* list of open outers.
FindOuter(p, r) == New(p, <<Open, r>>)

\* CloseOuters, for one outer: the register is copied into it, then the list
\* lets it go.  Nothing can be released in between.
CopyOut(p, r) ==
    /\ closing = Null
    /\ OpenAt(p, r)
    /\ Assign(<<p, Value>>, cell[r])
    /\ closing' = r
    /\ lost' = IF phase \in Sweeping THEN lost \cup {p} ELSE lost
    /\ UNCHANGED <<marked, phase>>

LetGo(r) ==
    /\ closing = r
    /\ Assign(<<Open, r>>, Null)
    /\ closing' = Null
    /\ UNCHANGED <<lost, marked, phase>>

\* Whether CloseOuters has closed every outer of the registers among C.
NoneOpen(C) == \A r \in C \cap Registers : OpenAt(Null, r)

\* The VM closes outers when a block or a frame is left.
LeaveBlock(p, r) == Idle /\ CopyOut(p, r)

-----------------------------------------------------------------------------
(* Destructors.                                                            *)

\* ~GSVM calls Finalize, which closes the outers of the stack before it
\* empties it.
DestroyOuter(p, r) ==
    /\ dying # <<>>
    /\ r \in OwnFields(Head(dying))
    /\ CopyOut(p, r)

\* The innermost destructor drops a field.
DestroyField(c) ==
    /\ dying # <<>> /\ closing = Null
    /\ c \in OwnFields(Head(dying))
    /\ NoneOpen(OwnFields(Head(dying)))
    /\ cell[c] # Null
    /\ Assign(c, Null)
    /\ UNCHANGED <<marked, phase, closes>>

Mut_DestroyEnd ==
    /\ dying # <<>> /\ closing = Null
    /\ \A c \in OwnFields(Head(dying)) : cell[c] = Null
    /\ NoneOpen(OwnFields(Head(dying)))
    /\ life' = [life EXCEPT ![Head(dying)] = "free"]
    /\ dying' = Tail(dying)
    /\ weakref' = [weakref EXCEPT ![Head(dying)] = Null]
    /\ UNCHANGED <<cell, uiRef, obj, marked, chain, phase, closes>>

\* ~GSRefCounted: the weak reference, if any, forgets the object; then the
\* memory is freed.
DestroyEnd ==
    /\ dying # <<>> /\ closing = Null
    /\ LET o == Head(dying)
       IN /\ \A c \in OwnFields(o) : cell[c] = Null
          /\ NoneOpen(OwnFields(o))
          /\ life' = [life EXCEPT ![o] = "free"]
          /\ obj' = IF weakref[o] = Null THEN obj
                    ELSE [obj EXCEPT ![weakref[o]] = Null]
          /\ weakref' = [weakref EXCEPT ![o] = Null]
    /\ dying' = Tail(dying)
    /\ UNCHANGED <<cell, uiRef, marked, chain, phase, closes>>

-----------------------------------------------------------------------------
(* CollectGarbage.                                                         *)

CollectGarbage ==
    /\ Idle
    /\ phase' = "mark"
    /\ UNCHANGED <<heap, marked, chain, closes>>

Mut_ToMark ==
    {o \in Objects : \E c \in Slots : cell[c] = o} \ marked

Mut_ToMarkAll ==
    {o \in Objects : \E c \in Cells : cell[c] = o} \ marked

\* RunMark has still to visit these.  Weak references are not followed, nor is
\* the list of a VM's open outers.  GSOuter::Mark marks no register: an open
\* outer's own field, which it tests for, is null.
ToMark ==
    {o \in Objects : \E c \in Slots \cup (marked \X Fields) : cell[c] = o} \ marked

\* START_MARK and END_MARK: from _gc_chain to tchain.
Mark(o) ==
    /\ phase = "mark"
    /\ o \in ToMark
    /\ marked' = marked \cup {o}
    /\ next' = [NextWithout(o) EXCEPT ![o] = tchain]
    /\ prev' = [x \in Objects |-> IF x = o THEN Null
                                  ELSE IF x = tchain THEN o ELSE PrevWithout(o)[x]]
    /\ gc_chain' = HeadWithout(o)
    /\ tchain' = o
    /\ UNCHANGED <<heap, phase, closes>>

\* The head of _gc_chain becomes t, or the loop is over before it starts.
BeginSweep(finalize, over) ==
    /\ cell' = [cell EXCEPT ![GcT] = gc_chain]
    /\ uiRef' = [r \in Refs |-> uiRef[r] + One(r, gc_chain)]
    /\ phase' = IF gc_chain = Null THEN over ELSE finalize
    /\ UNCHANGED <<life, dying, weakref, obj>>

\* After the loop: UnMark everything and make it _gc_chain.
EndMark ==
    /\ phase = "mark"
    /\ ToMark = {}
    /\ BeginSweep("finalize", "run")
    /\ marked' = IF gc_chain = Null THEN {} ELSE marked
    /\ gc_chain' = IF gc_chain = Null THEN tchain ELSE gc_chain
    /\ tchain' = IF gc_chain = Null THEN Null ELSE tchain
    /\ UNCHANGED <<next, prev, closes>>

\* t->Finalize() of a thread closes its outers, marked or not.
FinalizeOuter(p, r) ==
    /\ phase \in {"finalize", "closefinalize"}
    /\ dying = <<>>
    /\ r \in OwnFields(cell[GcT])
    /\ CopyOut(p, r)

\* t->Finalize() drops a field.
FinalizeField(c) ==
    /\ phase \in {"finalize", "closefinalize"}
    /\ Between
    /\ c \in OwnFields(cell[GcT])
    /\ NoneOpen(OwnFields(cell[GcT]))
    /\ cell[c] # Null
    /\ Assign(c, Null)
    /\ UNCHANGED <<marked, phase, closes>>

FinalizeEnd ==
    /\ phase \in {"finalize", "closefinalize"}
    /\ Between
    /\ \A c \in OwnFields(cell[GcT]) : cell[c] = Null
    /\ NoneOpen(OwnFields(cell[GcT]))
    /\ phase' = IF phase = "finalize" THEN "next" ELSE "closenext"
    /\ UNCHANGED <<heap, marked, chain, closes>>

Mut_TakeNextSelf ==
    /\ phase \in {"next", "closenext"}
    /\ cell' = [cell EXCEPT ![GcN] = cell[GcT]]
    /\ uiRef' = [r \in Refs |-> uiRef[r] + One(r, cell[GcT])]
    /\ phase' = IF phase = "next" THEN "drop" ELSE "closedrop"
    /\ UNCHANGED <<life, dying, weakref, obj, marked, chain, closes>>

\* nx = t->_next; if(nx) nx->_uiRef++.
TakeNext ==
    /\ phase \in {"next", "closenext"}
    /\ LET nx == next[cell[GcT]]
       IN /\ cell' = [cell EXCEPT ![GcN] = nx]
          /\ uiRef' = [r \in Refs |-> uiRef[r] + One(r, nx)]
    /\ phase' = IF phase = "next" THEN "drop" ELSE "closedrop"
    /\ UNCHANGED <<life, dying, weakref, obj, marked, chain, closes>>

\* if(--t->_uiRef == 0) t->Release().
DropT ==
    /\ phase \in {"drop", "closedrop"}
    /\ Assign(GcT, Null)
    /\ phase' = IF phase = "drop" THEN "advance" ELSE "closeadvance"
    /\ UNCHANGED <<marked, closes>>

\* t = nx, and after the last one UnMark and _gc_chain = tchain.
Advance ==
    /\ phase = "advance"
    /\ Between
    /\ cell' = [cell EXCEPT ![GcT] = cell[GcN], ![GcN] = Null]
    /\ IF cell[GcN] = Null
         THEN /\ phase' = "run"
              /\ marked' = {}
              /\ gc_chain' = tchain
              /\ tchain' = Null
              /\ lost' = {}
         ELSE /\ phase' = "finalize"
              /\ UNCHANGED <<marked, gc_chain, tchain, lost>>
    /\ UNCHANGED <<uiRef, life, dying, weakref, obj, next, prev, closing>>

-----------------------------------------------------------------------------
(* ~GSSharedState: drop the roots, then the same loop over every object    *)
(* that is left.                                                           *)

Close ==
    /\ Idle
    /\ \A l \in Locals : cell[l] = Null
    /\ phase' = "close"
    /\ UNCHANGED <<heap, marked, chain, closes>>

\* Finalize of the root VM closes the outers of its stack.
CloseRootOuter(p, r) ==
    /\ phase = "close"
    /\ dying = <<>>
    /\ CopyOut(p, r)

CloseRoot(c) ==
    /\ phase = "close"
    /\ Between
    /\ NoneOpen({c})
    /\ cell[c] # Null
    /\ Assign(c, Null)
    /\ UNCHANGED <<marked, phase, closes>>

CloseSweep ==
    /\ phase = "close"
    /\ Between
    /\ \A c \in Slots : cell[c] = Null
    /\ NoneOpen(Slots)
    /\ BeginSweep("closefinalize", "closed")
    /\ UNCHANGED <<marked, chain, closes>>

Mut_CloseAdvance ==
    /\ phase = "closeadvance"
    /\ Between
    /\ cell' = [cell EXCEPT ![GcN] = Null]
    /\ phase' = "closed"
    /\ UNCHANGED <<uiRef, life, dying, weakref, obj, marked, chain, closes>>

CloseAdvance ==
    /\ phase = "closeadvance"
    /\ Between
    /\ cell' = [cell EXCEPT ![GcT] = cell[GcN], ![GcN] = Null]
    /\ phase' = IF cell[GcN] = Null THEN "closed" ELSE "closefinalize"
    /\ UNCHANGED <<uiRef, life, dying, weakref, obj, marked, chain, closes>>

-----------------------------------------------------------------------------
Init ==
    /\ cell = [c \in Cells |-> Null]
    /\ uiRef = [r \in Refs |-> 0]
    /\ marked = {}
    /\ life = [r \in Refs |-> "free"]
    /\ dying = <<>>
    /\ weakref = [o \in Objects |-> Null]
    /\ obj = [w \in Weaks |-> Null]
    /\ gc_chain = Null
    /\ tchain = Null
    /\ next = [o \in Objects |-> Null]
    /\ prev = [o \in Objects |-> Null]
    /\ phase = "run"
    /\ closing = Null
    /\ lost = {}

Mutate ==
    \/ \E o \in Plain \cup Threads, c \in Slots : New(o, c)
    \/ \E o \in Plain, l \in Locals : New(o, l)
    \/ \E c \in Within \cup Filled, v \in Values :
          c \notin Objects \X {Delegate} /\ Store(c, v)
    \/ \E o \in Held \cap Plain, m \in (Held \cap Plain) \cup {Null} :
          Delegate \in Fields /\ SetDelegate(o, m)
    \/ \E o \in Held \cap (Plain \cup Threads), w \in Weaks, c \in Slots :
          GetWeakRef(o, w, c)
    \/ \E w \in Held \cap Weaks, c \in Slots : Deref(w, c)
    \/ \E l \in Locals, c \in Slots : Return(l, c)
    \/ \E p \in Outers, r \in Within \cap Registers : FindOuter(p, r)
    \/ \E p \in Outers, r \in Within \cap Registers : LeaveBlock(p, r)

Destroy ==
    \/ DestroyEnd
    \/ \E c \in Cells : DestroyField(c)
    \/ \E p \in Outers, r \in Registers : DestroyOuter(p, r)
    \/ \E r \in Registers : LetGo(r)

Collect ==
    \/ \E o \in Objects : Mark(o)
    \/ EndMark
    \/ \E p \in Outers, r \in Registers : FinalizeOuter(p, r)
    \/ \E c \in Cells : FinalizeField(c)
    \/ FinalizeEnd
    \/ TakeNext
    \/ DropT
    \/ Advance

Shutdown ==
    \/ \E p \in Outers, r \in Slots : CloseRootOuter(p, r)
    \/ \E c \in Slots : CloseRoot(c)
    \/ CloseSweep
    \/ CloseAdvance

Next == Mutate \/ Destroy \/ CollectGarbage \/ Collect \/ Close \/ Shutdown

Spec == Init /\ [][Next]_vars

\* The collector, the destructors and the closing of the state are loops of
\* one thread: once begun they go on.
FairSpec == Spec /\ WF_vars(Destroy \/ Collect \/ Shutdown)

-----------------------------------------------------------------------------
(* Properties.                                                             *)

TypeOK ==
    /\ cell \in [Cells -> Refs \cup {Null}]
    /\ cell[GcT] \notin Weaks /\ cell[GcN] \notin Weaks
    /\ uiRef \in [Refs -> Nat]
    /\ marked \in SUBSET Objects
    /\ life \in [Refs -> {"free", "live", "dying"}]
    /\ dying \in Seq(Objects)
    /\ weakref \in [Objects -> Weaks \cup {Null}]
    /\ obj \in [Weaks -> Objects \cup {Null}]
    /\ gc_chain \in Objects \cup {Null} /\ tchain \in Objects \cup {Null}
    /\ next \in [Objects -> Objects \cup {Null}]
    /\ prev \in [Objects -> Objects \cup {Null}]
    /\ phase \in Phases
    /\ closing \in Registers \cup {Null}
    /\ lost \in SUBSET Outers
    /\ \A r \in Registers : cell[<<Open, r>>] \in Outers \cup {Null}

\* The number of cells that refer to r when f says what cells hold.
Count(f, r) == Cardinality({c \in Cells : f[c] = r})

\* _uiRef of an object is the number of cells that refer to it, through
\* every assignment, destructor, and step of the sweep loop.
RefCountExact == \A r \in Refs : uiRef[r] = Count(cell, r)

\* No cell of a script, the host or the collector refers to freed memory or
\* to an object that is being deleted.
NoDanglingRef ==
    \A c \in Cells : cell[c] # Null => life[cell[c]] = "live"

\* A weak reference knows its object until the object is freed, and the
\* object its weak reference until that is freed; neither outlives the other
\* in the other's pointer.
WeakRefsMutual ==
    /\ \A o \in Objects : weakref[o] # Null =>
          /\ life[o] # "free"
          /\ life[weakref[o]] = "live"
          /\ obj[weakref[o]] = o
    /\ \A w \in Weaks : obj[w] # Null => weakref[obj[w]] = w

\* The links of the two lists join objects that are not freed, both ways,
\* and the heads have nothing before them: following or unlinking never
\* touches freed memory.
ChainLinked ==
    /\ \A o \in Objects : next[o] # Null => life[o] = "live" /\ prev[next[o]] = o
    /\ \A o \in Objects : prev[o] # Null => life[o] = "live" /\ next[prev[o]] = o
    /\ gc_chain # Null => life[gc_chain] = "live" /\ prev[gc_chain] = Null
    /\ tchain # Null => life[tchain] = "live" /\ prev[tchain] = Null

\* The fields of the objects S, but for the values of the outers that Finalize or
\* a destructor of a thread has closed during the sweep.
FieldsOf(S) == (S \X Fields) \ (lost \X {Value})

\* S has the objects that the cells C refer to, and those that its own refer to.
Closed(S, C) ==
    \A o \in Objects : (\E c \in C \cup FieldsOf(S) : cell[c] = o) => o \in S

\* The objects to be found from a set of cells by strong references: those of
\* the least such set.
ReachableFrom(C) == {o \in Objects : \A S \in SUBSET Objects : Closed(S, C) => o \in S}

\* The sweep empties and drops garbage only: never an object that the script can
\* reach, whatever destructors the sweep sets off.  What a garbage thread left
\* in a live outer is garbage itself, and is emptied although the outer, once
\* closed, refers to it: that one way of reaching it is not counted here.
SweepSparesReachable ==
    phase \in Sweeping =>
        /\ ReachableFrom(Slots) = marked
        /\ cell[GcT] \notin marked
        /\ \A o \in marked : life[o] = "live"

\* The same without following references: while the sweep runs, what a root
\* or a marked object refers to is marked, marked objects are live, and the
\* loop's t and nx are not among them; only the value of an outer that the
\* sweep has closed may be anything.
SweepSparesMarked ==
    phase \in Sweeping =>
        /\ \A c \in Slots \cup FieldsOf(marked) :
              cell[c] \in Objects => cell[c] \in marked
        /\ \A o \in marked : life[o] = "live"
        /\ cell[GcT] \notin marked /\ cell[GcN] \notin marked

\* A collection frees all the garbage there is, cycles included: when it
\* ends every object left is reachable.
CollectFreesGarbage ==
    [][(phase \in {"mark", "advance"} /\ phase' = "run") =>
          ({o \in Objects : life'[o] # "free"} = ReachableFrom(Slots))]_vars

\* When the state is closed, nothing is left of it.
TeardownFreesAll == phase = "closed" => \A r \in Refs : life[r] = "free"

\* SetDelegate admits no cycle, so a lookup that follows delegates ends: no
\* objects all have their delegates among themselves.
DelegatesAcyclic ==
    Delegate \in Fields =>
        \A S \in (SUBSET Objects) \ {{}} : \E o \in S : cell[<<o, Delegate>>] \notin S

\* Every collection, and the closing of the state, comes to its end.
CollectionEnds == (phase # "run") ~> (phase \in {"run", "closed"})
=============================================================================
