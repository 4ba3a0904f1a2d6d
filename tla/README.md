# GameScript: a TLA+ verification project

GameScript is a small scripting language (a descendant of Squirrel): a compiler
to bytecode and a virtual machine in C++, with reference counting plus a cycle
collector, generators, cooperative threads, and a C API for embedding. The
program has one OS thread; what makes it hard is *re-entrancy*: destructors that
run inside assignments, a collector that runs inside a script's callback, and
native functions that call scripts that call native functions. The rest of its
difficulty is in conventions kept by hand over long sequences: registers of the
compiler, numbers of class members, links of regular expression nodes, pointers of
closures into a stack that moves.

## Inventory

| Part | State | Operations | Depends on |
|---|---|---|---|
| `GSTable` (`GStable.h/.cpp`) | array of nodes, chains, free pointer, count | `NewSlot`, `Set`, `Get`, `Remove`, `Rehash`, `Clear`, `Clone`, `Next` | objects as keys and values |
| Reference counts, weak references (`GSobject.h/.cpp`) | `_uiRef`, `_weakref`/`_obj`, `_delegate` | every assignment of a `GSObjectPtr`, `GetWeakRef`, `SetDelegate`, destructors | all object types |
| Collector, shared state (`GSstate.cpp`) | `_gc_chain`, mark bits, roots | `CollectGarbage`, `ResurrectUnreachable`, `~GSSharedState` | `Mark` and `Finalize` of every type |
| Calls (`GSvm.cpp`, `GSobject.cpp`, `GSapi.cpp`) | `_callsstack`, `ci`, `_etraps`, `_nnativecalls`, `_nmetamethodscall`, `_suspended...` of each VM; `_state`, `_ci`, `_etraps` of each generator; the local `traps` of each `Execute` | `Execute`, `StartCall`, `Return`, `Call`, `CallNative`, `TailCall`, `EnterFrame`, `LeaveFrame`, `Yield`, `Resume`, `Suspend`, `GS_call`, `GS_resume`, `GS_wakeupvm` | native functions, host |
| Free variables (`GSOuter`) | list of open outers, pointers into the stack | `FindOuter`, `CloseOuters`, `RelocateOuters` | stack of the VM |
| Instructions (`GSvm.cpp`) | stack, root table | `Get`, `Set`, `NewSlot`, `DeleteSlot`, `Clone`, arithmetic, `ObjCmp`, foreach, classes | metamethods: calls |
| Arrays, typed variables (`GSarray.h`, `GSutils.h`, `GSbaselib.cpp`) | values, allocation, `_element_type`, `_max_capacity`; loops in progress | `Append`, `Insert`, `Remove`, `Resize`, ..., `map`, `apply`, `filter`, `reduce`, `sort`, `_OP_TYPECHECK` | callbacks: calls |
| Modules | cache of imported files, sandboxes | `_OP_IMPORT`, `_OP_NAMESPACE` | compiler, calls |
| Host references (`RefTable`) | buckets, free list | `AddRef`, `Release`, `Resize` | collector (roots) |
| String table | buckets of interned strings | `Add`, `Concat`, `Remove`, `Resize` | reference counts |
| Classes and instances (`GSclass.h/.cpp`) | table of member numbers, default values, methods, metamethods, `_locked`; values of an instance | `NewSlot`, `CreateInstance`, `Get`, `Set`, attributes, handles, derivation | tables |
| Compiler, function state, lexer | registers, target stack, scopes, unresolved jumps, last instruction | one pass over the source | string table |
| Regular expressions (`gstdrex.cpp`) | nodes, captures | compile, `match`, `search` | string library |
| Serialization | function prototypes | `Save`, `Load` | streams |
| Other libraries (`gstdlib`) | blobs, streams | | API |
| `GS/GS.c`, `etc/minimal.c` | | command line | API |

Interactions that matter: a native function (base library or host) calls back
into scripts through `GS_call`; a script may collect garbage, wake or call
another VM, or throw, at any such point; an object freed anywhere runs
destructors that free others; the collector walks the list from which those
destructors unlink.

Hard behaviours, with the lines where they bite, are listed under `hazards` in
`PROJECT.json`. Each names the properties that cover it, or says why none does.

What makes each part correct:

* *Tables* are finite maps; a loop over one visits what stays in it.
* *Memory*: counts are exact, nothing refers to freed memory, weak references
  are cleared, a collection frees the garbage and nothing else, and it ends;
  closing the state frees everything.
* *Calls*: a call that returns leaves the call stack as it was; an exception goes
  to the innermost `catch`; the error handler hears of exactly the uncaught
  ones; counters balance on every path; a generator runs in one place; a
  suspended thread is nowhere on the C++ stack.
* *Objects*: what is written is what is read, wherever along the delegates it was
  found; classes and instances behave as maps, though they are arrays indexed
  through a shared numbering.
* *Arrays*: no loop leaves the array, whatever its callbacks do to it; an
  undisturbed loop computes what it should; every loop ends.
* *Compiler*: registers are taken back in the order they were handed out, every
  statement leaves the target stack as it found it, jumps pop the traps of the try
  blocks they leave, the optimizer joins only what may be joined, and a scope that
  is left closes its free variables.
* *Regular expressions*: a reported match is one the pattern denotes; where the
  pattern leaves no choice, none is overlooked.
* *Free variables*: a closed outer keeps its value, an open one follows the stack.
* *Host references*: a bag of counts. *Strings*: equal strings are one object.
  *Modules*: a file runs once, in its own scope. *Bytecode*: what is loaded is what
  was saved.

## Plan

1. **Done.** Tables (`GSTable`, implementing `GSDict`, proved in `GSTableProofs`); memory
   (`GSHeap`, proved in `GSHeapProofs`); calls (`GSCalls`, counters and generators
   proved in `GSCallsProofs`, frames and traps in `GSCallsFramesProofs`).
2. **Done.** Compiler (`GSCompiler`); regular expressions (`GSRegex`); objects
   (`GSObjects`, implementing `GSRecords`, proved in `GSObjectsProofs`); arrays and
   their loops (`GSArray`, proved in `GSArrayProofs`).
3. **Done.** Free variables on a stack that moves (`GSOuters`, proved in
   `GSOutersProofs`); the string table and the host's references (`GSStrings`,
   implementing `GSHostRefs`, proved in `GSStringsProofs`).
4. *If the project grows*: `import` and its cache; release hooks.

## Modules

### GSTable, GSTableProofs, GSDict, MCTable

A table is a record of `_nodes` (index to key, value, next), `_firstfree` and
`_usednodes`. Every function of the class is an operator on such records;
`DoNewSlot`, `DoSet`, `DoRemove`, `DoClear`, `DoClone`, `IterStart` and `IterNext`
apply them to the one table of the model. `Place` is the case analysis in the
middle of `NewSlot`, `Insert` adds the search for a free node and what happens
when there is none: the key is already in its node, without value and not
counted, when `Rehash` copies the nodes, and the second `NewSlot` finds it.
The recursive functions are TLA+ functions over node indices. That lookups end
(`ChainsEnd`) is said without following links: every set of nodes has one that leads
out of it.

`MINPOWER2` is 4 in the code, and at least 4 in the model: `Rehash` takes a smaller
size for 4, and halving a table of two nodes would leave no free one for its keys.

`Set` with the null key is included: it matches an empty node and writes a value
there. `Get` and `NewSlot` refuse null (`NewSlot` by an assertion), and the
refinement shows that the stray value is never seen.

`iter` is a `foreach` loop: `pos` is what the code keeps, the rest is history for
the property. The body of the loop is any sequence of operations.

`GSDict` is what a script relies on: a map with `Put`, `Assign`, `Delete`, `Clear`.
`RefinesDict` maps the table to the function from the keys present to the values
that `_Get` finds.

### GSHeap, GSHeapProofs, MCHeap

All collectable types but threads and outers are one kind of object with a set of counted
fields, one of which may be the delegate. A *cell* is any place with a counted reference:
fields, roots (`Slots`), locals of native functions (`Locals`), the lists of open outers
(`<<Open, r>>`) and the two pointers of the sweep loop, whose counts the code raises by
hand. `Assign` is the assignment of a
`GSObjectPtr`: count the new value, release the old; at zero a weak reference is
freed at once, and an object enters its destructor, which is the stack `dying`.
Only destructors run until that stack is empty (`Idle`), exactly as in C++.

`Mark` moves one object to `tchain`; `ToMark` is what `RunMark` has still to
visit. The order of marking is left open: it does not depend on the C++ recursion.
The sweep is one action per statement of its loop (`FinalizeField`, `FinalizeEnd`,
`TakeNext`, `DropT`, `Advance`) because destructors run between the statements and
change the list. `Close`, `CloseRoot`, `CloseSweep`, `CloseAdvance` are the
destructor of the shared state, with the same loop.

A *register* is a slot of the root VM or a field of a thread (`Threads`). `FindOuter`
makes the outer (`Outers`) of a register, whose variable scripts then reach through any
slot or field that holds the outer. `CloseOuters` is two steps for each outer: `CopyOut`
gives it the value of the register, `LetGo` takes it off the list, which may delete it;
between the two (`closing`) nothing else runs. It is called when a block or frame is left
(`LeaveBlock`), when a thread is finalized by the sweep (`FinalizeOuter`) or deleted
(`DestroyOuter`), and when the state is closed (`CloseRootOuter`), there always before
any field is dropped (`NoneOpen`). `RunMark` follows neither the list of a VM
nor an open outer to its register, as `GSVM::Mark` and `GSOuter::Mark` do not. A thread
that is garbage may therefore share a value with a live closure: the sweep empties that
value, and `Finalize` of the thread writes it into the live outer. The outers closed in
a sweep are `lost`, a history variable; `SweepSparesReachable` and `SweepSparesMarked` except
the value of these, and nothing else.

What follows references any number of times is stated without recursion, by *closed*
sets (`Closed(S, C)`: `C` has `S` and whatever its members refer to): reachable is what
every closed set has, and a chain of delegates ends unless a set of objects exists each
of which delegates into the set.

`RemoveFromChain` is always given `&_gc_chain`, also for an object of the other
list; the model keeps that.

Abstractions: `Slots` stands for all the roots, of which only the registers of the root VM
ever get an outer in the code. A slot or field with an outer stands for a closure that
has it. The order of the open outers, and moved stacks, are those of `GSOuters`.
`Finalize` drops all the fields of an object. Some types keep a few
(the `_ci` of a generator, the `_base` of a closure, the nested functions of a
prototype), none of which closes a cycle by itself. Release hooks do nothing.

### GSCalls, GSCallsProofs, GSCallsFramesProofs, MCCalls

`vm[v]` has the fields of a VM that calls change; `gen[g]` those of a generator;
`cstack` is the C++ stack: the `Execute`s and native functions of all VMs that
have not returned, each with the depth of the call stack at its start and, for
`Execute`, its local `traps` and its `raiseerror`. Only the top of `cstack` runs.
What a script or a native function does next is free.

* `Call` is `GSVM::Call` with all its outcomes: a script function
  (`CallScript`), wrong arguments (`CallBadly`), a generator function
  (`CallGenerator`, `CallGeneratorMoved`), a native function (`CallNative`), a
  refusal (`CallRefused`), and `EnterFrame` that fails (`CallOverflows`).
* `Op...` are the instructions of `Execute` that call, yield, resume, throw, or set
  traps. `OpReturn` requires that the frame has no traps: the compiler emits
  `_OP_POPTRAP` first.
* `ErrorHandler`, `Unwind` and `StartFails` are `exception_trap`.
* `ApiCall`, `ApiResume`, `ApiWakeup` are what a host or a native function does,
  on the VM it runs on or on another; `TailCall`, `ClosureCall` and `Suspend` are
  the two base library functions with a control flow of their own.

A trap is known by the depth of its frame and its level in it instead of stack
base and instruction. Values on the stack are left out. `thread.call` on a
suspended thread is assumed to find no function on the top of its stack.

`Features` switches five uses of the machine on or off, because after each the
machine can be in a state its code does not foresee (a frame without code that
`Execute` would run, a trap count below zero). With all of them off the properties
of `calls` hold; with one on, some fail: see the runs and the observations at the end.
The fifth, `moves`, is no choice of a program but of the allocator: with it off,
`realloc` extends the call stack where it is, so that a pointer into it stays good.

### GSCompiler, MCCompiler

The compiler reads a program once and emits instructions as it goes. `work` is the
C++ stack of the parser: one frame per production that has not returned, with the
locals it needs afterwards. What comes next in the source is a free choice among
the words of a `Language`, so a run covers every program of that part of the
language up to its bounds. `fs` is the chain of `GSFuncState`s: `_vlocals` (named
local or temporary, captured or not), `_targetstack`, `_traps`, the stacks of break
and continue targets, and the last instruction, which is all the optimizer looks at.
`label` remembers that a jump leads behind it. There is one action per statement or
expression part between two recursive calls: `ForStatement`, `ForInit`, `ForCond`,
`ForIncrement`, `ForBody`, `ForEnd` are `ForStatement()` of the code. `Emit` is
`AddInstruction` with every case of its `switch`; it sets `bad`, a history
variable, when it joins two instructions that do not belong together.

Abstractions: constants and names have no values, every local has a name of its own,
line information is off. Instructions that are already emitted are not kept, except
those of the third part of a `for`, which the compiler cuts out and emits again.

`Features` are constructs for which a property does fail; the runs leave them out, each
with a guard at the one place where it matters:

* `jz`: `_OP_JZ` is joined with a preceding comparison without a look at the register
  (`GSfuncstate.cpp`, case `_OP_JZ`), so that in `f(a > b, x ? 1 : 2)` the
  conditional jump tests `a > b`;
* `decl`: `local y = 5, z = (x = y)` redirects the load of `y` into `x`;
* `default`: a `default:` (or a switch that has nothing else) starts with no label
  behind the last case, and the optimizer joins across it;
* `inc`: the third part of a `for` is emitted again through the optimizer:
  `i += 1, j = i` loses the increment, and a jump in it (`x = c ? a : b`) is off by
  what was joined;
* `bind`: `local function f[env]()` leaves the target of `env` on the stack;
* `attr`: a class member with attributes whose key is a local, `</ /> [k] = v`, breaks
  the assertion of `GScompiler.cpp:1106`.

The parser's reading of `<` as the start of a type list is in the model
(`SuffixTypes`, `LessThan`): a comparison by `<` ends in `error`, though
`samples/fibonacci.gs:9` has one, and in `obj.m<T>(...)` the member is fetched too
early.

### GSRegex, MCRegex

The compiler of patterns is modelled as written: recursive descent over the pattern,
nodes in an array linked by index, the kinds of nodes told from characters by their
code. A compilation and a search are one action each (`Construct`, `Match`, `Search`),
since nothing runs between; their inside is recursive operators, which TLC
evaluates. `rex.nallocated` follows the doubling of the array, also when an error
ends the compilation half-way; `NodesFit` holds of every pattern but the empty one,
which is compiled too and whose first node lies past an array of none. The captures are written in place by every walk, as in
the code.

`Ends` is the reference: the set of positions where a syntax tree may end from a
given start. `Render` writes a tree as the pattern a user would type. `MatchSound`
holds for every tree; `SearchComplete` only for patterns without choices
(`NoChoice`), for the matcher does not backtrack: that is its design.

### GSObjects, GSRecords, GSObjectsProofs, MCObjects

A class is `_members` (name to kind and number), `_defaultvalues`, `_methods`, the
number of its constructor, its metamethods and `_locked`; an instance is its class
and its values. `ClassNewSlot` is `GSClass::NewSlot` in all its branches;
`FreshClass` is the constructor that copies the base; `NewClass`, `NewMember`, `Instance` etc. are the
instructions. `Get` and `Set` are the VM's, with the order of the fallbacks:
the object, delegates, metamethods, default delegates, root table. A metamethod
answers anything it can answer; what it does are steps of their own.

A *world* says which objects, names and values occur together: eleven small worlds
instead of one large one.

`GSRecords` is what a script sees: a class is a map of slots, a derived class a copy
of its base's, an instance a map of its fields. `ImplementsRecords` maps the arrays
to it through the numbering.

### GSArray, GSArrayProofs, MCArray

One array with its vector (`vals`, `alloc`), capacity and element type, and the stack
`frames` of loops over it that wait for a callback. Every function of `GSArray` and
of the array library is an action; a loop is the steps between two callbacks, and
while it waits anything may happen to the array, other loops included. `sort` is the
heap sort of the code, cut at each comparison that calls a script. `touched` is the
elements a step used without a test of its own. `Compares` says who compares:
`objcmp` (numbers and strings), `func` (a function that answers anything), `honest`
(one that compares), `meta` (a `_cmp` metamethod). `CollectGarbage` is a collection in a
callback: the results of all `map` and `filter` in progress are held by C++ locals only
(`GSbaselib.cpp:727, 783`), are not marked, and `GSArray::Finalize` resizes them to 0;
`emptied` remembers how many answers there were then.

### GSOuters, GSOutersProofs, MCOuters

What closures reach through their free variables. A register holds the identity of a
local variable rather than its value, so that "the closure and the function see the
same variable" is "the outer leads to it". `opens` is `_openouters`; an open outer has
the address of a register, a closed one its own copy. `FindOuter`, `CloseOuters` and
`RelocateOuters` are the functions of that name; `EnterFrame` grows the stack, which
moves it; `LeaveFrame`, `Return`, tail calls, exceptions (`ThrowOut`, `Catch`), blocks
and the jumps out of them, and `MakeGenerator`, `Yield` and `Resume`, which copy
registers to another place and back, are the operations that can leave an outer
behind. Functions have one parameter and blocks begin with a local; a register
without either is empty.

`loose` is history: the captured variables whose register the code gives away without
closing the outer (see the observations). `ClosuresReachVariables` excepts exactly
these, and covers the registers all others are in.

### GSStrings, GSStringsProofs, GSHostRefs, MCStrings

`table` is `GSStringTable`: `Add`, `Concat` (which looks a text up by the hash of a
concatenation it has not made), `Remove` by the destructor of a string, `Resize`.
`refs` is `RefTable`: nodes, chains by index, free list and count, with `AddRef`,
`Release`, `GetRefCount` and `Resize`. The loops of the hash functions and of both
`Resize` are recursive functions over their index: `Hashed` runs from the last character
down in steps that skip most of a long text, and `Joined` is what the loop of `_hashstr2`
reads of two texts; the mixing of one character is some function of both arguments. `held` is
the references of scripts; a string is freed when neither they nor a node have it.

`GSHostRefs` is what a host relies on: a count for each object, raised and lowered,
and an object with a count that stays alive. `ImplementsHostRefs` is the refinement.

## Runs

| Run | Shows |
|---|---|
| `table` | 5 keys, 2 values, all operations and a loop: `NodesSound` (types, lookups end, `_usednodes` and `_firstfree` are exact), `KeysFindable`, `ForeachVisitsAll`, `RefinesDict` |
| `heap` | 1 object, 1 thread, 1 outer, 1 weak reference, 3 roots, 1 native local: counts, dangling references, weak references, lists, `SweepSparesReachable`, `SweepSparesMarked` |
| `heap_collect` | 3 objects with 2 fields, all cycles: `CollectFreesGarbage`, `TeardownFreesAll`, `DelegatesAcyclic`, and, under weak fairness, `CollectionEnds` |
| `calls` | 1 VM, 2 generators, no feature: `FramesSound` (types, every trap belongs to a frame, the local `traps` counts them, a running generator has its frame), `SuspendedQuiet`, `CallRestoresStack`, `HandlerHearsUncaught` |
| `calls_all` | 2 VMs sharing a generator, all features, a call stack that grows: `NativeCallsExact`, `GeneratorFrames` |
| `calls_foreach` | *violation*: `foreach` over a generator with traps, `assert(traps==0)` |
| `compiler` | all programs of 11 parts of the language: `TargetsAreTemps`, `StatementBalanced`, `CallArgsContiguous`, `TrapCountsLexical`, `FoldsSound` |
| `regex` | 8000 patterns in 20 texts: `MatchSound`, `SearchComplete`, `NodesFit` |
| `objects` | 11 worlds of classes, instances and tables: `ValuesFit`, `ReadsBack`, `ImplementsRecords` |
| `arrays` | arrays of up to 5, loops within loops: `InBounds`, `LoopsExact`, and, if callbacks return, `LoopsEnd` |
| `outers` | 4 variables, 3 outers, 2 closures, 1 generator on a stack that grows and moves: `ClosuresReachVariables`, `OpenOutersSorted` |
| `strings` | 3 strings: `Interned` (equal texts are one object), `NodesPartitioned` (a node of the references is in one chain or free, and counted), `ImplementsHostRefs` |

The violation is explained under `findings` in `PROJECT.json`. Further
observations are at the end of this file.

Bounds. Tables: the hashes of `MCTable` make keys collide modulo 4 and modulo 8, so
that every branch of `NewSlot` occurs; five keys fill the first four nodes and make
`Rehash` grow to eight and shrink back. A loop is followed until its body
adds a key or has the nodes reallocated: from then on the code promises nothing.
Heap: in `heap`, an object, a thread and an outer make a garbage thread in a cycle whose
register is shared with a live closure, and destructors nested three deep; three roots
hold the outer, a partner and what is changed. In `heap_collect`, three objects make
every cycle shape with a delegate, one object inside and one outside a cycle; two roots
are needed to hold an object while another is changed. It has no locals and no outers,
with which its properties are false of the code (see the observations). Calls: three frames and three nested native calls make call, callback
and native function inside it; two trap levels show their order; two generators can
resume one another. In `calls_all` two native calls and two frames for each VM are
enough for one VM to wake, call or suspend inside the other; there are no traps,
which `calls` has. `MAX_NATIVE_CALLS` (100) and the first call stack (4) are
scaled down so that the limits are met. `MaxTraps` also bounds how far below zero
`foreach` takes the trap count, which falls without end. `InitialCalls` is 2, so that the call
stack grows in both runs; only in `calls_all` does it move.
Compiler: `work` bounds nested constructs and `regs` the registers of a function; each
language has the words whose nesting is its subject and is taken as deep as its size
allows (try, switch and loops seven deep without expressions, calls and operators six,
the rest four to seven). `MaxFns` is nested functions, `MaxInc` the instructions of
the third part of a `for`.
Regular expressions: trees of up to three items with every operator, and every string
of up to four characters over two alphabets of operators, so that malformed patterns of
every kind occur; `MaxRep` stands for 65535, the count that means "no limit", and is
longer than the runs of equal characters in the texts but one.
Objects: `MaxMembers` is `MEMBER_MAX_COUNT`, scaled down so that it is met; the worlds
that have tables bound the operations on them (`maxops`).
Arrays: `Literals` are the arrays to begin with and how many operations or loops are
started from each; all orders of four and one of five elements make every path
of the heap sort; `MaxNest` 2 is a loop in a callback of a loop; `Small` is the 4 of
`GSvector`, scaled down so that short arrays shrink.
Free variables: two frames of three registers on a stack of four make the second call
move the stack; two blocks are the least that `break` leaves together; three outers
in two closures of one free variable each (and the clones of closures, which share
theirs) have two open and one closed at once. `MaxCaptures`, `MaxFrames` and
`MaxBlocks` are bounds, `MIN_STACK_OVERHEAD` (15) is scaled down.
Strings: three texts, one of them the concatenation of the others, long enough for the
hash to sample (`SampledFrom` 2 instead of 32); both tables begin with one slot instead of
four, so that they grow with the second and third object, in every order.
`MaxCount` bounds references of either kind.

Deadlock. `table`, `calls`, `outers` and `strings` never stop. The heap stops when the state is closed.
`calls_all` stops where `Execute` would run a frame without code, which is undefined
behaviour: the model ends there. The compiler stops at the end of the program, at an
error, or at its bounds; regular expressions, objects and arrays when the searches,
objects or operations of their bounds are used up.

Fairness. `heap_collect` (`FairSpec`) assumes weak fairness of the steps of
destructors, collector and closing: they are loops of the one thread; once begun,
nothing else runs until they are done. `arrays` assumes weak fairness of the loops,
for the same reason, and of the return of callbacks, without which no loop over
them can end; nothing is assumed of what callbacks do or answer.

Symmetry is used for the values of the table, for the roots in `heap`, and
for VMs, generators, variables, outers, closures and strings, which the specifications
compare for equality only. It is
not used in `heap_collect`, which checks liveness.

## Proofs

`GSHeapProofs` proves for any sets of objects, threads and outers among them, weak
references, fields, roots and locals (finitely many cells; the sets disjoint):

* `TypeCorrect`, `CountsAreExact`, `NothingDangles`, `WeakRefsAreMutual`,
  `ChainsStayLinked` and `SweepSpares` (`SweepSparesMarked`): invariants of the run `heap`.

None is inductive alone. That nothing dangles needs exact counts (an object is
freed only at count zero, so no cell holds it); exact counts need that a cell is
given only live references, or an object about to be deleted would be revived;
the lists need to know that only live objects are linked and that an object in its
destructor is already unlinked; the sweep loop takes `next[t]` after finalizing
`t`, so `t` must be kept alive by the count raised by hand, which is the cell
`GcT`. `IInv` is the conjunction, together with what each phase of the collector
knows of its cells. The proof has one lemma for the counts (`Count` after one cell
changed, from the cardinality theorems), one for unlinking, one for `Assign` (used
by every action that assigns), and one step per action.

`SweepSpares` adds to `IInv` that marked objects are live and that what marked
objects and roots refer to is marked: marking ends with that (`ToMark = {}`), and
the sweep changes only fields of unmarked objects and the values of outers that it
closes, which are `lost` from then on.

A second part goes on from there, for the same constants:

* `SweepIsExact` (`SweepSparesReachable`): what is marked when the sweep begins is exactly
  what the roots reach (not counting what an outer closed in this sweep leads to), and
  stays so. `CInv` adds to `SInv` that marked objects are
  reachable; `SInv` has that the marked ones are closed once nothing is left to mark. That an
  outer's own value leads nowhere before `CopyOut` fills it (`OpenEmpty`) needs that it is
  open at one register (`OpensOnce`), and this that a freed thread has left no open outers
  (`FreeClosed`), through which a new one could be found at the same register;
* `DelegatesEnd` (`DelegatesAcyclic`): `SetDelegate` tests before it assigns, and every other
  step only takes delegates away;
* `GarbageIsFreed` (`CollectFreesGarbage`) and `NothingIsLeft` (`TeardownFreesAll`), under
  `Locals = {}` and `Outers = {}`. Their invariant `LInv` adds that every live object is in the list it
  should be in (`Listed`), and that behind the sweep loop objects are empty
  (`SweptBehind`), though destructors unlink objects anywhere in the list meanwhile. The
  hypotheses are needed: with `array_map`'s result in a C++ local, or with open outers, the
  statements are false (see the observations), and the run checks them without either too.

To show an object reachable (or in a list) after a step, a closed set of the state
after is turned into one of the state before.

`GSCallsProofs` proves for any numbers of VMs and generators, any bounds, and *every*
set of features:

* `CallsInvariant`: the inductive invariant `GInv`;
* `CountersExact`: `NativeCallsExact`, each VM's `_nnativecalls` and
  `_nmetamethodscall` are the number of its activations on the C++ stack that count;
* `GeneratorsRunOnce`: `GeneratorFrames`, a generator has at most one frame in all call
  stacks together, and none unless it is running.

`GInv` adds to the two a typing (`Shape`) and what may lie below what on the C++ stack
(`StackInv`): a metamethod, an error handler or a native function that an instruction
called has the `Execute` of that instruction below it, and `suspend` is on top. That
is what makes the arithmetic of `Suspend` right, which takes both its own call and the
`Execute` off the counter: where the counter is two, there are exactly these two. The
proof has one lemma for each effect on the stack (`EnterFrame`, `LeaveFrame`, an
activation pushed or returned, a frame replaced), one for what an unwinding exception
removes, and one for each action. Where an argument goes down a stack to the first
frame with a property, it takes the least index instead of an induction.

`GSCallsFramesProofs` goes on from there, for programs that use no feature
(`Features = {}`), any numbers of VMs and generators and any bounds:

* `FramesAreSound` (`FramesSound`), `SuspendedVMsQuiet` (`SuspendedQuiet`) and
  `CallsRestoreTheStack` (`CallRestoresStack`, an action property), from
  `FramesInvariant`;
* `UncaughtAreHeard` (`HandlerHearsUncaught`, an action property).

The hypothesis is needed: each feature is an observed way to break one of these (see the
observations and the runs `calls_foreach` and `calls_all`), so that nothing is claimed of a
generator whose root mark is stale, of an `EnterFrame` that fails, or of a call stack that
realloc moves. Within it `CallRestoresStack` says of every step, by whatever VM, that the
frames below each call in progress are what they were (`BelowKept`), and of a return that
just these are left. `FInv` says whose each frame
is. The frames of a VM are divided among its activations on the C++ stack (`Stacked`): the
last of them has those from the depth it began at up to the top, and one below it those up
to where the next of the same VM began, which is where that will return to. What an
`Execute` has is a root frame with script frames upon it, and its local `traps` is the
number of traps set in them; a native function has its one frame (`Owns`, `Script`). The
traps of a VM are blocks, one for each frame, as long as its `_etraps` (`TrapsOk`). A
generator comes back with the traps it left with and never as a root frame, which only
`GS_resume` would make of it (`GenOk`); a suspended VM has nothing on the C++ stack and the
frames that its wakeup will go on with (`Waits`). Without the division none of the properties is inductive: that `_OP_RETURN` leaves
the stack as the call found it is a fact about frames that other activations, of
other VMs among them, kept or put back meanwhile. The proof has lemmas for a step that
changes only the frames of the top activation, begins one, or ends one, and one lemma for
each action.

`GSTableProofs` proves for any keys, values and hashes, and any `MINPOWER2` from 4 up:

* `ChainsAreSound` (`NodesSound`), `KeysAreFindable` (`KeysFindable`) and
  `ForeachIsComplete` (`ForeachVisitsAll`), from `TableInvariant`;
* `TableIsDict` (`RefinesDict`): the table implements `GSDict`.

Again nothing of this is inductive alone. A key is found because its node is on the
chain of its main position (`Reached`: it is in every set of nodes that has the main
position and is closed under links). For that to survive what `NewSlot` relinks, no two
links may lead to one node (`OneLink`: the predecessor it looks for is the only one), a
key must not be chained to a main position that holds a guest (`Homed`: the guest would
take the chain with it when it is moved), and the node written to must be in no chain;
it is in none because all links lead to above `_firstfree` (`LinksAbove`). `Sound` is the conjunction. `Rehash` and
`Clone` insert into fresh nodes in a loop; `Copied` is what one round keeps, and
`Fresh` says why the loop is never short of a node: in an array nothing was removed from,
all nodes above `_firstfree` hold keys. `Rehash` is also entered with one key more in
the nodes than `_usednodes` says (`Full`), as `NewSlot` does when it is out of nodes. For
the refinement every operation is described by what it does to the set of pairs of key
and value; the recursive functions by what they satisfy.

`GSObjectsProofs` proves for any finite sets of classes and tables, any instances, names
and values, any `MEMBER_MAX_COUNT` and any worlds:

* `ValuesAlwaysFit` (`ValuesFit`), from `ObjectsInvariant`;
* `ClassesAreMaps` (`ImplementsRecords`): classes and instances implement `GSRecords`;
* `WrittenIsRead` (`ReadsBack`).

`OInv` says that the numbering of every class is right: each number lies in its array, and no
two members of one kind have the same, or a write to one slot would change another; and that
an instance is of a locked class and as long as the class's defaults, which a locked class
cannot make longer. For the refinement `OneSlot` says of an operation on a class that at most the
slot of one name changes; each branch of `NewSlot`, the attributes and the handles are
shown to be such. Instances are not touched by that, since they depend on the
numbers only. That both modules lock the same classes is an argument about the function by which
`Lock` goes up the bases. `ReadsBack` needs no invariant but that delegates exist:
`Set` and `Get` go along the same chain, the one from its end to find the first table that has
the key (`SetFinds`), the other to find the first table that has it now (`GetFinds`), and the
chain is the same after the step because writing a slot changes no delegate (`ChainIn`).
That delegates do not go round is not needed: a chain is followed a bounded number of times.

The assumptions are that classes, instances and tables are different things, and `None`, the
outcomes of `Set` (`"none"`, `"error"`, `"meta"`) and `null` attributes are what they are
meant to be (`ObjectsAssumption`, `TypesAssumption`).

`GSArrayProofs` proves for arrays of any length, any literals, loops nested to any depth
and callbacks that do anything to the array:

* `LoopsAreExact` (`LoopsExact`), from `LoopsInvariant`;
* `LoopsStayInside` (`InBounds`), if `"meta"` is not in `Compares`.

Only `sort` uses elements without a test of its own. The invariant `AInv` says that its
indices lie below the length it began with, and that this is the array's length
whenever the sort neither waits for a callback nor calls `_cmp` metamethods: after a
callback it looks again, and gives up if the length has changed. After a metamethod it
does not look, hence the hypothesis of `LoopsStayInside`, which `LoopsAreExact` does not
have (see the observations).

`LoopsExact` says what the code does when a callback collects garbage, not what `map` and
`filter` should do: then `map` returns an empty array, because `Set` finds no element to
write to and nobody looks at its answer, and `filter` what it kept after the last
collection. Without a collection the results are the answers, all of them.

`LoopsExact` is about loops that have ended; `Exact` says of one still going on how far it
has come. It is a fact about its frame and the array only: no loop but the innermost moves,
and a change of the array, by that loop or by a callback, is the end of what is said of the
loops around it. A walk has seen a prefix of what was there, and has made of the answers what
it should; for `filter` the k-th element of the result is the k-th one that was kept. A sort
has a heap in the first part of the array, in which at most the element being sifted is less
than a child of it, while its children are not greater than its parent (`Heap`, `Grand`);
everything behind the heap is in its place (`Placed`); and the array is a permutation of
what it was (`SameElements`). The children of `p` are `2 * p` and `2 * p + 1`, as in the
code, so 0 is a child of itself; it does no harm, since an element is never less than itself
and is not swapped with itself.
The order of `ObjCmp` is transitive (`LeqTrans`) although it fails for some pairs: a sort that
meets one fails, and so nothing is said of it. That swapping two elements loses none
is shown by a bijection between the places of each value (`SwapOccurs`).

`GSOutersProofs` proves for any numbers of VMs, generators, variables, outers and closures,
and any bounds:

* `OutersStaySorted` (`OpenOutersSorted`), from `OutersInvariant`.

`FindOuter` and `CloseOuters` stop at the first outer below their level, which is right
only in a sorted list. `OInv` adds that every outer in a list is open, of that VM, and
of a register below the end of its last frame; that a frame begins within the one below
it or right after it, so that what a return leaves open is still below the end; and that
no block or suspended generator has more locals than a frame has registers.

A second part goes on from there:

* `ClosuresReach` (`ClosuresReachVariables`), from `ReachInvariant`.

`VInv` says where each variable is. Calls lie one after the other on the stack, each with
its locals below the base of the next, so that no register is a local of two calls; a
variable is in one local, or kept by one suspended generator, or out of scope. An outer
then has the variable its closures mean either as its own value, when no local has it any
more, or it is in the list of open outers and points at the local that has it; the
variables of `loose` are excepted throughout. Every operation that changes the stack cuts
it at some register: what lies below stays, or moves as a whole when the stack is
reallocated, and of what lies from there on outers have taken the value before the local
goes. `Moves` states that of a step, one lemma shows that it keeps `VInv`, and one lemma
for each action shows that it is such a step; those that only make or free closures,
or drop a generator, are apart. That the outers closed are those at or above the
cut, and no others, is where the order of the list is needed. The assumptions
on `None` say that it is neither a pointer into a stack nor an outer.

`GSStringsProofs` proves for any objects, any texts, any bounds, any number of first slots
and any length from which texts are sampled:

* `StringsAreInterned` (`Interned`) and `NodesArePartitioned` (`NodesPartitioned`), from
  `StringsInvariant`;
* `ReferencesAreCounted` (`ImplementsHostRefs`): the two tables together implement
  `GSHostRefs`.

Both tables are arrays of chains over hashes. `Chained` says that such an array holds a
set, each element once and in the chain of its hash; what pushing, removing and moving do
to it is proved once and used for strings and for nodes. The string table is `Chained` over
what is alive, with the hash that each string was made with. That a text is found again
needs two things more: no two strings alive have the same text, and the hash that is kept
is `_hashstr` of it, whichever way the string was made; the latter is a lemma about the
hash of a concatenation (`HashOfConcatenation`), in which both functions sample the same
characters. The nodes are `Chained` over the hashes of their objects, the others are the
free list, each once, and no object has two nodes. `Resize` of either table is a loop
that is short of nothing: after `i` rounds the new array holds what the first `i` chains,
or nodes, of the old one held, and the new table has twice as many slots.

The refinement says of each operation how it changes the set of pairs of object and
count (`Counts`); moving does not change it. An object with a node is alive, since
`Drop` and `Release` free a string only when neither scripts nor a node hold it, so the
hash that the chains are ordered by does not go away below them.

The assumptions are that texts are sequences of numbers, the two sizes are not zero, and
`None` is none of the other values. Slots need not be a power of two: `%` stands for the
mask of the code, and the proof does not look into it.

Only model-checked:

* `CollectionEnds`, `LoopsEnd`: liveness;
* everything in `GSCompiler` and `GSRegex`, whose operators are recursive;
* `FramesSound`, `SuspendedQuiet`, `CallRestoresStack` and `HandlerHearsUncaught` with a
  feature on: with some of them they are false.

Recursive functions are not out of reach as such: that one exists, and what each step of
it keeps, is shown by the least number at which it would fail (`Least`, in
`GSArrayProofs`, `GSOutersProofs`, `GSTableProofs`, `GSStringsProofs` and
`GSObjectsProofs`).

## Not modelled

See `components` in `PROJECT.json`. Left out because they are input and output or
wrappers of the C library: streams, blobs and files, serialization, math and system
functions, the interpreter program, debugging support. Left out as conversions of
text: lexer, `format`, string methods. Integer and float arithmetic and its edge cases
are not modelled. `import` and `namespace` run files and are not modelled; `Get`'s
fallback to them neither. Results written to a target after a call are in no module,
since `GSCalls` has no values. `GS_reservestack` is not an action of `GSOuters`: it
moves the stack and leaves open outers behind, after which what they reach is
undefined. `Mark` and `Finalize` of the table of host references belong to the roots
of `GSHeap`, and are not repeated in `GSStrings`.

## Observations

What the models show, or showed while they were written, beyond the runs.

*Tables and memory*

* `NewSlot` returns false for a key it has just created when the insertion had to
  rehash (`GStable.cpp:172`); `GStable.h:97` says otherwise. Nothing uses the result.
* `array_map` and `array_filter` hold their result only in a C++ local while they call
  back. A collection in the callback empties it and leaves it in no list; if it
  becomes part of a cycle, closing the state misses it and
  `assert(_gc_chain==NULL)` (`GSstate.cpp:198`) fails. `GSHeap` has such locals
  (`Locals`), and its invariants hold with them.

*Calls.* With a feature on, `CallRestoresStack` fails:

* `apiresume`: a generator resumed once by `GS_resume` keeps `_root` (`GSvm.cpp:812`) and
  later ends the `Execute` of the script that resumes it; the frame that `CallNative`
  leaves afterwards is then another generator's, which stays `eRunning` without a frame
  (this is why `GeneratorFrames` says "at most one");
* `moves`, a call stack that moves: `ci == prevci` (`GSvm.cpp:801`) compares with an address in
  the old array;
* `apitailcall`: `closure.call` reached through `GSVM::Call` returns the tail call flag,
  which only `_OP_CALL` heeds (`GSvm.cpp:1979`);
* `stackfull`: `EnterFrame` fails after it has pushed its frame, and the caller returns
  without leaving it (`GSvm.cpp:2066`).

`closure.call` decides on its tail call by its last argument (`GSbaselib.cpp:1058`), not
by the closure, so that the function it calls usually cannot be suspended, against
`HISTORY:17`.

*Compiler.* Besides the features above: `AllocStackPos` admits register 255, which is
also the mark of "no register", and `PushLocalVariable` tests no limit; type checks of
variables are not emitted for compound assignments and assignments to free
variables; the size in a type check of an array is an 8-bit argument.

*Free variables*

* `break` and `continue` close the free variables of the innermost block only
  (`GScompiler.cpp:42`), although `HISTORY:19` and `:340` report such faults as fixed. A
  captured variable of an outer block of the loop stays open, and its closure then
  sees the next local in that register;
* an exception caught in the function that throws it leaves the try block without
  `_OP_CLOSE` (`GSvm.cpp:1396`), with the same effect;
* `yield` closes the outers of the generator: from then on the closure and the
  resumed generator have a variable each (`GSvm.cpp:1320`). These three are what
  `loose` excepts;
* `GS_reservestack` (`GSapi.cpp:1153`, also reached by `thread.call`) does not relocate
  open outers; after it a later relocation may also leave the list unsorted;
* `GSOuter::Mark` marks only the closed value (`GSobject.cpp:664`): collecting a
  thread that nothing refers to may empty a value that a live closure still reaches
  through an open outer. `Finalize` of the thread (`GSvm.cpp:138`) then writes that value,
  emptied or not, into the live outer, which in `GSHeap` is `lost`. An
  object so revived is, like the result of `array_map` above, in no list;
* nor does `GSVM::Mark` (`GSobject.cpp:569`) mark the list of open outers. An open outer
  that no closure has any more is swept as garbage, but its VM keeps it: it stays in no
  list until it is closed. When it is freed at last, `RemoveFromChain` finds nothing before
  it and takes it for the head of `_gc_chain`, which it sets to the
  outer's link in the list of objects: null, or an object that was swept along with it.
  `GSHeap` has this too; of its properties only the two about freeing all garbage exclude it.

*Regular expressions*

* no backtracking; the lookahead of a greedy loop writes captures; captures of an
  earlier search stay (`gstdstring.cpp:456`);
* `{65536}` wraps to 0 (`gstdrex.cpp:284`), `*` repeats at most 65536 times;
* an empty pattern allocates no nodes and doubling leaves none (`gstdrex.cpp:79, 559`), so
  `nodes[0]` is written past the array; the model compiles it as well, and `NodesFit`
  excepts exactly it;
* `\b` looks one character behind the terminator; `search` never tries the end of the
  text; `*?` is a literal question mark.

*Objects*

* reading an unknown name falls back to the root table of the closure, writing to that
  of the VM (`GSvm.cpp:1773`, `1599`);
* `GS_rawset` and `GS_newslot` on a class ignore a refused `NewSlot`; a handle of
  another class is not noticed; a class does not see members its base gets later;
* `CLASS_OP` uses its target after `_inherited` may have moved the stack
  (`GSvm.cpp:656`); the root table may be set to null, which `Set` dereferences.

*Arrays*

* a callback of `map` or `filter` that collects garbage empties the result, which only a
  local of the native function holds (`GSbaselib.cpp:727, 783`): `LoopsExact` says what is
  left. The result is in no list of objects afterwards (see the memory section);
* `map`, `apply`, `filter` and `reduce` hand the last element read to the callback again
  when the array has become shorter (`GSbaselib.cpp:706`);
* only `append` tests capacity and element type; `extend` and `GS_arrayappend` ignore its
  refusal; `Clone` drops both; `_OP_TYPECHECK` sets them before it throws;
* `sort()` without a function calls `_cmp` metamethods, which may shorten the array while
  the sort holds indices and references into it (`GSbaselib.cpp:825`, `GSvm.cpp:229`): with
  `Compares = {"meta"}` in `MCArray`, TLC violates `InBounds`.
