---------------------------- MODULE GSHeapProofs ----------------------------
(***************************************************************************)
(* The heap of GSHeap is safe for every number of objects, fields, roots   *)
(* and native locals: reference counts are exact, nothing refers to freed  *)
(* memory, weak references and list links are never stale.                 *)
(*                                                                         *)
(* None of these is inductive alone.  A cell does not dangle because an    *)
(* object is deleted only when its count is 0 and the count is exact; the  *)
(* sweep loop raises a count through next, so the links must lead to live  *)
(* objects; links stay right because the marked and the unmarked objects   *)
(* are in different lists while a collection runs, and because the loop's  *)
(* t and nx are empty when they are overwritten.                           *)
(***************************************************************************)
EXTENDS GSHeap, FiniteSetTheorems, TLAPS

Typed ==
    /\ cell \in [Cells -> Refs \cup {Null}]
    /\ uiRef \in [Refs -> Nat]
    /\ marked \in SUBSET Objects
    /\ life \in [Refs -> {"free", "live", "dying"}]
    /\ dying \in Seq(Objects)
    /\ weakref \in [Objects -> Weaks \cup {Null}]
    /\ obj \in [Weaks -> Objects \cup {Null}]
    /\ gc_chain \in Objects \cup {Null} /\ tchain \in Objects \cup {Null}
    /\ next \in [Objects -> Objects \cup {Null}]
    /\ prev \in [Objects -> Objects \cup {Null}]

\* The objects in their destructors are those on the stack.
DyingStack ==
    /\ \A o \in Objects : life[o] = "dying" => \E i \in 1 .. Len(dying) : dying[i] = o
    /\ \A i \in 1 .. Len(dying) : life[dying[i]] # "live"

\* The marked objects have a list of their own.
ListsApart ==
    /\ tchain # Null => tchain \in marked
    /\ gc_chain # Null => gc_chain \notin marked
    /\ \A o \in Objects : next[o] # Null => (o \in marked <=> next[o] \in marked)

\* What holds of the memory in every phase.
Sound ==
    /\ Typed
    /\ RefCountExact
    /\ NoDanglingRef
    /\ WeakRefsMutual
    /\ ChainLinked
    /\ DyingStack
    /\ ListsApart

\* What the variables of the sweep loop are in each phase.
LoopVariables ==
    /\ phase \in Phases
    /\ cell[GcT] \in Objects \cup {Null} /\ cell[GcN] \in Objects \cup {Null}
    /\ phase \in {"run", "mark", "close", "closed"} => cell[GcT] = Null
    /\ phase \in {"run", "mark", "close", "closed", "finalize", "closefinalize",
                  "next", "closenext"} => cell[GcN] = Null
    /\ phase \in {"finalize", "closefinalize", "next", "closenext"} => cell[GcT] # Null
    /\ phase \in {"advance", "closeadvance"} => cell[GcT] = Null
    /\ phase \notin {"mark", "finalize", "next", "drop", "advance"} =>
          marked = {} /\ tchain = Null

IInv == Sound /\ LoopVariables

\* What the open outers are, and what the sweep has closed of them.
ClosesTyped ==
    /\ closing \in Registers \cup {Null}
    /\ lost \in SUBSET Outers
    /\ phase \notin Sweeping => lost = {}
    /\ \A r \in Registers : cell[<<Open, r>>] \in Outers \cup {Null}

-----------------------------------------------------------------------------
(* Counting cells.                                                         *)

\* Giving one cell another value moves one from the count of the old value
\* to the count of the new one.
LEMMA CountUpdate ==
    ASSUME NEW f \in [Cells -> Refs \cup {Null}], NEW g \in [Cells -> Refs \cup {Null}],
           NEW c \in Cells, \A x \in Cells \ {c} : g[x] = f[x], NEW r \in Refs
    PROVE  /\ Count(f, r) \in Nat /\ Count(g, r) \in Nat
           /\ Count(g, r) = Count(f, r) + One(r, g[c]) - One(r, f[c])
PROOF
<1> DEFINE S == {x \in Cells : f[x] = r}
           T == {x \in Cells : g[x] = r}
<1>1. /\ IsFiniteSet(S) /\ Cardinality(S) \in Nat
      /\ IsFiniteSet(T) /\ Cardinality(T) \in Nat
  BY FS_Subset, FS_CardinalityType, FiniteAssumption
<1>2. Count(f, r) = Cardinality(S) /\ Count(g, r) = Cardinality(T) BY DEF Count
<1>3. Cardinality(T) = Cardinality(S) + One(r, g[c]) - One(r, f[c])
  <2>1. CASE r = g[c] /\ r = f[c]
    <3>1. S = T BY <2>1
    <3> HIDE DEF S, T
    <3> QED BY <3>1, <2>1, <1>1 DEF One
  <2>2. CASE r = g[c] /\ r # f[c]
    <3>1. T = S \cup {c} /\ c \notin S BY <2>2
    <3>2. Cardinality(T) = Cardinality(S) + 1 BY <3>1, <1>1, FS_AddElement
    <3> HIDE DEF S, T
    <3> QED BY <3>2, <2>2, <1>1 DEF One
  <2>3. CASE r # g[c] /\ r = f[c]
    <3>1. T = S \ {c} /\ c \in S BY <2>3
    <3>2. Cardinality(T) = Cardinality(S) - 1 BY <3>1, <1>1, FS_RemoveElement
    <3> HIDE DEF S, T
    <3> QED BY <3>2, <2>3, <1>1 DEF One
  <2>4. CASE r # g[c] /\ r # f[c]
    <3>1. S = T BY <2>4
    <3> HIDE DEF S, T
    <3> QED BY <3>1, <2>4, <1>1 DEF One
  <2> QED BY <2>1, <2>2, <2>3, <2>4
<1> QED BY <1>1, <1>2, <1>3

\* A count of 0 means that no cell refers to the object.
LEMMA CountZero ==
    ASSUME NEW f \in [Cells -> Refs \cup {Null}], NEW r \in Refs
    PROVE  Count(f, r) = 0 <=> \A x \in Cells : f[x] # r
PROOF
<1> DEFINE S == {x \in Cells : f[x] = r}
<1>1. IsFiniteSet(S) BY FS_Subset, FiniteAssumption
<1>2. Cardinality(S) = 0 <=> S = {} BY <1>1, FS_EmptySet
<1>3. S = {} <=> \A x \in Cells : f[x] # r OBVIOUS
<1> QED BY <1>2, <1>3 DEF Count

\* What it means that one cell got another value.
Given(c, v) ==
    /\ cell' \in [Cells -> Refs \cup {Null}]
    /\ \A x \in Cells \ {c} : cell'[x] = cell[x]
    /\ cell'[c] = v

\* The count is exact after a counted assignment.
LEMMA CountsExact ==
    ASSUME Typed, RefCountExact, NEW c \in Cells, NEW v \in Refs \cup {Null},
           Given(c, v), uiRef' = Counts(c, v)
    PROVE  RefCountExact' /\ uiRef' \in [Refs -> Nat]
PROOF
<1>1. ASSUME NEW r \in Refs
      PROVE  uiRef'[r] = Count(cell', r) /\ uiRef'[r] \in Nat
  <2>1. uiRef'[r] = uiRef[r] + One(r, v) - One(r, cell[c]) BY DEF Counts
  <2>2. uiRef[r] = Count(cell, r) BY DEF RefCountExact
  <2>3. /\ Count(cell', r) = Count(cell, r) + One(r, cell'[c]) - One(r, cell[c])
        /\ Count(cell', r) \in Nat
    <3>1. PICK f, g : f = cell /\ g = cell' OBVIOUS
    <3>2. /\ f \in [Cells -> Refs \cup {Null}] /\ g \in [Cells -> Refs \cup {Null}]
          /\ \A x \in Cells \ {c} : g[x] = f[x]
      BY <3>1 DEF Given, Typed
    <3>3. /\ Count(f, r) \in Nat /\ Count(g, r) \in Nat
          /\ Count(g, r) = Count(f, r) + One(r, g[c]) - One(r, f[c])
      BY <3>2, CountUpdate
    <3> QED BY <3>1, <3>3
  <2> QED BY <2>1, <2>2, <2>3 DEF Given
<1>2. uiRef' = [r \in Refs |-> uiRef'[r]] BY DEF Counts
<1> QED BY <1>1, <1>2 DEF RefCountExact

-----------------------------------------------------------------------------
(* A counted assignment, with all that releasing the old value does.       *)

\* Taking an unmarked live object out of its list, to be deleted, leaves the
\* lists right.
LEMMA UnlinkSound ==
    ASSUME Typed, ChainLinked, ListsApart, NEW o \in Objects, life[o] = "live",
           o \notin marked, UNCHANGED marked,
           RemoveFromChain(o), life' = [life EXCEPT ![o] = "dying"]
    PROVE  /\ ChainLinked' /\ ListsApart'
           /\ next' \in [Objects -> Objects \cup {Null}]
           /\ prev' \in [Objects -> Objects \cup {Null}]
           /\ gc_chain' \in Objects \cup {Null} /\ tchain' = tchain
PROOF
<1> USE DistinctAssumption DEF Refs
<1>1. /\ next' \in [Objects -> Objects \cup {Null}]
      /\ prev' \in [Objects -> Objects \cup {Null}]
      /\ gc_chain' \in Objects \cup {Null} /\ tchain' = tchain
  BY DEF Typed, RemoveFromChain, NextWithout, PrevWithout, HeadWithout
<1>2. ASSUME NEW x \in Objects, next'[x] # Null
      PROVE  life'[x] = "live" /\ prev'[next'[x]] = x /\ (x \in marked <=> next'[x] \in marked)
  BY <1>2 DEF Typed, RemoveFromChain, NextWithout, PrevWithout, ChainLinked, ListsApart
<1>3. ASSUME NEW x \in Objects, prev'[x] # Null
      PROVE  life'[x] = "live" /\ next'[prev'[x]] = x
  BY <1>3 DEF Typed, RemoveFromChain, NextWithout, PrevWithout, ChainLinked
<1>4. gc_chain' # Null =>
         life'[gc_chain'] = "live" /\ prev'[gc_chain'] = Null /\ gc_chain' \notin marked
  BY DEF Typed, RemoveFromChain, PrevWithout, HeadWithout, ChainLinked, ListsApart
<1>5. tchain' # Null =>
         life'[tchain'] = "live" /\ prev'[tchain'] = Null /\ tchain' \in marked
  BY DEF Typed, RemoveFromChain, PrevWithout, ChainLinked, ListsApart
<1> QED BY <1>1, <1>2, <1>3, <1>4, <1>5 DEF ChainLinked, ListsApart

\* Assignment of a live value, or of null, keeps the memory sound, whatever
\* is freed or starts to be deleted on account of the old value.
LEMMA AssignSound ==
    ASSUME Sound, NEW c \in Cells, NEW v \in Refs \cup {Null},
           v # Null => life[v] = "live",
           Assign(c, v), UNCHANGED marked
    PROVE  Sound'
PROOF
<1> USE DistinctAssumption DEF Refs
<1> DEFINE old == cell[c]
<1>1. /\ cell' = [cell EXCEPT ![c] = v] /\ uiRef' = Counts(c, v)
      /\ Typed /\ RefCountExact /\ NoDanglingRef /\ WeakRefsMutual
      /\ ChainLinked /\ DyingStack /\ ListsApart
  BY DEF Assign, Sound
<1>2. /\ RefCountExact' /\ uiRef' \in [Refs -> Nat]
      /\ cell' \in [Cells -> Refs \cup {Null}]
  <2>1. Given(c, v) BY <1>1 DEF Given, Typed
  <2> QED BY <1>1, <2>1, CountsExact DEF Given
<1>3. \A x \in Cells : cell'[x] # Null => life[cell'[x]] = "live"
  BY <1>1 DEF Typed, NoDanglingRef
<1>4. CASE ~Dead(c, v) /\ UNCHANGED <<life, dying, weakref, obj, chain>>
  BY <1>1, <1>2, <1>3, <1>4
     DEF Sound, Typed, NoDanglingRef, WeakRefsMutual, ChainLinked, DyingStack, ListsApart, chain
<1>5. ASSUME Dead(c, v)
      PROVE  /\ old \in Refs /\ life[old] = "live" /\ old \notin marked
             /\ \A x \in Cells : cell'[x] # old
  <2>1. old \in Refs /\ life[old] = "live" /\ old \notin marked
    BY <1>1, <1>5 DEF Dead, Typed, NoDanglingRef
  <2>2. Count(cell', old) = 0
    BY <1>1, <1>2, <1>5, <2>1 DEF Dead, RefCountExact
  <2> QED BY <1>2, <2>1, <2>2, CountZero
<1>6. CASE Dead(c, v) /\ old \in Weaks /\ WeakRelease(old)
  <2>1. Typed' BY <1>1, <1>2, <1>5, <1>6 DEF Typed, WeakRelease, chain
  <2>2. NoDanglingRef' BY <1>2, <1>3, <1>5, <1>6, <1>1 DEF NoDanglingRef, WeakRelease, Typed
  <2>3. WeakRefsMutual'
    BY <1>1, <1>5, <1>6 DEF Typed, WeakRelease, WeakRefsMutual
  <2>4. \A o \in Objects : life'[o] = life[o]
    BY <1>1, <1>6 DEF Typed, WeakRelease
  <2>5. ChainLinked' BY <1>1, <1>6, <2>4 DEF WeakRelease, ChainLinked, chain, Typed
  <2>6. DyingStack'
    <3>1. dying' = dying /\ dying \in Seq(Objects)
      BY <1>1, <1>6 DEF WeakRelease, Typed
    <3>2. \A i \in 1 .. Len(dying) : dying[i] \in Objects BY <3>1
    <3> QED BY <1>1, <2>4, <3>1, <3>2 DEF DyingStack
  <2>7. ListsApart' BY <1>1, <1>6 DEF WeakRelease, ListsApart, chain
  <2> QED BY <1>2, <2>1, <2>2, <2>3, <2>5, <2>6, <2>7 DEF Sound
<1>7. CASE Dead(c, v) /\ old \in Objects /\ ObjRelease(old)
  <2>1. /\ ChainLinked' /\ ListsApart'
        /\ next' \in [Objects -> Objects \cup {Null}]
        /\ prev' \in [Objects -> Objects \cup {Null}]
        /\ gc_chain' \in Objects \cup {Null} /\ tchain' = tchain
    BY <1>1, <1>5, <1>7, UnlinkSound DEF ObjRelease
  <2>2. dying' = <<old>> \o dying /\ dying \in Seq(Objects)
    BY <1>1, <1>7 DEF ObjRelease, Typed
  <2>3. /\ dying' \in Seq(Objects) /\ Len(dying') = Len(dying) + 1 /\ Len(dying) \in Nat
        /\ dying'[1] = old
        /\ \A i \in 1 .. Len(dying) : dying'[i+1] = dying[i]
    BY <2>2, <1>7
  <2>4. Typed' BY <1>1, <1>2, <1>7, <2>1, <2>3 DEF Typed, ObjRelease
  <2>5. NoDanglingRef' BY <1>1, <1>2, <1>3, <1>5, <1>7 DEF NoDanglingRef, ObjRelease, Typed
  <2>6. WeakRefsMutual' BY <1>1, <1>5, <1>7 DEF WeakRefsMutual, ObjRelease, Typed
  <2>7. DyingStack'
    <3>1. ASSUME NEW o \in Objects, life'[o] = "dying"
          PROVE  \E i \in 1 .. Len(dying') : dying'[i] = o
      <4>1. CASE o = old BY <2>3, <4>1
      <4>2. CASE o # old
        <5>1. life[o] = "dying" BY <3>1, <4>2, <1>7, <1>1 DEF ObjRelease, Typed
        <5>2. PICK i \in 1 .. Len(dying) : dying[i] = o BY <5>1, <1>1 DEF DyingStack
        <5>3. i + 1 \in 1 .. Len(dying') /\ dying'[i+1] = o BY <5>2, <2>3
        <5> QED BY <5>3
      <4> QED BY <4>1, <4>2
    <3>2. ASSUME NEW i \in 1 .. Len(dying')
          PROVE  life'[dying'[i]] # "live"
      <4>1. CASE i = 1 BY <4>1, <2>3, <1>7, <1>1 DEF ObjRelease, Typed
      <4>2. CASE i # 1
        <5>1. i - 1 \in 1 .. Len(dying) /\ dying'[i] = dying[i-1] BY <4>2, <2>3
        <5>2. life[dying[i-1]] # "live" /\ dying[i-1] \in Objects
          BY <5>1, <1>1, <2>2 DEF DyingStack
        <5> QED BY <5>1, <5>2, <1>7, <1>1 DEF ObjRelease, Typed
      <4> QED BY <4>1, <4>2
    <3> QED BY <3>1, <3>2 DEF DyingStack
  <2> QED BY <1>2, <2>1, <2>4, <2>5, <2>6, <2>7 DEF Sound
<1> QED BY <1>4, <1>6, <1>7 DEF Assign

\* An assignment to a cell that is not one of the loop's.
LEMMA AssignInv ==
    ASSUME IInv, NEW c \in Cells \ {GcT, GcN}, NEW v \in Refs \cup {Null},
           v # Null => life[v] = "live",
           Assign(c, v), UNCHANGED <<marked, phase>>
    PROVE  IInv'
PROOF
<1>1. Sound' BY AssignSound DEF IInv
<1>2. tchain' = tchain
  BY DEF Assign, WeakRelease, ObjRelease, RemoveFromChain, chain
<1>3. cell'[GcT] = cell[GcT] /\ cell'[GcN] = cell[GcN]
  BY DEF Assign, IInv, Sound, Typed, Cells
<1> QED BY <1>1, <1>2, <1>3 DEF IInv, LoopVariables

\* A field is neither t nor nx of the loop; nor is a slot, a local, a register or
\* an outer's place in the list of the open ones.
LEMMA OtherCells ==
    /\ \A o \in Objects : OwnFields(o) \subseteq Cells \ {GcT, GcN}
    /\ Slots \subseteq Cells \ {GcT, GcN}
    /\ Locals \subseteq Cells \ {GcT, GcN}
    /\ Registers \subseteq Cells \ {GcT, GcN}
    /\ OpenCells \subseteq Cells \ {GcT, GcN}
    /\ \A p \in Outers : <<p, Value>> \in OwnFields(p)
PROOF
<1>1. Outers \subseteq Objects /\ Threads \subseteq Objects BY OutersAssumption
<1>2. Threads \X Fields \subseteq Objects \X Fields BY <1>1
<1>3. \A p \in Outers : Value \in Fields BY OutersAssumption
<1>4. OpenCells \cap {GcT, GcN} = {} BY OutersAssumption
<1>5. \A p \in Outers : <<p, Value>> \in OwnFields(p) BY <1>3 DEF OwnFields
<1>6. /\ \A o \in Objects : OwnFields(o) \subseteq Cells \ {GcT, GcN}
      /\ Slots \subseteq Cells \ {GcT, GcN}
      /\ Locals \subseteq Cells \ {GcT, GcN}
  BY DistinctAssumption DEF OwnFields, Cells
<1>7. Threads \X Fields \subseteq Cells \ {GcT, GcN} BY <1>2, DistinctAssumption DEF Cells
<1>8. OpenCells \subseteq Cells \ {GcT, GcN} BY <1>4 DEF Cells
<1> QED BY <1>5, <1>6, <1>7, <1>8 DEF Registers

\* The cells that a script or a native function can assign to.
LEMMA WithinAre ==
    ASSUME NEW c \in Within \cup Filled
    PROVE  \/ c \in Slots
           \/ \E o \in Plain \cup Threads : c \in OwnFields(o)
           \/ \E p \in Outers : c \in Variable(p)
PROOF
<1>1. CASE c \in UNION {OwnFields(o) : o \in Held \cap (Plain \cup Threads)} BY <1>1
<1>2. CASE c \in UNION {Variable(p) : p \in Held \cap Outers} BY <1>2
<1>3. CASE c \in UNION {OwnFields(o) : o \in {cell[l] : l \in Locals} \cap Plain} BY <1>3
<1> QED BY <1>1, <1>2, <1>3 DEF Within, Filled

\* What a script can name is a live object or null, and it can name cells of
\* its own only.
LEMMA ValuesLive ==
    ASSUME IInv
    PROVE  /\ \A v \in Values : v \in Refs \cup {Null} /\ (v # Null => life[v] = "live")
           /\ \A v \in Held : v \in Refs /\ life[v] = "live"
           /\ Within \cup Filled \subseteq Cells \ {GcT, GcN}
PROOF
<1>1. \A c \in Cells : cell[c] \in Refs \cup {Null} /\ (cell[c] # Null => life[cell[c]] = "live")
  BY DEF IInv, Sound, Typed, NoDanglingRef
<1>2. Within \cup Filled \subseteq Cells \ {GcT, GcN}
  <2>1. \A p \in Outers : Variable(p) \subseteq Cells \ {GcT, GcN}
    BY OtherCells, OutersAssumption DEF Variable
  <2>2. \A o \in Plain \cup Threads : OwnFields(o) \subseteq Cells \ {GcT, GcN}
    BY OtherCells, OutersAssumption DEF Plain
  <2> QED BY <2>1, <2>2, OtherCells, WithinAre
<1>3. \A r \in Registers : <<Open, r>> \in Cells BY OtherCells DEF OpenCells
<1> QED BY <1>1, <1>2, <1>3, OtherCells DEF Values, Held

\* When nothing is being deleted, what a weak reference yields is live.
LEMMA DerefLive ==
    ASSUME IInv, Idle, NEW w \in Weaks, obj[w] # Null
    PROVE  life[obj[w]] = "live"
PROOF
<1>1. /\ obj[w] \in Objects /\ weakref[obj[w]] = w /\ w # Null
      /\ life[obj[w]] \in {"free", "live", "dying"}
  BY DistinctAssumption DEF IInv, Sound, Typed, WeakRefsMutual, Refs
<1>2. life[obj[w]] # "free"
  BY <1>1 DEF IInv, Sound, WeakRefsMutual
<1>3. life[obj[w]] # "dying"
  BY <1>1 DEF IInv, Sound, DyingStack, Idle, Between
<1> QED BY <1>1, <1>2, <1>3

-----------------------------------------------------------------------------
(* The steps of scripts and native functions.                              *)

\* A Create links the new object at the head of _gc_chain and counts its
\* first reference.
LEMMA NewInv ==
    ASSUME IInv, NEW o \in Objects, NEW c \in Slots \cup Locals \cup OpenCells, New(o, c)
    PROVE  IInv'
PROOF
<1> USE DistinctAssumption DEF Refs
<1>1. /\ Typed /\ RefCountExact /\ NoDanglingRef /\ WeakRefsMutual
      /\ ChainLinked /\ DyingStack /\ ListsApart /\ LoopVariables
      /\ c \in Cells /\ c # GcT /\ c # GcN
  BY OtherCells DEF IInv, Sound
<1>2. \A x \in Cells : cell[x] # o BY <1>1 DEF NoDanglingRef, New
<1>3. uiRef' = Counts(c, o)
  <2>1. uiRef[o] = 0 BY <1>1, <1>2, CountZero, SMTT(30) DEF RefCountExact, Typed
  <2>2. \A r \in Refs : uiRef'[r] = uiRef[r] + One(r, o) - One(r, cell[c])
    BY <1>1, <2>1 DEF New, One, Typed
  <2> QED BY <2>2, <1>1 DEF Counts, New, Typed
<1>4. RefCountExact' /\ uiRef' \in [Refs -> Nat] /\ cell' \in [Cells -> Refs \cup {Null}]
  <2>1. Given(c, o) BY <1>1 DEF Given, Typed, New
  <2> QED BY <1>1, <1>3, <2>1, CountsExact DEF Given
<1>5. Typed' BY <1>1, <1>4 DEF Typed, New, AddToChain
<1>6. NoDanglingRef' BY <1>1 DEF NoDanglingRef, New, Typed
<1>7. WeakRefsMutual' BY <1>1 DEF WeakRefsMutual, New, Typed
<1>8. ChainLinked'
  <2>1. next[o] = Null /\ prev[o] = Null BY <1>1 DEF ChainLinked, New
  <2>2. gc_chain # o /\ tchain # o BY <1>1 DEF ChainLinked, New
  <2>3. ASSUME NEW x \in Objects, next'[x] # Null
        PROVE  life'[x] = "live" /\ prev'[next'[x]] = x
    <3>1. CASE x = o BY <1>1, <2>2, <2>3, <3>1 DEF New, AddToChain, Typed
    <3>2. CASE x # o
      <4>1. next'[x] = next[x] BY <1>1, <3>2 DEF AddToChain, New, Typed
      <4>2. /\ life[x] = "live" /\ prev[next[x]] = x /\ next[x] # o /\ next[x] # gc_chain
            /\ next[x] \in Objects
        BY <1>1, <2>1, <2>3, <4>1 DEF ChainLinked, Typed
      <4> QED BY <1>1, <3>2, <4>1, <4>2 DEF AddToChain, New, Typed
    <3> QED BY <3>1, <3>2
  <2>4. ASSUME NEW x \in Objects, prev'[x] # Null
        PROVE  life'[x] = "live" /\ next'[prev'[x]] = x
    BY <1>1, <2>1, <2>2, <2>4 DEF ChainLinked, New, AddToChain, Typed
  <2>5. tchain' = Null BY <1>1 DEF New, Idle, LoopVariables, AddToChain
  <2> QED BY <1>1, <2>3, <2>4, <2>5 DEF ChainLinked, New, AddToChain, Typed
<1>9. DyingStack' BY <1>1 DEF DyingStack, New, Idle, Between, Typed
<1>10. marked = {} /\ tchain = Null BY <1>1 DEF New, Idle, LoopVariables
<1>11. ListsApart' BY <1>10 DEF ListsApart, New, AddToChain
<1>12. LoopVariables' BY <1>1, <1>10 DEF LoopVariables, New, AddToChain, Typed, Cells
<1> QED BY <1>4, <1>5, <1>6, <1>7, <1>8, <1>9, <1>11, <1>12 DEF IInv, Sound

\* GetWeakRef joins an object and its weak reference, old or new.
LEMMA GetWeakRefInv ==
    ASSUME IInv, NEW o \in Held \cap Objects, NEW w \in Weaks, NEW c \in Slots,
           GetWeakRef(o, w, c)
    PROVE  IInv'
PROOF
<1> USE DistinctAssumption DEF Refs
<1>1. /\ Typed /\ RefCountExact /\ NoDanglingRef /\ WeakRefsMutual
      /\ ChainLinked /\ DyingStack /\ ListsApart /\ LoopVariables
      /\ c \in Cells /\ c # GcT /\ c # GcN /\ o \in Objects /\ life[o] = "live"
  BY OtherCells, ValuesLive DEF IInv, Sound
<1>2. uiRef' = Counts(c, w)
  <2>1. \A r \in Refs : uiRef'[r] = uiRef[r] + One(r, w) - One(r, cell[c])
    BY <1>1 DEF GetWeakRef, One, Typed
  <2> QED BY <2>1, <1>1 DEF Counts, GetWeakRef, Typed
<1>3. RefCountExact' /\ uiRef' \in [Refs -> Nat] /\ cell' \in [Cells -> Refs \cup {Null}]
  <2>1. Given(c, w) BY <1>1 DEF Given, Typed, GetWeakRef
  <2> QED BY <1>1, <1>2, <2>1, CountsExact DEF Given
<1>4. Typed' BY <1>1, <1>3 DEF Typed, GetWeakRef, chain
<1>5. NoDanglingRef' BY <1>1 DEF NoDanglingRef, GetWeakRef, Typed
<1>6. WeakRefsMutual' BY <1>1 DEF WeakRefsMutual, GetWeakRef, Typed
<1>7. \A x \in Objects : life'[x] = life[x] BY <1>1 DEF GetWeakRef, Typed
<1>8. ChainLinked' BY <1>1, <1>7 DEF ChainLinked, GetWeakRef, chain, Typed
<1>9. DyingStack' BY <1>1, <1>7 DEF DyingStack, GetWeakRef, Idle, Between
<1>10. ListsApart' BY <1>1 DEF ListsApart, GetWeakRef, chain
<1>11. LoopVariables' BY <1>1 DEF LoopVariables, GetWeakRef, chain, Typed, Cells
<1> QED BY <1>3, <1>4, <1>5, <1>6, <1>8, <1>9, <1>10, <1>11 DEF IInv, Sound

\* What it means that the reference in cell c moved to cell d.
Moved(c, d) ==
    /\ cell' \in [Cells -> Refs \cup {Null}]
    /\ \A x \in Cells \ {c, d} : cell'[x] = cell[x]
    /\ cell'[d] = cell[c] /\ cell'[c] = Null

\* Moving a reference from one cell to an empty one leaves every count.
LEMMA MoveExact ==
    ASSUME Typed, RefCountExact, NEW c \in Cells, NEW d \in Cells, c # d,
           cell[d] = Null, Moved(c, d), uiRef' = uiRef
    PROVE  RefCountExact'
PROOF
<1>1. PICK h \in [Cells -> Refs \cup {Null}] :
          /\ \A x \in Cells \ {d} : h[x] = cell[x]
          /\ h[d] = cell[c]
  <2>1. [cell EXCEPT ![d] = cell[c]] \in [Cells -> Refs \cup {Null}] BY DEF Typed
  <2> QED BY <2>1 DEF Typed
<1>2. cell \in [Cells -> Refs \cup {Null}] /\ cell' \in [Cells -> Refs \cup {Null}]
  BY DEF Typed, Moved
<1>3. (\A x \in Cells \ {c} : cell'[x] = h[x]) /\ cell'[c] = Null /\ h[c] = cell[c]
  BY <1>1, <1>2 DEF Moved
<1>4. ASSUME NEW r \in Refs
      PROVE  Count(cell', r) = Count(cell, r)
  <2>1. /\ Count(h, r) = Count(cell, r) + One(r, h[d]) - One(r, cell[d])
        /\ Count(h, r) \in Nat /\ Count(cell, r) \in Nat
    BY <1>1, <1>2, CountUpdate
  <2>2. /\ Count(cell', r) = Count(h, r) + One(r, cell'[c]) - One(r, h[c])
        /\ Count(cell', r) \in Nat
    BY <1>1, <1>2, <1>3, CountUpdate
  <2>3. One(r, cell'[c]) = 0 /\ One(r, cell[d]) = 0 /\ One(r, cell[c]) \in Int
    BY <1>3, DistinctAssumption DEF One
  <2> QED BY <1>1, <1>3, <2>1, <2>2, <2>3
<1> QED BY <1>4 DEF RefCountExact

\* A result moves from the local of a native function to the stack.
LEMMA ReturnInv ==
    ASSUME IInv, NEW l \in Locals, NEW c \in Slots, Return(l, c)
    PROVE  IInv'
PROOF
<1> USE DistinctAssumption DEF Refs
<1>1. /\ Typed /\ RefCountExact /\ NoDanglingRef /\ WeakRefsMutual
      /\ ChainLinked /\ DyingStack /\ ListsApart /\ LoopVariables
      /\ c \in Cells /\ l \in Cells /\ c # l
      /\ c # GcT /\ c # GcN /\ l # GcT /\ l # GcN
  BY OtherCells DEF IInv, Sound
<1>2. RefCountExact' /\ cell' \in [Cells -> Refs \cup {Null}]
  <2>1. Moved(l, c) BY <1>1 DEF Moved, Typed, Return
  <2> QED BY <1>1, <2>1, MoveExact DEF Return, Moved
<1>3. Typed' BY <1>1, <1>2 DEF Typed, Return, chain
<1>4. NoDanglingRef' BY <1>1 DEF NoDanglingRef, Return, Typed
<1>5. /\ WeakRefsMutual' /\ ChainLinked' /\ DyingStack' /\ ListsApart'
  BY <1>1 DEF WeakRefsMutual, ChainLinked, DyingStack, ListsApart, Return, chain
<1>6. LoopVariables' BY <1>1 DEF LoopVariables, Return, chain, Typed, Cells
<1> QED BY <1>2, <1>3, <1>4, <1>5, <1>6 DEF IInv, Sound

\* An outer takes the value of its register.
LEMMA CopyOutInv ==
    ASSUME IInv, NEW p \in Outers, NEW r \in Registers, CopyOut(p, r)
    PROVE  IInv'
PROOF
<1>1. <<p, Value>> \in Cells \ {GcT, GcN} /\ r \in Cells BY OtherCells, OutersAssumption
<1>2. cell[r] \in Refs \cup {Null} /\ (cell[r] # Null => life[cell[r]] = "live")
  BY <1>1 DEF IInv, Sound, Typed, NoDanglingRef
<1> QED BY <1>1, <1>2, AssignInv DEF CopyOut

\* The list of open outers lets one go.
LEMMA LetGoInv ==
    ASSUME IInv, NEW r \in Registers, LetGo(r)
    PROVE  IInv'
PROOF
<1>1. <<Open, r>> \in Cells \ {GcT, GcN} BY OtherCells DEF OpenCells
<1> QED BY <1>1, AssignInv DEF LetGo

\* Every step of a script or a native function.
LEMMA MutateInv ==
    ASSUME IInv, Mutate
    PROVE  IInv'
PROOF
<1> USE OutersAssumption
<1>1. ASSUME NEW o \in Objects, NEW c \in Slots \cup Locals, New(o, c) PROVE IInv'
  BY <1>1, NewInv
<1>2. ASSUME NEW c \in Within \cup Filled, NEW v \in Values, Store(c, v) PROVE IInv'
  BY <1>2, ValuesLive, AssignInv DEF Store
<1>3. ASSUME NEW o \in Held \cap Objects, NEW m \in (Held \cap Objects) \cup {Null},
             Delegate \in Fields, SetDelegate(o, m)
      PROVE  IInv'
  <2>1. <<o, Delegate>> \in Cells \ {GcT, GcN}
    BY <1>3, OtherCells DEF OwnFields
  <2> QED BY <1>3, <2>1, ValuesLive, AssignInv DEF SetDelegate, Refs
<1>4. ASSUME NEW o \in Held \cap Objects, NEW w \in Weaks, NEW c \in Slots,
             GetWeakRef(o, w, c)
      PROVE  IInv'
  BY <1>4, GetWeakRefInv
<1>5. ASSUME NEW w \in Held \cap Weaks, NEW c \in Slots, Deref(w, c) PROVE IInv'
  <2>1. obj[w] \in Refs \cup {Null} BY DEF IInv, Sound, Typed, Refs
  <2>2. obj[w] # Null => life[obj[w]] = "live" BY <1>5, DerefLive DEF Deref
  <2> QED BY <1>5, <2>1, <2>2, OtherCells, AssignInv DEF Deref
<1>6. ASSUME NEW l \in Locals, NEW c \in Slots, Return(l, c) PROVE IInv'
  BY <1>6, ReturnInv
<1>7. ASSUME NEW p \in Outers, NEW r \in Registers, FindOuter(p, r) PROVE IInv'
  BY <1>7, NewInv DEF FindOuter, OpenCells
<1>8. ASSUME NEW p \in Outers, NEW r \in Registers, LeaveBlock(p, r) PROVE IInv'
  BY <1>8, CopyOutInv DEF LeaveBlock
<1> QED BY <1>1, <1>2, <1>3, <1>4, <1>5, <1>6, <1>7, <1>8 DEF Mutate, Plain

-----------------------------------------------------------------------------
(* Destructors.                                                            *)

\* ~GSRefCounted frees an object nothing refers to, and cuts its weak
\* reference off.
LEMMA DestroyEndInv ==
    ASSUME IInv, DestroyEnd
    PROVE  IInv'
PROOF
<1> USE DistinctAssumption DEF Refs
<1> DEFINE o == Head(dying)
<1>1. /\ Typed /\ RefCountExact /\ NoDanglingRef /\ WeakRefsMutual
      /\ ChainLinked /\ DyingStack /\ ListsApart /\ LoopVariables
  BY DEF IInv, Sound
<1>2. /\ dying \in Seq(Objects) /\ dying # <<>> /\ dying' = Tail(dying)
      /\ o \in Objects /\ o = dying[1] /\ Len(dying) \in Nat /\ Len(dying) > 0
      /\ dying' \in Seq(Objects) /\ Len(dying') = Len(dying) - 1
      /\ \A i \in 1 .. Len(dying') : dying'[i] = dying[i+1]
  <2>1. dying \in Seq(Objects) /\ dying # <<>> /\ dying' = Tail(dying)
    BY <1>1 DEF Typed, DestroyEnd
  <2> QED BY <2>1
<1>3. life[o] # "live" BY <1>1, <1>2 DEF DyingStack
<1> HIDE DEF o
<1>4. /\ life' = [life EXCEPT ![o] = "free"]
      /\ obj' = IF weakref[o] = Null THEN obj ELSE [obj EXCEPT ![weakref[o]] = Null]
      /\ weakref' = [weakref EXCEPT ![o] = Null]
      /\ UNCHANGED <<cell, uiRef, marked, chain, phase>>
  BY DEF DestroyEnd, o
<1>5. Typed' BY <1>1, <1>2, <1>4 DEF Typed, chain
<1>6. NoDanglingRef' BY <1>1, <1>2, <1>3, <1>4 DEF NoDanglingRef, Typed
<1>7. WeakRefsMutual' BY <1>1, <1>2, <1>4 DEF WeakRefsMutual, Typed
<1>8. ChainLinked' BY <1>1, <1>2, <1>3, <1>4 DEF ChainLinked, Typed, chain
<1>9. DyingStack'
  <2>1. ASSUME NEW x \in Objects, life'[x] = "dying"
        PROVE  \E i \in 1 .. Len(dying') : dying'[i] = x
    <3>1. life[x] = "dying" /\ x # o BY <1>1, <1>4, <2>1 DEF Typed
    <3>2. PICK i \in 1 .. Len(dying) : dying[i] = x BY <3>1, <1>1 DEF DyingStack
    <3>3. i - 1 \in 1 .. Len(dying') /\ dying'[i-1] = x BY <1>2, <3>1, <3>2
    <3> QED BY <3>3
  <2>2. ASSUME NEW i \in 1 .. Len(dying') PROVE life'[dying'[i]] # "live"
    <3>1. i + 1 \in 1 .. Len(dying) /\ dying'[i] = dying[i+1] BY <1>2
    <3>2. life[dying[i+1]] # "live" /\ dying[i+1] \in Objects
      BY <1>1, <1>2, <3>1 DEF DyingStack
    <3> QED BY <3>1, <3>2, <1>1, <1>4 DEF Typed
  <2> QED BY <2>1, <2>2 DEF DyingStack
<1>10. RefCountExact' /\ ListsApart' /\ LoopVariables'
  BY <1>1, <1>4 DEF RefCountExact, ListsApart, LoopVariables, chain
<1> QED BY <1>5, <1>6, <1>7, <1>8, <1>9, <1>10 DEF IInv, Sound

\* Every step of a destructor.
LEMMA DestroyInv ==
    ASSUME IInv, Destroy
    PROVE  IInv'
PROOF
<1>1. ASSUME NEW c \in Cells, DestroyField(c) PROVE IInv'
  <2>1. Head(dying) \in Objects
    BY <1>1 DEF DestroyField, IInv, Sound, Typed
  <2>2. c \in Cells \ {GcT, GcN} BY <1>1, <2>1, OtherCells DEF DestroyField
  <2> QED BY <1>1, <2>2, AssignInv DEF DestroyField
<1>2. ASSUME NEW p \in Outers, NEW r \in Registers, DestroyOuter(p, r) PROVE IInv'
  BY <1>2, CopyOutInv DEF DestroyOuter
<1> QED BY <1>1, <1>2, DestroyEndInv, LetGoInv DEF Destroy

-----------------------------------------------------------------------------
(* The collector and the closing of the state.                             *)

\* Marking moves an object from the list of the unmarked to the other.
LEMMA MarkInv ==
    ASSUME IInv, NEW o \in Objects, Mark(o)
    PROVE  IInv'
PROOF
<1> USE DistinctAssumption DEF Refs
<1>1. /\ Typed /\ RefCountExact /\ NoDanglingRef /\ WeakRefsMutual
      /\ ChainLinked /\ DyingStack /\ ListsApart /\ LoopVariables
  BY DEF IInv, Sound
<1>2. o \notin marked /\ life[o] = "live"
  <2>1. PICK c \in Slots \cup (marked \X Fields) : cell[c] = o BY DEF Mark, ToMark
  <2>2. c \in Cells BY <1>1 DEF Cells, Typed
  <2> QED BY <1>1, <2>1, <2>2 DEF NoDanglingRef, Mark, ToMark
<1>3. /\ UNCHANGED <<cell, uiRef, life, dying, weakref, obj, phase>>
      /\ marked' = marked \cup {o} /\ tchain' = o /\ gc_chain' = HeadWithout(o)
      /\ next' = [NextWithout(o) EXCEPT ![o] = tchain]
      /\ prev' = [x \in Objects |-> IF x = o THEN Null
                                    ELSE IF x = tchain THEN o ELSE PrevWithout(o)[x]]
  BY DEF Mark, heap
<1>4. Typed' BY <1>1, <1>3 DEF Typed, NextWithout, PrevWithout, HeadWithout
<1>5. tchain # o /\ (tchain # Null => tchain # next[o] /\ tchain # prev[o])
  BY <1>1, <1>2 DEF ListsApart, ChainLinked, Typed
<1>6. ASSUME NEW x \in Objects, next'[x] # Null
      PROVE  /\ life'[x] = "live" /\ prev'[next'[x]] = x
             /\ (x \in marked' <=> next'[x] \in marked')
  <2>1. CASE x = o
    <3>1. next'[x] = tchain /\ tchain \in Objects
      BY <1>1, <1>3, <1>6, <2>1 DEF NextWithout, Typed
    <3>2. prev'[tchain] = o BY <3>1, <1>3, <1>5
    <3> QED BY <1>1, <1>2, <1>3, <2>1, <3>1, <3>2 DEF ListsApart
  <2>2. CASE x # o
    <3>1. next'[x] = IF x = prev[o] THEN next[o] ELSE next[x]
      BY <1>3, <2>2 DEF NextWithout
    <3>2. next'[x] \in Objects /\ next'[x] # o /\ next'[x] # tchain
      BY <1>1, <1>5, <1>6, <2>2, <3>1 DEF ChainLinked, Typed
    <3>3. prev'[next'[x]] = IF next'[x] = next[o] THEN prev[o] ELSE prev[next'[x]]
      BY <1>3, <3>2 DEF PrevWithout
    <3>4. life[x] = "live" /\ prev'[next'[x]] = x
      <4>1. CASE x = prev[o]
        <5>1. next'[x] = next[o] /\ prev'[next'[x]] = x BY <3>1, <3>3, <4>1
        <5>2. next[x] = o BY <1>1, <4>1 DEF ChainLinked
        <5> QED BY <1>1, <5>1, <5>2 DEF ChainLinked
      <4>2. CASE x # prev[o]
        <5>1. next'[x] = next[x] BY <3>1, <4>2
        <5>2. life[x] = "live" /\ prev[next[x]] = x BY <1>1, <1>6, <5>1 DEF ChainLinked
        <5>3. next[x] # next[o] BY <1>1, <1>6, <2>2, <5>1, <5>2 DEF ChainLinked
        <5> QED BY <3>3, <5>1, <5>2, <5>3
      <4> QED BY <4>1, <4>2
    <3>5. x \in marked <=> next'[x] \in marked
      BY <1>1, <1>6, <2>2, <3>1, <3>2 DEF ListsApart, ChainLinked, Typed
    <3> QED BY <1>3, <2>2, <3>2, <3>4, <3>5
  <2> QED BY <2>1, <2>2
<1>7. ASSUME NEW x \in Objects, prev'[x] # Null
      PROVE  life'[x] = "live" /\ next'[prev'[x]] = x
  <2>1. x # o BY <1>3, <1>7
  <2>2. CASE x = tchain
    BY <1>1, <1>3, <2>1, <2>2 DEF ChainLinked, NextWithout, Typed
  <2>3. CASE x # tchain
    <3>1. prev'[x] = IF x = next[o] THEN prev[o] ELSE prev[x]
      BY <1>3, <2>1, <2>3 DEF PrevWithout
    <3>2. prev'[x] \in Objects /\ prev'[x] # o
      BY <1>1, <1>7, <2>1, <3>1 DEF ChainLinked, Typed
    <3>3. next'[prev'[x]] = IF prev'[x] = prev[o] THEN next[o] ELSE next[prev'[x]]
      BY <1>3, <3>2 DEF NextWithout
    <3> QED BY <1>1, <1>3, <1>7, <2>1, <3>1, <3>2, <3>3 DEF ChainLinked, Typed
  <2> QED BY <2>2, <2>3
<1>8. gc_chain' # Null =>
         life'[gc_chain'] = "live" /\ prev'[gc_chain'] = Null /\ gc_chain' \notin marked'
  <2> SUFFICES ASSUME gc_chain' # Null
               PROVE  life'[gc_chain'] = "live" /\ prev'[gc_chain'] = Null
                      /\ gc_chain' \notin marked'
    OBVIOUS
  <2>1. gc_chain' = IF prev[o] = Null THEN next[o] ELSE gc_chain
    BY <1>3 DEF HeadWithout
  <2>2. /\ gc_chain' \in Objects /\ gc_chain' # o /\ gc_chain' \notin marked
        /\ gc_chain' # tchain /\ life[gc_chain'] = "live"
    BY <1>1, <1>2, <2>1 DEF ListsApart, ChainLinked, Typed
  <2>3. prev'[gc_chain'] = IF gc_chain' = next[o] THEN prev[o] ELSE prev[gc_chain']
    BY <1>3, <2>2 DEF PrevWithout
  <2> QED BY <1>1, <1>3, <2>1, <2>2, <2>3 DEF ChainLinked
<1>9. life'[tchain'] = "live" /\ prev'[tchain'] = Null /\ tchain' \in marked'
  BY <1>2, <1>3
<1>10. ChainLinked' /\ ListsApart'
  BY <1>6, <1>7, <1>8, <1>9 DEF ChainLinked, ListsApart
<1>11. RefCountExact' /\ NoDanglingRef' /\ WeakRefsMutual' /\ DyingStack'
  BY <1>1, <1>3 DEF RefCountExact, NoDanglingRef, WeakRefsMutual, DyingStack
<1>12. LoopVariables' BY <1>1, <1>3 DEF LoopVariables, Mark
<1> QED BY <1>4, <1>10, <1>11, <1>12 DEF IInv, Sound

\* The loop takes the head of _gc_chain.
LEMMA BeginSweepSound ==
    ASSUME IInv, cell[GcT] = Null, NEW finalize, NEW over, BeginSweep(finalize, over)
    PROVE  /\ RefCountExact' /\ NoDanglingRef' /\ WeakRefsMutual' /\ DyingStack'
           /\ uiRef' \in [Refs -> Nat] /\ Given(GcT, gc_chain)
           /\ UNCHANGED <<life, dying, weakref, obj>>
PROOF
<1> USE DistinctAssumption DEF Refs
<1>1. /\ Typed /\ RefCountExact /\ NoDanglingRef /\ WeakRefsMutual
      /\ ChainLinked /\ DyingStack /\ GcT \in Cells
  BY DEF IInv, Sound, Cells
<1>2. Given(GcT, gc_chain) BY <1>1 DEF Given, Typed, BeginSweep
<1>3. uiRef' = Counts(GcT, gc_chain)
  <2>1. \A r \in Refs : uiRef'[r] = uiRef[r] + One(r, gc_chain) - One(r, cell[GcT])
    BY <1>1 DEF BeginSweep, One, Typed
  <2> QED BY <2>1 DEF Counts, BeginSweep
<1>4. RefCountExact' /\ uiRef' \in [Refs -> Nat]
  BY <1>1, <1>2, <1>3, CountsExact DEF Typed
<1>5. UNCHANGED <<life, dying, weakref, obj>> BY DEF BeginSweep
<1>6. NoDanglingRef' BY <1>1, <1>2, <1>5 DEF NoDanglingRef, Given, ChainLinked, Typed
<1>7. WeakRefsMutual' /\ DyingStack' BY <1>1, <1>5 DEF WeakRefsMutual, DyingStack
<1> QED BY <1>2, <1>4, <1>5, <1>6, <1>7

\* The mark phase ends: the sweep of what is left in _gc_chain begins, or
\* there is nothing to sweep.
LEMMA EndMarkInv ==
    ASSUME IInv, EndMark
    PROVE  IInv'
PROOF
<1> USE DistinctAssumption DEF Refs
<1>1. Typed /\ ChainLinked /\ ListsApart /\ LoopVariables /\ phase = "mark"
      /\ GcT \in Cells /\ GcN \in Cells
  BY DEF IInv, Sound, EndMark, Cells
<1>2. /\ RefCountExact' /\ NoDanglingRef' /\ WeakRefsMutual' /\ DyingStack'
      /\ uiRef' \in [Refs -> Nat] /\ Given(GcT, gc_chain)
      /\ UNCHANGED <<life, dying, weakref, obj, next, prev>>
  BY <1>1, BeginSweepSound DEF EndMark, LoopVariables
<1>3. Typed' BY <1>1, <1>2 DEF Typed, Given, EndMark
<1>4. ChainLinked' BY <1>1, <1>2 DEF ChainLinked, EndMark
<1>5. ListsApart' BY <1>1, <1>2 DEF ListsApart, EndMark
<1>6. LoopVariables'
  BY <1>1, <1>2 DEF LoopVariables, EndMark, BeginSweep, Given, Phases, Typed
<1> QED BY <1>2, <1>3, <1>4, <1>5, <1>6 DEF IInv, Sound

\* The loop of ~GSSharedState begins.
LEMMA CloseSweepInv ==
    ASSUME IInv, CloseSweep
    PROVE  IInv'
PROOF
<1> USE DistinctAssumption DEF Refs
<1>1. Typed /\ ChainLinked /\ ListsApart /\ LoopVariables /\ phase = "close"
      /\ GcT \in Cells /\ GcN \in Cells
  BY DEF IInv, Sound, CloseSweep, Cells
<1>2. /\ RefCountExact' /\ NoDanglingRef' /\ WeakRefsMutual' /\ DyingStack'
      /\ uiRef' \in [Refs -> Nat] /\ Given(GcT, gc_chain)
      /\ UNCHANGED <<life, dying, weakref, obj, marked, gc_chain, tchain, next, prev>>
  BY <1>1, BeginSweepSound DEF CloseSweep, LoopVariables, chain
<1>3. Typed' BY <1>1, <1>2 DEF Typed, Given
<1>4. ChainLinked' /\ ListsApart' BY <1>1, <1>2 DEF ChainLinked, ListsApart
<1>5. LoopVariables'
  BY <1>1, <1>2 DEF LoopVariables, CloseSweep, BeginSweep, Given, Phases, Typed
<1> QED BY <1>2, <1>3, <1>4, <1>5 DEF IInv, Sound

\* Inside the loop, t is a live object of the list.
LEMMA FinalizeInv ==
    ASSUME IInv, NEW c \in Cells, FinalizeField(c)
    PROVE  IInv'
PROOF
<1>1. cell[GcT] \in Objects BY DEF IInv, LoopVariables, FinalizeField
<1>2. c \in Cells \ {GcT, GcN} BY <1>1, OtherCells DEF FinalizeField
<1> QED BY <1>2, AssignInv DEF FinalizeField

\* The steps that only change the phase.
LEMMA PhaseInv ==
    ASSUME IInv, CollectGarbage \/ FinalizeEnd \/ Close
    PROVE  IInv'
PROOF
<1>1. UNCHANGED <<cell, uiRef, life, dying, weakref, obj, marked,
                  gc_chain, tchain, next, prev>>
  BY DEF CollectGarbage, FinalizeEnd, Close, heap, chain
<1>2. Sound'
  BY <1>1 DEF IInv, Sound, Typed, RefCountExact, NoDanglingRef, WeakRefsMutual,
              ChainLinked, DyingStack, ListsApart
<1>3. LoopVariables'
  BY <1>1 DEF IInv, LoopVariables, CollectGarbage, FinalizeEnd, Close, Idle, Phases
<1> QED BY <1>2, <1>3 DEF IInv

\* nx is the next of t, which the links say is live.
LEMMA TakeNextInv ==
    ASSUME IInv, TakeNext
    PROVE  IInv'
PROOF
<1> USE DistinctAssumption DEF Refs
<1> DEFINE nx == next[cell[GcT]]
<1>1. /\ Typed /\ RefCountExact /\ NoDanglingRef /\ WeakRefsMutual
      /\ ChainLinked /\ DyingStack /\ ListsApart /\ LoopVariables
      /\ GcT \in Cells /\ GcN \in Cells
  BY DEF IInv, Sound, Cells
<1>2. /\ cell[GcT] \in Objects /\ cell[GcN] = Null /\ nx \in Objects \cup {Null}
  BY <1>1 DEF LoopVariables, TakeNext, Typed
<1>3. nx # Null => life[nx] = "live"
  BY <1>1, <1>2 DEF ChainLinked
<1>4. /\ cell' = [cell EXCEPT ![GcN] = nx]
      /\ uiRef' = [r \in Refs |-> uiRef[r] + One(r, nx)]
      /\ UNCHANGED <<life, dying, weakref, obj, marked, gc_chain, tchain, next, prev>>
  BY DEF TakeNext, chain
<1> HIDE DEF nx
<1>5. Given(GcN, nx) BY <1>1, <1>2, <1>4 DEF Given, Typed
<1>6. uiRef' = Counts(GcN, nx)
  <2>1. \A r \in Refs : uiRef'[r] = uiRef[r] + One(r, nx) - One(r, cell[GcN])
    BY <1>1, <1>2, <1>4 DEF One, Typed
  <2> QED BY <2>1, <1>4 DEF Counts
<1>7. RefCountExact' /\ uiRef' \in [Refs -> Nat]
  BY <1>1, <1>2, <1>5, <1>6, CountsExact
<1>8. Typed' BY <1>1, <1>4, <1>5, <1>7 DEF Typed, Given
<1>9. NoDanglingRef' BY <1>1, <1>3, <1>4, <1>5 DEF NoDanglingRef, Given
<1>10. WeakRefsMutual' /\ ChainLinked' /\ DyingStack' /\ ListsApart'
  BY <1>1, <1>4 DEF WeakRefsMutual, ChainLinked, DyingStack, ListsApart
<1>11. LoopVariables'
  BY <1>1, <1>2, <1>4, <1>5 DEF LoopVariables, TakeNext, Given, Phases
<1> QED BY <1>7, <1>8, <1>9, <1>10, <1>11 DEF IInv, Sound

\* The loop lets go of t.
LEMMA DropTInv ==
    ASSUME IInv, DropT
    PROVE  IInv'
PROOF
<1>1. GcT \in Cells /\ GcN \in Cells /\ Typed BY DEF Cells, IInv, Sound
<1>2. Sound' BY <1>1, AssignSound DEF IInv, DropT
<1>3. tchain' = tchain /\ marked' = marked
  BY DEF DropT, Assign, WeakRelease, ObjRelease, RemoveFromChain, chain
<1>4. cell'[GcT] = Null /\ cell'[GcN] = cell[GcN]
  BY <1>1, DistinctAssumption DEF DropT, Assign, Typed
<1>5. LoopVariables'
  BY <1>3, <1>4 DEF IInv, LoopVariables, DropT, Phases
<1> QED BY <1>2, <1>5 DEF IInv

\* t = nx; after the last one the marked list becomes the list of all.
LEMMA AdvanceInv ==
    ASSUME IInv, Advance \/ CloseAdvance
    PROVE  IInv'
PROOF
<1> USE DistinctAssumption DEF Refs
<1>1. /\ Typed /\ RefCountExact /\ NoDanglingRef /\ WeakRefsMutual
      /\ ChainLinked /\ DyingStack /\ ListsApart /\ LoopVariables
      /\ GcT \in Cells /\ GcN \in Cells /\ GcT # GcN
  BY DEF IInv, Sound, Cells
<1>2. cell[GcT] = Null BY <1>1 DEF LoopVariables, Advance, CloseAdvance
<1>3. /\ cell' = [cell EXCEPT ![GcT] = cell[GcN], ![GcN] = Null]
      /\ UNCHANGED <<uiRef, life, dying, weakref, obj, next, prev>>
  BY DEF Advance, CloseAdvance, chain
<1>4. Moved(GcN, GcT) BY <1>1, <1>3 DEF Moved, Typed
<1>5. RefCountExact' BY <1>1, <1>2, <1>3, <1>4, MoveExact
<1>6. NoDanglingRef' BY <1>1, <1>3, <1>4 DEF NoDanglingRef, Moved
<1>7. WeakRefsMutual' /\ DyingStack'
  BY <1>1, <1>3 DEF WeakRefsMutual, DyingStack
<1>8. \/ UNCHANGED <<marked, gc_chain, tchain>>
      \/ marked' = {} /\ gc_chain' = tchain /\ tchain' = Null
  BY DEF Advance, CloseAdvance, chain
<1>9. Typed' BY <1>1, <1>3, <1>4, <1>8 DEF Typed, Moved
<1>10. ChainLinked' BY <1>1, <1>3, <1>8 DEF ChainLinked
<1>11. ListsApart' BY <1>1, <1>3, <1>8 DEF ListsApart
<1>12. LoopVariables'
  BY <1>1, <1>4 DEF LoopVariables, Advance, CloseAdvance, Moved, Phases, chain
<1> QED BY <1>5, <1>6, <1>7, <1>9, <1>10, <1>11, <1>12 DEF IInv, Sound

\* Every step of CollectGarbage.
LEMMA CollectInv ==
    ASSUME IInv, Collect
    PROVE  IInv'
PROOF
<1>1. ASSUME NEW p \in Outers, NEW r \in Registers, FinalizeOuter(p, r) PROVE IInv'
  BY <1>1, CopyOutInv DEF FinalizeOuter
<1> QED BY <1>1, MarkInv, EndMarkInv, FinalizeInv, PhaseInv, TakeNextInv, DropTInv, AdvanceInv
        DEF Collect

\* Every step of ~GSSharedState that is not one of CollectGarbage too.
LEMMA ShutdownInv ==
    ASSUME IInv, Shutdown
    PROVE  IInv'
PROOF
<1>1. ASSUME NEW c \in Slots, CloseRoot(c) PROVE IInv'
  BY <1>1, OtherCells, AssignInv DEF CloseRoot
<1>2. ASSUME NEW p \in Outers, NEW r \in Slots, CloseRootOuter(p, r) PROVE IInv'
  BY <1>2, CopyOutInv DEF CloseRootOuter, Registers
<1> QED BY <1>1, <1>2, CloseSweepInv, AdvanceInv DEF Shutdown

-----------------------------------------------------------------------------
\* A new state: nothing allocated.
LEMMA InitInv ==
    ASSUME Init
    PROVE  IInv
PROOF
<1> USE DistinctAssumption DEF Refs
<1>1. Typed BY DEF Init, Typed
<1>2. GcT \in Cells /\ GcN \in Cells BY DEF Cells
<1>3. RefCountExact
  <2>1. ASSUME NEW r \in Refs PROVE uiRef[r] = Count(cell, r)
    <3>1. \A x \in Cells : cell[x] # r BY DEF Init
    <3> QED BY <1>1, <3>1, CountZero DEF Init, Typed
  <2> QED BY <2>1 DEF RefCountExact
<1>4. NoDanglingRef /\ WeakRefsMutual /\ ChainLinked /\ ListsApart
  BY DEF Init, NoDanglingRef, WeakRefsMutual, ChainLinked, ListsApart
<1>5. DyingStack BY DEF Init, DyingStack
<1>6. LoopVariables BY <1>2 DEF Init, LoopVariables, Phases
<1> QED BY <1>1, <1>3, <1>4, <1>5, <1>6 DEF IInv, Sound

\* Every step preserves the inductive invariant.
LEMMA NextInv ==
    ASSUME IInv, [Next]_vars
    PROVE  IInv'
PROOF
<1>1. CASE Next
  BY <1>1, MutateInv, DestroyInv, CollectInv, ShutdownInv, PhaseInv DEF Next
<1>2. CASE UNCHANGED vars
  <2>1. UNCHANGED <<cell, uiRef, life, dying, weakref, obj, marked,
                    gc_chain, tchain, next, prev, phase>>
    BY <1>2 DEF vars, heap, chain
  <2> QED
    BY <2>1 DEF IInv, Sound, Typed, RefCountExact, NoDanglingRef, WeakRefsMutual,
                ChainLinked, DyingStack, ListsApart, LoopVariables
<1> QED BY <1>1, <1>2

\* What is proved by induction over the steps of the program; the theorems
\* below are its consequences.
THEOREM Invariant == Spec => []IInv
PROOF
<1>1. Init => IInv BY InitInv
<1>2. IInv /\ [Next]_vars => IInv' BY NextInv
<1> QED BY <1>1, <1>2, PTL DEF Spec

\* _uiRef is the number of references there are (GSobject.h __AddRef and
\* __Release, the ++ and -- of GSstate.cpp's loops).
THEOREM CountsAreExact == Spec => []RefCountExact
PROOF
<1>1. IInv => RefCountExact BY DEF IInv, Sound
<1> QED BY <1>1, Invariant, PTL

\* Nothing refers to memory that was freed or is being freed: the Release
\* of a script's object, of the collector's t, of a weak reference never
\* comes before the last reference is gone.
THEOREM NothingDangles == Spec => []NoDanglingRef
PROOF
<1>1. IInv => NoDanglingRef BY DEF IInv, Sound
<1> QED BY <1>1, Invariant, PTL

\* A weak reference and its object forget each other in time
\* (~GSRefCounted, GSWeakRef::Release).
THEOREM WeakRefsAreMutual == Spec => []WeakRefsMutual
PROOF
<1>1. IInv => WeakRefsMutual BY DEF IInv, Sound
<1> QED BY <1>1, Invariant, PTL

\* AddToChain, RemoveFromChain and the mark phase keep both lists doubly
\* linked through live objects.
THEOREM ChainsStayLinked == Spec => []ChainLinked
PROOF
<1>1. IInv => ChainLinked BY DEF IInv, Sound
<1> QED BY <1>1, Invariant, PTL

-----------------------------------------------------------------------------
(* Open outers.                                                            *)

\* A step that opens and closes no outer: it fills the value of closed ones only,
\* and forgets what the sweep has closed when the sweep is over.
Quiet ==
    /\ closing' = closing
    /\ lost' = {} \/ (lost' = lost /\ (phase \in Sweeping => phase' \in Sweeping))
    /\ \A r \in Registers : cell'[<<Open, r>>] \in {cell[<<Open, r>>], Null}
    /\ \A p \in Outers : \/ cell'[<<p, Value>>] \in {cell[<<p, Value>>], Null}
                          \/ \A r \in Registers : ~OpenAt(p, r)

\* Every step but the four that open and close outers.
LEMMA OtherSteps ==
    ASSUME IInv, Next
    PROVE  \/ Quiet
           \/ \E p \in Outers, r \in Within \cap Registers : FindOuter(p, r)
           \/ \E p \in Outers, r \in Registers : CopyOut(p, r)
           \/ \E r \in Registers : LetGo(r)
PROOF
<1> USE DistinctAssumption, OutersAssumption
<1>1. /\ cell \in [Cells -> Refs \cup {Null}]
      /\ \A r \in Registers : <<Open, r>> \in OpenCells
      /\ \A p \in Outers : <<p, Value>> \in Objects \X Fields
      /\ (Objects \X Fields) \cap OpenCells = {}
      /\ OpenCells \subseteq Cells /\ Objects \X Fields \subseteq Cells
  BY DEF IInv, Sound, Typed, OpenCells, Cells
<1>2. ASSUME \A x \in OpenCells \cup (Objects \X Fields) : cell'[x] = cell[x] \/ cell'[x] = Null,
             closing' = closing,
             lost' = {} \/ (lost' = lost /\ (phase \in Sweeping => phase' \in Sweeping))
      PROVE  Quiet
  BY <1>1, <1>2 DEF Quiet
<1>3. ASSUME NEW c, Assign(c, Null), UNCHANGED closes, phase \in Sweeping => phase' \in Sweeping
      PROVE  Quiet
  <2>1. \A x \in Cells : cell'[x] = cell[x] \/ cell'[x] = Null BY <1>1, <1>3 DEF Assign
  <2> QED BY <1>1, <1>2, <1>3, <2>1 DEF closes
<1>4. ASSUME NEW C \in SUBSET (Slots \cup Locals \cup {GcT, GcN}),
             \A x \in Cells \ C : cell'[x] = cell[x], closing' = closing,
             lost' = {} \/ (lost' = lost /\ (phase \in Sweeping => phase' \in Sweeping))
      PROVE  Quiet
  BY <1>1, <1>2, <1>4
<1>5. ASSUME NEW o, NEW c \in Slots \cup Locals, New(o, c) PROVE Quiet
  <2>1. \A x \in Cells \ {c} : cell'[x] = cell[x] BY <1>1, <1>5 DEF New
  <2> QED BY <1>4, <1>5, <2>1 DEF New, closes
<1>6. ASSUME NEW c, c \in Within \cup Filled, NEW v, Store(c, v) PROVE Quiet
  <2>1. c \in Cells /\ \A x \in Cells \ {c} : cell'[x] = cell[x]
    BY <1>1, <1>6, ValuesLive DEF Store, Assign
  <2>2. c \notin OpenCells
    <3>1. Within \cup Filled \subseteq Slots \cup (Objects \X Fields)
      <4>1. \A p \in Outers : Variable(p) \subseteq Slots \cup (Objects \X Fields)
        BY <1>1 DEF Variable, Registers
      <4>2. \A o \in Plain \cup Threads : OwnFields(o) \subseteq Objects \X Fields
        BY DEF OwnFields, Plain
      <4> QED BY <4>1, <4>2, WithinAre
    <3> QED BY <1>1, <1>6, <3>1
  <2>3. ASSUME NEW p \in Outers, c = <<p, Value>>, NEW r \in Registers, OpenAt(p, r) PROVE FALSE
    <3>1. c \in Objects \X Fields /\ c \notin Slots BY <1>1, <2>3
    <3>2. \A o \in Plain \cup Threads : c \notin OwnFields(o)
      BY <2>3 DEF OwnFields, Plain
    <3>3. \A q \in Outers : c \notin Variable(q)
      <4> SUFFICES ASSUME NEW q \in Outers, c \in Variable(q) PROVE FALSE
        OBVIOUS
      <4>1. c \notin Registers BY <2>3, <3>1 DEF Registers
      <4>2. c = <<q, Value>> /\ \A x \in Registers : ~OpenAt(q, x) BY <4>1 DEF Variable
      <4> QED BY <2>3, <4>2
    <3> QED BY <1>6, <3>1, <3>2, <3>3, WithinAre
  <2>4. closing' = closing /\ lost' = lost /\ phase' = phase BY <1>6 DEF Store, closes
  <2>5. \A p \in Outers : <<p, Value>> \in Cells BY <1>1
  <2>6. \A r \in Registers : <<Open, r>> \in Cells \ {c} BY <1>1, <2>2
  <2> QED BY <2>1, <2>3, <2>4, <2>5, <2>6 DEF Quiet
<1>7. ASSUME NEW o \in Objects, NEW m, Delegate \in Fields, SetDelegate(o, m) PROVE Quiet
  <2>1. \A x \in Cells \ {<<o, Delegate>>} : cell'[x] = cell[x]
    BY <1>1, <1>7 DEF SetDelegate, Assign
  <2>2. <<o, Delegate>> \in Objects \X Fields BY <1>7
  <2>3. \A p \in Outers : <<p, Value>> \in Cells \ {<<o, Delegate>>} BY <1>1
  <2>4. \A r \in Registers : <<Open, r>> \in Cells \ {<<o, Delegate>>} BY <1>1, <2>2
  <2> QED BY <1>7, <2>1, <2>3, <2>4 DEF SetDelegate, Quiet, closes
<1>8. ASSUME NEW o, NEW w, NEW c \in Slots, GetWeakRef(o, w, c) PROVE Quiet
  <2>1. \A x \in Cells \ {c} : cell'[x] = cell[x] BY <1>1, <1>8 DEF GetWeakRef
  <2> QED BY <1>4, <1>8, <2>1 DEF GetWeakRef, closes
<1>9. ASSUME NEW w, NEW c \in Slots, Deref(w, c) PROVE Quiet
  <2>1. \A x \in Cells \ {c} : cell'[x] = cell[x] BY <1>1, <1>9 DEF Deref, Assign
  <2> QED BY <1>4, <1>9, <2>1 DEF Deref, closes
<1>10. ASSUME NEW l \in Locals, NEW c \in Slots, Return(l, c) PROVE Quiet
  <2>1. \A x \in Cells \ {c, l} : cell'[x] = cell[x] BY <1>1, <1>10 DEF Return
  <2> QED BY <1>4, <1>10, <2>1 DEF Return, closes
<1>11. CASE Mutate
  <2>1. \/ \E p \in Outers, r \in Within \cap Registers : FindOuter(p, r)
        \/ \E p \in Outers, r \in Within \cap Registers : LeaveBlock(p, r)
        \/ Quiet
    BY <1>5, <1>6, <1>7, <1>8, <1>9, <1>10, <1>11 DEF Mutate, Plain
  <2> QED BY <2>1 DEF LeaveBlock
<1>12. ASSUME NEW c, DestroyField(c) \/ FinalizeField(c) \/ CloseRoot(c) PROVE Quiet
  <2>1. Assign(c, Null) /\ UNCHANGED <<phase, closes>>
    BY <1>12 DEF DestroyField, FinalizeField, CloseRoot
  <2> QED BY <1>3, <2>1
<1>13. CASE DropT
  <2>1. Assign(GcT, Null) /\ UNCHANGED closes BY <1>13 DEF DropT
  <2>2. phase \in Sweeping => phase' \in Sweeping BY <1>13 DEF DropT, Sweeping
  <2> QED BY <1>3, <2>1, <2>2
<1>14. CASE \/ DestroyEnd \/ FinalizeEnd \/ CollectGarbage \/ Close
            \/ \E o \in Objects : Mark(o)
  <2>1. cell' = cell /\ closing' = closing /\ lost' = lost
    BY <1>14 DEF DestroyEnd, Mark, FinalizeEnd, CollectGarbage, Close, heap, closes
  <2>2. phase \in Sweeping => phase' \in Sweeping
    BY <1>14 DEF DestroyEnd, Mark, FinalizeEnd, CollectGarbage, Close, Idle, Sweeping
  <2> QED BY <1>1, <1>2, <2>1, <2>2
<1>15. CASE EndMark \/ CloseSweep \/ TakeNext
  <2>1. /\ \A x \in Cells \ {GcT, GcN} : cell'[x] = cell[x]
        /\ closing' = closing /\ lost' = lost
    BY <1>1, <1>15 DEF EndMark, CloseSweep, BeginSweep, TakeNext, closes
  <2>2. phase \in Sweeping => phase' \in Sweeping
    BY <1>15 DEF EndMark, CloseSweep, TakeNext, Sweeping
  <2> QED BY <1>4, <2>1, <2>2
<1>16. CASE Advance \/ CloseAdvance
  <2>1. /\ \A x \in Cells \ {GcT, GcN} : cell'[x] = cell[x]
        /\ closing' = closing
    BY <1>1, <1>16 DEF Advance, CloseAdvance, closes
  <2>2. lost' = {} \/ (lost' = lost /\ (phase \in Sweeping => phase' \in Sweeping))
    BY <1>16 DEF Advance, CloseAdvance, closes, Sweeping
  <2> QED BY <1>4, <2>1, <2>2
<1>17. CASE Destroy
  BY <1>12, <1>14, <1>17 DEF Destroy, DestroyOuter
<1>18. CASE Collect
  BY <1>12, <1>13, <1>14, <1>15, <1>16, <1>18 DEF Collect, FinalizeOuter
<1>19. CASE Shutdown
  BY <1>12, <1>15, <1>16, <1>19 DEF Shutdown, CloseRootOuter, Registers
<1> QED BY <1>11, <1>14, <1>17, <1>18, <1>19 DEF Next

\* The cells of open outers and those of their values.
LEMMA OpenAndValue ==
    ASSUME IInv
    PROVE  /\ cell \in [Cells -> Refs \cup {Null}]
           /\ \A r \in Registers : <<Open, r>> \in Cells
           /\ \A p \in Outers : <<p, Value>> \in Cells
           /\ \A p \in Outers : \A r : <<Open, r>> # <<p, Value>>
PROOF
<1>1. \A p \in Outers : \A r : <<Open, r>> # <<p, Value>> BY OutersAssumption
<1>2. \A p \in Outers : <<p, Value>> \in Cells BY OtherCells, OutersAssumption
<1> QED BY <1>1, <1>2, OtherCells DEF IInv, Sound, Typed, OpenCells

\* What the three steps of open outers do to the cells.
LEMMA FindStep ==
    ASSUME IInv, NEW p \in Outers, NEW r \in Registers, FindOuter(p, r)
    PROVE  /\ UNCHANGED <<closing, lost, phase>> /\ life[p] = "free" /\ phase = "run"
           /\ cell'[<<Open, r>>] = p
           /\ \A c \in Cells \ {<<Open, r>>} : cell'[c] = cell[c]
PROOF
<1>1. cell' = [cell EXCEPT ![<<Open, r>>] = p] BY DEF FindOuter, New
<1>2. UNCHANGED <<closing, lost, phase>> /\ life[p] = "free" /\ phase = "run"
  BY DEF FindOuter, New, Idle, closes
<1> QED BY <1>1, <1>2, OpenAndValue

LEMMA CopyStep ==
    ASSUME IInv, NEW p \in Outers, NEW r \in Registers, CopyOut(p, r)
    PROVE  /\ phase' = phase /\ marked' = marked
           /\ closing = Null /\ closing' = r /\ OpenAt(p, r)
           /\ lost' \in SUBSET (lost \cup {p}) /\ lost \subseteq lost'
           /\ phase \in Sweeping => p \in lost'
           /\ phase \notin Sweeping => lost' = lost
           /\ \A c \in Cells \ {<<p, Value>>} : cell'[c] = cell[c]
PROOF
<1>1. cell' = [cell EXCEPT ![<<p, Value>>] = cell[r]] BY DEF CopyOut, Assign
<1>2. /\ phase' = phase /\ marked' = marked
      /\ closing = Null /\ closing' = r /\ OpenAt(p, r)
      /\ lost' = IF phase \in Sweeping THEN lost \cup {p} ELSE lost
  BY DEF CopyOut
<1> QED BY <1>1, <1>2, OpenAndValue

LEMMA LetGoStep ==
    ASSUME IInv, NEW r \in Registers, LetGo(r)
    PROVE  /\ UNCHANGED <<lost, phase, marked>> /\ closing = r /\ closing' = Null
           /\ cell'[<<Open, r>>] = Null
           /\ \A c \in Cells \ {<<Open, r>>} : cell'[c] = cell[c]
PROOF
<1>1. cell' = [cell EXCEPT ![<<Open, r>>] = Null] BY DEF LetGo, Assign
<1>2. UNCHANGED <<lost, phase, marked>> /\ closing = r /\ closing' = Null BY DEF LetGo
<1> QED BY <1>1, <1>2, OpenAndValue

\* Every step keeps the types.
LEMMA ClosesStep ==
    ASSUME IInv, ClosesTyped, [Next]_vars
    PROVE  ClosesTyped'
PROOF
<1>1. CASE Quiet BY <1>1 DEF ClosesTyped, Quiet
<1>2. ASSUME NEW p \in Outers, NEW r \in Registers, FindOuter(p, r) PROVE ClosesTyped'
  <2>1. \A q \in Registers : cell'[<<Open, q>>] \in {cell[<<Open, q>>], p}
    BY <1>2, FindStep, OpenAndValue
  <2> QED BY <1>2, <2>1, FindStep DEF ClosesTyped
<1>3. ASSUME NEW p \in Outers, NEW r \in Registers, CopyOut(p, r) PROVE ClosesTyped'
  <2>1. \A q \in Registers : cell'[<<Open, q>>] = cell[<<Open, q>>]
    BY <1>3, CopyStep, OpenAndValue
  <2> QED BY <1>3, <2>1, CopyStep DEF ClosesTyped
<1>4. ASSUME NEW r \in Registers, LetGo(r) PROVE ClosesTyped'
  <2>1. \A q \in Registers : cell'[<<Open, q>>] \in {cell[<<Open, q>>], Null}
    BY <1>4, LetGoStep, OpenAndValue
  <2> QED BY <1>4, <2>1, LetGoStep DEF ClosesTyped
<1>5. CASE UNCHANGED vars BY <1>5 DEF vars, heap, closes, ClosesTyped
<1> QED BY <1>1, <1>2, <1>3, <1>4, <1>5, OtherSteps

\* A new state has them.
LEMMA ClosesInit ==
    ASSUME Init
    PROVE  ClosesTyped
PROOF
<1>1. \A r \in Registers : <<Open, r>> \in Cells BY OtherCells DEF OpenCells
<1> QED BY <1>1 DEF Init, ClosesTyped

\* Every variable keeps its type: nothing that a list, a count or a loop
\* variable of the collector may hold is ever anything else.
THEOREM TypeCorrect == Spec => []TypeOK
PROOF
<1>1. IInv /\ ClosesTyped => TypeOK
  BY DistinctAssumption DEF IInv, Sound, Typed, LoopVariables, ClosesTyped, TypeOK, Refs
<1>2. Init => ClosesTyped BY ClosesInit
<1>3. IInv /\ ClosesTyped /\ [Next]_vars => ClosesTyped' BY ClosesStep
<1> QED BY <1>1, <1>2, <1>3, Invariant, PTL DEF Spec

-----------------------------------------------------------------------------
(* The sweep leaves the marked objects alone.  Besides SweepSparesMarked,  *)
(* the marked objects have to be known live while RunMark is at work.      *)

MarkedLive == \A o \in marked : life[o] = "live"
SInv == IInv /\ MarkedLive /\ SweepSparesMarked

\* A counted assignment deletes no marked object.
LEMMA AssignMarked ==
    ASSUME SInv, NEW c \in Cells, NEW v \in Refs \cup {Null}, Assign(c, v),
           UNCHANGED marked
    PROVE  MarkedLive'
PROOF
<1> USE DistinctAssumption DEF Refs
<1>1. Typed /\ MarkedLive BY DEF SInv, IInv, Sound
<1>2. CASE Dead(c, v) /\ cell[c] \in Weaks /\ WeakRelease(cell[c])
  BY <1>1, <1>2 DEF Typed, MarkedLive, WeakRelease
<1>3. CASE Dead(c, v) /\ cell[c] \in Objects /\ ObjRelease(cell[c])
  BY <1>1, <1>3 DEF Typed, MarkedLive, ObjRelease, Dead
<1>4. CASE ~Dead(c, v) /\ UNCHANGED <<life, dying, weakref, obj, chain>>
  BY <1>1, <1>4 DEF MarkedLive
<1> QED BY <1>2, <1>3, <1>4 DEF Assign

\* To empty a cell leaves what is known of the sweep.
LEMMA EmptySparesMarked ==
    ASSUME SInv, NEW c \in Cells, Assign(c, Null), UNCHANGED <<marked, lost>>,
           phase' \in Sweeping => phase \in Sweeping
    PROVE  SweepSparesMarked'
PROOF
<1> USE DistinctAssumption DEF Refs
<1>1. Typed BY DEF SInv, IInv, Sound
<1>2. \A x \in Cells : cell'[x] = cell[x] \/ cell'[x] = Null
  BY <1>1 DEF Assign, Typed
<1>3. GcT \in Cells /\ GcN \in Cells /\ Slots \subseteq Cells /\ FieldsOf(marked) \subseteq Cells
  BY <1>1 DEF Cells, Typed, FieldsOf
<1>4. MarkedLive' BY AssignMarked
<1>5. Null \notin marked /\ Null \notin Objects BY <1>1 DEF Typed
<1> SUFFICES ASSUME phase \in Sweeping PROVE SweepSparesMarked'
  BY DEF SweepSparesMarked
<1>6. /\ \A x \in Slots \cup FieldsOf(marked) : cell[x] \in Objects => cell[x] \in marked
      /\ cell[GcT] \notin marked /\ cell[GcN] \notin marked
  BY DEF SInv, SweepSparesMarked
<1>7. \A x \in Slots \cup FieldsOf(marked)' : cell'[x] \in Objects => cell'[x] \in marked
  BY <1>2, <1>3, <1>5, <1>6 DEF FieldsOf
<1>8. cell'[GcT] \notin marked /\ cell'[GcN] \notin marked
  BY <1>2, <1>3, <1>5, <1>6
<1> QED BY <1>4, <1>7, <1>8 DEF SweepSparesMarked, MarkedLive

\* Outside a collection nothing is marked.
LEMMA Unmarked ==
    ASSUME IInv', phase' \in {"run", "close", "closefinalize", "closenext",
                              "closedrop", "closeadvance", "closed"}
    PROVE  MarkedLive' /\ SweepSparesMarked'
PROOF
BY DEF IInv, LoopVariables, MarkedLive, SweepSparesMarked, Sweeping

\* Closing an outer of a garbage thread: the outer keeps what the register had,
\* and is from then on among the lost.
LEMMA CopyOutSpares ==
    ASSUME SInv, NEW p \in Outers, NEW r \in Registers, CopyOut(p, r)
    PROVE  MarkedLive' /\ SweepSparesMarked'
PROOF
<1> USE DistinctAssumption DEF Refs
<1>1. IInv /\ Typed /\ GcT \in Cells /\ GcN \in Cells
      /\ Slots \subseteq Cells /\ FieldsOf(marked) \subseteq Cells
      /\ <<p, Value>> \in Cells \ ({GcT, GcN} \cup Slots)
      /\ r \in Cells
  BY OtherCells, OutersAssumption DEF SInv, IInv, Sound, Cells, Typed, OwnFields, FieldsOf
<1>2. cell[r] \in Refs \cup {Null} BY <1>1 DEF Typed
<1>3. MarkedLive' BY <1>1, <1>2, AssignMarked DEF CopyOut
<1>4. /\ phase' = phase /\ marked' = marked /\ lost \subseteq lost'
      /\ phase \in Sweeping => p \in lost'
      /\ \A c \in Cells \ {<<p, Value>>} : cell'[c] = cell[c]
  BY <1>1, CopyStep
<1> SUFFICES ASSUME phase \in Sweeping PROVE SweepSparesMarked'
  BY <1>3, <1>4 DEF SweepSparesMarked
<1>5. FieldsOf(marked)' \subseteq FieldsOf(marked) \ {<<p, Value>>} BY <1>4 DEF FieldsOf
<1>6. /\ \A x \in Slots \cup FieldsOf(marked) : cell[x] \in Objects => cell[x] \in marked
      /\ cell[GcT] \notin marked /\ cell[GcN] \notin marked
  BY DEF SInv, SweepSparesMarked
<1>7. \A x \in Slots \cup FieldsOf(marked)' : cell'[x] \in Objects => cell'[x] \in marked
  BY <1>1, <1>4, <1>5, <1>6
<1>8. cell'[GcT] \notin marked /\ cell'[GcN] \notin marked BY <1>1, <1>4, <1>6
<1> QED BY <1>3, <1>4, <1>7, <1>8 DEF SweepSparesMarked, MarkedLive

\* The list of open outers lets one go.
LEMMA LetGoSpares ==
    ASSUME SInv, NEW r \in Registers, LetGo(r)
    PROVE  MarkedLive' /\ SweepSparesMarked'
PROOF
<1>1. <<Open, r>> \in Cells BY OtherCells DEF OpenCells
<1> QED BY <1>1, AssignMarked, EmptySparesMarked DEF LetGo

\* Destructors that the sweep sets off leave the marked objects.
LEMMA DestroySpares ==
    ASSUME SInv, Destroy
    PROVE  MarkedLive' /\ SweepSparesMarked'
PROOF
<1> USE DistinctAssumption DEF Refs
<1>1. ASSUME NEW c \in Cells, DestroyField(c) PROVE MarkedLive' /\ SweepSparesMarked'
  BY <1>1, AssignMarked, EmptySparesMarked DEF DestroyField, closes
<1>2. CASE DestroyEnd
  <2>1. Typed /\ DyingStack /\ MarkedLive BY DEF SInv, IInv, Sound
  <2>2. Head(dying) \in Objects /\ life[Head(dying)] # "live"
    <3>1. dying \in Seq(Objects) /\ dying # <<>> BY <1>2, <2>1 DEF Typed, DestroyEnd
    <3>2. 1 \in 1 .. Len(dying) /\ Head(dying) = dying[1] /\ dying[1] \in Objects BY <3>1
    <3> QED BY <2>1, <3>2 DEF DyingStack
  <2>3. /\ life' = [life EXCEPT ![Head(dying)] = "free"]
        /\ UNCHANGED <<cell, marked, lost, phase>>
    BY <1>2 DEF DestroyEnd, closes
  <2>4. MarkedLive' BY <2>1, <2>2, <2>3 DEF MarkedLive, Typed
  <2> QED BY <2>3, <2>4 DEF SInv, SweepSparesMarked, MarkedLive, FieldsOf
<1>3. ASSUME NEW p \in Outers, NEW r \in Registers, DestroyOuter(p, r)
      PROVE  MarkedLive' /\ SweepSparesMarked'
  BY <1>3, CopyOutSpares DEF DestroyOuter
<1> QED BY <1>1, <1>2, <1>3, LetGoSpares DEF Destroy

\* So does every step of the collector itself.
LEMMA CollectSpares ==
    ASSUME SInv, Collect
    PROVE  MarkedLive' /\ SweepSparesMarked'
PROOF
<1> USE DistinctAssumption DEF Refs
<1>1. /\ Typed /\ NoDanglingRef /\ ChainLinked /\ ListsApart /\ LoopVariables
      /\ MarkedLive /\ GcT \in Cells /\ GcN \in Cells /\ GcT # GcN
      /\ Slots \subseteq Cells \ {GcT, GcN}
      /\ marked \X Fields \subseteq Cells \ {GcT, GcN}
      /\ FieldsOf(marked) \subseteq Cells \ {GcT, GcN}
  BY OtherCells DEF SInv, IInv, Sound, Cells, Typed, OwnFields, FieldsOf
<1>2. IInv' BY CollectInv DEF SInv
<1>3. ASSUME NEW o \in Objects, Mark(o) PROVE MarkedLive' /\ SweepSparesMarked'
  <2>1. PICK c \in Slots \cup (marked \X Fields) : cell[c] = o BY <1>3 DEF Mark, ToMark
  <2>2. life[o] = "live" BY <1>1, <2>1 DEF NoDanglingRef
  <2>3. life' = life /\ marked' = marked \cup {o} /\ phase' = "mark" BY <1>3 DEF Mark, heap
  <2> QED BY <1>1, <2>2, <2>3 DEF MarkedLive, SweepSparesMarked, Sweeping
<1>4. CASE EndMark
  <2>1. CASE gc_chain = Null
    <3>1. phase' = "run" BY <1>4, <2>1 DEF EndMark, BeginSweep
    <3> QED BY <1>2, <3>1, Unmarked
  <2>2. CASE gc_chain # Null
    <3>1. /\ marked' = marked /\ life' = life /\ cell' = [cell EXCEPT ![GcT] = gc_chain]
          /\ ToMark = {} /\ phase = "mark"
      BY <1>4, <2>2 DEF EndMark, BeginSweep
    <3>2. \A c \in Slots \cup (marked \X Fields) : cell'[c] = cell[c]
      BY <1>1, <3>1 DEF Typed
    <3>3. \A c \in Slots \cup (marked \X Fields) : cell[c] \in Objects => cell[c] \in marked
      BY <3>1 DEF ToMark
    <3>4. cell'[GcT] = gc_chain /\ cell'[GcN] = Null /\ gc_chain \notin marked
      BY <1>1, <2>2, <3>1 DEF Typed, LoopVariables, ListsApart
    <3>5. FieldsOf(marked)' \subseteq marked \X Fields BY <3>1 DEF FieldsOf
    <3>6. \A c \in Slots \cup FieldsOf(marked)' : cell'[c] \in Objects => cell'[c] \in marked
      BY <3>2, <3>3, <3>5
    <3> QED BY <1>1, <3>1, <3>4, <3>6 DEF MarkedLive, SweepSparesMarked, Typed
  <2> QED BY <2>1, <2>2
<1>5. ASSUME NEW c \in Cells, FinalizeField(c) PROVE MarkedLive' /\ SweepSparesMarked'
  BY <1>5, AssignMarked, EmptySparesMarked DEF FinalizeField, closes
<1>6. CASE FinalizeEnd
  <2>1. UNCHANGED <<cell, life, marked, lost>> /\ (phase' \in Sweeping => phase \in Sweeping)
    BY <1>6 DEF FinalizeEnd, heap, closes, Sweeping
  <2> QED BY <1>1, <2>1 DEF SInv, MarkedLive, SweepSparesMarked, FieldsOf
<1>7. CASE TakeNext
  <2>1. /\ cell' = [cell EXCEPT ![GcN] = next[cell[GcT]]]
        /\ UNCHANGED <<life, marked, lost>> /\ (phase' \in Sweeping => phase \in Sweeping)
        /\ cell[GcT] \in Objects
    BY <1>1, <1>7 DEF TakeNext, Sweeping, LoopVariables, closes
  <2>2. /\ \A c \in Slots \cup FieldsOf(marked) : cell'[c] = cell[c]
        /\ cell'[GcT] = cell[GcT] /\ cell'[GcN] = next[cell[GcT]]
    BY <1>1, <2>1 DEF Typed
  <2>3. cell[GcT] \notin marked => next[cell[GcT]] \notin marked
    BY <1>1, <2>1 DEF ListsApart, Typed
  <2>4. MarkedLive' BY <1>1, <2>1 DEF MarkedLive
  <2>5. SweepSparesMarked'
    <3> SUFFICES ASSUME phase \in Sweeping PROVE SweepSparesMarked'
      BY <2>1 DEF SweepSparesMarked
    <3>1. /\ \A x \in Slots \cup FieldsOf(marked) : cell[x] \in Objects => cell[x] \in marked
          /\ cell[GcT] \notin marked
      BY DEF SInv, SweepSparesMarked
    <3>2. \A x \in Slots \cup FieldsOf(marked) : cell'[x] \in Objects => cell'[x] \in marked
      BY <2>2, <3>1
    <3>3. cell'[GcT] \notin marked /\ cell'[GcN] \notin marked BY <2>2, <2>3, <3>1
    <3>4. marked' = marked /\ FieldsOf(marked)' = FieldsOf(marked) BY <2>1 DEF FieldsOf
    <3> QED BY <2>4, <3>2, <3>3, <3>4 DEF SweepSparesMarked, MarkedLive
  <2> QED BY <2>4, <2>5
<1>8. CASE DropT
  <2>1. phase' \in Sweeping => phase \in Sweeping BY <1>8 DEF DropT, Sweeping
  <2> QED BY <1>1, <1>8, <2>1, AssignMarked, EmptySparesMarked DEF DropT, closes
<1>9. CASE Advance
  <2>1. CASE cell[GcN] = Null
    BY <1>2, <1>9, <2>1, Unmarked DEF Advance
  <2>2. CASE cell[GcN] # Null
    <3>1. /\ cell' = [cell EXCEPT ![GcT] = cell[GcN], ![GcN] = Null]
          /\ UNCHANGED <<life, marked, lost>> /\ phase = "advance"
      BY <1>9, <2>2 DEF Advance
    <3>2. /\ \A c \in Slots \cup FieldsOf(marked) : cell'[c] = cell[c]
          /\ cell'[GcT] = cell[GcN] /\ cell'[GcN] = Null
      BY <1>1, <3>1 DEF Typed
    <3>3. /\ \A c \in Slots \cup FieldsOf(marked) : cell[c] \in Objects => cell[c] \in marked
          /\ cell[GcN] \notin marked
      BY <3>1 DEF SInv, SweepSparesMarked, Sweeping
    <3>4. FieldsOf(marked)' = FieldsOf(marked) BY <3>1 DEF FieldsOf
    <3>5. \A c \in Slots \cup FieldsOf(marked) : cell'[c] \in Objects => cell'[c] \in marked
      BY <3>2, <3>3
    <3> QED BY <1>1, <3>1, <3>2, <3>3, <3>4, <3>5 DEF MarkedLive, SweepSparesMarked, Typed
  <2> QED BY <2>1, <2>2
<1>10. ASSUME NEW p \in Outers, NEW r \in Registers, FinalizeOuter(p, r)
       PROVE  MarkedLive' /\ SweepSparesMarked'
  BY <1>10, CopyOutSpares DEF FinalizeOuter
<1> QED BY <1>3, <1>4, <1>5, <1>6, <1>7, <1>8, <1>9, <1>10 DEF Collect

\* Every step preserves what is known of the sweep.
LEMMA SweepInv ==
    ASSUME SInv, [Next]_vars
    PROVE  SInv'
PROOF
<1>1. IInv' BY NextInv DEF SInv
<1>2. CASE Mutate \/ Close \/ Shutdown
  <2>1. phase' \in {"run", "close", "closefinalize", "closenext",
                    "closedrop", "closeadvance", "closed"}
    BY <1>2 DEF Mutate, New, Store, SetDelegate, GetWeakRef, Deref, Return, Idle,
                FindOuter, LeaveBlock, CopyOut, CloseRootOuter,
                Close, Shutdown, CloseRoot, CloseSweep, CloseAdvance, BeginSweep
  <2> QED BY <1>1, <2>1, Unmarked DEF SInv
<1>3. CASE CollectGarbage
  BY <1>1, <1>3 DEF CollectGarbage, Idle, SInv, IInv, LoopVariables, MarkedLive,
                    SweepSparesMarked, heap, Sweeping
<1>4. CASE Destroy BY <1>1, <1>4, DestroySpares DEF SInv
<1>5. CASE Collect BY <1>1, <1>5, CollectSpares DEF SInv
<1>6. CASE UNCHANGED vars
  BY <1>1, <1>6 DEF vars, heap, closes, SInv, MarkedLive, SweepSparesMarked, FieldsOf
<1> QED BY <1>2, <1>3, <1>4, <1>5, <1>6 DEF Next

\* A collection never empties or frees what the roots or a marked object
\* refer to (CollectGarbage and the destructors that its loop sets off), but for
\* the value of an outer that CloseOuters has closed during the sweep.
THEOREM SweepSpares == Spec => []SweepSparesMarked
PROOF
<1>1. Init => SInv
  BY InitInv DEF Init, SInv, MarkedLive, SweepSparesMarked, Sweeping
<1>2. SInv /\ [Next]_vars => SInv' BY SweepInv
<1>3. SInv => SweepSparesMarked BY DEF SInv
<1> QED BY <1>1, <1>2, <1>3, PTL DEF Spec

-----------------------------------------------------------------------------
(***************************************************************************)
(* What a collection of GSHeap frees, for every number of objects, fields  *)
(* and roots: never anything reachable, and, when no native function holds *)
(* an object in a local and no thread has open outers, all that is not.    *)
(* Closing the state frees the rest.  Delegates form no cycles.            *)
(*                                                                         *)
(* "Reachable" and "in the list" are stated by closed sets: an object is   *)
(* reachable if it is in every set that has the roots' objects and those   *)
(* that its own refer to.  To show that an object is reachable (or listed) *)
(* after a step, a closed set of the state after the step is turned into   *)
(* one of the state before it.                                             *)
(***************************************************************************)
Marking == {"mark"} \cup Sweeping
Closing == {"closefinalize", "closenext", "closedrop", "closeadvance", "closed"}

\* The members of S have their successors in it.
NextClosed(S) == \A x \in S : next[x] \in S \cup {Null}

\* The objects of the list that begins with h.
From(h) ==
    {o \in Objects : \A S \in SUBSET Objects : h \in S \cup {Null} /\ NextClosed(S) => o \in S}

Empty(o) == \A c \in OwnFields(o) : cell[c] = Null

\* Marking follows references only.
MarkedReachable == phase \in Marking => marked \subseteq ReachableFrom(Slots)

\* Every object is in the list it should be in.
Listed ==
    /\ phase \in {"run", "mark", "close"} =>
          \A o \in Objects : life[o] = "live" /\ o \notin marked => o \in From(gc_chain)
    /\ marked \subseteq From(tchain)

\* Objects that still have something are in the list that begins with h.
Unswept(h) ==
    \A o \in Objects : life[o] = "live" /\ o \notin marked /\ ~Empty(o) => o \in From(h)

\* The loop has emptied what lies behind it.
SweptBehind ==
    /\ phase \in {"finalize", "closefinalize"} => Unswept(cell[GcT])
    /\ phase \in {"next", "closenext"} => Unswept(next[cell[GcT]])
    /\ phase \in {"drop", "advance", "closedrop", "closeadvance"} => Unswept(cell[GcN])
    /\ phase = "closed" => Unswept(Null)

\* What is live is referred to, but for what is marked.
LiveCounted == \A r \in Refs : life[r] = "live" /\ r \notin marked => uiRef[r] # 0

FreeEmpty == \A o \in Objects : life[o] = "free" => Empty(o)

\* A freed thread has left no open outers.
FreeClosed == \A o \in Objects : life[o] = "free" => NoneOpen(OwnFields(o))

\* An outer is open at one register.
OpensOnce ==
    \A p \in Outers : \A q, r \in Registers : OpenAt(p, q) /\ OpenAt(p, r) => q = r

\* It has no value of its own until CloseOuters gives it one.
OpenEmpty ==
    \A p \in Outers : \A r \in Registers :
        OpenAt(p, r) /\ r # closing => cell[<<p, Value>>] = Null

\* Destructors run, and outers are closed, only at other places than these.
NoneDying ==
    phase \in {"mark", "next", "drop", "closenext", "closedrop", "closed"} => Between

RootsGone == phase \in Closing => \A c \in Slots : cell[c] = Null

\* Weak references are freed at once.
WeaksNotDying == \A w \in Weaks : life[w] # "dying"

\* What holds of any heap, and what holds besides without native locals.
OpenInv == ClosesTyped /\ OpensOnce /\ OpenEmpty /\ FreeClosed
CInv == SInv /\ OpenInv /\ MarkedReachable /\ LiveCounted /\ FreeEmpty /\ NoneDying
LInv == CInv /\ Listed /\ SweptBehind /\ RootsGone /\ WeaksNotDying

\* The invariant gives the parts of the one of GSHeapProofs.
LEMMA Parts ==
    ASSUME CInv
    PROVE  /\ IInv /\ Typed /\ RefCountExact /\ NoDanglingRef /\ ChainLinked /\ DyingStack
           /\ ListsApart /\ LoopVariables /\ MarkedLive /\ SweepSparesMarked
           /\ GcT \in Cells /\ GcN \in Cells /\ GcT # GcN
           /\ Slots \subseteq Cells \ {GcT, GcN}
           /\ \A o \in Objects : OwnFields(o) \subseteq Cells \ ({GcT, GcN} \cup Slots)
           /\ Null \notin Objects /\ Null \notin Refs /\ Objects \subseteq Refs
           /\ ClosesTyped
PROOF
BY OtherCells, DistinctAssumption DEF CInv, SInv, OpenInv, IInv, Sound, Cells, OwnFields, Refs

-----------------------------------------------------------------------------
(* Reachable objects.                                                      *)

\* What roots and marked objects refer to is marked.
MarkedClosed ==
    \A c \in Slots \cup FieldsOf(marked) : cell[c] \in Objects => cell[c] \in marked

\* When marking has come to its end, and after it, the marked objects are the
\* reachable ones.
LEMMA MarkedIsReachable ==
    ASSUME CInv, MarkedClosed, phase \in Marking
    PROVE  ReachableFrom(Slots) = marked
PROOF
<1>1. marked \in SUBSET Objects BY Parts DEF Typed
<1>2. Closed(marked, Slots) BY DEF Closed, MarkedClosed
<1>3. ReachableFrom(Slots) \subseteq marked BY <1>1, <1>2 DEF ReachableFrom
<1> QED BY <1>3 DEF CInv, MarkedReachable

\* Then each of them is referred to.
LEMMA MarkedCounted ==
    ASSUME CInv, MarkedClosed, phase \in Marking, NEW o \in marked
    PROVE  uiRef[o] # 0
PROOF
<1>1. Typed /\ RefCountExact /\ marked \subseteq Objects /\ o \in Refs
  BY Parts DEF Typed
<1> SUFFICES ASSUME uiRef[o] = 0 PROVE FALSE
  OBVIOUS
<1>2. \A x \in Cells : cell[x] # o BY <1>1, CountZero DEF RefCountExact, Typed
<1>3. Slots \cup FieldsOf(marked) \subseteq Cells BY <1>1 DEF Cells, FieldsOf
<1>4. FieldsOf(marked \ {o}) \subseteq FieldsOf(marked) BY DEF FieldsOf
<1>5. Closed(marked \ {o}, Slots) BY <1>2, <1>3, <1>4 DEF Closed, MarkedClosed
<1>6. o \in ReachableFrom(Slots) BY DEF CInv, MarkedReachable
<1> QED BY <1>1, <1>5, <1>6 DEF ReachableFrom

\* A step that leaves roots and marked objects alone, but for outers that it
\* closes and that had no value yet, loses no reachable object.
LEMMA KeepsReachable ==
    ASSUME CInv, MarkedClosed, phase \in Marking, marked' = marked,
           \A c \in Slots \cup FieldsOf(marked) :
               cell[c] \in Objects => cell'[c] = cell[c] /\ c \notin lost' \X {Value}
    PROVE  MarkedReachable'
PROOF
<1>1. marked \subseteq Objects BY Parts DEF Typed
<1>2. ASSUME NEW S \in SUBSET Objects, Closed(S, Slots)'
      PROVE  marked \subseteq S
  <2>1. Closed(S \cap marked, Slots)
    <3> SUFFICES ASSUME NEW o \in Objects, NEW c \in Slots \cup FieldsOf(S \cap marked), cell[c] = o
                 PROVE  o \in S \cap marked
      BY DEF Closed
    <3>1. c \in Slots \cup FieldsOf(marked) /\ c \in Slots \cup FieldsOf(S) BY DEF FieldsOf
    <3>2. o \in marked BY <3>1 DEF MarkedClosed
    <3>3. cell'[c] = o /\ c \notin lost' \X {Value} BY <3>1
    <3>4. c \in Slots \cup FieldsOf(S)' BY <3>1, <3>3 DEF FieldsOf
    <3> QED BY <1>2, <3>2, <3>3, <3>4 DEF Closed
  <2> QED BY <2>1 DEF CInv, MarkedReachable, ReachableFrom
<1> QED BY <1>1, <1>2 DEF MarkedReachable, ReachableFrom

\* While the sweep runs, the loop and the destructors it sets off leave roots and
\* marked objects alone, but for the outers that they close.
LEMMA SweepKeepsReachable ==
    ASSUME CInv, phase \in Sweeping, Destroy \/ Collect
    PROVE  MarkedReachable'
PROOF
<1>1. /\ Typed /\ DyingStack /\ LoopVariables /\ MarkedLive /\ SweepSparesMarked
      /\ GcT \in Cells /\ GcN \in Cells /\ Slots \subseteq Cells \ {GcT, GcN}
      /\ \A o \in Objects : OwnFields(o) \subseteq Cells \ ({GcT, GcN} \cup Slots)
      /\ marked \subseteq Objects
  BY Parts DEF Typed
<1>2. MarkedClosed /\ cell[GcT] \notin marked BY <1>1 DEF SweepSparesMarked, MarkedClosed
<1>3. phase \in Marking BY DEF Marking
<1>4. \A c \in Slots \cup FieldsOf(marked) : c \in Cells \ {GcT, GcN}
  BY <1>1 DEF OwnFields, FieldsOf
<1>5. \A c \in Slots \cup FieldsOf(marked) : c \notin lost \X {Value}
  <2>1. Slots \cap (Objects \X Fields) = {} BY DistinctAssumption
  <2>2. lost \X {Value} \subseteq Objects \X Fields
    BY OutersAssumption DEF CInv, OpenInv, ClosesTyped
  <2> QED BY <2>1, <2>2 DEF FieldsOf
<1>6. ASSUME NEW c \in Cells, c \notin Slots \cup FieldsOf(marked), NEW v, Assign(c, v),
             marked' = marked, lost' = lost
      PROVE  MarkedReachable'
  <2>1. \A x \in Cells \ {c} : cell'[x] = cell[x] BY <1>1, <1>6 DEF Assign, Typed
  <2>2. \A x \in Slots \cup FieldsOf(marked) : cell'[x] = cell[x] BY <1>4, <1>6, <2>1
  <2>3. \A x \in Slots \cup FieldsOf(marked) : x \notin lost' \X {Value} BY <1>5, <1>6
  <2> QED BY <1>2, <1>3, <1>6, <2>2, <2>3, KeepsReachable
<1>7. ASSUME NEW c \in Cells, NEW o \in Objects \ marked, c \in OwnFields(o)
      PROVE  c \notin Slots \cup FieldsOf(marked)
  BY <1>1, <1>7 DEF OwnFields, FieldsOf
<1>8. ASSUME cell' = cell, marked' = marked, lost' = lost PROVE MarkedReachable'
  BY <1>2, <1>3, <1>5, <1>8, KeepsReachable
<1>9. ASSUME NEW c \in Cells, DestroyField(c) PROVE MarkedReachable'
  <2>1. dying \in Seq(Objects) /\ dying # <<>> BY <1>1, <1>9 DEF DestroyField, Typed
  <2>2. 1 \in 1 .. Len(dying) /\ Head(dying) = dying[1] /\ dying[1] \in Objects BY <2>1
  <2>3. Head(dying) \in Objects \ marked BY <1>1, <2>2 DEF DyingStack, MarkedLive
  <2>4. c \notin Slots \cup FieldsOf(marked) BY <1>7, <1>9, <2>3 DEF DestroyField
  <2> QED BY <1>6, <1>9, <2>4 DEF DestroyField, closes
<1>10. CASE DestroyEnd BY <1>8, <1>10 DEF DestroyEnd, closes
<1>11. ASSUME NEW c \in Cells, FinalizeField(c) PROVE MarkedReachable'
  <2>1. cell[GcT] \in Objects BY <1>1, <1>11 DEF FinalizeField, LoopVariables
  <2>2. c \notin Slots \cup FieldsOf(marked) BY <1>2, <1>7, <1>11, <2>1 DEF FinalizeField
  <2> QED BY <1>6, <1>11, <2>2 DEF FinalizeField, closes
<1>12. CASE FinalizeEnd BY <1>8, <1>12 DEF FinalizeEnd, heap, closes
<1>13. CASE TakeNext \/ DropT \/ Advance
  <2>1. \A x \in Cells \ {GcT, GcN} : cell'[x] = cell[x]
    BY <1>1, <1>13 DEF TakeNext, DropT, Advance, Assign, Typed
  <2>2. (marked' = marked /\ lost' = lost) \/ phase' \notin Marking
    BY <1>13 DEF TakeNext, DropT, Advance, closes, Marking, Sweeping
  <2>3. CASE marked' = marked /\ lost' = lost
    <3>1. \A x \in Slots \cup FieldsOf(marked) : cell'[x] = cell[x] BY <1>4, <2>1
    <3>2. \A x \in Slots \cup FieldsOf(marked) : x \notin lost' \X {Value} BY <1>5, <2>3
    <3> QED BY <1>2, <1>3, <2>3, <3>1, <3>2, KeepsReachable
  <2>4. CASE phase' \notin Marking BY <2>4 DEF MarkedReachable
  <2> QED BY <2>2, <2>3, <2>4
<1>14. ASSUME NEW p \in Outers, NEW r \in Registers, CopyOut(p, r) PROVE MarkedReachable'
  <2>1. /\ marked' = marked /\ closing = Null /\ OpenAt(p, r)
        /\ lost' \in SUBSET (lost \cup {p})
        /\ \A x \in Cells \ {<<p, Value>>} : cell'[x] = cell[x]
    BY <1>14, CopyStep, Parts
  <2>2. cell[<<p, Value>>] \notin Objects
    <3>1. r # closing BY <2>1, OutersAssumption
    <3>2. cell[<<p, Value>>] = Null BY <2>1, <3>1 DEF CInv, OpenInv, OpenEmpty
    <3> QED BY <3>2, Parts
  <2>3. \A x \in Slots \cup FieldsOf(marked) :
           cell[x] \in Objects => x # <<p, Value>> BY <2>2
  <2>4. \A x \in Slots \cup FieldsOf(marked) :
           cell[x] \in Objects => cell'[x] = cell[x] BY <1>4, <2>1, <2>3
  <2>5. \A x \in Slots \cup FieldsOf(marked) :
           cell[x] \in Objects => x \notin lost' \X {Value}
    <3>1. lost' \X {Value} \subseteq (lost \X {Value}) \cup {<<p, Value>>} BY <2>1
    <3> QED BY <1>5, <2>3, <3>1
  <2> QED BY <1>2, <1>3, <2>1, <2>4, <2>5, KeepsReachable
<1>15. ASSUME NEW r \in Registers, LetGo(r) PROVE MarkedReachable'
  <2>1. <<Open, r>> \in OpenCells /\ <<Open, r>> \in Cells BY OtherCells DEF OpenCells
  <2>2. <<Open, r>> \notin Slots BY <2>1, OutersAssumption
  <2>3. <<Open, r>> \notin FieldsOf(marked) BY <1>1, OutersAssumption DEF FieldsOf
  <2>4. <<Open, r>> \notin Slots \cup FieldsOf(marked) BY <2>2, <2>3
  <2> QED BY <1>6, <1>15, <2>1, <2>4 DEF LetGo
<1>16. ~(\E o \in Objects : Mark(o)) /\ ~EndMark BY DEF Mark, EndMark, Sweeping
<1>17. CASE Destroy BY <1>9, <1>10, <1>14, <1>15, <1>17 DEF Destroy, DestroyOuter
<1>18. CASE Collect BY <1>11, <1>12, <1>13, <1>14, <1>16, <1>18 DEF Collect, FinalizeOuter
<1> QED BY <1>17, <1>18

-----------------------------------------------------------------------------
(* Live objects are referred to, free ones are empty.                      *)

\* A counted assignment deletes what it leaves without references, and fills
\* fields of live objects only.
LEMMA AssignCounted ==
    ASSUME CInv, NEW c \in Cells, NEW v \in Refs \cup {Null}, Assign(c, v), marked' = marked,
           v # Null => \A o \in Objects : c \in OwnFields(o) => life[o] = "live"
    PROVE  /\ LiveCounted' /\ FreeEmpty'
           /\ \A o \in Objects : life'[o] = "live" => life[o] = "live"
PROOF
<1>1. Typed /\ NoDanglingRef /\ LiveCounted /\ FreeEmpty /\ Null \notin Refs
  BY Parts DEF CInv
<1>2. cell' = [cell EXCEPT ![c] = v] /\ uiRef' = Counts(c, v) BY DEF Assign
<1>3. \A r \in Refs : uiRef[r] \in Nat /\ uiRef'[r] = uiRef[r] + One(r, v) - One(r, cell[c])
  BY <1>1, <1>2 DEF Counts, Typed
<1>4. \/ /\ Dead(c, v) /\ cell[c] \in Refs
         /\ life' = [life EXCEPT ![cell[c]] = IF cell[c] \in Weaks THEN "free" ELSE "dying"]
      \/ ~Dead(c, v) /\ life' = life
  BY DistinctAssumption DEF Assign, WeakRelease, ObjRelease, Refs
<1>5. \A r \in Refs : life'[r] = "live" => life[r] = "live" /\ (r = cell[c] => ~Dead(c, v))
  BY <1>1, <1>4 DEF Typed
<1>6. LiveCounted'
  <2> SUFFICES ASSUME NEW r \in Refs, life'[r] = "live", r \notin marked
               PROVE  uiRef'[r] # 0
    BY DEF LiveCounted
  <2>1. life[r] = "live" /\ uiRef[r] # 0 BY <1>1, <1>5 DEF LiveCounted
  <2>2. CASE r = cell[c]
    <3>1. ~Dead(c, v) BY <1>5, <2>2
    <3> QED BY <1>1, <1>2, <2>2, <3>1 DEF Dead
  <2>3. CASE r # cell[c]
    <3>1. One(r, cell[c]) = 0 /\ One(r, v) \in {0, 1} BY <2>3 DEF One
    <3> QED BY <1>3, <2>1, <3>1
  <2> QED BY <2>2, <2>3
<1>7. FreeEmpty'
  <2> SUFFICES ASSUME NEW o \in Objects, life'[o] = "free", NEW x \in OwnFields(o)
               PROVE  cell'[x] = Null
    BY DEF FreeEmpty, Empty
  <2>1. life[o] = "free" /\ o \in Refs BY <1>1, <1>4, DistinctAssumption DEF Typed, Refs
  <2>2. cell[x] = Null /\ x \in Cells BY <1>1, <2>1 DEF FreeEmpty, Empty, OwnFields, Cells
  <2> QED BY <1>1, <1>2, <2>1, <2>2 DEF Typed
<1> QED BY <1>5, <1>6, <1>7 DEF Refs

\* The steps that change neither fields nor liveness nor marks, and lower no count.
LEMMA SameCounted ==
    ASSUME CInv, life' = life, marked' = marked,
           \A r \in Refs : uiRef'[r] # 0 \/ uiRef'[r] = uiRef[r],
           \A o \in Objects : \A x \in OwnFields(o) : cell'[x] = cell[x]
    PROVE  LiveCounted' /\ FreeEmpty'
PROOF
BY DEF CInv, LiveCounted, FreeEmpty, Empty

\* One more reference makes no count 0.
LEMMA OneMore ==
    ASSUME CInv, NEW v, uiRef' = [r \in Refs |-> uiRef[r] + One(r, v)]
    PROVE  \A r \in Refs : uiRef'[r] # 0 \/ uiRef'[r] = uiRef[r]
PROOF
<1>1. Typed BY Parts
<1> SUFFICES ASSUME NEW r \in Refs PROVE uiRef'[r] # 0 \/ uiRef'[r] = uiRef[r]
  OBVIOUS
<1>2. uiRef[r] \in Nat /\ uiRef'[r] = uiRef[r] + One(r, v) BY <1>1 DEF Typed
<1>3. One(r, v) \in {0, 1} BY DEF One
<1> QED BY <1>2, <1>3

\* CloseOuters fills outers that the list of open ones refers to.
LEMMA CopyOutCounted ==
    ASSUME CInv, NEW p \in Outers, NEW r \in Registers, CopyOut(p, r)
    PROVE  LiveCounted' /\ FreeEmpty'
PROOF
<1>1. /\ Typed /\ NoDanglingRef /\ p \in Objects /\ p # Null
      /\ r \in Cells /\ <<Open, r>> \in Cells /\ <<p, Value>> \in Cells
  BY Parts, OtherCells, OutersAssumption DEF OpenCells, OwnFields
<1>2. cell[<<Open, r>>] = p /\ Assign(<<p, Value>>, cell[r]) /\ marked' = marked
  BY DEF CopyOut, OpenAt
<1>3. life[p] = "live" /\ cell[r] \in Refs \cup {Null} BY <1>1, <1>2 DEF NoDanglingRef, Typed
<1>4. \A o \in Objects : <<p, Value>> \in OwnFields(o) => o = p BY DEF OwnFields
<1> QED BY <1>1, <1>2, <1>3, <1>4, AssignCounted

\* A script and a native function fill fields of live objects only: a register
\* that they get at through an open outer belongs to a thread that is not freed.
LEMMA WithinLive ==
    ASSUME CInv, dying = <<>>, NEW c \in Within \cup Filled, NEW o \in Objects, c \in OwnFields(o)
    PROVE  life[o] = "live"
PROOF
<1>1. /\ Typed /\ NoDanglingRef /\ DyingStack /\ FreeClosed /\ IInv
      /\ Slots \subseteq Cells /\ Null \notin Objects
      /\ OwnFields(o) \cap (Slots \cup Locals) = {}
  BY Parts, DistinctAssumption DEF CInv, OpenInv, OwnFields
<1>2. \A v \in Held : v \in Refs /\ life[v] = "live" BY <1>1, ValuesLive
<1>3. \A x : c \in OwnFields(x) => x = o BY DEF OwnFields
<1>4. CASE c \in UNION {OwnFields(x) : x \in Held \cap (Plain \cup Threads)}
  BY <1>2, <1>3, <1>4
<1>5. CASE c \in UNION {OwnFields(x) : x \in {cell[l] : l \in Locals} \cap Plain}
  <2>1. PICK l \in Locals : cell[l] \in Plain /\ c \in OwnFields(cell[l]) BY <1>5
  <2>2. cell[l] = o /\ l \in Cells BY <1>3, <2>1, OtherCells
  <2> QED BY <1>1, <2>2 DEF NoDanglingRef
<1>6. CASE c \in UNION {Variable(p) : p \in Held \cap Outers}
  <2>1. PICK p \in Held \cap Outers : c \in Variable(p) BY <1>6
  <2>2. CASE c = <<p, Value>>
    <3>1. p = o BY <1>3, <2>1, <2>2, OtherCells
    <3> QED BY <1>2, <2>1, <3>1
  <2>3. CASE c \in Registers /\ OpenAt(p, c)
    <3>1. p # Null BY <2>1, <1>1, OutersAssumption
    <3>2. c \in OwnFields(o) \cap Registers BY <2>3
    <3>3. ~NoneOpen(OwnFields(o)) BY <2>3, <3>1, <3>2 DEF NoneOpen, OpenAt
    <3>4. life[o] # "free" BY <1>1, <3>3 DEF FreeClosed
    <3>5. life[o] # "dying" BY <1>1 DEF DyingStack
    <3>6. life[o] \in {"free", "live", "dying"} BY <1>1 DEF Typed, Refs
    <3> QED BY <3>4, <3>5, <3>6
  <2> QED BY <2>1, <2>2, <2>3 DEF Variable
<1> QED BY <1>1, <1>4, <1>5, <1>6 DEF Within, Filled

\* The steps of scripts and native functions.
LEMMA MutateCounted ==
    ASSUME CInv, Mutate
    PROVE  LiveCounted' /\ FreeEmpty'
PROOF
<1> USE DistinctAssumption DEF Refs
<1>1. /\ IInv /\ Typed /\ NoDanglingRef /\ LoopVariables /\ LiveCounted /\ FreeEmpty
      /\ Slots \subseteq Cells \ {GcT, GcN}
      /\ \A o \in Objects : OwnFields(o) \subseteq Cells \ ({GcT, GcN} \cup Slots)
      /\ Locals \subseteq Cells \ {GcT, GcN}
      /\ OpenCells \subseteq Cells
      /\ \A o \in Objects : OwnFields(o) \cap (Slots \cup Locals \cup OpenCells) = {}
  <2>1. \A o \in Objects : OwnFields(o) \cap OpenCells = {}
    BY OutersAssumption DEF OwnFields, OpenCells
  <2> QED BY <2>1, Parts, OtherCells DEF CInv, OwnFields
<1>2. ASSUME NEW o \in Objects, NEW c \in Slots \cup Locals \cup OpenCells, New(o, c)
      PROVE  LiveCounted' /\ FreeEmpty'
  <2>1. /\ uiRef' = [uiRef EXCEPT ![o] = 1] /\ life' = [life EXCEPT ![o] = "live"]
        /\ cell' = [cell EXCEPT ![c] = o] /\ marked' = marked
    BY <1>2 DEF New
  <2>2. LiveCounted' BY <1>1, <2>1 DEF LiveCounted, Typed
  <2>3. \A x \in Objects : \A d \in OwnFields(x) : cell'[d] = cell[d] BY <1>1, <2>1 DEF Typed
  <2>4. FreeEmpty' BY <1>1, <2>1, <2>3 DEF FreeEmpty, Empty, Typed
  <2> QED BY <2>2, <2>4
<1>3. ASSUME NEW c \in Within \cup Filled, NEW v \in Values, Store(c, v)
      PROVE  LiveCounted' /\ FreeEmpty'
  <2>1. c \in Cells /\ v \in Refs \cup {Null} BY <1>1, ValuesLive
  <2>2. \A o \in Objects : c \in OwnFields(o) => life[o] = "live"
    BY <1>3, WithinLive DEF Store, Idle, Between
  <2> QED BY <1>3, <2>1, <2>2, AssignCounted DEF Store
<1>4. ASSUME NEW o \in Held \cap Plain, NEW m \in (Held \cap Plain) \cup {Null},
             Delegate \in Fields, SetDelegate(o, m)
      PROVE  LiveCounted' /\ FreeEmpty'
  <2>1. o \in Objects /\ <<o, Delegate>> \in Cells /\ m \in Refs \cup {Null} /\ life[o] = "live"
    BY <1>1, <1>4, ValuesLive DEF Cells, Plain
  <2>2. \A x \in Objects : <<o, Delegate>> \in OwnFields(x) => x = o BY DEF OwnFields
  <2> QED BY <1>4, <2>1, <2>2, AssignCounted DEF SetDelegate
<1>5. ASSUME NEW o \in Held \cap (Plain \cup Threads), NEW w \in Weaks, NEW c \in Slots, GetWeakRef(o, w, c)
      PROVE  LiveCounted' /\ FreeEmpty'
  <2>1. /\ uiRef' = [uiRef EXCEPT ![w] = @ + 1] /\ life' = [life EXCEPT ![w] = "live"]
        /\ cell' = [cell EXCEPT ![c] = w] /\ marked' = marked
    BY <1>5 DEF GetWeakRef
  <2>2. LiveCounted' BY <1>1, <2>1 DEF LiveCounted, Typed
  <2>3. \A x \in Objects : life'[x] = life[x] /\ \A d \in OwnFields(x) : cell'[d] = cell[d]
    BY <1>1, <2>1 DEF Typed
  <2>4. FreeEmpty' BY <1>1, <2>3 DEF FreeEmpty, Empty
  <2> QED BY <2>2, <2>4
<1>6. ASSUME NEW w \in Held \cap Weaks, NEW c \in Slots, Deref(w, c)
      PROVE  LiveCounted' /\ FreeEmpty'
  BY <1>1, <1>6, AssignCounted DEF Deref, Typed
<1>7. ASSUME NEW l \in Locals, NEW c \in Slots, Return(l, c)
      PROVE  LiveCounted' /\ FreeEmpty'
  <2>1. /\ cell' = [cell EXCEPT ![c] = cell[l], ![l] = Null]
        /\ uiRef' = uiRef /\ life' = life /\ marked' = marked
    BY <1>7 DEF Return
  <2>2. \A x \in Objects : \A d \in OwnFields(x) : cell'[d] = cell[d] BY <1>1, <2>1 DEF Typed
  <2> QED BY <2>1, <2>2, SameCounted
<1>8. ASSUME NEW p \in Outers, NEW r \in Registers, FindOuter(p, r)
      PROVE  LiveCounted' /\ FreeEmpty'
  BY <1>2, <1>8, OutersAssumption DEF FindOuter, OpenCells
<1>9. ASSUME NEW p \in Outers, NEW r \in Registers, LeaveBlock(p, r)
      PROVE  LiveCounted' /\ FreeEmpty'
  BY <1>9, CopyOutCounted DEF LeaveBlock
<1>10. Plain \cup Threads \subseteq Objects /\ Plain \subseteq Objects
  BY OutersAssumption DEF Plain
<1> QED BY <1>2, <1>3, <1>4, <1>5, <1>6, <1>7, <1>8, <1>9, <1>10 DEF Mutate

\* Destructors, the collector, and the closing of the state.
LEMMA CollectCounted ==
    ASSUME CInv, Destroy \/ Collect \/ Shutdown \/ CollectGarbage \/ Close
    PROVE  LiveCounted' /\ FreeEmpty'
PROOF
<1> USE DistinctAssumption DEF Refs
<1>1. /\ IInv /\ Typed /\ DyingStack /\ LoopVariables /\ LiveCounted /\ FreeEmpty /\ SweepSparesMarked
      /\ GcT \in Cells /\ GcN \in Cells /\ Slots \subseteq Cells \ {GcT, GcN}
      /\ \A o \in Objects : OwnFields(o) \subseteq Cells \ ({GcT, GcN} \cup Slots)
  BY Parts DEF CInv
<1>2. ASSUME NEW c \in Cells, DestroyField(c) \/ FinalizeField(c) PROVE LiveCounted' /\ FreeEmpty'
  BY <1>2, AssignCounted DEF DestroyField, FinalizeField
<1>3. ASSUME NEW c \in Slots, CloseRoot(c) PROVE LiveCounted' /\ FreeEmpty'
  BY <1>1, <1>3, AssignCounted DEF CloseRoot
<1>4. CASE DropT BY <1>1, <1>4, AssignCounted DEF DropT
<1>5. CASE DestroyEnd
  <2>1. dying \in Seq(Objects) /\ dying # <<>> BY <1>1, <1>5 DEF Typed, DestroyEnd
  <2>2. Head(dying) \in Objects BY <2>1
  <2>3. /\ life' = [life EXCEPT ![Head(dying)] = "free"] /\ Empty(Head(dying))
        /\ UNCHANGED <<cell, uiRef, marked>>
    BY <1>5 DEF DestroyEnd, Empty
  <2>4. LiveCounted' BY <1>1, <2>2, <2>3 DEF LiveCounted, Typed
  <2>5. FreeEmpty' BY <1>1, <2>2, <2>3 DEF FreeEmpty, Empty, Typed
  <2> QED BY <2>4, <2>5
<1>6. CASE CollectGarbage \/ Close \/ FinalizeEnd
  BY <1>6, SameCounted DEF CollectGarbage, Close, FinalizeEnd, heap
<1>7. ASSUME NEW o \in Objects, Mark(o) PROVE LiveCounted' /\ FreeEmpty'
  BY <1>1, <1>7 DEF Mark, heap, LiveCounted, FreeEmpty, Empty
<1>8. ASSUME life' = life, uiRef' = uiRef, MarkedClosed, phase \in Marking, marked' = {},
             \A x \in Cells \ {GcT, GcN} : cell'[x] = cell[x]
      PROVE  LiveCounted' /\ FreeEmpty'
  <2>1. \A r \in Refs : life[r] = "live" => uiRef[r] # 0
    BY <1>1, <1>8, MarkedCounted DEF LiveCounted
  <2> QED BY <1>1, <1>8, <2>1 DEF LiveCounted, FreeEmpty, Empty
<1>9. CASE EndMark \/ CloseSweep
  <2>1. /\ cell' = [cell EXCEPT ![GcT] = gc_chain] /\ life' = life
        /\ uiRef' = [r \in Refs |-> uiRef[r] + One(r, gc_chain)]
    BY <1>9 DEF EndMark, CloseSweep, BeginSweep
  <2>2. \A o \in Objects : \A x \in OwnFields(o) : cell'[x] = cell[x] BY <1>1, <2>1 DEF Typed
  <2>3. CASE marked' = marked BY <2>1, <2>2, <2>3, OneMore, SameCounted
  <2>4. CASE marked' # marked
    <3>1. gc_chain = Null /\ marked' = {} /\ MarkedClosed /\ phase \in Marking
      BY <1>9, <2>4 DEF EndMark, CloseSweep, ToMark, MarkedClosed, Marking, FieldsOf
    <3>2. uiRef' = uiRef
      <4>1. \A r \in Refs : uiRef'[r] = uiRef[r] BY <1>1, <2>1, <3>1 DEF One, Typed
      <4> QED BY <1>1, <2>1, <4>1 DEF Typed
    <3>3. \A x \in Cells \ {GcT, GcN} : cell'[x] = cell[x] BY <1>1, <2>1 DEF Typed
    <3> QED BY <1>8, <2>1, <3>1, <3>2, <3>3
  <2> QED BY <2>3, <2>4
<1>10. CASE TakeNext
  <2>1. \A o \in Objects : \A x \in OwnFields(o) : cell'[x] = cell[x]
    BY <1>1, <1>10 DEF TakeNext, Typed
  <2> QED BY <1>10, <2>1, OneMore, SameCounted DEF TakeNext
<1>11. CASE Advance \/ CloseAdvance
  <2>1. /\ cell' = [cell EXCEPT ![GcT] = cell[GcN], ![GcN] = Null]
        /\ uiRef' = uiRef /\ life' = life
    BY <1>11 DEF Advance, CloseAdvance
  <2>2. \A x \in Cells \ {GcT, GcN} : cell'[x] = cell[x] BY <1>1, <2>1 DEF Typed
  <2>3. CASE marked' = marked BY <1>1, <2>1, <2>2, <2>3, SameCounted
  <2>4. CASE marked' # marked
    <3>1. marked' = {} /\ phase = "advance" BY <1>11, <2>4 DEF Advance, CloseAdvance
    <3>2. MarkedClosed /\ phase \in Marking
      BY <1>1, <3>1 DEF SweepSparesMarked, MarkedClosed, Marking, Sweeping
    <3> QED BY <1>8, <2>1, <2>2, <3>1, <3>2
  <2> QED BY <2>3, <2>4
<1>12. ASSUME NEW p \in Outers, NEW r \in Registers, CopyOut(p, r)
       PROVE  LiveCounted' /\ FreeEmpty'
  BY <1>12, CopyOutCounted
<1>13. ASSUME NEW r \in Registers, LetGo(r) PROVE LiveCounted' /\ FreeEmpty'
  BY <1>13, OtherCells, AssignCounted DEF LetGo, OpenCells
<1>14. CASE Destroy BY <1>2, <1>5, <1>12, <1>13, <1>14 DEF Destroy, DestroyOuter
<1>15. CASE Collect
  BY <1>2, <1>4, <1>6, <1>7, <1>9, <1>10, <1>11, <1>12, <1>15 DEF Collect, FinalizeOuter
<1>16. CASE Shutdown
  BY <1>3, <1>9, <1>11, <1>12, <1>16 DEF Shutdown, CloseRootOuter, Registers
<1> QED BY <1>6, <1>14, <1>15, <1>16

-----------------------------------------------------------------------------
(* Open outers.                                                            *)

\* An assignment frees no object at once.
LEMMA AssignFrees ==
    ASSUME Typed, NEW c \in Cells, NEW v, Assign(c, v), NEW o \in Objects, life'[o] = "free"
    PROVE  life[o] = "free"
PROOF
BY DistinctAssumption DEF Assign, WeakRelease, ObjRelease, Typed, Refs

\* Only the end of its destructor frees an object, and then it has no open outers.
LEMMA FreesClosed ==
    ASSUME CInv, Next, NEW o \in Objects, life'[o] = "free"
    PROVE  NoneOpen(OwnFields(o)) \/ life[o] = "free"
PROOF
<1> SUFFICES ASSUME life[o] # "free" PROVE NoneOpen(OwnFields(o))
  OBVIOUS
<1>1. /\ Typed /\ IInv /\ o \in Refs
      /\ GcT \in Cells /\ Slots \subseteq Cells /\ OpenCells \subseteq Cells
      /\ \A p \in Outers : <<p, Value>> \in Cells
  BY Parts, OtherCells, OutersAssumption
<1>2. \A c \in Cells : \A v : ~Assign(c, v) BY <1>1, AssignFrees
<1>3. life'[o] # life[o] OBVIOUS
<1>4. \A p, c : ~New(p, c) BY <1>1, <1>3 DEF New, Typed
<1>5. \A p \in Outers, r \in Registers : ~CopyOut(p, r) BY <1>1, <1>2 DEF CopyOut
<1>6. \A r \in Registers : ~LetGo(r) BY <1>1, <1>2 DEF LetGo, OpenCells
<1>7. ~Mutate
  <2>1. \A x, w, c : ~GetWeakRef(x, w, c) BY <1>1, <1>3 DEF GetWeakRef, Typed
  <2>2. \A c \in Slots : \A x : ~Deref(x, c) /\ ~Return(x, c)
    BY <1>1, <1>2, <1>3 DEF Deref, Return
  <2>3. \A c \in Within \cup Filled : \A v : ~Store(c, v) BY <1>1, <1>2, ValuesLive DEF Store
  <2>4. \A x \in Held \cap Plain : \A m : Delegate \in Fields => ~SetDelegate(x, m)
    BY <1>2 DEF SetDelegate, Cells, Plain
  <2> QED BY <1>4, <1>5, <2>1, <2>2, <2>3, <2>4 DEF Mutate, FindOuter, LeaveBlock
<1>8. CASE DestroyEnd
  <2>1. life' = [life EXCEPT ![Head(dying)] = "free"] /\ NoneOpen(OwnFields(Head(dying)))
    BY <1>8 DEF DestroyEnd
  <2>2. o = Head(dying) BY <1>1, <1>3, <2>1 DEF Typed
  <2> QED BY <2>1, <2>2
<1>9. CASE Destroy BY <1>2, <1>5, <1>6, <1>8, <1>9 DEF Destroy, DestroyField, DestroyOuter
<1>10. ~Collect
  BY <1>1, <1>2, <1>3, <1>5
     DEF Collect, Mark, EndMark, BeginSweep, FinalizeOuter, FinalizeField, FinalizeEnd, TakeNext,
         DropT, Advance, heap
<1>11. ~Shutdown
  BY <1>1, <1>2, <1>3, <1>5
     DEF Shutdown, CloseRootOuter, CloseRoot, CloseSweep, BeginSweep, CloseAdvance, Registers
<1>12. ~CollectGarbage /\ ~Close BY <1>3 DEF CollectGarbage, Close, heap
<1> QED BY <1>7, <1>9, <1>10, <1>11, <1>12 DEF Next

\* Every step keeps what is known of open outers.
LEMMA OpenStep ==
    ASSUME CInv, [Next]_vars
    PROVE  OpenInv'
PROOF
<1>1. /\ ClosesTyped /\ OpensOnce /\ OpenEmpty /\ FreeClosed /\ FreeEmpty
      /\ IInv /\ NoDanglingRef /\ Typed /\ Null \notin Objects
      /\ Null \notin Outers /\ Outers \subseteq Objects /\ Null \notin Registers
      /\ \A r \in Registers : <<Open, r>> \in Cells
      /\ \A p \in Outers : <<p, Value>> \in OwnFields(p)
  BY Parts, OtherCells, OutersAssumption DEF CInv, OpenInv, OpenCells
<1>2. ClosesTyped' BY <1>1, ClosesStep
<1>3. CASE UNCHANGED vars
  BY <1>1, <1>2, <1>3
     DEF vars, heap, closes, OpenInv, OpensOnce, OpenEmpty, FreeClosed, NoneOpen, OpenAt
<1>4. ASSUME Next, \A r \in Registers : cell'[<<Open, r>>] \in {cell[<<Open, r>>], Null}
      PROVE  FreeClosed'
  <2> SUFFICES ASSUME NEW o \in Objects, life'[o] = "free", NEW r \in OwnFields(o) \cap Registers
               PROVE  cell'[<<Open, r>>] = Null
    BY DEF FreeClosed, NoneOpen, OpenAt
  <2>1. NoneOpen(OwnFields(o)) BY <1>1, <1>4, FreesClosed DEF FreeClosed
  <2>2. cell[<<Open, r>>] = Null BY <2>1 DEF NoneOpen, OpenAt
  <2> QED BY <1>4, <2>2
<1>5. ASSUME Next, Quiet PROVE OpenInv'
  <2>1. \A p \in Outers, r \in Registers : OpenAt(p, r)' => OpenAt(p, r)
    BY <1>1, <1>5 DEF Quiet, OpenAt
  <2>2. OpensOnce' BY <1>1, <2>1 DEF OpensOnce
  <2>3. OpenEmpty'
    <3> SUFFICES ASSUME NEW p \in Outers, NEW r \in Registers, OpenAt(p, r)', r # closing'
                 PROVE  cell'[<<p, Value>>] = Null
      BY DEF OpenEmpty
    <3>1. OpenAt(p, r) /\ r # closing BY <1>5, <2>1 DEF Quiet
    <3>2. cell[<<p, Value>>] = Null BY <1>1, <3>1 DEF OpenEmpty
    <3> QED BY <1>5, <3>1, <3>2 DEF Quiet
  <2>4. FreeClosed' BY <1>4, <1>5 DEF Quiet
  <2> QED BY <1>2, <2>2, <2>3, <2>4 DEF OpenInv
<1>6. ASSUME NEW p \in Outers, NEW r \in Within \cap Registers, FindOuter(p, r) PROVE OpenInv'
  <2>1. /\ closing' = closing /\ life[p] = "free" /\ cell'[<<Open, r>>] = p
        /\ \A c \in Cells \ {<<Open, r>>} : cell'[c] = cell[c]
    BY <1>1, <1>6, FindStep
  <2>2. \A q \in Registers : ~OpenAt(p, q) BY <1>1, <2>1 DEF NoDanglingRef, OpenAt
  <2>3. \A q \in Registers : OpenAt(p, q)' <=> q = r
    <3>1. \A q \in Registers : q # r => cell'[<<Open, q>>] = cell[<<Open, q>>] BY <1>1, <2>1
    <3> QED BY <2>1, <2>2, <3>1 DEF OpenAt
  <2>4. \A x \in Outers \ {p}, q \in Registers : OpenAt(x, q)' => OpenAt(x, q)
    <3>1. \A q \in Registers : q # r => cell'[<<Open, q>>] = cell[<<Open, q>>] BY <1>1, <2>1
    <3> QED BY <2>1, <3>1 DEF OpenAt
  <2>5. OpensOnce'
    <3> SUFFICES ASSUME NEW x \in Outers, NEW q \in Registers, NEW y \in Registers,
                        OpenAt(x, q)', OpenAt(x, y)'
                 PROVE  q = y
      BY DEF OpensOnce
    <3>1. CASE x = p BY <2>3, <3>1
    <3>2. CASE x # p BY <1>1, <2>4, <3>2 DEF OpensOnce
    <3> QED BY <3>1, <3>2
  <2>6. \A x \in Outers : cell'[<<x, Value>>] = cell[<<x, Value>>]
    BY <1>1, <2>1, OpenAndValue
  <2>7. cell[<<p, Value>>] = Null BY <1>1, <2>1 DEF FreeEmpty, Empty
  <2>8. OpenEmpty'
    <3> SUFFICES ASSUME NEW x \in Outers, NEW q \in Registers, OpenAt(x, q)', q # closing'
                 PROVE  cell[<<x, Value>>] = Null
      BY <2>6 DEF OpenEmpty
    <3>1. CASE x = p BY <2>7, <3>1
    <3>2. CASE x # p BY <1>1, <2>1, <2>4, <3>2 DEF OpenEmpty
    <3> QED BY <3>1, <3>2
  <2>9. FreeClosed'
    <3> SUFFICES ASSUME NEW o \in Objects, life'[o] = "free", NEW q \in OwnFields(o) \cap Registers
                 PROVE  cell'[<<Open, q>>] = Null
      BY DEF FreeClosed, NoneOpen, OpenAt
    <3>1. dying = <<>> /\ life' = [life EXCEPT ![p] = "live"]
      BY <1>6 DEF FindOuter, New, Idle, Between
    <3>2. life[o] = "free" BY <1>1, <3>1 DEF Typed, Refs
    <3>3. q # r BY <3>1, <3>2, WithinLive
    <3>4. cell[<<Open, q>>] = Null BY <1>1, <3>2 DEF FreeClosed, NoneOpen, OpenAt
    <3> QED BY <1>1, <2>1, <3>3, <3>4
  <2> QED BY <1>2, <2>5, <2>8, <2>9 DEF OpenInv
<1>7. ASSUME Next, NEW p \in Outers, NEW r \in Registers, CopyOut(p, r) PROVE OpenInv'
  <2>1. /\ closing = Null /\ closing' = r /\ OpenAt(p, r)
        /\ \A c \in Cells \ {<<p, Value>>} : cell'[c] = cell[c]
    BY <1>1, <1>7, CopyStep
  <2>2. \A q \in Registers : cell'[<<Open, q>>] = cell[<<Open, q>>]
    BY <1>1, <2>1, OpenAndValue
  <2>3. \A x : \A q \in Registers : OpenAt(x, q)' <=> OpenAt(x, q) BY <2>2 DEF OpenAt
  <2>4. OpensOnce' BY <1>1, <2>3 DEF OpensOnce
  <2>5. OpenEmpty'
    <3> SUFFICES ASSUME NEW x \in Outers, NEW q \in Registers, OpenAt(x, q), q # r
                 PROVE  cell'[<<x, Value>>] = Null
      BY <2>1, <2>3 DEF OpenEmpty
    <3>1. x # p BY <1>1, <2>1 DEF OpensOnce
    <3>2. cell[<<x, Value>>] = Null BY <1>1, <2>1 DEF OpenEmpty
    <3> QED BY <1>1, <2>1, <3>1, <3>2, OpenAndValue
  <2>6. FreeClosed' BY <1>4, <1>7, <2>2
  <2> QED BY <1>2, <2>4, <2>5, <2>6 DEF OpenInv
<1>8. ASSUME Next, NEW r \in Registers, LetGo(r) PROVE OpenInv'
  <2>1. /\ closing = r /\ closing' = Null /\ cell'[<<Open, r>>] = Null
        /\ \A c \in Cells \ {<<Open, r>>} : cell'[c] = cell[c]
    BY <1>1, <1>8, LetGoStep
  <2>2. \A q \in Registers : q # r => cell'[<<Open, q>>] = cell[<<Open, q>>] BY <1>1, <2>1
  <2>3. \A x \in Outers, q \in Registers : OpenAt(x, q)' => OpenAt(x, q) /\ q # r
    BY <1>1, <2>1, <2>2 DEF OpenAt
  <2>4. OpensOnce' BY <1>1, <2>3 DEF OpensOnce
  <2>5. OpenEmpty'
    <3>1. \A x \in Outers : cell'[<<x, Value>>] = cell[<<x, Value>>] BY <1>1, <2>1, OpenAndValue
    <3> QED BY <1>1, <2>1, <2>3, <3>1 DEF OpenEmpty
  <2>6. FreeClosed' BY <1>4, <1>8, <2>1, <2>2
  <2> QED BY <1>2, <2>4, <2>5, <2>6 DEF OpenInv
<1> QED BY <1>1, <1>3, <1>5, <1>6, <1>7, <1>8, OtherSteps

-----------------------------------------------------------------------------
(* The invariant of any heap.                                              *)

\* Every step preserves it.
LEMMA CollectionStep ==
    ASSUME CInv, [Next]_vars
    PROVE  CInv'
PROOF
<1>1. SInv' /\ OpenInv' BY SweepInv, OpenStep DEF CInv
<1>2. CASE UNCHANGED vars
  <2>1. UNCHANGED <<cell, uiRef, life, dying, marked, phase, closing, lost>>
    BY <1>2 DEF vars, heap, closes
  <2>2. ReachableFrom(Slots)' = ReachableFrom(Slots) BY <2>1 DEF ReachableFrom, Closed, FieldsOf
  <2> QED BY <1>1, <2>1, <2>2
          DEF CInv, MarkedReachable, LiveCounted, FreeEmpty, Empty, NoneDying, Between
<1>3. CASE Next
  <2>1. LiveCounted' /\ FreeEmpty'
    BY <1>3, MutateCounted, CollectCounted DEF Next
  <2>2. NoneDying'
    <3>1. NoneDying BY DEF CInv
    <3>2. CASE phase \in {"mark", "next", "drop", "closenext", "closedrop", "closed"}
      <4>1. dying = <<>> /\ closing = Null /\ Null \notin Registers
        BY <3>1, <3>2, OutersAssumption DEF NoneDying, Between
      <4>2. ~Mutate /\ ~CollectGarbage /\ ~Close
        BY <3>2 DEF Mutate, New, Store, SetDelegate, GetWeakRef, Deref, Return, FindOuter,
                    LeaveBlock, Idle, CollectGarbage, Close
      <4>3. ~Destroy
        BY <4>1 DEF Destroy, DestroyEnd, DestroyField, DestroyOuter, LetGo
      <4>4. ~Shutdown
        BY <3>2 DEF Shutdown, CloseRootOuter, CloseRoot, CloseSweep, CloseAdvance
      <4>5. CASE (\E o \in Objects : Mark(o)) \/ EndMark \/ TakeNext
        BY <4>1, <4>5 DEF NoneDying, Between, Mark, EndMark, BeginSweep, TakeNext, heap, closes
      <4>6. CASE DropT BY <4>6 DEF NoneDying, DropT
      <4>7. CASE \/ FinalizeEnd \/ Advance
                 \/ \E p \in Outers, r \in Registers : FinalizeOuter(p, r)
                 \/ \E c \in Cells : FinalizeField(c)
        BY <3>2, <4>7 DEF FinalizeEnd, Advance, FinalizeOuter, FinalizeField
      <4> QED BY <1>3, <4>2, <4>3, <4>4, <4>5, <4>6, <4>7 DEF Next, Collect
    <3>3. CASE phase \notin {"mark", "next", "drop", "closenext", "closedrop", "closed"}
      <4>1. CASE CollectGarbage BY <4>1 DEF CollectGarbage, Idle, NoneDying, Between, heap, closes
      <4>2. CASE Close BY <4>2 DEF Close, NoneDying
      <4>3. CASE Mutate
        BY <4>3 DEF Mutate, New, Store, SetDelegate, GetWeakRef, Deref, Return, FindOuter,
                    LeaveBlock, CopyOut, Idle, NoneDying
      <4>4. CASE Destroy
        BY <3>3, <4>4 DEF Destroy, DestroyEnd, DestroyField, DestroyOuter, CopyOut, LetGo, NoneDying
      <4>5. CASE Collect
        <5>1. CASE (\E o \in Objects : Mark(o)) \/ EndMark \/ TakeNext \/ DropT
          BY <3>3, <5>1 DEF Mark, EndMark, TakeNext, DropT
        <5>2. CASE FinalizeEnd
          BY <5>2 DEF FinalizeEnd, NoneDying, Between, heap, closes
        <5>3. CASE \/ Advance
                   \/ \E p \in Outers, r \in Registers : FinalizeOuter(p, r)
                   \/ \E c \in Cells : FinalizeField(c)
          BY <3>3, <5>3 DEF Advance, FinalizeOuter, CopyOut, FinalizeField, NoneDying
        <5> QED BY <4>5, <5>1, <5>2, <5>3 DEF Collect
      <4>6. CASE Shutdown
        <5>1. CASE CloseSweep \/ CloseAdvance
          BY <5>1 DEF CloseSweep, CloseAdvance, BeginSweep, NoneDying, Between, closes
        <5>2. CASE \/ \E p \in Outers, r \in Slots : CloseRootOuter(p, r)
                   \/ \E c \in Slots : CloseRoot(c)
          BY <3>3, <5>2 DEF CloseRootOuter, CopyOut, CloseRoot, NoneDying
        <5> QED BY <4>6, <5>1, <5>2 DEF Shutdown
      <4> QED BY <1>3, <4>1, <4>2, <4>3, <4>4, <4>5, <4>6 DEF Next
    <3> QED BY <3>2, <3>3
  <2>3. MarkedReachable'
    <3>1. /\ marked \subseteq Objects /\ LoopVariables /\ Typed /\ ClosesTyped
          /\ Null \notin Registers
      BY Parts, OutersAssumption DEF Typed
    <3>2. CASE phase \in Sweeping
      BY <1>3, <3>2, SweepKeepsReachable
         DEF Next, Mutate, New, Store, SetDelegate, GetWeakRef, Deref, Return, FindOuter,
             LeaveBlock, Idle, Sweeping, CollectGarbage, Close, Shutdown, CloseRootOuter,
             CloseRoot, CloseSweep, CloseAdvance
    <3>3. ASSUME NEW o \in Objects, Mark(o) PROVE MarkedReachable'
      <4>1. /\ marked' = marked \cup {o} /\ cell' = cell /\ phase = "mark" /\ phase' = "mark"
            /\ o \in ToMark /\ lost' = {} /\ lost = {}
        BY <3>1, <3>3 DEF Mark, heap, closes, ClosesTyped, Sweeping
      <4>2. PICK c \in Slots \cup (marked \X Fields) : cell[c] = o BY <4>1 DEF ToMark
      <4>3. marked \subseteq ReachableFrom(Slots)
        BY <4>1 DEF CInv, MarkedReachable, Marking
      <4>4. ASSUME NEW S \in SUBSET Objects, Closed(S, Slots) PROVE o \in S
        <5>1. marked \subseteq S BY <4>3, <4>4 DEF ReachableFrom
        <5>2. c \in Slots \cup FieldsOf(S) BY <4>1, <5>1 DEF FieldsOf
        <5> QED BY <4>2, <4>4, <5>2 DEF Closed
      <4>5. ReachableFrom(Slots)' = ReachableFrom(Slots) BY <4>1 DEF ReachableFrom, Closed, FieldsOf
      <4> QED BY <4>1, <4>3, <4>4, <4>5 DEF MarkedReachable, ReachableFrom
    <3>4. CASE EndMark
      <4>1. /\ phase \in Marking /\ MarkedClosed
            /\ cell' = [cell EXCEPT ![GcT] = gc_chain] /\ lost' = {}
        BY <3>1, <3>4
           DEF EndMark, BeginSweep, Marking, ToMark, MarkedClosed, FieldsOf, ClosesTyped, Sweeping,
               closes
      <4>2. \A c \in Slots \cup FieldsOf(marked) : cell'[c] = cell[c]
        <5>1. Slots \cup FieldsOf(marked) \subseteq Cells \ {GcT}
          BY <3>1, Parts DEF OwnFields, FieldsOf
        <5> QED BY <3>1, <4>1, <5>1 DEF Typed
      <4>3. CASE gc_chain = Null BY <3>4, <4>3 DEF EndMark, BeginSweep, MarkedReachable, Marking, Sweeping
      <4>4. CASE gc_chain # Null BY <3>4, <4>1, <4>2, <4>4, KeepsReachable DEF EndMark
      <4> QED BY <4>3, <4>4
    <3>5. CASE phase = "run" \/ phase \notin Marking
      <4>1. phase = "run" => marked = {} BY <3>1 DEF LoopVariables
      <4>2. phase' \in Marking => marked' = {}
        BY <1>3, <3>5, <4>1
           DEF Next, Mutate, New, Store, SetDelegate, GetWeakRef, Deref, Return, FindOuter, LeaveBlock,
               CopyOut, LetGo, Idle, Marking, Sweeping,
               CollectGarbage, Close, Shutdown, CloseRootOuter, CloseRoot, CloseSweep, BeginSweep,
               CloseAdvance, Destroy, DestroyOuter, DestroyField, DestroyEnd, Collect, Mark, EndMark,
               FinalizeOuter, FinalizeField, FinalizeEnd, TakeNext, DropT, Advance
      <4> QED BY <4>2 DEF MarkedReachable
    <3>6. CASE phase = "mark"
      <4>1. dying = <<>> /\ closing = Null BY <3>6 DEF CInv, NoneDying, Between
      <4>2. (\E o \in Objects : Mark(o)) \/ EndMark
        BY <1>3, <3>1, <3>6, <4>1
           DEF Next, Mutate, New, Store, SetDelegate, GetWeakRef, Deref, Return, FindOuter, LeaveBlock,
               LetGo, Idle, CollectGarbage, Close, Shutdown, CloseRootOuter, CloseRoot, CloseSweep,
               CloseAdvance, Destroy, DestroyOuter, DestroyField, DestroyEnd, Collect, FinalizeOuter,
               FinalizeField, FinalizeEnd, TakeNext, DropT, Advance
      <4> QED BY <3>3, <3>4, <4>2
    <3> QED BY <3>2, <3>5, <3>6 DEF Marking
  <2> QED BY <1>1, <2>1, <2>2, <2>3 DEF CInv
<1> QED BY <1>2, <1>3

\* A new state has it.
LEMMA CollectionInit ==
    ASSUME Init
    PROVE  CInv
PROOF
<1>1. SInv BY InitInv DEF Init, SInv, MarkedLive, SweepSparesMarked, Sweeping
<1>2. /\ \A o \in Objects : OwnFields(o) \subseteq Cells
      /\ \A p \in Outers : <<p, Value>> \in Cells
      /\ \A r \in Registers : <<Open, r>> \in Cells
  BY OtherCells, OutersAssumption DEF OpenCells
<1>3. cell = [c \in Cells |-> Null] /\ dying = <<>> /\ closing = Null BY DEF Init
<1>4. \A r \in Registers : cell[<<Open, r>>] = Null BY <1>2, <1>3
<1>5. Null \notin Outers BY OutersAssumption, DistinctAssumption DEF Refs
<1>6. OpensOnce /\ OpenEmpty BY <1>4, <1>5 DEF OpensOnce, OpenEmpty, OpenAt
<1>7. FreeClosed BY <1>4 DEF FreeClosed, NoneOpen, OpenAt
<1>8. FreeEmpty BY <1>2, <1>3 DEF FreeEmpty, Empty
<1>9. MarkedReachable /\ LiveCounted /\ NoneDying
  BY DistinctAssumption DEF Init, MarkedReachable, LiveCounted, NoneDying, Between
<1> QED BY <1>1, <1>6, <1>7, <1>8, <1>9, ClosesInit DEF CInv, OpenInv

\* What a collection knows in any heap: what marking has visited is reachable, and
\* while the sweep runs what roots and marked objects refer to is marked, but for
\* the value of an outer that CloseOuters has closed meanwhile, which the sweep
\* may be about to free.  SweepIsExact is its consequence.
THEOREM CollectionInvariant == Spec => []CInv
PROOF
<1>1. Init => CInv BY CollectionInit
<1>2. CInv /\ [Next]_vars => CInv' BY CollectionStep
<1> QED BY <1>1, <1>2, PTL DEF Spec

\* The sweep of CollectGarbage spares exactly what the script can reach, at every
\* step of its loop and of the destructors that it sets off; an outer of a garbage
\* thread, closed by that thread's Finalize, leads no further here, since what it
\* gets is garbage that the sweep empties.
THEOREM SweepIsExact == Spec => []SweepSparesReachable
PROOF
<1>1. ASSUME CInv PROVE SweepSparesReachable
  <2> SUFFICES ASSUME phase \in Sweeping PROVE SweepSparesReachable
    BY DEF SweepSparesReachable, Sweeping
  <2>1. MarkedClosed /\ cell[GcT] \notin marked /\ \A o \in marked : life[o] = "live"
    BY <1>1, Parts DEF SweepSparesMarked, MarkedClosed, Sweeping
  <2>2. ReachableFrom(Slots) = marked BY <1>1, <2>1, MarkedIsReachable DEF Marking
  <2> QED BY <2>1, <2>2 DEF SweepSparesReachable
<1>2. CInv => SweepSparesReachable BY <1>1
<1> QED BY <1>2, CollectionInvariant, PTL

-----------------------------------------------------------------------------
(* Delegates.                                                              *)

\* A step that gives no object another delegate makes no cycle.
LEMMA NoNewDelegate ==
    ASSUME Delegate \in Fields => \A o \in Objects : cell'[<<o, Delegate>>] \in {cell[<<o, Delegate>>], Null},
           DelegatesAcyclic
    PROVE  DelegatesAcyclic'
PROOF
<1> SUFFICES ASSUME Delegate \in Fields, NEW S \in (SUBSET Objects) \ {{}},
                    \A o \in S : cell'[<<o, Delegate>>] \in S
             PROVE  FALSE
  BY DEF DelegatesAcyclic
<1>1. Null \notin S BY DistinctAssumption DEF Refs
<1>2. \A o \in S : cell[<<o, Delegate>>] \in S BY <1>1
<1> QED BY <1>2 DEF DelegatesAcyclic

\* SetDelegate makes none: otherwise the delegates of m would lead to o, or
\* there would have been one before.
LEMMA SetDelegateAcyclic ==
    ASSUME IInv, DelegatesAcyclic, NEW o \in Objects, NEW m \in Objects \cup {Null},
           Delegate \in Fields, SetDelegate(o, m)
    PROVE  DelegatesAcyclic'
PROOF
<1>1. /\ cell' = [cell EXCEPT ![<<o, Delegate>>] = m]
      /\ cell \in [Cells -> Refs \cup {Null}]
      /\ \A x \in Objects : <<x, Delegate>> \in Cells
  BY DEF SetDelegate, Assign, IInv, Sound, Typed, Cells
<1>2. cell'[<<o, Delegate>>] = m /\ \A x \in Objects \ {o} : cell'[<<x, Delegate>>] = cell[<<x, Delegate>>]
  BY <1>1
<1>3. CASE m = Null BY <1>2, <1>3, NoNewDelegate
<1>4. CASE m # Null
  <2> SUFFICES ASSUME NEW S \in (SUBSET Objects) \ {{}}, \A x \in S : cell'[<<x, Delegate>>] \in S
               PROVE  FALSE
    BY DEF DelegatesAcyclic
  <2>1. PICK T \in SUBSET Objects :
            /\ m \in T /\ o \notin T
            /\ \A x \in T : cell[<<x, Delegate>>] \in T \cup {Null}
    BY <1>4 DEF SetDelegate, DelegateCycle
  <2>2. Null \notin S BY DistinctAssumption DEF Refs
  <2>3. CASE o \in S
    <3>1. m \in S \cap T BY <1>2, <2>1, <2>3
    <3>2. \A x \in S \cap T : cell[<<x, Delegate>>] \in S \cap T BY <1>2, <2>1, <2>2
    <3> QED BY <3>1, <3>2 DEF DelegatesAcyclic
  <2>4. CASE o \notin S
    <3>1. \A x \in S : cell[<<x, Delegate>>] \in S BY <1>2, <2>4
    <3> QED BY <3>1 DEF DelegatesAcyclic
  <2> QED BY <2>3, <2>4
<1> QED BY <1>3, <1>4

\* SetDelegate is the only step that gives an object a delegate, so the walks of
\* Get, Set and SetDelegate along _delegate come to an end.
THEOREM DelegatesEnd == Spec => []DelegatesAcyclic
PROOF
<1>1. ASSUME Init PROVE DelegatesAcyclic
  <2>1. Delegate \in Fields => \A o \in Objects : cell[<<o, Delegate>>] = Null
    BY <1>1 DEF Init, Cells
  <2>2. Null \notin Objects BY DistinctAssumption DEF Refs
  <2> QED BY <2>1, <2>2 DEF DelegatesAcyclic
<1>2. ASSUME IInv, DelegatesAcyclic, [Next]_vars PROVE DelegatesAcyclic'
  <2>1. ASSUME NEW o \in Held \cap Plain, NEW m \in (Held \cap Plain) \cup {Null},
               Delegate \in Fields, SetDelegate(o, m)
        PROVE  DelegatesAcyclic'
    BY <1>2, <2>1, SetDelegateAcyclic DEF Plain
  <2>2. CASE Delegate \notin Fields BY <2>2 DEF DelegatesAcyclic
  <2> DEFINE D(o) == <<o, Delegate>>
             Kept == \A o \in Objects : cell'[D(o)] \in {cell[D(o)], Null}
  <2>3. Kept => DelegatesAcyclic' BY <1>2, NoNewDelegate
  <2>4. CASE Delegate \in Fields
    <3>1. /\ cell \in [Cells -> Refs \cup {Null}]
          /\ \A o \in Objects : D(o) \in Cells \ (Slots \cup Locals \cup {GcT, GcN} \cup OpenCells)
      BY <1>2, <2>4, DistinctAssumption, OutersAssumption DEF IInv, Sound, Typed, Cells, OpenCells
    <3>2. \A o \in Objects : D(o) \in Objects \X {Delegate} OBVIOUS
    <3> HIDE DEF D
    <3>3. ASSUME \A x \in Cells \ (Slots \cup Locals \cup {GcT, GcN} \cup OpenCells) : cell'[x] = cell[x]
          PROVE  Kept
      BY <3>1, <3>3
    <3>4. ASSUME NEW c, NEW v, Assign(c, v), v = Null \/ c \notin Objects \X {Delegate}
          PROVE  Kept
      <4>1. cell' = [cell EXCEPT ![c] = v] BY <3>4 DEF Assign
      <4>2. \A x \in Cells : cell'[x] = IF x = c THEN v ELSE cell[x] BY <3>1, <4>1
      <4> QED BY <3>1, <3>2, <3>4, <4>2
    <3>5. ASSUME NEW o \in Objects, NEW c \in Slots \cup Locals \cup OpenCells, New(o, c) PROVE Kept
      BY <3>1, <3>3, <3>5 DEF New
    <3>6. ASSUME NEW c, NEW v, c \notin Objects \X {Delegate}, Store(c, v) PROVE Kept
      BY <3>4, <3>6 DEF Store
    <3>7. ASSUME NEW o, NEW w, NEW c \in Slots, GetWeakRef(o, w, c) PROVE Kept
      BY <3>1, <3>3, <3>7 DEF GetWeakRef
    <3>8. ASSUME NEW w, NEW c \in Slots, Deref(w, c) PROVE Kept
      BY <3>1, <3>3, <3>8 DEF Deref, Assign
    <3>9. ASSUME NEW l \in Locals, NEW c \in Slots, Return(l, c) PROVE Kept
      BY <3>1, <3>3, <3>9 DEF Return
    <3>14. ASSUME NEW p \in Outers, NEW r \in Registers, FindOuter(p, r) PROVE Kept
      BY <3>5, <3>14, OutersAssumption DEF FindOuter, OpenCells
    <3>15. ASSUME NEW p, NEW r, CopyOut(p, r) PROVE Kept
      <4>1. <<p, Value>> \notin Objects \X {Delegate} BY OutersAssumption
      <4> QED BY <3>4, <3>15, <4>1 DEF CopyOut
    <3>16. ASSUME NEW r, LetGo(r) PROVE Kept BY <3>4, <3>16 DEF LetGo
    <3> HIDE DEF Kept
    <3>17. Plain \cup Threads \subseteq Objects BY OutersAssumption DEF Plain
    <3>10. CASE Mutate
      BY <2>1, <2>3, <3>5, <3>6, <3>7, <3>8, <3>9, <3>10, <3>14, <3>15, <3>17 DEF Mutate, LeaveBlock
    <3>11. ASSUME NEW c, DestroyField(c) \/ FinalizeField(c) \/ CloseRoot(c) PROVE Kept
      BY <3>4, <3>11 DEF DestroyField, FinalizeField, CloseRoot
    <3>12. CASE DestroyEnd \/ (\E o \in Objects : Mark(o)) \/ FinalizeEnd \/ CollectGarbage
                \/ Close \/ UNCHANGED vars
      <4>1. cell' = cell
        BY <3>12 DEF DestroyEnd, Mark, FinalizeEnd, CollectGarbage, Close, vars, heap
      <4> QED BY <2>3, <3>3, <4>1
    <3>13. CASE EndMark \/ CloseSweep \/ TakeNext \/ DropT \/ Advance \/ CloseAdvance
      <4>1. \E x, y : cell' = [cell EXCEPT ![GcT] = x] \/ cell' = [cell EXCEPT ![GcN] = x]
                      \/ cell' = [cell EXCEPT ![GcT] = x, ![GcN] = y]
        BY <3>13 DEF EndMark, CloseSweep, BeginSweep, TakeNext, DropT, Assign, Advance, CloseAdvance
      <4> QED BY <2>3, <3>1, <3>3, <4>1
    <3> QED BY <1>2, <2>3, <3>10, <3>11, <3>12, <3>13, <3>15, <3>16
            DEF Next, Destroy, Collect, Shutdown, DestroyOuter, FinalizeOuter, CloseRootOuter
  <2> QED BY <2>2, <2>4
<1>3. Init => DelegatesAcyclic BY <1>1
<1>4. IInv /\ DelegatesAcyclic /\ [Next]_vars => DelegatesAcyclic' BY <1>2
<1> QED BY <1>3, <1>4, Invariant, PTL DEF Spec

-----------------------------------------------------------------------------
(* Lists.                                                                  *)

\* Only the first object of a list has nothing before it.
LEMMA HeadOnly ==
    ASSUME Typed, ChainLinked, NEW h \in Objects \cup {Null}, NEW o \in From(h), prev[o] = Null
    PROVE  h = o
PROOF
<1> SUFFICES ASSUME h # o PROVE FALSE
  OBVIOUS
<1>1. o \in Objects BY DEF From
<1>2. NextClosed(Objects \ {o})
  BY <1>1, DistinctAssumption DEF NextClosed, ChainLinked, Typed, Refs
<1> QED BY <1>2 DEF From

\* Behind the first object is the list of the others.
LEMMA FromNext ==
    ASSUME Typed, NEW h \in Objects, NEW o \in From(h), o # h
    PROVE  o \in From(next[h])
PROOF
<1> SUFFICES ASSUME NEW S \in SUBSET Objects, next[h] \in S \cup {Null}, NextClosed(S)
             PROVE  o \in S
  BY DEF From
<1>1. NextClosed(S \cup {h}) BY DEF NextClosed
<1> QED BY <1>1 DEF From

\* Nothing follows the end of a list.
LEMMA FromNull == From(Null) = {}
PROOF
<1>1. NextClosed({}) BY DEF NextClosed
<1> QED BY <1>1 DEF From

\* A set without o that is closed under the links without o has what else is in a
\* list, if it has the head of that list without o.
LEMMA UnlinkedClosed ==
    ASSUME Typed, ChainLinked, NEW o \in Objects, NEW S \in SUBSET Objects, o \notin S,
           \A x \in S : NextWithout(o)[x] \in S \cup {Null},
           NEW h \in Objects \cup {Null},
           (IF h = o THEN next[o] ELSE h) \in S \cup {Null},
           NEW x \in From(h), x # o
    PROVE  x \in S
PROOF
<1>1. \A y \in S : NextWithout(o)[y] = IF y = prev[o] THEN next[o] ELSE next[y]
  BY DEF NextWithout
<1>2. \A y \in S : next[y] = o => y = prev[o]
  BY DistinctAssumption DEF ChainLinked, Typed, Refs
<1>3. CASE h = o \/ prev[o] \in S
  <2>1. next[o] \in S \cup {Null} BY <1>1, <1>3
  <2>2. ASSUME NEW y \in S PROVE next[y] \in S \cup {o, Null}
    <3>1. CASE y = prev[o] BY <3>1, DistinctAssumption DEF ChainLinked, Refs
    <3>2. CASE y # prev[o] BY <1>1, <3>2
    <3> QED BY <3>1, <3>2
  <2>3. NextClosed(S \cup {o}) BY <2>1, <2>2 DEF NextClosed
  <2>4. h \in S \cup {o, Null} OBVIOUS
  <2> QED BY <2>3, <2>4 DEF From
<1>4. CASE h # o /\ prev[o] \notin S
  <2>1. NextClosed(S) BY <1>1, <1>4 DEF NextClosed
  <2> QED BY <1>4, <2>1 DEF From
<1> QED BY <1>3, <1>4

\* RemoveFromChain(o) leaves the others in the list.
LEMMA UnlinkFrom ==
    ASSUME Typed, ChainLinked, NEW o \in Objects, next' = NextWithout(o),
           NEW h \in Objects \cup {Null}, h # o, NEW x \in From(h), x # o
    PROVE  x \in From(h)'
PROOF
<1> SUFFICES ASSUME NEW S \in SUBSET Objects, h \in S \cup {Null}, NextClosed(S)'
             PROVE  x \in S
  BY DEF From
<1>1. \A y \in S \ {o} : NextWithout(o)[y] \in (S \ {o}) \cup {Null}
  <2> SUFFICES ASSUME NEW y \in S \ {o} PROVE NextWithout(o)[y] # o
    BY DEF NextClosed
  <2>1. NextWithout(o)[y] = IF y = prev[o] THEN next[o] ELSE next[y] BY DEF NextWithout
  <2> QED BY <2>1, DistinctAssumption DEF ChainLinked, Typed, Refs
<1>2. x \in S \ {o} BY <1>1, UnlinkedClosed
<1> QED BY <1>2

\* Also in _gc_chain, whose head may be the one removed.
LEMMA UnlinkHead ==
    ASSUME Typed, ChainLinked, NEW o \in From(gc_chain), RemoveFromChain(o),
           NEW x \in From(gc_chain), x # o
    PROVE  x \in From(gc_chain)'
PROOF
<1>1. /\ o \in Objects /\ gc_chain \in Objects \cup {Null} /\ next' = NextWithout(o)
      /\ gc_chain' = IF gc_chain = o THEN next[o] ELSE gc_chain
  <2>1. o \in Objects /\ gc_chain \in Objects \cup {Null} BY DEF From, Typed
  <2>2. prev[o] = Null <=> gc_chain = o
    BY <2>1, HeadOnly, DistinctAssumption DEF ChainLinked, Refs
  <2> QED BY <2>1, <2>2 DEF RemoveFromChain, HeadWithout
<1> SUFFICES ASSUME NEW S \in SUBSET Objects, gc_chain' \in S \cup {Null}, NextClosed(S)'
             PROVE  x \in S
  BY DEF From
<1>2. \A y \in S \ {o} : NextWithout(o)[y] \in (S \ {o}) \cup {Null}
  <2> SUFFICES ASSUME NEW y \in S \ {o} PROVE NextWithout(o)[y] # o
    BY <1>1 DEF NextClosed
  <2>1. NextWithout(o)[y] = IF y = prev[o] THEN next[o] ELSE next[y] BY DEF NextWithout
  <2> QED BY <1>1, <2>1, DistinctAssumption DEF ChainLinked, Typed, Refs
<1>3. gc_chain = o => next[o] # o
  BY <1>1, DistinctAssumption DEF ChainLinked, Typed, Refs
<1>4. x \in S \ {o} BY <1>1, <1>2, <1>3, UnlinkedClosed
<1> QED BY <1>4

-----------------------------------------------------------------------------
(* Without native locals and open outers every object is in its list, and  *)
(* the loop leaves nothing behind.                                         *)

\* A heap without outers has no open ones.
LEMMA NoOuters ==
    ASSUME CInv, Outers = {}
    PROVE  /\ \A c \in OpenCells : cell[c] = Null
           /\ lost = {}
           /\ \A S : FieldsOf(S) = S \X Fields
PROOF
<1>1. ClosesTyped BY Parts
<1> QED BY <1>1 DEF ClosesTyped, OpenCells, FieldsOf

\* A counted assignment takes out of a list only what it deletes.
LEMMA AssignFrom ==
    ASSUME CInv, NEW c \in Cells, NEW v \in Refs \cup {Null}, Assign(c, v),
           NEW h \in Objects \cup {Null}, h # Null => life'[h] = "live",
           NEW x \in From(h), life'[x] = "live"
    PROVE  x \in From(h)'
PROOF
<1>1. Typed /\ ChainLinked BY Parts
<1>2. CASE next' = next
  BY <1>2 DEF From, NextClosed
<1>3. CASE next' # next
  <2>1. cell[c] \in Objects /\ ObjRelease(cell[c]) BY <1>3 DEF Assign, WeakRelease, chain
  <2>2. life'[cell[c]] = "dying" /\ next' = NextWithout(cell[c])
    BY <1>1, <2>1 DEF ObjRelease, RemoveFromChain, Typed, Refs
  <2>3. h # cell[c] /\ x # cell[c] BY <2>1, <2>2, DistinctAssumption DEF Refs
  <2> QED BY <1>1, <2>1, <2>2, <2>3, UnlinkFrom
<1> QED BY <1>2, <1>3

\* The same of _gc_chain.
LEMMA AssignHead ==
    ASSUME LInv, phase \in {"run", "close"}, NEW c \in Cells, NEW v \in Refs \cup {Null}, Assign(c, v),
           NEW x \in From(gc_chain), life'[x] = "live"
    PROVE  x \in From(gc_chain)'
PROOF
<1>1. /\ Typed /\ ChainLinked /\ NoDanglingRef /\ LoopVariables /\ Listed
      /\ cell[c] \in Refs \cup {Null}
  BY Parts DEF LInv, Typed
<1>2. CASE next' = next /\ gc_chain' = gc_chain
  BY <1>2 DEF From, NextClosed
<1>3. CASE ~(next' = next /\ gc_chain' = gc_chain)
  <2>1. cell[c] \in Objects /\ ObjRelease(cell[c]) BY <1>3 DEF Assign, WeakRelease, chain
  <2>2. life'[cell[c]] = "dying" /\ RemoveFromChain(cell[c])
    BY <1>1, <2>1 DEF ObjRelease, Typed, Refs
  <2>3. life[cell[c]] = "live" /\ marked = {}
    BY <1>1, <2>1, DistinctAssumption DEF NoDanglingRef, LoopVariables, Refs
  <2>4. cell[c] \in From(gc_chain) BY <1>1, <2>1, <2>3 DEF Listed
  <2> QED BY <1>1, <2>2, <2>4, UnlinkHead
<1> QED BY <1>2, <1>3

\* When nothing with fields is left to sweep, what roots and marked objects do
\* not refer to is not there.
LEMMA NothingLeft ==
    ASSUME CInv, Locals = {}, Outers = {}, Unswept(Null), cell[GcT] = Null, cell[GcN] = Null, dying = <<>>,
           NEW r \in Refs, r \notin marked, \A c \in Slots \cup (marked \X Fields) : cell[c] # r
    PROVE  life[r] # "live"
PROOF
<1>1. /\ Typed /\ RefCountExact /\ DyingStack /\ LiveCounted /\ FreeEmpty
      /\ Null \notin Refs
  BY Parts DEF CInv
<1> SUFFICES ASSUME life[r] = "live" PROVE FALSE
  OBVIOUS
<1>2. Count(cell, r) # 0 BY <1>1 DEF LiveCounted, RefCountExact
<1>3. PICK c \in Cells : cell[c] = r BY <1>1, <1>2, CountZero DEF Typed
<1>4. c \in Objects \X Fields BY <1>1, <1>3, NoOuters DEF Cells
<1>5. PICK x \in Objects : c \in OwnFields(x) BY <1>4 DEF OwnFields
<1>6. x \notin marked BY <1>3, <1>5 DEF OwnFields
<1>7. ~Empty(x) BY <1>1, <1>3, <1>5 DEF Empty
<1>8. life[x] = "live"
  <2>1. life[x] \in {"free", "live", "dying"} BY <1>1 DEF Typed, Refs
  <2>2. life[x] # "free" BY <1>1, <1>7 DEF FreeEmpty
  <2>3. life[x] # "dying" BY <1>1 DEF DyingStack
  <2> QED BY <2>1, <2>2, <2>3
<1>9. x \in From(Null) BY <1>6, <1>7, <1>8 DEF Unswept
<1> QED BY <1>9, FromNull

\* The last step of the loop, and the end of marking if there is nothing to sweep,
\* find every live object marked.
LEMMA AllMarked ==
    ASSUME LInv, Locals = {}, Outers = {}, NEW o \in Objects, life[o] = "live",
           \/ phase = "advance" /\ dying = <<>> /\ cell[GcN] = Null
           \/ phase = "mark" /\ gc_chain = Null
    PROVE  o \in marked
PROOF
<1>1. CInv /\ Listed /\ SweptBehind /\ LoopVariables /\ SweepSparesMarked /\ o \in Refs
  BY Parts DEF LInv
<1>2. CASE phase = "mark" /\ gc_chain = Null
  BY <1>1, <1>2, FromNull DEF Listed
<1>3. CASE phase = "advance" /\ dying = <<>> /\ cell[GcN] = Null
  <2>1. Unswept(Null) /\ cell[GcT] = Null BY <1>1, <1>3 DEF SweptBehind, LoopVariables
  <2>2. \A c \in Slots \cup (marked \X Fields) : cell[c] = o => o \in marked
    BY <1>1, <1>3, NoOuters DEF SweepSparesMarked, Sweeping
  <2> QED BY <1>1, <1>3, <2>1, <2>2, NothingLeft
<1> QED BY <1>2, <1>3

\* An assignment that a script makes, or while the state drops its roots.
LEMMA AssignListed ==
    ASSUME LInv, CInv', phase \in {"run", "close"}, phase' = phase, marked' = marked,
           NEW c \in Cells, NEW v \in Refs \cup {Null}, Assign(c, v),
           \A o \in Objects : life'[o] = "live" => life[o] = "live"
    PROVE  Listed' /\ SweptBehind' /\ RootsGone'
PROOF
<1>1. marked = {} BY Parts DEF LInv, LoopVariables
<1>2. SweptBehind' /\ RootsGone' BY DEF SweptBehind, RootsGone, Closing
<1>3. ASSUME NEW o \in Objects, life'[o] = "live" PROVE o \in From(gc_chain)'
  <2>1. o \in From(gc_chain) BY <1>1, <1>3 DEF LInv, Listed
  <2> QED BY <1>3, <2>1, AssignHead
<1> QED BY <1>1, <1>2, <1>3 DEF Listed

\* A cell that the loop or a destructor empties.
LEMMA EmptyListed ==
    ASSUME LInv, CInv', marked' = marked, NEW c \in Cells, Assign(c, Null),
           phase \notin {"run", "mark", "close", "next", "closenext", "closed"},
           \/ phase' = phase /\ c \notin {GcT, GcN}
           \/ phase = "drop" /\ phase' = "advance" /\ c = GcT
           \/ phase = "closedrop" /\ phase' = "closeadvance" /\ c = GcT
    PROVE  Listed' /\ SweptBehind' /\ RootsGone'
PROOF
<1>1. /\ CInv /\ Typed /\ LoopVariables /\ SweptBehind /\ RootsGone /\ Listed
      /\ GcT \in Cells /\ GcN \in Cells /\ GcT # GcN /\ Slots \subseteq Cells
      /\ \A o \in Objects : OwnFields(o) \subseteq Cells
      /\ Null \notin Objects /\ tchain \in Objects \cup {Null}
      /\ phase \in Phases
  BY Parts DEF LInv, Typed, LoopVariables
<1>2. NoDanglingRef' /\ MarkedLive' /\ ListsApart' BY Parts DEF CInv, SInv, IInv, Sound
<1>3. \A x \in Cells : cell'[x] = IF x = c THEN Null ELSE cell[x] BY <1>1 DEF Assign, Typed
<1>4. tchain' = tchain BY DEF Assign, WeakRelease, ObjRelease, RemoveFromChain, chain
<1>5. \A o \in Objects : life'[o] = "live" => life[o] = "live"
  BY <1>1, AssignCounted
<1>6. marked \subseteq From(tchain)'
  <2> SUFFICES ASSUME NEW o \in marked PROVE o \in From(tchain)'
    OBVIOUS
  <2>1. o \in From(tchain) /\ life'[o] = "live" BY <1>1, <1>2 DEF Listed, MarkedLive
  <2>2. tchain # Null => life'[tchain] = "live" BY <1>2, <1>4 DEF ListsApart, MarkedLive
  <2>3. PICK h \in Objects \cup {Null} : h = tchain BY <1>1
  <2>4. o \in From(h)' BY <1>1, <2>1, <2>2, <2>3, AssignFrom
  <2> QED BY <1>4, <2>3, <2>4
<1>7. ASSUME NEW h \in Objects \cup {Null}, Unswept(h), h # Null => \E x \in {GcT, GcN} : cell'[x] = h
      PROVE  Unswept(h)'
  <2> SUFFICES ASSUME NEW o \in Objects, life'[o] = "live", o \notin marked, ~Empty(o)'
               PROVE  o \in From(h)'
    BY DEF Unswept
  <2>1. ~Empty(o) BY <1>1, <1>3 DEF Empty
  <2>2. o \in From(h) BY <1>5, <1>7, <2>1 DEF Unswept
  <2>3. h # Null => life'[h] = "live" BY <1>1, <1>2, <1>7 DEF NoDanglingRef
  <2> QED BY <1>1, <2>2, <2>3, AssignFrom
<1>8. cell[GcT] \in Objects \cup {Null} /\ cell[GcN] \in Objects \cup {Null} BY <1>1 DEF LoopVariables
<1>9. CASE phase \in {"finalize", "closefinalize"}
  <2>1. cell'[GcT] = cell[GcT] /\ phase' = phase BY <1>1, <1>3, <1>9
  <2>2. Unswept(cell[GcT])' BY <1>1, <1>7, <1>8, <1>9, <2>1 DEF SweptBehind
  <2> QED BY <1>1, <1>3, <1>4, <1>6, <1>9, <2>1, <2>2 DEF SweptBehind, Listed, RootsGone, Closing
<1>10. CASE phase \in {"drop", "advance", "closedrop", "closeadvance"}
  <2>1. cell'[GcN] = cell[GcN] BY <1>1, <1>3, <1>10
  <2>2. Unswept(cell[GcN])' BY <1>1, <1>7, <1>8, <1>10, <2>1 DEF SweptBehind
  <2>3. phase' \in {"drop", "advance", "closedrop", "closeadvance"} /\ (phase' \in Closing => phase \in Closing)
    BY <1>10 DEF Closing
  <2> QED BY <1>1, <1>3, <1>4, <1>6, <1>10, <2>1, <2>2, <2>3 DEF SweptBehind, Listed, RootsGone
<1> QED BY <1>1, <1>9, <1>10 DEF Phases

\* The steps of scripts and native functions.
LEMMA MutateListed ==
    ASSUME LInv, CInv', Locals = {}, Outers = {}, Mutate
    PROVE  Listed' /\ SweptBehind' /\ RootsGone'
PROOF
<1> USE DistinctAssumption DEF Refs
<1>1. /\ CInv /\ IInv /\ Typed /\ NoDanglingRef /\ ChainLinked /\ LoopVariables /\ Listed
      /\ Slots \subseteq Cells /\ Null \notin Objects
      /\ \A o \in Objects : OwnFields(o) \subseteq Cells
  BY Parts DEF LInv
<1>2. phase = "run" /\ phase' = "run" /\ marked = {} /\ marked' = {}
  BY <1>1 DEF Mutate, New, Store, SetDelegate, GetWeakRef, Deref, Return, Idle, LoopVariables
<1>3. \A o \in Objects : life[o] = "live" => o \in From(gc_chain) BY <1>1, <1>2 DEF Listed
<1>4. ASSUME \A o \in Objects : life'[o] = "live" => o \in From(gc_chain)'
      PROVE  Listed' /\ SweptBehind' /\ RootsGone'
  BY <1>2, <1>4 DEF Listed, SweptBehind, RootsGone, Closing
<1>5. ASSUME NEW c \in Cells, NEW v \in Refs \cup {Null}, Assign(c, v)
      PROVE  Listed' /\ SweptBehind' /\ RootsGone'
  <2>1. \A o \in Objects : life'[o] = "live" => life[o] = "live"
    BY <1>1, <1>5 DEF Assign, WeakRelease, ObjRelease, Typed
  <2> QED BY <1>2, <1>5, <2>1, AssignListed
<1>6. ASSUME NEW o \in Objects, NEW c \in Slots \cup Locals, New(o, c)
      PROVE  Listed' /\ SweptBehind' /\ RootsGone'
  <2>1. /\ life[o] = "free" /\ life' = [life EXCEPT ![o] = "live"]
        /\ gc_chain' = o /\ next' = [next EXCEPT ![o] = gc_chain]
    BY <1>6 DEF New, AddToChain
  <2>2. next[o] = Null BY <1>1, <2>1 DEF ChainLinked, Typed
  <2>3. ASSUME NEW x \in Objects, life'[x] = "live",
               NEW S \in SUBSET Objects, o \in S, NextClosed(S)'
        PROVE  x \in S
    <3>1. next'[o] = gc_chain /\ \A y \in Objects \ {o} : next'[y] = next[y] BY <1>1, <2>1 DEF Typed
    <3>2. gc_chain \in S \cup {Null} BY <2>3, <3>1 DEF NextClosed
    <3>3. NextClosed(S) BY <2>2, <2>3, <3>1 DEF NextClosed
    <3>4. CASE x = o BY <2>3, <3>4
    <3>5. CASE x # o
      <4>1. x \in From(gc_chain) BY <1>1, <1>3, <2>1, <2>3, <3>5 DEF Typed
      <4> QED BY <3>2, <3>3, <4>1 DEF From
    <3> QED BY <3>4, <3>5
  <2>4. \A x \in Objects : life'[x] = "live" => x \in From(gc_chain)'
    BY <1>1, <2>1, <2>3 DEF From
  <2> QED BY <1>4, <2>4
<1>7. ASSUME NEW c \in Within \cup Filled, NEW v \in Values, Store(c, v)
      PROVE  Listed' /\ SweptBehind' /\ RootsGone'
  BY <1>1, <1>5, <1>7, ValuesLive DEF Store
<1>8. ASSUME NEW o \in Held \cap Plain, NEW m \in (Held \cap Plain) \cup {Null},
             Delegate \in Fields, SetDelegate(o, m)
      PROVE  Listed' /\ SweptBehind' /\ RootsGone'
  BY <1>1, <1>5, <1>8 DEF SetDelegate, Cells, Plain
<1>9. ASSUME NEW o \in Held \cap (Plain \cup Threads), NEW w \in Weaks, NEW c \in Slots, GetWeakRef(o, w, c)
      PROVE  Listed' /\ SweptBehind' /\ RootsGone'
  <2>1. UNCHANGED <<gc_chain, next>> /\ \A x \in Objects : life'[x] = life[x]
    BY <1>1, <1>9 DEF GetWeakRef, chain, Typed
  <2>2. From(gc_chain)' = From(gc_chain) BY <2>1 DEF From, NextClosed
  <2> QED BY <1>3, <1>4, <2>1, <2>2
<1>10. ASSUME NEW w \in Held \cap Weaks, NEW c \in Slots, Deref(w, c)
      PROVE  Listed' /\ SweptBehind' /\ RootsGone'
  BY <1>1, <1>5, <1>10 DEF Deref, Typed
<1>11. Plain \cup Threads \subseteq Objects BY OutersAssumption DEF Plain
<1> QED BY <1>6, <1>7, <1>8, <1>9, <1>10, <1>11 DEF Mutate

\* Marking moves an object from one list to the other.
LEMMA MarkListed ==
    ASSUME LInv, CInv', NEW o \in Objects, Mark(o)
    PROVE  Listed' /\ SweptBehind' /\ RootsGone'
PROOF
<1> USE DistinctAssumption DEF Refs
<1>1. /\ Typed /\ NoDanglingRef /\ ChainLinked /\ ListsApart /\ Listed /\ marked \subseteq Objects
      /\ Slots \cup (marked \X Fields) \subseteq Cells /\ Null \notin Objects
  BY Parts DEF LInv, Typed, Cells
<1>2. /\ phase = "mark" /\ phase' = "mark" /\ marked' = marked \cup {o} /\ life' = life
      /\ next' = [NextWithout(o) EXCEPT ![o] = tchain] /\ tchain' = o
      /\ gc_chain' = HeadWithout(o) /\ o \notin marked
  BY DEF Mark, heap, ToMark
<1>3. life[o] = "live"
  BY <1>1 DEF Mark, ToMark, NoDanglingRef
<1>4. o \in From(gc_chain) BY <1>1, <1>2, <1>3 DEF Listed
<1>5. gc_chain' = IF gc_chain = o THEN next[o] ELSE gc_chain
  <2>1. gc_chain \in Objects \cup {Null} BY <1>1 DEF Typed
  <2>2. prev[o] = Null <=> gc_chain = o
    BY <1>1, <1>4, <2>1, HeadOnly DEF ChainLinked
  <2> QED BY <1>2, <2>2 DEF HeadWithout
<1>6. next'[o] = tchain /\ \A x \in Objects \ {o} : next'[x] = IF x = prev[o] THEN next[o] ELSE next[x]
  BY <1>2 DEF NextWithout
<1>7. ASSUME NEW x \in marked, NEW S \in SUBSET Objects, o \in S, NextClosed(S)'
      PROVE  x \in S
  <2>1. tchain \in (S \cap marked) \cup {Null}
    BY <1>1, <1>6, <1>7 DEF NextClosed, ListsApart
  <2>2. ASSUME NEW y \in marked PROVE next'[y] = next[y] /\ next[y] \in marked \cup {Null}
    <3>1. y \in Objects /\ y # o /\ next[y] \in marked \cup {Null} BY <1>1, <1>2 DEF ListsApart, Typed
    <3>2. y # prev[o] BY <1>1, <1>2, <3>1 DEF ChainLinked
    <3> QED BY <1>6, <3>1, <3>2
  <2>3. NextClosed(S \cap marked) BY <1>7, <2>2 DEF NextClosed
  <2> QED BY <1>1, <1>7, <2>1, <2>3 DEF Listed, From
<1>8. ASSUME NEW x \in Objects, life[x] = "live", x \notin marked, x # o,
             NEW S \in SUBSET Objects, gc_chain' \in S \cup {Null}, NextClosed(S)'
      PROVE  x \in S
  <2>1. x \in From(gc_chain) BY <1>1, <1>2, <1>8 DEF Listed
  <2>2. \A y \in S \ {o} : NextWithout(o)[y] \in (S \ {o}) \cup {Null}
    <3> SUFFICES ASSUME NEW y \in S \ {o} PROVE NextWithout(o)[y] # o /\ NextWithout(o)[y] \in S \cup {Null}
      OBVIOUS
    <3>1. NextWithout(o)[y] = next'[y] BY <1>6 DEF NextWithout
    <3>2. next'[y] \in S \cup {Null} BY <1>8 DEF NextClosed
    <3>3. next'[y] # o
      <4>1. y \in Objects \ {o} /\ next'[y] = IF y = prev[o] THEN next[o] ELSE next[y] BY <1>6
      <4>2. \A z \in Objects : next[z] = o => prev[o] = z BY <1>1 DEF ChainLinked
      <4> QED BY <4>1, <4>2
    <3> QED BY <3>1, <3>2, <3>3
  <2>3. gc_chain = o => next[o] # o BY <1>1 DEF ChainLinked, Typed
  <2>4. (IF gc_chain = o THEN next[o] ELSE gc_chain) \in (S \ {o}) \cup {Null}
    BY <1>5, <1>8, <2>3
  <2> HIDE DEF NextWithout
  <2>5. gc_chain \in Objects \cup {Null} BY <1>1 DEF Typed
  <2>6. x \in S \ {o}
    <3>1. PICK T \in SUBSET Objects : T = S \ {o} OBVIOUS
    <3>2. PICK h \in Objects \cup {Null} : h = gc_chain BY <2>5
    <3>3. /\ \A y \in T : NextWithout(o)[y] \in T \cup {Null}
          /\ (IF h = o THEN next[o] ELSE h) \in T \cup {Null} /\ x \in From(h) /\ x # o /\ o \notin T
      BY <1>8, <2>1, <2>2, <2>4, <3>1, <3>2
    <3>4. x \in T BY <1>1, <3>3, UnlinkedClosed
    <3> QED BY <3>1, <3>4
  <2> QED BY <2>6
<1>9. Listed'
  <2>1. \A x \in Objects : life'[x] = "live" /\ x \notin marked' => x \in From(gc_chain)'
    BY <1>2, <1>8 DEF From
  <2>2. marked' \subseteq From(tchain)' BY <1>1, <1>2, <1>7 DEF From
  <2> QED BY <2>1, <2>2 DEF Listed
<1> QED BY <1>2, <1>9 DEF SweptBehind, RootsGone, Closing

\* The other steps of the collector and of the closing of the state.
LEMMA CollectListed ==
    ASSUME LInv, CInv', Locals = {}, Outers = {}, Destroy \/ Collect \/ Shutdown \/ CollectGarbage \/ Close
    PROVE  Listed' /\ SweptBehind' /\ RootsGone'
PROOF
<1> USE DistinctAssumption DEF Refs
<1>1. /\ CInv /\ IInv /\ Typed /\ NoDanglingRef /\ ChainLinked /\ LoopVariables /\ DyingStack
      /\ Listed /\ SweptBehind /\ RootsGone /\ NoneDying /\ phase \in Phases
      /\ GcT \in Cells /\ GcN \in Cells /\ GcT # GcN
      /\ Slots \subseteq Cells \ {GcT, GcN} /\ Null \notin Objects
      /\ \A o \in Objects : OwnFields(o) \subseteq Cells \ ({GcT, GcN} \cup Slots)
  BY Parts DEF LInv, CInv, LoopVariables
<1> DEFINE Goal == Listed' /\ SweptBehind' /\ RootsGone'
<1>2. ASSUME NEW c \in Cells, DestroyField(c) PROVE Goal
  <2>1. dying \in Seq(Objects) /\ dying # <<>> BY <1>1, <1>2 DEF Typed, DestroyField
  <2>2. Head(dying) \in Objects BY <2>1
  <2>3. c \notin {GcT, GcN} BY <1>1, <1>2, <2>2 DEF DestroyField
  <2>4. /\ Assign(c, Null) /\ marked' = marked /\ phase' = phase
        /\ phase \notin {"mark", "next", "closenext", "closed"}
    BY <1>1, <1>2, <2>1 DEF DestroyField, NoneDying, Between
  <2>5. \A o \in Objects : life'[o] = "live" => life[o] = "live"
    BY <1>1, <2>4, AssignCounted
  <2>6. CASE phase \in {"run", "close"} BY <2>4, <2>5, <2>6, AssignListed
  <2>7. CASE phase \notin {"run", "close"} BY <2>3, <2>4, <2>7, EmptyListed
  <2> QED BY <2>6, <2>7
<1>3. ASSUME NEW c \in Cells, FinalizeField(c) PROVE Goal
  <2>1. cell[GcT] \in Objects BY <1>1, <1>3 DEF FinalizeField, LoopVariables
  <2>2. c \notin {GcT, GcN} BY <1>1, <1>3, <2>1 DEF FinalizeField
  <2> QED BY <1>3, <2>2, EmptyListed DEF FinalizeField
<1>4. CASE DropT BY <1>1, <1>4, EmptyListed DEF DropT
<1>5. ASSUME NEW c \in Slots, CloseRoot(c) PROVE Goal
  <2>1. c \in Cells /\ Assign(c, Null) /\ marked' = marked BY <1>1, <1>5 DEF CloseRoot
  <2>2. \A o \in Objects : life'[o] = "live" => life[o] = "live" BY <1>1, <2>1, AssignCounted
  <2> QED BY <1>5, <2>1, <2>2, AssignListed DEF CloseRoot
<1>6. CASE DestroyEnd
  <2>1. UNCHANGED <<cell, marked, gc_chain, tchain, next, phase>> BY <1>6 DEF DestroyEnd, chain
  <2>2. dying \in Seq(Objects) /\ dying # <<>> BY <1>1, <1>6 DEF Typed, DestroyEnd
  <2>3. Head(dying) \in Objects BY <2>2
  <2>4. \A o \in Objects : life'[o] = "live" => life[o] = "live"
    BY <1>1, <1>6, <2>3 DEF DestroyEnd, Typed
  <2>5. \A h : From(h)' = From(h) BY <2>1 DEF From, NextClosed
  <2>6. \A o \in Objects : Empty(o)' = Empty(o) BY <2>1 DEF Empty
  <2>7. Listed' BY <1>1, <2>1, <2>4, <2>5 DEF Listed
  <2>8. SweptBehind' BY <1>1, <2>1, <2>4, <2>5, <2>6 DEF SweptBehind, Unswept
  <2> QED BY <1>1, <2>1, <2>7, <2>8 DEF RootsGone
<1>7. CASE CollectGarbage \/ Close
  <2>1. UNCHANGED <<life, marked, gc_chain, tchain, next>> /\ phase = "run" /\ phase' \in {"mark", "close"}
    BY <1>7 DEF CollectGarbage, Close, heap, chain, Idle
  <2>2. From(gc_chain)' = From(gc_chain) /\ From(tchain)' = From(tchain) BY <2>1 DEF From, NextClosed
  <2>3. Listed' BY <1>1, <2>1, <2>2 DEF Listed
  <2> QED BY <2>1, <2>3 DEF SweptBehind, RootsGone, Closing
<1>8. ASSUME NEW o \in Objects, Mark(o) PROVE Goal BY <1>8, MarkListed
<1>9. CASE EndMark \/ CloseSweep
  <2>1. /\ cell' = [cell EXCEPT ![GcT] = gc_chain] /\ life' = life /\ next' = next
        /\ \A o \in Objects : life[o] = "live" /\ o \notin marked => o \in From(gc_chain)
    BY <1>1, <1>9 DEF EndMark, CloseSweep, BeginSweep, Listed, chain
  <2>2. \A h : From(h)' = From(h) BY <2>1 DEF From, NextClosed
  <2>3. cell'[GcT] = gc_chain /\ \A c \in Cells \ {GcT} : cell'[c] = cell[c] BY <1>1, <2>1 DEF Typed
  <2>4. CASE EndMark /\ gc_chain = Null
    <3>1. marked' = {} /\ gc_chain' = tchain /\ phase' = "run"
      BY <2>4 DEF EndMark, BeginSweep
    <3>2. \A o \in Objects : life[o] = "live" => o \in From(tchain)
      BY <1>1, <2>4, AllMarked DEF Listed, EndMark
    <3> QED BY <2>1, <2>2, <3>1, <3>2 DEF Listed, SweptBehind, RootsGone, Closing
  <2>5. CASE gc_chain # Null \/ CloseSweep
    <3>1. marked' = marked /\ gc_chain' = gc_chain /\ tchain' = tchain
      BY <1>9, <2>5 DEF EndMark, CloseSweep, chain
    <3>2. /\ phase' \in {"finalize", "closefinalize", "closed"}
          /\ phase' = "closed" => gc_chain = Null
          /\ phase' \in Closing => \A c \in Slots : cell[c] = Null
      BY <1>9, <2>5 DEF EndMark, CloseSweep, BeginSweep, Closing
    <3>3. Listed' BY <1>1, <2>2, <3>1, <3>2 DEF Listed
    <3>4. SweptBehind' BY <2>1, <2>2, <2>3, <3>1, <3>2 DEF SweptBehind, Unswept
    <3>5. RootsGone' BY <1>1, <2>3, <3>2 DEF RootsGone
    <3> QED BY <3>3, <3>4, <3>5
  <2> QED BY <1>9, <2>4, <2>5
<1>10. CASE FinalizeEnd
  <2>1. UNCHANGED <<cell, life, marked, gc_chain, tchain, next>> /\ Empty(cell[GcT])
    BY <1>10 DEF FinalizeEnd, heap, chain, Empty
  <2>2. \A h : From(h)' = From(h) BY <2>1 DEF From, NextClosed
  <2>3. \A o \in Objects : Empty(o)' = Empty(o) BY <2>1 DEF Empty
  <2>4. /\ phase \in {"finalize", "closefinalize"} /\ phase' \in {"next", "closenext"}
        /\ phase' \in Closing => phase \in Closing
    BY <1>10 DEF FinalizeEnd, Closing
  <2>5. cell[GcT] \in Objects BY <1>1, <2>4 DEF LoopVariables
  <2>6. Unswept(next[cell[GcT]])
    BY <1>1, <2>1, <2>4, <2>5, FromNext DEF SweptBehind, Unswept
  <2>7. Listed' BY <1>1, <2>1, <2>2, <2>4 DEF Listed
  <2>8. SweptBehind' BY <2>1, <2>2, <2>3, <2>4, <2>6 DEF SweptBehind, Unswept
  <2> QED BY <1>1, <2>1, <2>4, <2>7, <2>8 DEF RootsGone
<1>11. CASE TakeNext
  <2>1. /\ cell' = [cell EXCEPT ![GcN] = next[cell[GcT]]]
        /\ UNCHANGED <<life, marked, gc_chain, tchain, next>>
    BY <1>11 DEF TakeNext, chain
  <2>2. \A h : From(h)' = From(h) BY <2>1 DEF From, NextClosed
  <2>3. cell'[GcN] = next[cell[GcT]] /\ \A c \in Cells \ {GcN} : cell'[c] = cell[c]
    BY <1>1, <2>1 DEF Typed
  <2>4. \A o \in Objects : Empty(o)' = Empty(o) BY <1>1, <2>3 DEF Empty
  <2>5. /\ phase \in {"next", "closenext"} /\ phase' \in {"drop", "closedrop"}
        /\ phase' \in Closing => phase \in Closing
    BY <1>11 DEF TakeNext, Closing
  <2>6. Listed' BY <1>1, <2>1, <2>2, <2>5 DEF Listed
  <2>7. SweptBehind' BY <1>1, <2>1, <2>2, <2>3, <2>4, <2>5 DEF SweptBehind, Unswept
  <2> QED BY <1>1, <2>3, <2>5, <2>6, <2>7 DEF RootsGone
<1>12. CASE Advance \/ CloseAdvance
  <2>1. /\ cell' = [cell EXCEPT ![GcT] = cell[GcN], ![GcN] = Null]
        /\ UNCHANGED <<life, next>> /\ phase \in {"advance", "closeadvance"} /\ dying = <<>>
    BY <1>12 DEF Advance, CloseAdvance, Between, chain
  <2>2. \A h : From(h)' = From(h) BY <2>1 DEF From, NextClosed
  <2>3. cell'[GcT] = cell[GcN] /\ \A c \in Cells \ {GcT, GcN} : cell'[c] = cell[c]
    BY <1>1, <2>1 DEF Typed
  <2>4. \A o \in Objects : Empty(o)' = Empty(o) BY <1>1, <2>3 DEF Empty
  <2>5. Unswept(cell[GcN]) BY <1>1, <2>1 DEF SweptBehind
  <2>6. CASE Advance /\ cell[GcN] = Null
    <3>1. marked' = {} /\ gc_chain' = tchain /\ phase' = "run" /\ phase = "advance"
      BY <2>6 DEF Advance
    <3>2. \A o \in Objects : life[o] = "live" => o \in From(tchain)
      BY <1>1, <2>1, <2>6, <3>1, AllMarked DEF Listed
    <3> QED BY <2>1, <2>2, <3>1, <3>2 DEF Listed, SweptBehind, RootsGone, Closing
  <2>7. CASE cell[GcN] # Null \/ CloseAdvance
    <3>1. marked' = marked /\ gc_chain' = gc_chain /\ tchain' = tchain
      BY <1>12, <2>7 DEF Advance, CloseAdvance, chain
    <3>2. /\ phase' \in {"finalize", "closefinalize", "closed"}
          /\ phase' = "closed" => cell[GcN] = Null
          /\ phase' \in Closing => phase \in Closing
      BY <1>12, <2>7 DEF Advance, CloseAdvance, Closing
    <3>3. Listed' BY <1>1, <2>2, <3>1, <3>2 DEF Listed
    <3>4. SweptBehind' BY <2>1, <2>2, <2>3, <2>4, <2>5, <3>1, <3>2 DEF SweptBehind, Unswept
    <3>5. RootsGone' BY <1>1, <2>3, <3>2 DEF RootsGone
    <3> QED BY <3>3, <3>4, <3>5
  <2> QED BY <1>12, <2>6, <2>7
<1>13. ASSUME NEW r \in Registers, LetGo(r) PROVE Goal
  <2>1. <<Open, r>> \in Cells \ {GcT, GcN} BY OtherCells DEF OpenCells
  <2>2. /\ Assign(<<Open, r>>, Null) /\ marked' = marked /\ phase' = phase
        /\ phase \notin {"mark", "next", "closenext", "closed"}
    BY <1>1, <1>13, OutersAssumption DEF LetGo, NoneDying, Between
  <2>3. \A o \in Objects : life'[o] = "live" => life[o] = "live"
    BY <1>1, <2>1, <2>2, AssignCounted
  <2>4. CASE phase \in {"run", "close"} BY <2>1, <2>2, <2>3, <2>4, AssignListed
  <2>5. CASE phase \notin {"run", "close"} BY <2>1, <2>2, <2>5, EmptyListed
  <2> QED BY <2>4, <2>5
<1>14. CASE Destroy BY <1>2, <1>6, <1>13, <1>14 DEF Destroy
<1>15. CASE Collect BY <1>3, <1>4, <1>8, <1>9, <1>10, <1>11, <1>12, <1>15 DEF Collect
<1>16. CASE Shutdown BY <1>5, <1>9, <1>12, <1>16 DEF Shutdown
<1> QED BY <1>7, <1>14, <1>15, <1>16

\* No step puts a weak reference into a destructor.
LEMMA WeaksStep ==
    ASSUME CInv, WeaksNotDying, Next
    PROVE  WeaksNotDying'
PROOF
<1> USE DistinctAssumption DEF Refs
<1>1. Typed BY Parts
<1>2. ASSUME NEW c, NEW v, Assign(c, v) PROVE WeaksNotDying'
  BY <1>1, <1>2 DEF Assign, WeakRelease, ObjRelease, WeaksNotDying, Typed
<1>3. CASE Mutate
  <2>1. ASSUME NEW o, NEW c, New(o, c) PROVE WeaksNotDying'
    BY <1>1, <2>1 DEF New, WeaksNotDying, Typed
  <2>2. ASSUME NEW o, NEW w, NEW c, GetWeakRef(o, w, c) PROVE WeaksNotDying'
    BY <1>1, <2>2 DEF GetWeakRef, WeaksNotDying, Typed
  <2>3. ASSUME NEW l, NEW c, Return(l, c) PROVE WeaksNotDying'
    BY <2>3 DEF Return, WeaksNotDying
  <2> QED BY <1>2, <1>3, <2>1, <2>2, <2>3
          DEF Mutate, Store, SetDelegate, Deref, FindOuter, LeaveBlock, CopyOut
<1>4. CASE DestroyEnd BY <1>1, <1>4 DEF DestroyEnd, WeaksNotDying, Typed
<1>5. CASE \/ CollectGarbage \/ Close \/ FinalizeEnd \/ TakeNext \/ Advance \/ CloseAdvance
           \/ EndMark \/ CloseSweep \/ \E o \in Objects : Mark(o)
  BY <1>5 DEF CollectGarbage, Close, FinalizeEnd, TakeNext, Advance, CloseAdvance, EndMark,
              CloseSweep, BeginSweep, Mark, heap, WeaksNotDying
<1>6. ASSUME NEW c, DestroyField(c) \/ FinalizeField(c) \/ CloseRoot(c) PROVE WeaksNotDying'
  BY <1>2, <1>6 DEF DestroyField, FinalizeField, CloseRoot
<1>7. CASE DropT BY <1>2, <1>7 DEF DropT
<1>8. ASSUME NEW p, NEW r, CopyOut(p, r) \/ LetGo(r) PROVE WeaksNotDying'
  BY <1>2, <1>8 DEF CopyOut, LetGo
<1> QED BY <1>3, <1>4, <1>5, <1>6, <1>7, <1>8
        DEF Next, Destroy, Collect, Shutdown, DestroyOuter, FinalizeOuter, CloseRootOuter

\* Every step preserves the invariant of a heap without native locals and outers.
LEMMA ListStep ==
    ASSUME LInv, Locals = {}, Outers = {}, [Next]_vars
    PROVE  LInv'
PROOF
<1>1. CInv' BY CollectionStep DEF LInv
<1>2. CASE Next
  <2>1. Listed' /\ SweptBehind' /\ RootsGone'
    BY <1>1, <1>2, MutateListed, CollectListed DEF Next
  <2>2. WeaksNotDying' BY <1>2, WeaksStep DEF LInv
  <2> QED BY <1>1, <2>1, <2>2 DEF LInv
<1>3. CASE UNCHANGED vars
  <2>1. UNCHANGED <<cell, life, marked, gc_chain, tchain, next, phase>> BY <1>3 DEF vars, heap, chain
  <2>2. \A h : From(h)' = From(h) BY <2>1 DEF From, NextClosed
  <2>3. \A o \in Objects : Empty(o)' = Empty(o) BY <2>1 DEF Empty
  <2>4. Listed' BY <2>1, <2>2 DEF LInv, Listed
  <2>5. SweptBehind' BY <2>1, <2>2, <2>3 DEF LInv, SweptBehind, Unswept
  <2> QED BY <1>1, <2>1, <2>4, <2>5 DEF LInv, RootsGone, WeaksNotDying
<1> QED BY <1>2, <1>3

\* What a collection knows when no native function holds an object in a local and
\* no register has an outer; the two theorems below are its consequences.
THEOREM ListInvariant ==
    ASSUME Locals = {}, Outers = {}
    PROVE  Spec => []LInv
PROOF
<1>1. Init => LInv
  <2> SUFFICES ASSUME Init PROVE LInv
    OBVIOUS
  <2>1. CInv BY CollectionInit
  <2> QED BY <2>1 DEF Init, LInv, Listed, SweptBehind, RootsGone, Closing, WeaksNotDying, Refs
<1>2. LInv /\ [Next]_vars => LInv' BY ListStep
<1> QED BY <1>1, <1>2, PTL DEF Spec

\* CollectGarbage frees all the garbage there is, cycles included, if no native
\* function waits with an object in a local (array_map and its like) and no
\* register has an outer, which its VM keeps although no closure may: the loop,
\* the destructors it sets off and the unlinking they do leave out nothing.
THEOREM GarbageIsFreed ==
    ASSUME Locals = {}, Outers = {}
    PROVE  Spec => CollectFreesGarbage
PROOF
<1> DEFINE Freed == (phase \in {"mark", "advance"} /\ phase' = "run") =>
                       ({o \in Objects : life'[o] # "free"} = ReachableFrom(Slots))
<1>1. ASSUME LInv, Next PROVE Freed
  <2> SUFFICES ASSUME phase \in {"mark", "advance"}, phase' = "run"
               PROVE  {o \in Objects : life'[o] # "free"} = ReachableFrom(Slots)
    OBVIOUS
  <2>1. /\ CInv /\ Typed /\ DyingStack /\ MarkedLive /\ SweepSparesMarked /\ NoneDying
        /\ ClosesTyped /\ Null \notin Registers
    BY <1>1, Parts, OutersAssumption DEF LInv, CInv
  <2>2. EndMark \/ Advance
    BY <1>1, <2>1
       DEF Next, Mutate, New, Store, SetDelegate, GetWeakRef, Deref, Return, FindOuter, LeaveBlock,
           LetGo, Idle, CollectGarbage, Close, Shutdown, CloseRootOuter, CloseRoot, CloseSweep,
           CloseAdvance, Destroy, DestroyOuter, DestroyField, DestroyEnd, CopyOut, Collect, Mark,
           FinalizeOuter, FinalizeField, FinalizeEnd, TakeNext, DropT
  <2>3. life' = life /\ dying = <<>>
    BY <2>1, <2>2 DEF EndMark, BeginSweep, Advance, NoneDying, Between
  <2>4. /\ phase = "mark" => gc_chain = Null
        /\ phase = "advance" => cell[GcN] = Null
    BY <2>2 DEF EndMark, BeginSweep, Advance
  <2>5. MarkedClosed /\ phase \in Marking
    <3>1. CASE phase = "advance"
      BY <2>1, <3>1 DEF MarkedClosed, SweepSparesMarked, Marking, Sweeping
    <3>2. CASE phase = "mark"
      <4>1. ToMark = {} BY <2>2, <3>2 DEF EndMark, Advance
      <4> QED BY <3>2, <4>1 DEF ToMark, MarkedClosed, Marking, Sweeping, FieldsOf
    <3> QED BY <3>1, <3>2
  <2>6. ReachableFrom(Slots) = marked BY <2>1, <2>5, MarkedIsReachable
  <2>7. \A o \in Objects : life[o] = "live" => o \in marked
    BY <1>1, <2>3, <2>4, AllMarked
  <2>8. \A o \in Objects : life[o] \in {"free", "live"} BY <2>1, <2>3 DEF DyingStack, Typed, Refs
  <2>9. marked \subseteq Objects /\ \A o \in marked : life[o] # "free" BY <2>1 DEF MarkedLive, Typed
  <2> QED BY <2>3, <2>6, <2>7, <2>8, <2>9
<1>2. LInv /\ [Next]_vars => [Freed]_vars BY <1>1
<1>3. Spec => []LInv BY ListInvariant
<1> QED BY <1>2, <1>3, PTL DEF Spec, CollectFreesGarbage

\* ~GSSharedState leaves nothing, if no native function had an object in a local
\* while a collection ran, and no register an outer: assert(_gc_chain==NULL) of GSstate.cpp:198, and more.
THEOREM NothingIsLeft ==
    ASSUME Locals = {}, Outers = {}
    PROVE  Spec => []TeardownFreesAll
PROOF
<1>1. ASSUME LInv PROVE TeardownFreesAll
  <2> SUFFICES ASSUME phase = "closed", NEW r \in Refs PROVE life[r] = "free"
    BY DEF TeardownFreesAll
  <2>1. /\ CInv /\ Typed /\ LoopVariables /\ DyingStack /\ NoneDying /\ Null \notin Refs
        /\ Unswept(Null) /\ \A c \in Slots : cell[c] = Null
    BY <1>1, Parts DEF LInv, CInv, SweptBehind, RootsGone, Closing
  <2>2. cell[GcT] = Null /\ cell[GcN] = Null /\ marked = {} /\ dying = <<>>
    BY <2>1 DEF LoopVariables, NoneDying, Between
  <2>3. life[r] # "live" BY <2>1, <2>2, NothingLeft
  <2>4. life[r] # "dying" BY <1>1, <2>1, <2>2 DEF DyingStack, LInv, WeaksNotDying, Refs
  <2> QED BY <2>1, <2>3, <2>4 DEF Typed
<1>2. LInv => TeardownFreesAll BY <1>1
<1>3. Spec => []LInv BY ListInvariant
<1> QED BY <1>2, <1>3, PTL
=============================================================================
