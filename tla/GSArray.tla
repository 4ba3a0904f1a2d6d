------------------------------ MODULE GSArray ------------------------------
(***************************************************************************)
(* One array (GSarray.h, over GSvector of GSutils.h), and the loops of the *)
(* base library that walk it while they call back into the script: map,    *)
(* apply, reduce, filter and sort (GSbaselib.cpp), and foreach.  While a    *)
(* loop waits for its callback, the callback may change the array and      *)
(* start loops over it.                                                    *)
(*                                                                         *)
(* A value is a type and a rank within the type.  Indices are C++'s, from  *)
(* 0.  frames are the loops in progress, the innermost last; whatever else *)
(* happens, happens in the callback of the last one.                       *)
(***************************************************************************)
EXTENDS Integers, Sequences, FiniteSets, SequencesExt

CONSTANTS Values,     \* set of [type, rank]; "string" is any type but null and the numbers
          Literals,   \* set of [vals, ops]: the values the array starts with, and
                      \* the bound on operations and loops started from there
          Compares,   \* who compares in sort: see Start
          MaxLen,     \* bound on the length of the array
          MaxNest,    \* bound on loops in progress
          Small       \* GSvector: least allocation, and the size it never shrinks below (4)

ASSUME ArrayAssumption ==
  /\ MaxLen \in Nat /\ MaxNest \in Nat /\ Small \in Nat \ {0}
  /\ Compares \subseteq {"objcmp", "func", "honest", "meta"}
ASSUME LiteralsAssumption ==
  /\ Values \subseteq [type : {"null", "int", "float", "string"}, rank : Int]
  /\ \A lit \in Literals :
       /\ lit.vals \in Seq([type : {"null", "int", "float", "string"}, rank : Int])
       /\ lit.ops \in Nat

VARIABLES arr,      \* [vals, alloc, max, type] of GSArray and its GSvector
          frames,
          ended,    \* the loop that has just come to its end, or Nothing
          touched,  \* the elements the last step used without a test
          ops       \* operations left

vars == <<arr, frames, ended, touched, ops>>

Null == [type |-> "null", rank |-> 0]
Nothing == [op |-> "none"]
None == -1

At(i) == IF i < Len(arr.vals) THEN arr.vals[i + 1] ELSE Null

(* ---- GSvector --------------------------------------------------------- *)

Realloc(n) == IF n > 0 THEN n ELSE Small

PushBack(a, v) ==
  [a EXCEPT !.vals = Append(@, v),
            !.alloc = IF @ <= Len(a.vals) THEN Realloc(2 * Len(a.vals)) ELSE @]

\* GSvector::resize.
Sized(a, n, fill) ==
  [a EXCEPT !.vals = [i \in 1..n |-> IF i <= Len(a.vals) THEN a.vals[i] ELSE fill],
            !.alloc = IF n > @ THEN Realloc(n) ELSE @]

\* ShrinkIfNeeded and shrinktofit.
Shrunk(a) ==
  IF Len(a.vals) <= a.alloc \div 4 /\ Len(a.vals) > Small
  THEN [a EXCEPT !.alloc = Len(a.vals)] ELSE a

\* insert makes room at the end and moves what follows idx up.
Inserted(a, idx, v) ==
  LET b == Sized(a, Len(a.vals) + 1, Null)
  IN [b EXCEPT !.vals = [i \in DOMAIN @ |-> IF i <= idx THEN a.vals[i]
                                            ELSE IF i = idx + 1 THEN v ELSE a.vals[i - 1]]]

Removed(a, idx) == [a EXCEPT !.vals = RemoveAt(@, idx + 1)]

(* ---- GSArray ---------------------------------------------------------- *)

\* The literal: NEWOBJ reserves what it will append.
Fresh(vals) == [vals |-> vals, alloc |-> Realloc(Len(vals)), max |-> None, type |-> "any"]

\* The element type of a declaration admits a value: a float may be an integer.
Admits(type, v) == type = "any" \/ v.type = type \/ (type = "float" /\ v.type = "int")

Refuses(a, v) == (a.max # None /\ Len(a.vals) >= a.max) \/ ~Admits(a.type, v)

Appended(a, v) == IF Refuses(a, v) THEN a ELSE PushBack(a, v)

\* Extend: as many as the source had at the start, it may be the array
\* itself; refused elements are left out in silence.
Extended(a, src) ==
  LET Up[i \in 0..Len(src)] == IF i = 0 THEN a ELSE Appended(Up[i - 1], src[i])
  IN Up[Len(src)]

Init ==
  /\ \E lit \in Literals : arr = Fresh(lit.vals) /\ ops = lit.ops
  /\ frames = <<>> /\ ended = Nothing /\ touched = {}

Top == frames[Len(frames)]
Outer == SubSeq(frames, 1, Len(frames) - 1)

\* The script has control: no loop, or the innermost waits for its callback.
InScript == frames # <<>> => (Top.stage \in {"call", "children", "root"} /\ Top.cmp # "objcmp")

\* What a change of the array is to the loops around it.
Disturbed(fs, moved) ==
  [k \in DOMAIN fs |-> [fs[k] EXCEPT !.quiet = FALSE, !.moved = @ \/ moved]]

\* One operation of a script or of the host.
Change(new) ==
  /\ InScript /\ ops > 0 /\ Len(new.vals) <= MaxLen
  /\ arr' = new
  /\ frames' = Disturbed(frames, new.alloc # arr.alloc)
  /\ ops' = ops - 1 /\ ended' = Nothing /\ touched' = {}

AppendValue(v) == ~Refuses(arr, v) /\ Change(Appended(arr, v))
ExtendBy(src) == Change(Extended(arr, src))
Pop == Len(arr.vals) > 0 /\ Change(Shrunk(Removed(arr, Len(arr.vals) - 1)))
Insert(idx, v) == idx \in 0..Len(arr.vals) /\ Change(Inserted(arr, idx, v))
RemoveIndex(idx) == idx \in 0..Len(arr.vals) - 1 /\ Change(Shrunk(Removed(arr, idx)))
Resize(n, fill) == Change(Shrunk(Sized(arr, n, fill)))
Set(idx, v) == idx \in 0..Len(arr.vals) - 1 /\ Change([arr EXCEPT !.vals[idx + 1] = v])

\* GS_arrayreverse swaps the halves.
ReverseArray ==
  LET n == Len(arr.vals)
  IN Change([arr EXCEPT !.vals = [i \in 1..n |-> @[n + 1 - i]]])

\* TYPECHECK of an array: the declaration sticks to an array that has none
\* yet, before the elements are tested, and stays when the test fails.
TypeCheck(type, n) ==
  LET capped == [arr EXCEPT !.max = IF n > 0 /\ @ = None THEN n ELSE @]
      tooBig == n > 0 /\ Len(arr.vals) > n
  IN Change(IF tooBig THEN capped
            ELSE [capped EXCEPT !.type = IF @ = "any" THEN type ELSE @])

\* The script goes on with a clone, which has no declaration.
Clone == frames = <<>> /\ Change([Fresh(arr.vals) EXCEPT !.alloc = Len(arr.vals)])

\* Where a slice from sidx to eidx begins and ends, or an error: <<>>.
SliceBounds(sidx, eidx) ==
  LET alen == Len(arr.vals)
      s == IF sidx < 0 THEN alen + sidx ELSE sidx
      e == IF eidx < 0 THEN alen + eidx ELSE eidx
  IN IF e < s \/ e > alen \/ s < 0 THEN <<>> ELSE <<s, e>>

\* A slice is a copy of what lies between.
Slice(sidx, eidx) ==
  LET b == SliceBounds(sidx, eidx)
  IN /\ InScript /\ ops > 0 /\ b # <<>>
     /\ touched' = b[1]..b[2] - 1
     /\ ops' = ops - 1 /\ ended' = Nothing
     /\ UNCHANGED <<arr, frames>>

(* ---- loops ------------------------------------------------------------ *)

Frame(op, cmp) ==
  [op |-> op, cmp |-> cmp, stage |-> "head", n |-> 0, size |-> Len(arr.vals),
   temp |-> Null,            \* the native function's local for the element
   dest |-> <<>>,            \* the result of map, filter and reduce
   seen |-> <<>>,            \* elements given to the callback
   said |-> <<>>,            \* its answers
   emptied |-> None,         \* how many there were when garbage was last collected
   building |-> TRUE, root |-> 0, bottom |-> 0, child |-> 0,   \* of sort
   old |-> arr.vals, quiet |-> TRUE, moved |-> FALSE]

Begin(f) ==
  /\ InScript /\ Len(frames) < MaxNest /\ ops > 0
  /\ frames' = Append(frames, f)
  /\ ops' = ops - 1 /\ ended' = Nothing /\ touched' = {}
  /\ UNCHANGED arr

\* map makes its result beforehand, as long as the array is then.
StartMap == Begin([Frame("map", "none") EXCEPT !.dest = [i \in DOMAIN arr.vals |-> Null]])
StartApply == Begin(Frame("apply", "none"))
StartFilter == Begin(Frame("filter", "none"))
StartForeach == Begin(Frame("foreach", "none"))

\* reduce takes the first element, or the value it is given, to begin with.
StartReduce(given) ==
  IF given # Nothing THEN Begin([Frame("reduce", "none") EXCEPT !.dest = <<given>>])
  ELSE /\ Len(arr.vals) > 0
       /\ Begin([Frame("reduce", "none") EXCEPT !.dest = <<At(0)>>, !.n = 1, !.seen = <<At(0)>>])

\* Who compares: a function of the script that answers anything ("func") or
\* what the order is ("honest"), ObjCmp itself ("objcmp"), or _cmp of the
\* elements, called by ObjCmp ("meta").
StartSort(cmp) ==
  /\ Len(arr.vals) > 1
  /\ Begin([Frame("sort", cmp) EXCEPT !.stage = "next", !.n = Len(arr.vals) \div 2])

\* The innermost loop goes on as f, with the array new.
Continue(f, new) ==
  /\ frames' = Append(IF new = arr THEN Outer ELSE Disturbed(Outer, FALSE), f)
  /\ arr' = new /\ ended' = Nothing
  /\ UNCHANGED ops

\* It ends; or it fails, and the script in the callback around it may catch that.
End(f) ==
  /\ frames' = Outer /\ touched' = {}
  /\ ended' = f
  /\ UNCHANGED <<arr, ops>>

Fail == End(Nothing)

Walks == {"map", "apply", "filter", "reduce", "foreach"}

\* The head of a loop.  Get leaves temp alone when the array has become
\* shorter than it was; foreach asks the array, the others remember its size.
WalkHead ==
  /\ frames # <<>> /\ Top.op \in Walks /\ Top.stage = "head"
  /\ IF Top.n >= (IF Top.op = "foreach" THEN Len(arr.vals) ELSE Top.size)
     THEN End(Top)
     ELSE LET e == IF Top.n < Len(arr.vals) THEN At(Top.n) ELSE Top.temp
          IN /\ touched' = {}
             /\ Continue([Top EXCEPT !.stage = "call", !.temp = e, !.seen = Append(@, e)], arr)

\* What an answer does.  map writes its result, apply the array itself, where
\* what they write is still long enough.
MapAnswer(f, r) ==
  IF f.op = "map"
  THEN Continue([f EXCEPT !.dest = IF Top.n < Len(@) THEN [@ EXCEPT ![Top.n + 1] = r] ELSE @], arr)
  ELSE Continue(f, IF Top.n < Len(arr.vals) THEN [arr EXCEPT !.vals[Top.n + 1] = r] ELSE arr)

FilterAnswer(f, r) ==
  Continue([f EXCEPT !.dest = IF r # Null THEN Append(@, Top.temp) ELSE @], arr)

ReduceAnswer(f, r) == Continue([f EXCEPT !.dest = <<r>>], arr)

\* The callback answers r; the body of a foreach has no answer.
WalkReturn(r) ==
  /\ frames # <<>> /\ Top.op \in Walks /\ Top.stage = "call"
  /\ touched' = {}
  /\ LET f == [Top EXCEPT !.stage = "head", !.n = @ + 1, !.said = Append(@, r)]
     IN \/ Top.op \in {"map", "apply"} /\ MapAnswer(f, r)
        \/ Top.op = "filter" /\ FilterAnswer(f, r)
        \/ Top.op = "reduce" /\ ReduceAnswer(f, r)
        \/ Top.op = "foreach" /\ r = Null /\ Continue([f EXCEPT !.said = <<>>], arr)

\* A callback collects garbage.  The results of map and filter are held by a
\* local variable of the native function only, where the collector does not
\* look: it takes them for garbage, and GSArray::Finalize resizes them to 0.
CollectGarbage ==
  /\ InScript /\ frames # <<>>
  /\ frames' = [k \in DOMAIN frames |->
                 IF frames[k].op \in {"map", "filter"}
                 THEN [frames[k] EXCEPT !.dest = <<>>, !.emptied = Len(frames[k].said)]
                 ELSE frames[k]]
  /\ ended' = Nothing /\ touched' = {}
  /\ UNCHANGED <<arr, ops>>

(* ---- sort ------------------------------------------------------------- *)

\* What is outside the array is left alone here; touched tells.
Swapped(i, j) ==
  IF {i, j} \subseteq 0..Len(arr.vals) - 1
  THEN [arr EXCEPT !.vals[i + 1] = At(j), !.vals[j + 1] = At(i)]
  ELSE arr

\* The first loop stops before the root of the heap.
Mut_SortNext ==
  LET sift == [Top EXCEPT !.stage = "head", !.n = @ - 1]
  IN /\ frames # <<>> /\ Top.op = "sort" /\ Top.stage = "next"
     /\ \/ /\ Top.building /\ Top.n >= 1
           /\ touched' = {}
           /\ Continue([sift EXCEPT !.root = Top.n, !.bottom = Top.size - 1], arr)
        \/ /\ Top.building /\ Top.n < 1
           /\ touched' = {}
           /\ Continue([Top EXCEPT !.building = FALSE, !.n = Top.size - 1], arr)
        \/ /\ ~Top.building /\ Top.n >= 1
           /\ touched' = {0, Top.n}
           /\ Continue([sift EXCEPT !.root = 0, !.bottom = Top.n - 1], Swapped(0, Top.n))
        \/ ~Top.building /\ Top.n < 1 /\ End(Top)

\* The two for loops of _hsort.
SortNext ==
  LET sift == [Top EXCEPT !.stage = "head", !.n = @ - 1]
  IN /\ frames # <<>> /\ Top.op = "sort" /\ Top.stage = "next"
     /\ \/ /\ Top.building /\ Top.n >= 0
           /\ touched' = {}
           /\ Continue([sift EXCEPT !.root = Top.n, !.bottom = Top.size - 1], arr)
        \/ /\ Top.building /\ Top.n < 0
           /\ touched' = {}
           /\ Continue([Top EXCEPT !.building = FALSE, !.n = Top.size - 1], arr)
        \/ /\ ~Top.building /\ Top.n >= 1
           /\ touched' = {0, Top.n}
           /\ Continue([sift EXCEPT !.root = 0, !.bottom = Top.n - 1], Swapped(0, Top.n))
        \/ ~Top.building /\ Top.n < 1 /\ End(Top)

\* The while loop of _hsort_sift_down, up to a comparison.  The children of
\* 0 are 0 and 1.
SiftHead ==
  LET root2 == 2 * Top.root
  IN /\ frames # <<>> /\ Top.op = "sort" /\ Top.stage = "head"
     /\ IF root2 > Top.bottom THEN touched' = {} /\ Continue([Top EXCEPT !.stage = "next"], arr)
        ELSE IF root2 = Top.bottom
        THEN touched' = {Top.root, root2} /\ Continue([Top EXCEPT !.child = root2, !.stage = "root"], arr)
        ELSE touched' = {root2, root2 + 1} /\ Continue([Top EXCEPT !.stage = "children"], arr)

\* ObjCmp without metamethods: "none" is an error.
ObjCmp(a, b) ==
  IF a.type = b.type
  THEN IF a.rank < b.rank THEN -1 ELSE IF a.rank > b.rank THEN 1 ELSE 0
  ELSE IF {a.type, b.type} = {"int", "float"}
  THEN IF a.rank < b.rank THEN -1 ELSE IF a.rank > b.rank THEN 1 ELSE 0
  ELSE IF a.type = "null" THEN -1 ELSE IF b.type = "null" THEN 1 ELSE 2

Compared == IF Top.stage = "children" THEN <<2 * Top.root, 2 * Top.root + 1>>
            ELSE <<Top.root, Top.child>>

\* Nobody looks at the array after the call.
Mut_Resized == FALSE

\* _sort_compare after the call: was the array resized or moved?  The memory
\* manager may give a moved array its old place.
Resized == Top.cmp \in {"func", "honest"} /\ Len(arr.vals) # Top.size
Moved == Top.cmp \in {"func", "honest"} /\ Top.moved

\* An element is swapped with itself.
Mut_SiftBody(ret) ==
  LET f     == [Top EXCEPT !.moved = FALSE]
      child == IF ret > 0 THEN 2 * Top.root ELSE 2 * Top.root + 1
  IN IF Top.stage = "children"
     THEN touched' = {Top.root, child} /\ Continue([f EXCEPT !.child = child, !.stage = "root"], arr)
     ELSE IF ret >= 0 THEN touched' = {} /\ Continue([f EXCEPT !.stage = "next"], arr)
     ELSE /\ touched' = {Top.root, Top.child}
          /\ Continue([f EXCEPT !.root = Top.child, !.stage = "head"], Swapped(Top.root, Top.child))

\* The rest of the body, with ret the answer.
SiftBody(ret) ==
  LET f     == [Top EXCEPT !.moved = FALSE]
      child == IF ret > 0 THEN 2 * Top.root ELSE 2 * Top.root + 1
  IN IF Top.stage = "children"
     THEN touched' = {Top.root, child} /\ Continue([f EXCEPT !.child = child, !.stage = "root"], arr)
     ELSE IF ret >= 0 THEN touched' = {} /\ Continue([f EXCEPT !.stage = "next"], arr)
     ELSE IF Top.root = Top.child THEN Fail    \* inconsistent compare function
     ELSE /\ touched' = {Top.root, Top.child}
          /\ Continue([f EXCEPT !.root = Top.child, !.stage = "head"], Swapped(Top.root, Top.child))

\* What the comparison may answer.  The arguments are copied before the call.
Answers(a, b) ==
  IF Top.cmp \in {"objcmp", "honest"} THEN {ObjCmp(a, b)} ELSE {-1, 0, 1}

SortCompared ==
  /\ frames # <<>> /\ Top.op = "sort" /\ Top.stage \in {"children", "root"}
  /\ \/ /\ ~Resized
        /\ \E ret \in Answers(At(Compared[1]), At(Compared[2])) :
             IF ret = 2 THEN Fail ELSE SiftBody(ret)
     \/ (Resized \/ Moved) /\ Fail

\* The callback fails.
CallbackFails ==
  /\ frames # <<>> /\ InScript
  /\ Fail

Loop == WalkHead \/ SortNext \/ SiftHead
Return == SortCompared \/ \E r \in Values \cup {Null} : WalkReturn(r)

Operation ==
  \/ \E v \in Values : AppendValue(v)
  \/ \E src \in {arr.vals} \cup {<<v, Null>> : v \in Values} : ExtendBy(src)
  \/ Pop \/ ReverseArray \/ Clone
  \/ \E idx \in 0..MaxLen, v \in Values : Insert(idx, v) \/ Set(idx, v)
  \/ \E idx \in 0..MaxLen : RemoveIndex(idx)
  \/ \E n \in 0..MaxLen, fill \in Values \cup {Null} : Resize(n, fill)
  \/ \E type \in {"int", "float"}, n \in {0, 2} : TypeCheck(type, n)
  \/ \E s, e \in -MaxLen..MaxLen : Slice(s, e)
  \/ CollectGarbage

Start ==
  \/ StartMap \/ StartApply \/ StartFilter \/ StartForeach
  \/ \E given \in Values \cup {Nothing} : StartReduce(given)
  \/ \E cmp \in Compares : StartSort(cmp)

Next == Operation \/ Start \/ Loop \/ Return \/ CallbackFails

\* Loops run on, and callbacks come back.
Fairness == WF_vars(Loop) /\ WF_vars(Return)

Spec == Init /\ [][Next]_vars /\ Fairness

(* ---- properties ------------------------------------------------------- *)

\* What the loops and slice use without a test lies in the array, whatever
\* the callbacks did to it; and the array fits what is allocated.
InBounds ==
  /\ touched \subseteq 0..Len(arr.vals) - 1
  /\ Len(arr.vals) <= arr.alloc

\* How often v occurs in s.
Occurs(s, v) == Cardinality({i \in DOMAIN s : s[i] = v})

\* The elements a filter keeps: those whose answer was not null, and came
\* after the last collection.
Kept(f) == {i \in DOMAIN f.seen : f.said[i] # Null /\ i > f.emptied}

\* A loop whose callbacks left the array alone did what it is for.  map,
\* apply, filter and reduce gave every element to the callback once and in
\* order, and made of its answers what they should; sort with an order that
\* is one has sorted.  map and filter lose their result when a callback
\* collects garbage: map then returns an empty array, filter what it kept
\* since, and nothing else goes wrong.
LoopsExact ==
  (ended # Nothing /\ ended.quiet) =>
    IF ended.op = "sort"
    THEN ended.cmp \in {"objcmp", "honest"} =>
           /\ \A i, j \in DOMAIN arr.vals : i < j => ObjCmp(arr.vals[i], arr.vals[j]) \in {-1, 0}
           /\ \A v \in Range(ended.old) : Occurs(arr.vals, v) = Occurs(ended.old, v)
           /\ Len(arr.vals) = Len(ended.old)
    ELSE /\ ended.seen = ended.old
         /\ ended.op = "map" => ended.dest = IF ended.emptied = None THEN ended.said ELSE <<>>
         /\ ended.op = "apply" => arr.vals = ended.said
         /\ ended.op = "filter" =>
              /\ Len(ended.dest) = Cardinality(Kept(ended))
              /\ \A i \in Kept(ended) :
                   ended.dest[Cardinality({k \in Kept(ended) : k <= i})] = ended.seen[i]
         /\ (ended.op = "reduce" /\ ended.said # <<>>) =>
              ended.dest = <<ended.said[Len(ended.said)]>>

\* Every loop but foreach ends when its callbacks do, also when they append
\* to the array all the time, and sort whatever its compare function answers.
LoopsEnd ==
  \A k \in 1..MaxNest :
    (Len(frames) >= k /\ frames[k].op # "foreach") ~> (Len(frames) < k)
=============================================================================
