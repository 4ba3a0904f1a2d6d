---------------------------- MODULE GSArrayProofs ----------------------------
(***************************************************************************)
(* That the loops over an array, and slice, use no element outside it,     *)
(* whatever their callbacks do to the array meanwhile, and that a loop     *)
(* whose callbacks left the array alone did what it is for, for every      *)
(* length, depth of loops and allocation, and every function that          *)
(* compares.                                                               *)
(*                                                                         *)
(* Only sort uses elements without a test: it remembers the length of the  *)
(* array, and looks again after each call of a compare function.  A sort   *)
(* that has just looked, or has called nobody, sees the length it          *)
(* remembers (Sorting); one that waits for its callback need not.  After a *)
(* _cmp metamethod sort does not look: LoopsStayInside has the hypothesis  *)
(* "meta" \notin Compares.                                                 *)
(*                                                                         *)
(* What a loop has done so far (Exact) is a fact about its frame and the   *)
(* array.  Only the innermost loop moves, and when it or a callback        *)
(* changes the array, the loops around it are quiet no longer.  For sort   *)
(* it is the invariant of heap sort: a heap with at most one element out   *)
(* of order (Heap, Grand), behind it what is in its place (Placed), and    *)
(* the elements that were there to begin with (SameElements).              *)
(***************************************************************************)
EXTENDS GSArray, FiniteSetTheorems, SequenceTheorems, WellFoundedInduction, TLAPS

Elem == [type : {"null", "int", "float", "string"}, rank : Int]
ArrayT == [vals : Seq(Elem), alloc : Nat, max : Int, type : {"any", "int", "float"}]

\* An array that fits its allocation.
Fits(a) == a \in ArrayT /\ Len(a.vals) <= a.alloc

-----------------------------------------------------------------------------
(* Numbers and sequences.                                                  *)

LEMMA Least ==
    ASSUME NEW T, T \subseteq Nat, T # {}
    PROVE  \E x \in T : \A y \in T : x <= y
PROOF
<1>1. PICK R : R = {ss \in Nat \X Nat : ss[1] < ss[2]} OBVIOUS
<1>2. IsWellFoundedOn(OpToRel(<, Nat), Nat) BY NatLessThanWellFounded
<1>3. IsWellFoundedOn(R, Nat) BY <1>1, <1>2 DEF OpToRel
<1>4. PICK x \in T : \A y \in T : ~(<<y, x>> \in R) BY <1>3, WFMin
<1>5. ASSUME NEW y \in T PROVE x <= y
  <2>1. x \in Nat /\ y \in Nat OBVIOUS
  <2>2. <<y, x>> \notin R BY <1>4
  <2>3. <<y, x>> \in Nat \X Nat /\ <<y, x>>[1] = y /\ <<y, x>>[2] = x BY <2>1
  <2>4. ~(y < x) BY <1>1, <2>2, <2>3
  <2> QED BY <2>1, <2>4
<1> QED BY <1>5

\* The values of the callbacks and of the literals can be elements.
LEMMA ValueIs == Values \subseteq Elem /\ Null \in Elem
PROOF
<1>1. Values \subseteq Elem BY LiteralsAssumption DEF Elem
<1>2. PICK T : T = {"null", "int", "float", "string"} OBVIOUS
<1>3. \A x \in T, y \in Int : [type |-> x, rank |-> y] \in [type : T, rank : Int] OBVIOUS
<1>4. "null" \in T /\ 0 \in Int BY <1>2
<1>5. [type |-> "null", rank |-> 0] \in [type : T, rank : Int] BY <1>3, <1>4
<1> QED BY <1>1, <1>2, <1>5 DEF Elem, Null

LEMMA SliceIs ==
    ASSUME NEW S, NEW s \in Seq(S), NEW m \in 1 .. Len(s) + 1, NEW n \in Nat, m <= n + 1, n <= Len(s)
    PROVE  SubSeq(s, m, n) \in Seq(S) /\ Len(SubSeq(s, m, n)) = n - m + 1
PROOF
<1>1. m \in Int /\ n \in Int /\ \A i \in m .. n : s[i] \in S OBVIOUS
<1>2. /\ SubSeq(s, m, n) \in Seq(S)
      /\ Len(SubSeq(s, m, n)) = IF m <= n THEN n - m + 1 ELSE 0
  BY <1>1, SubSeqProperties
<1> QED BY <1>1, <1>2

LEMMA PrefixIs ==
    ASSUME NEW S, NEW s \in Seq(S), NEW n \in 0 .. Len(s)
    PROVE  /\ SubSeq(s, 1, n) \in Seq(S) /\ Len(SubSeq(s, 1, n)) = n
           /\ \A i \in 1 .. n : SubSeq(s, 1, n)[i] = s[i]
PROOF
<1>1. n \in Int /\ 1 \in Int /\ \A i \in 1 .. n : s[i] \in S OBVIOUS
<1>2. /\ SubSeq(s, 1, n) \in Seq(S)
      /\ Len(SubSeq(s, 1, n)) = IF 1 <= n THEN n - 1 + 1 ELSE 0
      /\ \A i \in 1 .. n - 1 + 1 : SubSeq(s, 1, n)[i] = s[1 + i - 1]
  BY <1>1, SubSeqProperties
<1> QED BY <1>1, <1>2

\* A sequence given by its elements.
LEMMA ListIs ==
    ASSUME NEW S, NEW n \in Nat, NEW s, DOMAIN s = 1 .. n, s = [i \in 1 .. n |-> s[i]],
           \A i \in 1 .. n : s[i] \in S
    PROVE  s \in Seq(S) /\ Len(s) = n
PROOF
<1>1. s \in [1 .. n -> S] OBVIOUS
<1> QED BY <1>1

-----------------------------------------------------------------------------
(* The vector: every operation leaves an array that fits its allocation.   *)

LEMMA PushFits ==
    ASSUME NEW a, Fits(a), NEW v \in Elem
    PROVE  Fits(PushBack(a, v))
PROOF
<1>1. PICK n : n = Len(a.vals) OBVIOUS
<1>2. n \in Nat /\ a.alloc \in Nat /\ n <= a.alloc /\ a.vals \in Seq(Elem) BY <1>1 DEF Fits, ArrayT
<1>3. PICK s : s = Append(a.vals, v) OBVIOUS
<1>4. s \in Seq(Elem) /\ Len(s) = n + 1 BY <1>1, <1>2, <1>3
<1>5. PICK m : m = IF a.alloc <= n THEN Realloc(2 * n) ELSE a.alloc OBVIOUS
<1>6. m \in Nat /\ n + 1 <= m BY <1>2, <1>5, ArrayAssumption DEF Realloc
<1>7. PushBack(a, v) = [a EXCEPT !.vals = s, !.alloc = m] BY <1>1, <1>3, <1>5 DEF PushBack
<1> QED BY <1>4, <1>6, <1>7 DEF Fits, ArrayT

LEMMA SizedFits ==
    ASSUME NEW a, Fits(a), NEW n \in Nat, NEW fill \in Elem
    PROVE  Fits(Sized(a, n, fill)) /\ Len(Sized(a, n, fill).vals) = n
PROOF
<1>1. PICK s : s = [i \in 1 .. n |-> IF i <= Len(a.vals) THEN a.vals[i] ELSE fill] OBVIOUS
<1>2. s \in [1 .. n -> Elem] BY <1>1 DEF Fits, ArrayT
<1>3. s \in Seq(Elem) /\ Len(s) = n BY <1>2
<1>4. PICK m : m = IF n > a.alloc THEN Realloc(n) ELSE a.alloc OBVIOUS
<1>5. m \in Nat /\ n <= m BY <1>4, ArrayAssumption DEF Realloc, Fits, ArrayT
<1>6. Sized(a, n, fill) = [a EXCEPT !.vals = s, !.alloc = m] BY <1>1, <1>4 DEF Sized
<1> QED BY <1>3, <1>5, <1>6 DEF Fits, ArrayT

LEMMA ShrunkFits ==
    ASSUME NEW a, Fits(a)
    PROVE  Fits(Shrunk(a))
BY DEF Fits, ArrayT, Shrunk

\* Other elements in the same array.
LEMMA ChangedFits ==
    ASSUME NEW a, Fits(a), NEW s, DOMAIN s = DOMAIN a.vals, s = [i \in DOMAIN a.vals |-> s[i]],
           \A i \in DOMAIN a.vals : s[i] \in Elem
    PROVE  /\ Fits([a EXCEPT !.vals = s]) /\ Len(s) = Len(a.vals)
           /\ [a EXCEPT !.vals = s].vals = s
PROOF
<1>1. PICK n : n = Len(a.vals) OBVIOUS
<1>2. n \in Nat /\ a.vals \in Seq(Elem) /\ DOMAIN a.vals = 1 .. n BY <1>1 DEF Fits, ArrayT
<1>3. s \in Seq(Elem) /\ Len(s) = n BY <1>2, ListIs
<1> QED BY <1>1, <1>3 DEF Fits, ArrayT

LEMMA StoredFits ==
    ASSUME NEW a, Fits(a), NEW i \in Int, NEW v \in Elem
    PROVE  /\ Fits([a EXCEPT !.vals[i] = v])
           /\ Len([a EXCEPT !.vals[i] = v].vals) = Len(a.vals)
PROOF
<1>1. PICK c : c = a.vals OBVIOUS
<1>2. PICK s : s = [c EXCEPT ![i] = v] OBVIOUS
<1>3. c \in Seq(Elem) BY <1>1 DEF Fits, ArrayT
<1>4. DOMAIN s = DOMAIN c /\ s = [j \in DOMAIN c |-> s[j]] /\ \A j \in DOMAIN c : s[j] \in Elem
  <2>1. s \in Seq(Elem) /\ DOMAIN s = DOMAIN c
    <3>1. PICK k \in Nat : c \in [1 .. k -> Elem] BY <1>3, SeqDef
    <3>2. s \in [1 .. k -> Elem] BY <1>2, <3>1
    <3> QED BY <3>1, <3>2, SeqDef
  <2>2. \A j \in DOMAIN c : s[j] \in Elem BY <2>1
  <2>3. s = [j \in DOMAIN c |-> s[j]] BY <2>1
  <2> QED BY <2>1, <2>2, <2>3
<1>5. [a EXCEPT !.vals[i] = v] = [a EXCEPT !.vals = s] BY <1>1, <1>2
<1>6. /\ DOMAIN s = DOMAIN a.vals /\ s = [j \in DOMAIN a.vals |-> s[j]]
      /\ \A j \in DOMAIN a.vals : s[j] \in Elem
  BY <1>1, <1>4
<1>7. Fits([a EXCEPT !.vals = s]) /\ Len(s) = Len(a.vals) /\ [a EXCEPT !.vals = s].vals = s
  BY <1>6, ChangedFits
<1>8. Fits([a EXCEPT !.vals[i] = v]) BY <1>5, <1>7
<1>9. [a EXCEPT !.vals[i] = v].vals = s BY <1>5, <1>7
<1> QED BY <1>7, <1>8, <1>9

LEMMA RemovedFits ==
    ASSUME NEW a, Fits(a), NEW idx \in 0 .. Len(a.vals) - 1
    PROVE  Fits(Removed(a, idx))
PROOF
<1>1. PICK c, n : c = a.vals /\ n = Len(c) OBVIOUS
<1>2. c \in Seq(Elem) /\ n \in Nat /\ idx \in 0 .. n - 1 /\ n <= a.alloc /\ a.alloc \in Nat
  BY <1>1 DEF Fits, ArrayT
<1> DEFINE j == idx + 1
<1>3. PICK s, t : s = SubSeq(c, 1, j - 1) /\ t = SubSeq(c, j + 1, Len(c)) OBVIOUS
<1>4. s \in Seq(Elem) /\ Len(s) = idx
  <2>1. j - 1 = idx /\ 1 \in 1 .. Len(c) + 1 /\ idx \in Nat /\ idx <= Len(c) BY <1>1, <1>2
  <2> QED BY <1>2, <1>3, <2>1, SliceIs
<1>5. t \in Seq(Elem) /\ Len(t) = n - idx - 1
  <2>1. /\ j + 1 = idx + 2 /\ idx + 2 \in 1 .. Len(c) + 1
        /\ idx + 2 <= Len(c) + 1 /\ Len(c) \in Nat /\ Len(c) - (idx + 2) + 1 = n - idx - 1
    BY <1>1, <1>2
  <2> QED BY <1>2, <1>3, <2>1, SliceIs
<1>6. PICK r : r = s \o t OBVIOUS
<1>7. r \in Seq(Elem) /\ Len(r) = n - 1 BY <1>2, <1>4, <1>5, <1>6
<1>8. r = RemoveAt(c, j)
  <2> HIDE DEF j
  <2>1. RemoveAt(c, j) = SubSeq(c, 1, j - 1) \o SubSeq(c, j + 1, Len(c)) BY DEF RemoveAt
  <2> QED BY <1>3, <1>6, <2>1
<1>9. Removed(a, idx) = [a EXCEPT !.vals = r] BY <1>1, <1>8 DEF Removed
<1>10. a \in ArrayT BY DEF Fits
<1>11. Len(r) <= a.alloc BY <1>2, <1>7
<1>12. [a EXCEPT !.vals = r] \in ArrayT /\ [a EXCEPT !.vals = r].vals = r
       /\ [a EXCEPT !.vals = r].alloc = a.alloc
  BY <1>7, <1>10 DEF ArrayT
<1> QED BY <1>9, <1>11, <1>12 DEF Fits

LEMMA InsertedFits ==
    ASSUME NEW a, Fits(a), NEW idx \in 0 .. Len(a.vals), NEW v \in Elem
    PROVE  Fits(Inserted(a, idx, v))
PROOF
<1>1. PICK c, n : c = a.vals /\ n = Len(c) OBVIOUS
<1>2. c \in Seq(Elem) /\ n \in Nat /\ idx \in 0 .. n BY <1>1 DEF Fits, ArrayT
<1>3. PICK b : b = Sized(a, n + 1, Null) OBVIOUS
<1>4. Fits(b) /\ Len(b.vals) = n + 1
  <2>1. n + 1 \in Nat BY <1>2
  <2>2. PICK fill : fill = Null OBVIOUS
  <2>3. fill \in Elem BY <2>2, ValueIs
  <2>4. Fits(Sized(a, n + 1, fill)) /\ Len(Sized(a, n + 1, fill).vals) = n + 1
    BY <2>1, <2>3, SizedFits
  <2> QED BY <1>3, <2>2, <2>4
<1>5. DOMAIN b.vals = 1 .. n + 1 BY <1>4 DEF Fits, ArrayT
<1>6. PICK s : s = [i \in DOMAIN b.vals |-> IF i <= idx THEN c[i]
                                           ELSE IF i = idx + 1 THEN v ELSE c[i - 1]] OBVIOUS
<1>7. \A i \in DOMAIN b.vals : s[i] \in Elem BY <1>1, <1>2, <1>5, <1>6
<1>8. Inserted(a, idx, v) = [b EXCEPT !.vals = s] BY <1>1, <1>3, <1>6 DEF Inserted
<1>9. DOMAIN s = DOMAIN b.vals /\ s = [i \in DOMAIN b.vals |-> s[i]] BY <1>6
<1>10. Fits([b EXCEPT !.vals = s]) BY <1>4, <1>7, <1>9, ChangedFits
<1> QED BY <1>8, <1>10

\* The recursive function in Extended is one: there is one on 0 .. 0, and each
\* can be extended.
IsUp(up, a, src, n) == up = [i \in 0 .. n |-> IF i = 0 THEN a ELSE Appended(up[i - 1], src[i])]

LEMMA UpExists ==
    ASSUME NEW a, NEW src, NEW n \in Nat
    PROVE  \E up : IsUp(up, a, src, n)
PROOF
<1> DEFINE Is(f, m) == /\ DOMAIN f = 0 .. m /\ f = [i \in 0 .. m |-> f[i]] /\ f[0] = a
                       /\ \A i \in 1 .. m : f[i] = Appended(f[i - 1], src[i])
           Bad == {m \in Nat : ~ \E f : Is(f, m)}
<1>1. Bad = {}
  <2> SUFFICES ASSUME Bad # {} PROVE FALSE OBVIOUS
  <2>1. PICK m \in Bad : \A k \in Bad : m <= k BY Least
  <2>2. CASE m = 0
    <3>1. PICK f : f = [i \in 0 .. 0 |-> a] OBVIOUS
    <3>2. DOMAIN f = 0 .. 0 /\ f = [i \in 0 .. 0 |-> f[i]] /\ f[0] = a BY <3>1
    <3>3. Is(f, 0) BY <3>2
    <3> QED BY <2>1, <2>2, <3>3
  <2>3. CASE m > 0
    <3>1. PICK k : k = m - 1 OBVIOUS
    <3>2. k \in Nat /\ k \notin Bad /\ m = k + 1 BY <2>1, <2>3, <3>1
    <3>3. PICK f : Is(f, k) BY <3>2
    <3>4. PICK x : x = Appended(f[k], src[m]) OBVIOUS
    <3>5. PICK g : g = [i \in 0 .. m |-> IF i = m THEN x ELSE f[i]] OBVIOUS
    <3>6. g[m] = Appended(g[m - 1], src[m]) BY <3>2, <3>4, <3>5
    <3>7. \A i \in 1 .. k : g[i] = f[i] /\ g[i - 1] = f[i - 1] BY <3>2, <3>5
    <3>8. \A i \in 1 .. k : g[i] = Appended(g[i - 1], src[i]) BY <3>3, <3>7
    <3>9. \A i \in 1 .. m : g[i] = Appended(g[i - 1], src[i]) BY <3>2, <3>6, <3>8
    <3>10. DOMAIN g = 0 .. m /\ g = [i \in 0 .. m |-> g[i]] /\ g[0] = a BY <3>2, <3>3, <3>5
    <3>11. Is(g, m) BY <3>9, <3>10
    <3> QED BY <2>1, <3>11
  <2> QED BY <2>1, <2>2, <2>3
<1>2. PICK f : Is(f, n) BY <1>1
<1>3. ASSUME NEW i \in 0 .. n PROVE f[i] = IF i = 0 THEN a ELSE Appended(f[i - 1], src[i])
  <2>1. i = 0 \/ i \in 1 .. n OBVIOUS
  <2> QED BY <1>2, <2>1
<1>4. f = [i \in 0 .. n |-> IF i = 0 THEN a ELSE Appended(f[i - 1], src[i])] BY <1>2, <1>3
<1> QED BY <1>4 DEF IsUp

LEMMA ExtendedFits ==
    ASSUME NEW a, Fits(a), NEW src \in Seq(Elem)
    PROVE  Fits(Extended(a, src))
PROOF
<1>1. PICK n : n = Len(src) OBVIOUS
<1>2. n \in Nat /\ \A i \in 1 .. n : src[i] \in Elem BY <1>1
<1>3. PICK u : u = CHOOSE up : IsUp(up, a, src, n) OBVIOUS
<1>4. u = [i \in 0 .. n |-> IF i = 0 THEN a ELSE Appended(u[i - 1], src[i])]
  <2>1. IsUp(u, a, src, n) BY <1>2, <1>3, UpExists
  <2> QED BY <2>1 DEF IsUp
<1>5. Extended(a, src) = u[n] BY <1>1, <1>3 DEF Extended, IsUp
<1>6. \A i \in 0 .. n : Fits(u[i])
  <2> DEFINE Bad == {m \in 0 .. n : ~Fits(u[m])}
  <2> SUFFICES ASSUME Bad # {} PROVE FALSE OBVIOUS
  <2>1. PICK m \in Bad : \A k \in Bad : m <= k
    <3>1. Bad \subseteq Nat BY <1>2
    <3> QED BY <3>1, Least
  <2>2. u[0] = a BY <1>2, <1>4
  <2>3. m # 0 BY <2>1, <2>2
  <2>4. m - 1 \in 0 .. n /\ m \in 1 .. n /\ ~(m <= m - 1) BY <1>2, <2>3
  <2>5. Fits(u[m - 1]) BY <2>1, <2>4
  <2>6. u[m] = Appended(u[m - 1], src[m]) BY <1>4, <2>4
  <2>7. Fits(u[m])
    <3>1. PICK b, v : b = u[m - 1] /\ v = src[m] OBVIOUS
    <3>2. Fits(b) /\ v \in Elem BY <1>2, <2>4, <2>5, <3>1
    <3>3. Fits(PushBack(b, v)) BY <3>2, PushFits
    <3> QED BY <2>6, <3>1, <3>2, <3>3 DEF Appended
  <2> QED BY <2>1, <2>7
<1> QED BY <1>2, <1>5, <1>6

-----------------------------------------------------------------------------
(* The loops.                                                              *)

FrameFields ==
    {"op", "cmp", "stage", "n", "size", "temp", "dest", "seen", "said", "emptied", "building",
     "root", "bottom", "child", "old", "quiet", "moved"}

\* The loop waits for a callback: only then does anything else happen.
Waits(f) == f.stage \in {"call", "children", "root"} /\ f.cmp # "objcmp"

\* What a sort remembers lies in an array of the length that it remembers.
SortTyped(f) ==
    /\ f.stage \in {"next", "head", "children", "root"} /\ f.cmp \in Compares
    /\ f.n < f.size /\ f.bottom < f.size /\ f.root \in 0 .. f.size - 1 /\ f.child \in 0 .. f.size - 1
    /\ f.stage = "children" => 2 * f.root < f.bottom

\* A loop over an array of length len.
FrameInv(f, len) ==
    /\ DOMAIN f = FrameFields
    /\ f.op \in Walks \cup {"sort"} /\ f.n \in Int /\ f.size \in Nat /\ f.bottom \in Int
    /\ f.op \in Walks => f.n \in Nat /\ f.cmp = "none" /\ f.stage \in {"head", "call"}
    /\ f.op = "sort" => SortTyped(f) /\ (Waits(f) \/ len = f.size \/ f.cmp = "meta")

IsSeq(s) == \E S : s \in Seq(S)

Sorting(len) ==
    /\ IsSeq(frames)
    /\ \A k \in 1 .. Len(frames) :
          /\ FrameInv(frames[k], len)
          /\ k < Len(frames) => Waits(frames[k])

\* What a step uses without a test is in an array of length len; of a sort that calls
\* _cmp metamethods this is not true.
Inside(s, len) == "meta" \notin Compares => s \subseteq 0 .. len - 1

AInv == Fits(arr) /\ Sorting(Len(arr.vals)) /\ Inside(touched, Len(arr.vals))

LEMMA TopIs ==
    ASSUME NEW len, Sorting(len), frames # <<>>
    PROVE  /\ FrameInv(Top, len) /\ IsSeq(Outer) /\ Len(Outer) = Len(frames) - 1
           /\ Len(frames) \in Nat \ {0}
           /\ \A k \in 1 .. Len(Outer) : FrameInv(Outer[k], len) /\ Waits(Outer[k])
PROOF
<1>1. PICK S : frames \in Seq(S) BY DEF Sorting, IsSeq
<1>2. PICK n : n = Len(frames) OBVIOUS
<1>3. n \in Nat \ {0} BY <1>1, <1>2
<1>4. FrameInv(Top, len) BY <1>2, <1>3 DEF Top, Sorting
<1>5. PICK o : o = SubSeq(frames, 1, n - 1) OBVIOUS
<1>6. o \in Seq(S) /\ Len(o) = n - 1 /\ \A i \in 1 .. n - 1 : o[i] = frames[i]
  <2>1. n - 1 \in 0 .. Len(frames) BY <1>2, <1>3
  <2> QED BY <1>1, <1>5, <2>1, PrefixIs
<1>7. o = Outer BY <1>2, <1>5 DEF Outer
<1>8. \A k \in 1 .. n - 1 : FrameInv(o[k], len) /\ Waits(o[k]) BY <1>2, <1>3, <1>6 DEF Sorting
<1>9. IsSeq(o) BY <1>6 DEF IsSeq
<1> QED BY <1>2, <1>3, <1>4, <1>6, <1>7, <1>8, <1>9

\* What happens in a callback changes nothing that the loops around it rely on.
LEMMA DisturbedIs ==
    ASSUME NEW s, IsSeq(s), NEW len, NEW new, NEW moved,
           \A k \in 1 .. Len(s) : FrameInv(s[k], len) /\ Waits(s[k])
    PROVE  /\ IsSeq(Disturbed(s, moved)) /\ Len(Disturbed(s, moved)) = Len(s)
           /\ \A k \in 1 .. Len(s) :
                 FrameInv(Disturbed(s, moved)[k], new) /\ Waits(Disturbed(s, moved)[k])
PROOF
<1>1. PICK S : s \in Seq(S) BY DEF IsSeq
<1>2. PICK n : n = Len(s) OBVIOUS
<1>3. n \in Nat /\ DOMAIN s = 1 .. n BY <1>1, <1>2
<1>4. PICK d : d = Disturbed(s, moved) OBVIOUS
<1>5. DOMAIN d = 1 .. n /\ d = [k \in 1 .. n |-> d[k]]
      /\ \A k \in 1 .. n : d[k] = [s[k] EXCEPT !.quiet = FALSE, !.moved = @ \/ moved]
  BY <1>3, <1>4 DEF Disturbed
<1>6. PICK T : T = {d[k] : k \in 1 .. n} OBVIOUS
<1>7. d \in Seq(T) /\ Len(d) = n
  <2>1. \A k \in 1 .. n : d[k] \in T BY <1>6
  <2>2. DOMAIN d = 1 .. n /\ d = [k \in 1 .. n |-> d[k]] BY <1>5
  <2> QED BY <1>3, <2>1, <2>2, ListIs
<1>8. ASSUME NEW k \in 1 .. n PROVE FrameInv(d[k], new) /\ Waits(d[k])
  <2>1. PICK f, g : f = s[k] /\ g = d[k] OBVIOUS
  <2>2. PICK b : b = (f.moved \/ moved) OBVIOUS
  <2>3. PICK no : no = FALSE OBVIOUS
  <2>4. g = [f EXCEPT !.quiet = no, !.moved = b] BY <1>5, <2>1, <2>2, <2>3
  <2>5. FrameInv(f, len) /\ Waits(f) BY <1>2, <2>1
  <2>6. DOMAIN g = DOMAIN f BY <2>4
  <2>7. /\ g.op = f.op /\ g.cmp = f.cmp /\ g.stage = f.stage /\ g.n = f.n /\ g.size = f.size
        /\ g.root = f.root /\ g.bottom = f.bottom /\ g.child = f.child
    BY <2>4, <2>5 DEF FrameInv, FrameFields
  <2> QED BY <2>1, <2>5, <2>6, <2>7 DEF FrameInv, SortTyped, Waits
<1>9. IsSeq(d) BY <1>7 DEF IsSeq
<1> QED BY <1>2, <1>4, <1>7, <1>8, <1>9

-----------------------------------------------------------------------------
(* What a step does to the loops.                                          *)

\* Frames s that wait, and f on top of them.
LEMMA OnTop ==
    ASSUME NEW s, IsSeq(s), NEW len, NEW f, FrameInv(f, len),
           \A k \in 1 .. Len(s) : FrameInv(s[k], len) /\ Waits(s[k]),
           frames' = Append(s, f), Len(arr'.vals) = len
    PROVE  Sorting(Len(arr.vals))'
PROOF
<1>1. PICK S : s \in Seq(S) BY DEF IsSeq
<1>2. PICK n : n = Len(s) OBVIOUS
<1>3. PICK t : t = Append(s, f) OBVIOUS
<1>4. n \in Nat /\ Len(t) = n + 1 /\ t[n + 1] = f /\ \A k \in 1 .. n : t[k] = s[k]
  BY <1>1, <1>2, <1>3
<1>5. t \in Seq(S \cup {f}) BY <1>1, <1>3
<1>6. \A k \in 1 .. n + 1 : FrameInv(t[k], len) /\ (k < n + 1 => Waits(t[k]))
  <2> TAKE k \in 1 .. n + 1
  <2>1. k = n + 1 \/ k \in 1 .. n BY <1>4
  <2> QED BY <1>2, <1>4, <2>1
<1> QED BY <1>3, <1>4, <1>5, <1>6 DEF Sorting, IsSeq

LEMMA Waiting ==
    ASSUME NEW len, Sorting(len), InScript
    PROVE  \A k \in 1 .. Len(frames) : FrameInv(frames[k], len) /\ Waits(frames[k])
PROOF
<1>1. PICK S : frames \in Seq(S) BY DEF Sorting, IsSeq
<1>2. CASE frames = <<>> BY <1>2
<1>3. CASE frames # <<>>
  <2>1. Len(frames) \in Nat BY <1>1
  <2>2. Waits(frames[Len(frames)]) BY <1>3 DEF InScript, Waits, Top
  <2> QED BY <2>1, <2>2 DEF Sorting
<1> QED BY <1>2, <1>3

LEMMA ChangeInv ==
    ASSUME AInv, NEW new, Fits(new), Change(new)
    PROVE  AInv'
PROOF
<1>1. /\ InScript /\ Sorting(Len(arr.vals)) /\ arr' = new /\ touched' = {}
      /\ frames' = Disturbed(frames, new.alloc # arr.alloc)
  BY DEF AInv, Change
<1>2. PICK moved : moved = (new.alloc # arr.alloc) OBVIOUS
<1>3. PICK len, to : len = Len(arr.vals) /\ to = Len(arr'.vals) OBVIOUS
<1>4. \A k \in 1 .. Len(frames) : FrameInv(frames[k], len) /\ Waits(frames[k]) BY <1>1, <1>3, Waiting
<1>5. IsSeq(frames) BY <1>1 DEF Sorting
<1>6. frames' = Disturbed(frames, moved) BY <1>1, <1>2
<1>7. /\ IsSeq(frames') /\ Len(frames') = Len(frames)
      /\ \A k \in 1 .. Len(frames) : FrameInv(frames'[k], to) /\ Waits(frames'[k])
  BY <1>4, <1>5, <1>6, DisturbedIs
<1>8. Sorting(Len(arr.vals))' BY <1>3, <1>7 DEF Sorting
<1> QED BY <1>1, <1>8 DEF AInv, Inside

LEMMA BeginInv ==
    ASSUME AInv, NEW f, FrameInv(f, Len(arr.vals)), Begin(f)
    PROVE  AInv'
PROOF
<1>1. /\ InScript /\ Sorting(Len(arr.vals)) /\ arr' = arr /\ touched' = {}
      /\ frames' = Append(frames, f)
  BY DEF AInv, Begin
<1>2. PICK len : len = Len(arr.vals) OBVIOUS
<1>3. \A k \in 1 .. Len(frames) : FrameInv(frames[k], len) /\ Waits(frames[k]) BY <1>1, <1>2, Waiting
<1>4. IsSeq(frames) /\ Len(arr'.vals) = len /\ FrameInv(f, len) BY <1>1, <1>2 DEF Sorting
<1>5. Sorting(Len(arr.vals))' BY <1>1, <1>3, <1>4, OnTop
<1> QED BY <1>1, <1>5 DEF AInv, Inside

LEMMA ContinueInv ==
    ASSUME AInv, frames # <<>>, NEW f, FrameInv(f, Len(arr.vals)), NEW new, Fits(new),
           Len(new.vals) = Len(arr.vals), Continue(f, new), Inside(touched', Len(arr.vals))
    PROVE  AInv'
PROOF
<1>1. PICK len : len = Len(arr.vals) OBVIOUS
<1>2. Sorting(len) /\ FrameInv(f, len) BY <1>1 DEF AInv
<1>3. IsSeq(Outer) /\ \A k \in 1 .. Len(Outer) : FrameInv(Outer[k], len) /\ Waits(Outer[k])
  BY <1>2, TopIs
<1>4. PICK no : no = FALSE OBVIOUS
<1>5. PICK s : s = IF new = arr THEN Outer ELSE Disturbed(Outer, no) OBVIOUS
<1>6. IsSeq(s) /\ \A k \in 1 .. Len(s) : FrameInv(s[k], len) /\ Waits(s[k])
  <2>1. CASE new = arr BY <1>3, <1>5, <2>1
  <2>2. CASE new # arr
    <3>1. s = Disturbed(Outer, no) BY <1>5, <2>2
    <3>2. PICK o : o = Outer OBVIOUS
    <3>3. /\ IsSeq(Disturbed(o, no)) /\ Len(Disturbed(o, no)) = Len(o)
          /\ \A k \in 1 .. Len(o) : FrameInv(Disturbed(o, no)[k], len) /\ Waits(Disturbed(o, no)[k])
      BY <1>3, <3>2, DisturbedIs
    <3> QED BY <3>1, <3>2, <3>3
  <2> QED BY <2>1, <2>2
<1>7. frames' = Append(s, f) /\ arr' = new BY <1>4, <1>5 DEF Continue
<1>8. Len(arr'.vals) = len BY <1>1, <1>7
<1>9. Sorting(Len(arr.vals))' BY <1>2, <1>6, <1>7, <1>8, OnTop
<1>10. Inside(touched', Len(arr'.vals)) BY <1>1, <1>8
<1> QED BY <1>7, <1>9, <1>10 DEF AInv

LEMMA EndInv ==
    ASSUME AInv, frames # <<>>, NEW f, End(f)
    PROVE  AInv'
PROOF
<1>1. PICK len : len = Len(arr.vals) OBVIOUS
<1>2. Sorting(len) BY <1>1 DEF AInv
<1>3. IsSeq(Outer) /\ \A k \in 1 .. Len(Outer) : FrameInv(Outer[k], len) /\ Waits(Outer[k])
  BY <1>2, TopIs
<1>4. frames' = Outer /\ arr' = arr /\ touched' = {} BY DEF End
<1>5. Sorting(Len(arr.vals))' BY <1>1, <1>3, <1>4 DEF Sorting
<1> QED BY <1>4, <1>5 DEF AInv, Inside

-----------------------------------------------------------------------------
(* Operations.                                                             *)

\* What a collection does to the frame f of a loop.
Collected(f) ==
    IF f.op \in {"map", "filter"} THEN [f EXCEPT !.dest = <<>>, !.emptied = Len(f.said)] ELSE f

LEMMA CollectedIs ==
    ASSUME CollectGarbage, IsSeq(frames)
    PROVE  /\ IsSeq(frames') /\ Len(frames') = Len(frames)
           /\ \A k \in 1 .. Len(frames) : frames'[k] = Collected(frames[k])
PROOF
<1>1. PICK S : frames \in Seq(S) BY DEF IsSeq
<1>2. PICK n, d : n = Len(frames) /\ d = [k \in 1 .. n |-> Collected(frames[k])] OBVIOUS
<1>3. n \in Nat /\ DOMAIN frames = 1 .. n BY <1>1, <1>2
<1>4. frames' = d BY <1>2, <1>3 DEF CollectGarbage, Collected
<1>5. PICK T : T = {d[k] : k \in 1 .. n} OBVIOUS
<1>6. \A k \in 1 .. n : d[k] \in T BY <1>5
<1>7. DOMAIN d = 1 .. n /\ d = [k \in 1 .. n |-> d[k]] BY <1>2
<1>8. d \in Seq(T) /\ Len(d) = n BY <1>3, <1>6, <1>7, ListIs
<1> QED BY <1>2, <1>4, <1>8 DEF IsSeq

LEMMA CollectInv ==
    ASSUME AInv, CollectGarbage
    PROVE  AInv'
PROOF
<1>1. PICK len : len = Len(arr.vals) OBVIOUS
<1>2. InScript /\ Sorting(len) /\ arr' = arr /\ touched' = {} BY <1>1 DEF AInv, CollectGarbage
<1>3. \A k \in 1 .. Len(frames) : FrameInv(frames[k], len) /\ Waits(frames[k]) BY <1>2, Waiting
<1>4. /\ IsSeq(frames') /\ Len(frames') = Len(frames)
      /\ \A k \in 1 .. Len(frames) : frames'[k] = Collected(frames[k])
  BY <1>2, CollectedIs DEF Sorting
<1>5. ASSUME NEW k \in 1 .. Len(frames)
      PROVE  FrameInv(Collected(frames[k]), len) /\ Waits(Collected(frames[k]))
  <2>1. PICK f, g : f = frames[k] /\ g = Collected(f) OBVIOUS
  <2>2. FrameInv(f, len) /\ Waits(f) BY <1>3, <2>1
  <2>3. PICK d, m : d = <<>> /\ m = Len(f.said) OBVIOUS
  <2>4. g = f \/ g = [f EXCEPT !.dest = d, !.emptied = m] BY <2>1, <2>3 DEF Collected
  <2>5. DOMAIN g = DOMAIN f BY <2>4
  <2>6. /\ g.op = f.op /\ g.cmp = f.cmp /\ g.stage = f.stage /\ g.n = f.n /\ g.size = f.size
        /\ g.root = f.root /\ g.bottom = f.bottom /\ g.child = f.child
    BY <2>2, <2>4 DEF FrameInv, FrameFields
  <2> QED BY <2>1, <2>2, <2>5, <2>6 DEF FrameInv, SortTyped, Waits
<1>6. Sorting(len)' BY <1>1, <1>2, <1>4, <1>5 DEF Sorting
<1> QED BY <1>1, <1>2, <1>6 DEF AInv, Inside

LEMMA OperationInv ==
    ASSUME AInv, Operation
    PROVE  AInv'
PROOF
<1>1. Fits(arr) BY DEF AInv
<1>2. PICK c, n : c = arr.vals /\ n = Len(c) OBVIOUS
<1>3. c \in Seq(Elem) /\ n \in Nat /\ DOMAIN c = 1 .. n BY <1>1, <1>2 DEF Fits, ArrayT
<1>4. PICK z : z = Null OBVIOUS
<1>5. z \in Elem BY <1>4, ValueIs
<1>6. ASSUME NEW v \in Values, AppendValue(v) PROVE AInv'
  <2>1. v \in Elem BY ValueIs
  <2>2. Fits(Appended(arr, v)) BY <1>1, <2>1, PushFits DEF Appended
  <2> QED BY <1>6, <2>2, ChangeInv DEF AppendValue
<1>7. ASSUME NEW src \in {arr.vals} \cup {<<v, Null>> : v \in Values}, ExtendBy(src) PROVE AInv'
  <2>1. src \in Seq(Elem)
    <3>1. ASSUME NEW v \in Values PROVE <<v, z>> \in Seq(Elem)
      <4>1. v \in Elem BY ValueIs
      <4> QED BY <1>5, <4>1
    <3>2. src = c \/ \E v \in Values : src = <<v, z>> BY <1>2, <1>4
    <3> QED BY <1>3, <3>1, <3>2
  <2>2. Fits(Extended(arr, src)) BY <1>1, <2>1, ExtendedFits
  <2> QED BY <1>7, <2>2, ChangeInv DEF ExtendBy
<1>8. ASSUME Pop PROVE AInv'
  <2>1. n - 1 \in 0 .. Len(arr.vals) - 1 BY <1>2, <1>3, <1>8 DEF Pop
  <2>2. Fits(Shrunk(Removed(arr, n - 1))) BY <1>1, <2>1, RemovedFits, ShrunkFits
  <2>3. Change(Shrunk(Removed(arr, n - 1))) BY <1>2, <1>8 DEF Pop
  <2> QED BY <2>2, <2>3, ChangeInv
<1>9. ASSUME NEW idx \in 0 .. MaxLen, NEW v \in Values, Insert(idx, v) PROVE AInv'
  <2>1. v \in Elem BY ValueIs
  <2>2. Fits(Inserted(arr, idx, v)) BY <1>1, <1>9, <2>1, InsertedFits DEF Insert
  <2> QED BY <1>9, <2>2, ChangeInv DEF Insert
<1>10. ASSUME NEW idx \in 0 .. MaxLen, RemoveIndex(idx) PROVE AInv'
  <2>1. Fits(Shrunk(Removed(arr, idx))) BY <1>1, <1>10, RemovedFits, ShrunkFits DEF RemoveIndex
  <2> QED BY <1>10, <2>1, ChangeInv DEF RemoveIndex
<1>11. ASSUME NEW m \in 0 .. MaxLen, NEW fill \in Values \cup {Null}, Resize(m, fill) PROVE AInv'
  <2>1. m \in Nat /\ fill \in Elem BY ArrayAssumption, ValueIs
  <2>2. Fits(Shrunk(Sized(arr, m, fill))) BY <1>1, <2>1, SizedFits, ShrunkFits
  <2> QED BY <1>11, <2>2, ChangeInv DEF Resize
<1>12. ASSUME NEW idx \in 0 .. MaxLen, NEW v \in Values, Set(idx, v) PROVE AInv'
  <2>1. v \in Elem /\ idx + 1 \in Int BY ArrayAssumption, ValueIs
  <2>2. PICK i : i = idx + 1 OBVIOUS
  <2>3. Fits([arr EXCEPT !.vals[i] = v]) BY <1>1, <2>1, <2>2, StoredFits
  <2>4. Change([arr EXCEPT !.vals[i] = v]) BY <1>12, <2>2 DEF Set
  <2> QED BY <2>3, <2>4, ChangeInv
<1>13. ASSUME ReverseArray PROVE AInv'
  <2>1. PICK s : s = [i \in 1 .. n |-> c[n + 1 - i]] OBVIOUS
  <2>2. \A i \in 1 .. n : s[i] \in Elem BY <1>3, <2>1
  <2>3. DOMAIN s = DOMAIN arr.vals /\ s = [i \in DOMAIN arr.vals |-> s[i]]
        /\ \A i \in DOMAIN arr.vals : s[i] \in Elem
    BY <1>2, <1>3, <2>1, <2>2
  <2>4. Fits([arr EXCEPT !.vals = s]) BY <1>1, <2>3, ChangedFits
  <2>5. Change([arr EXCEPT !.vals = s]) BY <1>2, <1>13, <2>1 DEF ReverseArray
  <2> QED BY <2>4, <2>5, ChangeInv
<1>14. ASSUME NEW type \in {"int", "float"}, NEW m \in {0, 2}, TypeCheck(type, m) PROVE AInv'
  <2>1. PICK b : b = [arr EXCEPT !.max = IF m > 0 /\ @ = None THEN m ELSE @] OBVIOUS
  <2>2. Fits(b) BY <1>1, <2>1 DEF Fits, ArrayT
  <2>3. PICK d : d = [b EXCEPT !.type = IF @ = "any" THEN type ELSE @] OBVIOUS
  <2>4. Fits(d) BY <2>2, <2>3 DEF Fits, ArrayT
  <2>5. Change(b) \/ Change(d) BY <1>14, <2>1, <2>3 DEF TypeCheck
  <2> QED BY <2>2, <2>4, <2>5, ChangeInv
<1>15. ASSUME Clone PROVE AInv'
  <2>1. PICK b : b = [Fresh(c) EXCEPT !.alloc = n] OBVIOUS
  <2>2. b = [vals |-> c, alloc |-> n, max |-> None, type |-> "any"] BY <2>1 DEF Fresh
  <2>3. Fits(b) BY <1>2, <1>3, <2>2 DEF Fits, ArrayT, None
  <2>4. Change(b) BY <1>2, <1>15, <2>1 DEF Clone
  <2> QED BY <2>3, <2>4, ChangeInv
<1>16. ASSUME NEW s \in -MaxLen .. MaxLen, NEW e \in -MaxLen .. MaxLen, Slice(s, e) PROVE AInv'
  <2>1. /\ arr' = arr /\ frames' = frames /\ Sorting(Len(arr.vals))
        /\ touched' = SliceBounds(s, e)[1] .. SliceBounds(s, e)[2] - 1 /\ SliceBounds(s, e) # <<>>
    BY <1>16 DEF Slice, AInv
  <2>2. s \in Int /\ e \in Int BY ArrayAssumption
  <2>3. touched' \subseteq 0 .. n - 1 BY <1>2, <1>3, <2>1, <2>2 DEF SliceBounds
  <2>4. Sorting(Len(arr.vals))' BY <2>1 DEF Sorting
  <2> QED BY <1>1, <1>2, <2>1, <2>3, <2>4 DEF AInv, Inside
<1>17. ASSUME CollectGarbage PROVE AInv' BY <1>17, CollectInv
<1> QED BY <1>6, <1>7, <1>8, <1>9, <1>10, <1>11, <1>12, <1>13, <1>14, <1>15, <1>16, <1>17 DEF Operation

-----------------------------------------------------------------------------
(* Loops.                                                                  *)

\* map, apply, filter, reduce and foreach use no element without a test.
LEMMA WalkFrame ==
    ASSUME NEW f, DOMAIN f = FrameFields, f.op \in Walks, f.cmp = "none", f.n \in Nat, f.size \in Nat,
           f.bottom \in Int, f.stage \in {"head", "call"}, NEW len
    PROVE  FrameInv(f, len)
BY DEF FrameInv, Walks

LEMMA StartInv ==
    ASSUME AInv, Start
    PROVE  AInv'
PROOF
<1>1. PICK len : len = Len(arr.vals) OBVIOUS
<1>2. len \in Nat BY <1>1 DEF AInv, Fits, ArrayT
<1>3. ASSUME NEW op \in Walks, NEW d, NEW n \in Nat, NEW seen,
             Begin([Frame(op, "none") EXCEPT !.dest = d, !.n = n, !.seen = seen])
      PROVE  AInv'
  <2>1. PICK f : f = [Frame(op, "none") EXCEPT !.dest = d, !.n = n, !.seen = seen] OBVIOUS
  <2>2. DOMAIN f = FrameFields /\ f.op = op /\ f.cmp = "none" /\ f.n = n /\ f.size = len
        /\ f.bottom = 0 /\ f.stage = "head"
    BY <1>1, <2>1 DEF Frame, FrameFields
  <2>3. FrameInv(f, len) BY <1>2, <2>2, WalkFrame
  <2> QED BY <1>1, <1>3, <2>1, <2>3, BeginInv
<1>4. ASSUME NEW op \in Walks, NEW f, Begin(f),
             f = Frame(op, "none") \/ \E d : f = [Frame(op, "none") EXCEPT !.dest = d]
      PROVE  AInv'
  <2>1. DOMAIN f = FrameFields /\ f.op = op /\ f.cmp = "none" /\ f.n = 0 /\ f.size = len
        /\ f.bottom = 0 /\ f.stage = "head"
    BY <1>1, <1>4 DEF Frame, FrameFields
  <2>2. FrameInv(f, len) BY <1>2, <2>1, WalkFrame
  <2> QED BY <1>1, <1>4, <2>2, BeginInv
<1>5. CASE StartMap \/ StartApply \/ StartFilter \/ StartForeach
  <2>1. {"map", "apply", "filter", "foreach"} \subseteq Walks BY DEF Walks
  <2>2. CASE StartMap BY <1>4, <2>1, <2>2 DEF StartMap
  <2>3. CASE StartApply BY <1>4, <2>1, <2>3 DEF StartApply
  <2>4. CASE StartFilter BY <1>4, <2>1, <2>4 DEF StartFilter
  <2>5. CASE StartForeach BY <1>4, <2>1, <2>5 DEF StartForeach
  <2> QED BY <1>5, <2>2, <2>3, <2>4, <2>5
<1>6. ASSUME NEW given \in Values \cup {Nothing}, StartReduce(given) PROVE AInv'
  <2>1. "reduce" \in Walks BY DEF Walks
  <2>2. CASE given # Nothing BY <1>4, <1>6, <2>1, <2>2 DEF StartReduce
  <2>3. CASE given = Nothing
    <3>1. PICK d, s : d = <<At(0)>> /\ s = <<At(0)>> OBVIOUS
    <3>2. PICK n : n = 1 OBVIOUS
    <3>3. Begin([Frame("reduce", "none") EXCEPT !.dest = d, !.n = n, !.seen = s])
      BY <1>6, <2>3, <3>1, <3>2 DEF StartReduce
    <3> QED BY <1>3, <2>1, <3>2, <3>3
  <2> QED BY <2>2, <2>3
<1>7. ASSUME NEW cmp \in Compares, StartSort(cmp) PROVE AInv'
  <2>1. PICK n : n = len \div 2 OBVIOUS
  <2>2. PICK f : f = [Frame("sort", cmp) EXCEPT !.stage = "next", !.n = n] OBVIOUS
  <2>3. DOMAIN f = FrameFields /\ f.op = "sort" /\ f.cmp = cmp /\ f.n = n /\ f.size = len
        /\ f.bottom = 0 /\ f.root = 0 /\ f.child = 0 /\ f.stage = "next"
    BY <1>1, <2>2 DEF Frame, FrameFields
  <2>4. len > 1 /\ n \in Nat /\ n < len
    <3>1. len > 1 BY <1>1, <1>7 DEF StartSort
    <3> QED BY <1>2, <2>1, <3>1
  <2>5. FrameInv(f, len) BY <1>2, <2>3, <2>4 DEF FrameInv, SortTyped, Walks
  <2> QED BY <1>1, <1>7, <2>1, <2>2, <2>5, BeginInv DEF StartSort
<1> QED BY <1>5, <1>6, <1>7 DEF Start

LEMMA WalkInv ==
    ASSUME AInv, WalkHead \/ \E r \in Values \cup {Null} : WalkReturn(r)
    PROVE  AInv'
PROOF
<1>1. PICK len : len = Len(arr.vals) OBVIOUS
<1>2. frames # <<>> /\ Top.op \in Walks BY DEF WalkHead, WalkReturn
<1>3. PICK t : t = Top OBVIOUS
<1>4. FrameInv(t, len) BY <1>1, <1>2, <1>3, TopIs DEF AInv
<1>5. /\ DOMAIN t = FrameFields /\ t.op \in Walks /\ t.cmp = "none" /\ t.n \in Nat /\ t.size \in Nat
      /\ t.bottom \in Int /\ t.stage \in {"head", "call"}
  BY <1>2, <1>3, <1>4 DEF FrameInv
<1>6. Fits(arr) BY DEF AInv
<1>7. CASE WalkHead
  <2>1. ASSUME NEW e, touched' = {}, Continue([t EXCEPT !.stage = "call", !.temp = e, !.seen = Append(@, e)], arr)
        PROVE  AInv'
    <3>1. PICK f : f = [t EXCEPT !.stage = "call", !.temp = e, !.seen = Append(@, e)] OBVIOUS
    <3>2. /\ DOMAIN f = FrameFields /\ f.op = t.op /\ f.cmp = t.cmp /\ f.n = t.n /\ f.size = t.size
          /\ f.bottom = t.bottom /\ f.stage = "call"
      BY <1>5, <3>1 DEF FrameFields
    <3>3. FrameInv(f, len) BY <1>5, <3>2, WalkFrame
    <3>4. Continue(f, arr) BY <2>1, <3>1
    <3>5. Inside(touched', len) BY <2>1 DEF Inside
    <3> QED BY <1>1, <1>2, <1>6, <3>3, <3>4, <3>5, ContinueInv
  <2>2. CASE End(Top) BY <1>2, <2>2, EndInv
  <2> QED BY <1>3, <1>7, <2>1, <2>2 DEF WalkHead
<1>8. ASSUME NEW r \in Values \cup {Null}, WalkReturn(r) PROVE AInv'
  <2>1. PICK f : f = [t EXCEPT !.stage = "head", !.n = @ + 1, !.said = Append(@, r)] OBVIOUS
  <2>2. /\ DOMAIN f = FrameFields /\ f.op = t.op /\ f.cmp = t.cmp /\ f.n = t.n + 1 /\ f.size = t.size
        /\ f.bottom = t.bottom /\ f.stage = "head"
    BY <1>5, <2>1 DEF FrameFields
  <2>3. ASSUME NEW g, NEW new, Continue(g, new), Fits(new), Len(new.vals) = len,
               g = f \/ (\E d : g = [f EXCEPT !.dest = d]) \/ (\E d : g = [f EXCEPT !.said = d])
        PROVE  AInv'
    <3>1. /\ DOMAIN g = FrameFields /\ g.op = t.op /\ g.cmp = t.cmp /\ g.n = t.n + 1 /\ g.size = t.size
          /\ g.bottom = t.bottom /\ g.stage = "head"
      BY <2>2, <2>3 DEF FrameFields
    <3>2. FrameInv(g, len) BY <1>5, <3>1, WalkFrame
    <3>3. Inside(touched', Len(arr.vals)) BY <1>8 DEF WalkReturn, Inside
    <3> QED BY <1>1, <1>2, <2>3, <3>2, <3>3, ContinueInv
  <2>4. ASSUME NEW d, Continue([f EXCEPT !.dest = d], arr) PROVE AInv'
    <3>1. PICK g : g = [f EXCEPT !.dest = d] OBVIOUS
    <3> QED BY <1>1, <1>6, <2>3, <2>4, <3>1
  <2>5. CASE MapAnswer(f, r)
    <3>1. CASE f.op = "map"
      <4>1. PICK d : d = IF t.n < Len(f.dest) THEN [f.dest EXCEPT ![t.n + 1] = r] ELSE f.dest OBVIOUS
      <4>2. Continue([f EXCEPT !.dest = d], arr) BY <1>3, <2>5, <3>1, <4>1 DEF MapAnswer
      <4> QED BY <2>4, <4>2
    <3>2. CASE f.op # "map"
      <4>1. PICK new : new = IF t.n < len THEN [arr EXCEPT !.vals[t.n + 1] = r] ELSE arr OBVIOUS
      <4>2. Fits(new) /\ Len(new.vals) = len
        <5>1. r \in Elem /\ t.n + 1 \in Int BY <1>5, ValueIs
        <5>2. /\ Fits([arr EXCEPT !.vals[t.n + 1] = r])
              /\ Len([arr EXCEPT !.vals[t.n + 1] = r].vals) = Len(arr.vals)
          BY <1>6, <5>1, StoredFits
        <5> QED BY <1>1, <1>6, <4>1, <5>2
      <4>3. Continue(f, new) BY <1>1, <1>3, <2>5, <3>2, <4>1 DEF MapAnswer
      <4> QED BY <2>3, <4>2, <4>3
    <3> QED BY <3>1, <3>2
  <2>6. CASE FilterAnswer(f, r)
    <3>1. PICK d : d = IF r # Null THEN Append(f.dest, t.temp) ELSE f.dest OBVIOUS
    <3>2. Continue([f EXCEPT !.dest = d], arr) BY <1>3, <2>6, <3>1 DEF FilterAnswer
    <3> QED BY <2>4, <3>2
  <2>7. CASE ReduceAnswer(f, r) BY <2>4, <2>7 DEF ReduceAnswer
  <2>8. CASE Continue([f EXCEPT !.said = <<>>], arr)
    <3>1. PICK g, d : g = [f EXCEPT !.said = d] /\ d = <<>> OBVIOUS
    <3> QED BY <1>1, <1>6, <2>3, <2>8, <3>1
  <2> QED BY <1>3, <1>8, <2>1, <2>5, <2>6, <2>7, <2>8 DEF WalkReturn
<1> QED BY <1>7, <1>8

LEMMA SwappedFits ==
    ASSUME Fits(arr), NEW i \in Nat, NEW j \in Nat
    PROVE  Fits(Swapped(i, j)) /\ Len(Swapped(i, j).vals) = Len(arr.vals)
PROOF
<1> SUFFICES ASSUME {i, j} \subseteq 0 .. Len(arr.vals) - 1
             PROVE  Fits(Swapped(i, j)) /\ Len(Swapped(i, j).vals) = Len(arr.vals)
  BY DEF Swapped
<1>1. PICK x, y : x = At(i) /\ y = At(j) OBVIOUS
<1>2. x \in Elem /\ y \in Elem BY <1>1 DEF At, Fits, ArrayT
<1>3. PICK k, l : k = i + 1 /\ l = j + 1 OBVIOUS
<1>4. k \in Int /\ l \in Int BY <1>3 DEF Fits, ArrayT
<1>5. PICK b : b = [arr EXCEPT !.vals[k] = y] OBVIOUS
<1>6. Fits(b) /\ Len(b.vals) = Len(arr.vals) BY <1>2, <1>4, <1>5, StoredFits
<1>7. PICK c : c = [b EXCEPT !.vals[l] = x] OBVIOUS
<1>8. Fits(c) /\ Len(c.vals) = Len(b.vals) BY <1>2, <1>4, <1>6, <1>7, StoredFits
<1>9. Swapped(i, j) = c BY <1>1, <1>3, <1>5, <1>7 DEF Swapped
<1> QED BY <1>6, <1>8, <1>9

\* A sort that goes on as f.
LEMMA SortFrame ==
    ASSUME NEW t, NEW len, FrameInv(t, len), t.op = "sort", len = t.size \/ t.cmp = "meta",
           NEW f, DOMAIN f = FrameFields, f.op = t.op, f.cmp = t.cmp, f.size = t.size,
           f.n \in Int, f.bottom \in Int, SortTyped(f)
    PROVE  FrameInv(f, len)
BY DEF FrameInv, Walks

\* What lies in the array as sort remembers it lies in the array.
LEMMA InsideIs ==
    ASSUME NEW t, SortTyped(t), NEW len, len = t.size \/ t.cmp = "meta",
           NEW s, s \subseteq 0 .. t.size - 1
    PROVE  Inside(s, len)
BY DEF SortTyped, Inside

LEMMA SortNextInv ==
    ASSUME AInv, SortNext
    PROVE  AInv'
PROOF
<1>1. PICK len : len = Len(arr.vals) OBVIOUS
<1>2. PICK t : t = Top OBVIOUS
<1>3. frames # <<>> /\ t.op = "sort" /\ t.stage = "next" BY <1>2 DEF SortNext
<1>4. FrameInv(t, len) BY <1>1, <1>2, <1>3, TopIs DEF AInv
<1>5. /\ DOMAIN t = FrameFields /\ t.n \in Int /\ t.size \in Nat /\ t.bottom \in Int
      /\ SortTyped(t) /\ (len = t.size \/ t.cmp = "meta")
  BY <1>3, <1>4 DEF FrameInv, Waits
<1>6. Fits(arr) /\ len \in Nat BY <1>1 DEF AInv, Fits, ArrayT
<1> DEFINE Sift == [t EXCEPT !.stage = "head", !.n = @ - 1]
<1>7. ASSUME NEW root, NEW bottom, NEW new, Continue([Sift EXCEPT !.root = root, !.bottom = bottom], new),
             root \in 0 .. t.size - 1, bottom \in Int, bottom < t.size, Fits(new), Len(new.vals) = len,
             Inside(touched', Len(arr.vals))
      PROVE  AInv'
  <2>1. PICK f : f = [Sift EXCEPT !.root = root, !.bottom = bottom] OBVIOUS
  <2>2. /\ DOMAIN f = FrameFields /\ f.op = t.op /\ f.cmp = t.cmp /\ f.size = t.size
        /\ f.n = t.n - 1 /\ f.bottom = bottom /\ f.root = root /\ f.child = t.child /\ f.stage = "head"
    BY <1>5, <2>1 DEF FrameFields
  <2>3. SortTyped(f) BY <1>5, <1>7, <2>2 DEF SortTyped
  <2>4. FrameInv(f, len) BY <1>3, <1>4, <1>5, <1>7, <2>2, <2>3, SortFrame
  <2>5. Continue(f, new) BY <1>7, <2>1
  <2> QED BY <1>1, <1>3, <1>7, <2>4, <2>5, ContinueInv
<1>8. CASE t.building /\ t.n >= 0 /\ touched' = {}
           /\ Continue([Sift EXCEPT !.root = t.n, !.bottom = t.size - 1], arr)
  <2>1. t.n \in 0 .. t.size - 1 /\ t.size - 1 \in Int /\ t.size - 1 < t.size BY <1>5, <1>8 DEF SortTyped
  <2>2. PICK root, bottom : root = t.n /\ bottom = t.size - 1 OBVIOUS
  <2>3. Inside(touched', Len(arr.vals)) BY <1>8 DEF Inside
  <2> QED BY <1>1, <1>6, <1>7, <1>8, <2>1, <2>2, <2>3
<1>9. CASE touched' = {} /\ Continue([t EXCEPT !.building = FALSE, !.n = t.size - 1], arr)
  <2>1. PICK no, n : no = FALSE /\ n = t.size - 1 OBVIOUS
  <2>2. PICK f : f = [t EXCEPT !.building = no, !.n = n] OBVIOUS
  <2>3. /\ DOMAIN f = FrameFields /\ f.op = t.op /\ f.cmp = t.cmp /\ f.size = t.size
        /\ f.n = n /\ f.bottom = t.bottom /\ f.root = t.root /\ f.child = t.child /\ f.stage = t.stage
    BY <1>5, <2>2 DEF FrameFields
  <2>4. n \in Int /\ n < t.size BY <1>5, <2>1
  <2>5. SortTyped(f) BY <1>5, <2>3, <2>4 DEF SortTyped
  <2>6. FrameInv(f, len) BY <1>3, <1>4, <1>5, <2>3, <2>4, <2>5, SortFrame
  <2>7. Continue(f, arr) BY <1>9, <2>1, <2>2
  <2>8. Inside(touched', len) BY <1>9 DEF Inside
  <2> QED BY <1>1, <1>3, <1>6, <2>6, <2>7, <2>8, ContinueInv
<1>10. CASE t.n >= 1 /\ touched' = {0, t.n}
            /\ Continue([Sift EXCEPT !.root = 0, !.bottom = t.n - 1], Swapped(0, t.n))
  <2>1. /\ t.n \in Nat /\ 0 \in Nat /\ 0 \in 0 .. t.size - 1 /\ t.n \in 0 .. t.size - 1
        /\ t.n - 1 \in Int /\ t.n - 1 < t.size
    BY <1>5, <1>10 DEF SortTyped
  <2>2. PICK new : new = Swapped(0, t.n) OBVIOUS
  <2>3. Fits(new) /\ Len(new.vals) = len BY <1>1, <1>6, <2>1, <2>2, SwappedFits
  <2>4. PICK root, bottom : root = 0 /\ bottom = t.n - 1 OBVIOUS
  <2>5. Continue([Sift EXCEPT !.root = root, !.bottom = bottom], new) BY <1>10, <2>2, <2>4
  <2>6. PICK s : s = {0, t.n} OBVIOUS
  <2>7. s \subseteq 0 .. t.size - 1 BY <2>1, <2>6
  <2>8. Inside(s, len) BY <1>5, <2>7, InsideIs
  <2>9. Inside(touched', Len(arr.vals)) BY <1>1, <1>10, <2>6, <2>8
  <2> QED BY <1>7, <2>1, <2>3, <2>4, <2>5, <2>9
<1>11. CASE End(Top) BY <1>3, <1>11, EndInv
<1> QED BY <1>2, <1>8, <1>9, <1>10, <1>11 DEF SortNext

LEMMA SiftHeadInv ==
    ASSUME AInv, SiftHead
    PROVE  AInv'
PROOF
<1>1. PICK len : len = Len(arr.vals) OBVIOUS
<1>2. PICK t : t = Top OBVIOUS
<1>3. frames # <<>> /\ t.op = "sort" /\ t.stage = "head" BY <1>2 DEF SiftHead
<1>4. FrameInv(t, len) BY <1>1, <1>2, <1>3, TopIs DEF AInv
<1>5. /\ DOMAIN t = FrameFields /\ t.n \in Int /\ t.size \in Nat /\ t.bottom \in Int
      /\ SortTyped(t) /\ (len = t.size \/ t.cmp = "meta")
  BY <1>3, <1>4 DEF FrameInv, Waits
<1>6. Fits(arr) /\ len \in Nat BY <1>1 DEF AInv, Fits, ArrayT
<1>7. ASSUME NEW child, NEW stage, Continue([t EXCEPT !.child = child, !.stage = stage], arr),
             child \in 0 .. t.size - 1, stage \in {"next", "root", "children"},
             stage = "children" => 2 * t.root < t.bottom, Inside(touched', len)
      PROVE  AInv'
  <2>1. PICK f : f = [t EXCEPT !.child = child, !.stage = stage] OBVIOUS
  <2>2. /\ DOMAIN f = FrameFields /\ f.op = t.op /\ f.cmp = t.cmp /\ f.size = t.size
        /\ f.n = t.n /\ f.bottom = t.bottom /\ f.root = t.root /\ f.child = child /\ f.stage = stage
    BY <1>5, <2>1 DEF FrameFields
  <2>3. SortTyped(f) BY <1>5, <1>7, <2>2 DEF SortTyped
  <2>4. FrameInv(f, len) BY <1>3, <1>4, <1>5, <2>2, <2>3, SortFrame
  <2>5. Continue(f, arr) BY <1>7, <2>1
  <2> QED BY <1>1, <1>3, <1>6, <1>7, <2>4, <2>5, ContinueInv
<1>8. ASSUME NEW stage, Continue([t EXCEPT !.stage = stage], arr),
             stage \in {"next", "root", "children"},
             stage = "children" => 2 * t.root < t.bottom, Inside(touched', len)
      PROVE  AInv'
  <2>1. [t EXCEPT !.stage = stage] = [t EXCEPT !.child = t.child, !.stage = stage]
    BY <1>5 DEF FrameFields
  <2>2. PICK child : child = t.child OBVIOUS
  <2>3. child \in 0 .. t.size - 1 BY <1>5, <2>2 DEF SortTyped
  <2>4. Continue([t EXCEPT !.child = child, !.stage = stage], arr) BY <1>8, <2>1, <2>2
  <2> QED BY <1>7, <1>8, <2>3, <2>4
<1>9. PICK root, root2 : root = t.root /\ root2 = 2 * root OBVIOUS
<1>10. root \in 0 .. t.size - 1 /\ root2 \in Nat /\ root <= root2 /\ t.bottom < t.size BY <1>5, <1>9 DEF SortTyped
<1>11. CASE root2 > t.bottom /\ touched' = {} /\ Continue([t EXCEPT !.stage = "next"], arr)
  <2>1. PICK stage : stage = "next" OBVIOUS
  <2>2. Inside(touched', len) BY <1>11 DEF Inside
  <2> QED BY <1>8, <1>11, <2>1, <2>2
<1>12. CASE root2 = t.bottom /\ touched' = {root, root2}
            /\ Continue([t EXCEPT !.child = root2, !.stage = "root"], arr)
  <2>1. PICK stage : stage = "root" OBVIOUS
  <2>2. root2 \in 0 .. t.size - 1 BY <1>5, <1>10, <1>12
  <2>3. PICK s : s = {root, root2} OBVIOUS
  <2>4. s \subseteq 0 .. t.size - 1 BY <1>10, <2>2, <2>3
  <2>5. Inside(s, len) BY <1>5, <2>4, InsideIs
  <2>6. Inside(touched', len) BY <1>12, <2>3, <2>5
  <2> QED BY <1>7, <1>12, <2>1, <2>2, <2>6
<1>13. CASE root2 < t.bottom /\ touched' = {root2, root2 + 1}
            /\ Continue([t EXCEPT !.stage = "children"], arr)
  <2>1. PICK stage : stage = "children" OBVIOUS
  <2>2. Inside(touched', len)
    <3>1. PICK s : s = {root2, root2 + 1} OBVIOUS
    <3>2. s \subseteq 0 .. t.size - 1 BY <1>5, <1>10, <1>13, <3>1
    <3>3. Inside(s, len) BY <1>5, <3>2, InsideIs
    <3> QED BY <1>13, <3>1, <3>3
  <2> QED BY <1>8, <1>9, <1>13, <2>1, <2>2
<1>14. root2 > t.bottom \/ root2 = t.bottom \/ root2 < t.bottom BY <1>5, <1>10
<1> QED BY <1>2, <1>9, <1>11, <1>12, <1>13, <1>14 DEF SiftHead

\* Where sort goes on after a comparison, the array has the length it had.
LEMMA SiftBodyInv ==
    ASSUME AInv, frames # <<>>, Top.op = "sort", Top.stage \in {"children", "root"},
           Len(arr.vals) = Top.size \/ Top.cmp = "meta", NEW ret, SiftBody(ret)
    PROVE  AInv'
PROOF
<1>1. PICK len : len = Len(arr.vals) OBVIOUS
<1>2. PICK t : t = Top OBVIOUS
<1>3. t.op = "sort" /\ t.stage \in {"children", "root"} /\ (len = t.size \/ t.cmp = "meta") BY <1>1, <1>2
<1>4. FrameInv(t, len) BY <1>1, <1>2, TopIs DEF AInv
<1>5. DOMAIN t = FrameFields /\ t.n \in Int /\ t.size \in Nat /\ t.bottom \in Int /\ SortTyped(t)
  BY <1>3, <1>4 DEF FrameInv
<1>6. Fits(arr) BY DEF AInv
<1>7. ASSUME NEW child, NEW root, NEW stage, NEW new, NEW f, Continue(f, new),
             f = [t EXCEPT !.moved = FALSE, !.child = child, !.root = root, !.stage = stage],
             child \in 0 .. t.size - 1, root \in 0 .. t.size - 1, stage \in {"next", "head", "root"},
             Fits(new), Len(new.vals) = len, Inside(touched', len)
      PROVE  AInv'
  <2>1. PICK no : no = FALSE OBVIOUS
  <2>2. f = [t EXCEPT !.moved = no, !.child = child, !.root = root, !.stage = stage] BY <1>7, <2>1
  <2>3. /\ DOMAIN f = FrameFields /\ f.op = t.op /\ f.cmp = t.cmp /\ f.size = t.size
        /\ f.n = t.n /\ f.bottom = t.bottom /\ f.root = root /\ f.child = child /\ f.stage = stage
    BY <1>5, <2>2 DEF FrameFields
  <2>4. SortTyped(f) BY <1>5, <1>7, <2>3 DEF SortTyped
  <2>5. FrameInv(f, len) BY <1>3, <1>4, <1>5, <2>3, <2>4, SortFrame
  <2> QED BY <1>1, <1>7, <2>5, ContinueInv
<1>8. PICK f : f = [t EXCEPT !.moved = FALSE] OBVIOUS
<1>9. t.root \in 0 .. t.size - 1 /\ t.child \in 0 .. t.size - 1 BY <1>5 DEF SortTyped
<1>10. DOMAIN f = FrameFields /\ f.root = t.root /\ f.child = t.child BY <1>5, <1>8 DEF FrameFields
<1>11. CASE t.stage = "children"
  <2>1. PICK child : child = IF ret > 0 THEN 2 * t.root ELSE 2 * t.root + 1 OBVIOUS
  <2>2. child \in 0 .. t.size - 1
    <3>1. PICK r, bottom, size : r = t.root /\ bottom = t.bottom /\ size = t.size OBVIOUS
    <3>2. size \in Nat /\ bottom \in Int /\ bottom < size /\ r \in 0 .. size - 1 /\ 2 * r < bottom
      BY <1>5, <1>11, <3>1 DEF SortTyped
    <3>3. child = 2 * r \/ child = 2 * r + 1 BY <2>1, <3>1
    <3>4. child \in 0 .. size - 1 BY <3>2, <3>3
    <3> QED BY <3>1, <3>4
  <2>3. touched' = {t.root, child} /\ Continue([f EXCEPT !.child = child, !.stage = "root"], arr)
    BY <1>2, <1>8, <1>11, <2>1, SMTT(30) DEF SiftBody
  <2>4. PICK root, stage : root = t.root /\ stage = "root" OBVIOUS
  <2>5. [f EXCEPT !.child = child, !.stage = stage]
           = [t EXCEPT !.moved = FALSE, !.child = child, !.root = root, !.stage = stage]
    BY <1>5, <1>8, <2>4 DEF FrameFields
  <2>6. Inside(touched', len)
    <3>1. PICK s : s = {t.root, child} OBVIOUS
    <3>2. s \subseteq 0 .. t.size - 1 BY <1>9, <2>2, <3>1
    <3>3. Inside(s, len) BY <1>3, <1>5, <3>2, InsideIs
    <3> QED BY <2>3, <3>1, <3>3
  <2>7. PICK g : g = [f EXCEPT !.child = child, !.stage = stage] OBVIOUS
  <2>8. Continue(g, arr) /\ g = [t EXCEPT !.moved = FALSE, !.child = child, !.root = root, !.stage = stage]
    BY <2>3, <2>4, <2>5, <2>7
  <2>9. root \in 0 .. t.size - 1 /\ stage \in {"next", "head", "root"} /\ Len(arr.vals) = len
    BY <1>1, <1>9, <2>4
  <2> QED BY <1>6, <1>7, <2>2, <2>6, <2>8, <2>9
<1>12. CASE t.stage # "children"
  <2>1. \/ touched' = {} /\ Continue([f EXCEPT !.stage = "next"], arr)
        \/ End(Nothing)
        \/ /\ touched' = {t.root, t.child}
           /\ Continue([f EXCEPT !.root = t.child, !.stage = "head"], Swapped(t.root, t.child))
    BY <1>2, <1>8, <1>12 DEF SiftBody, Fail
  <2>2. CASE touched' = {} /\ Continue([f EXCEPT !.stage = "next"], arr)
    <3>1. PICK root, child, stage : root = t.root /\ child = t.child /\ stage = "next" OBVIOUS
    <3>2. [f EXCEPT !.stage = stage]
             = [t EXCEPT !.moved = FALSE, !.child = child, !.root = root, !.stage = stage]
      BY <1>5, <1>8, <3>1 DEF FrameFields
    <3>3. Inside(touched', len) BY <2>2 DEF Inside
    <3> QED BY <1>1, <1>6, <1>7, <1>9, <2>2, <3>1, <3>2, <3>3
  <2>3. CASE /\ touched' = {t.root, t.child}
             /\ Continue([f EXCEPT !.root = t.child, !.stage = "head"], Swapped(t.root, t.child))
    <3>1. PICK root, child, stage : root = t.child /\ child = t.child /\ stage = "head" OBVIOUS
    <3>2. [f EXCEPT !.root = root, !.stage = stage]
             = [t EXCEPT !.moved = FALSE, !.child = child, !.root = root, !.stage = stage]
      BY <1>5, <1>8, <3>1 DEF FrameFields
    <3>3. PICK new : new = Swapped(t.root, t.child) OBVIOUS
    <3>4. Fits(new) /\ Len(new.vals) = len
      <4>1. t.root \in Nat /\ t.child \in Nat BY <1>5, <1>9
      <4> QED BY <1>1, <1>6, <3>3, <4>1, SwappedFits
    <3>5. Inside(touched', len)
      <4>1. PICK s : s = {t.root, t.child} OBVIOUS
      <4>2. s \subseteq 0 .. t.size - 1 BY <1>9, <4>1
      <4>3. Inside(s, len) BY <1>3, <1>5, <4>2, InsideIs
      <4> QED BY <2>3, <4>1, <4>3
    <3> QED BY <1>7, <1>9, <2>3, <3>1, <3>2, <3>3, <3>4, <3>5
  <2> QED BY <2>1, <2>2, <2>3, EndInv
<1> QED BY <1>11, <1>12

LEMMA ReturnInv ==
    ASSUME AInv, SortCompared \/ CallbackFails
    PROVE  AInv'
PROOF
<1>1. frames # <<>> BY DEF SortCompared, CallbackFails
<1>2. CASE Fail BY <1>1, <1>2, EndInv DEF Fail
<1>3. ASSUME Top.op = "sort", Top.stage \in {"children", "root"}, ~Resized, NEW ret, SiftBody(ret)
      PROVE  AInv'
  <2>1. PICK len : len = Len(arr.vals) OBVIOUS
  <2>2. FrameInv(Top, len) BY <1>1, <2>1, TopIs DEF AInv
  <2>3. /\ Top.cmp \in {"objcmp", "func", "honest", "meta"}
        /\ Waits(Top) \/ len = Top.size \/ Top.cmp = "meta"
    BY <1>3, <2>2, ArrayAssumption DEF FrameInv, SortTyped
  <2>4. len = Top.size \/ Top.cmp = "meta" BY <1>3, <2>1, <2>3 DEF Resized, Waits
  <2> QED BY <1>1, <1>3, <2>1, <2>4, SiftBodyInv
<1>4. \/ Fail
      \/ /\ Top.op = "sort" /\ Top.stage \in {"children", "root"} /\ ~Resized
         /\ \E ret \in Answers(At(Compared[1]), At(Compared[2])) : SiftBody(ret)
  BY DEF SortCompared, CallbackFails
<1> QED BY <1>2, <1>3, <1>4

-----------------------------------------------------------------------------
(* The theorem.                                                            *)

LEMMA InitInv ==
    ASSUME Init
    PROVE  AInv
PROOF
<1>1. PICK lit \in Literals : arr = Fresh(lit.vals) BY DEF Init
<1>2. lit.vals \in Seq(Elem) BY LiteralsAssumption DEF Elem, Null
<1>3. PICK c, n : c = lit.vals /\ n = Len(c) OBVIOUS
<1>4. arr = [vals |-> c, alloc |-> Realloc(n), max |-> None, type |-> "any"] BY <1>1, <1>3 DEF Fresh
<1>5. c \in Seq(Elem) /\ n \in Nat BY <1>2, <1>3
<1>6. Fits(arr) BY <1>3, <1>4, <1>5, ArrayAssumption DEF Fits, ArrayT, Realloc, None
<1>7. frames = <<>> /\ touched = {} BY DEF Init
<1>8. frames \in Seq({}) /\ Len(frames) = 0 BY <1>7
<1> QED BY <1>6, <1>7, <1>8 DEF AInv, Inside, Sorting, IsSeq

LEMMA StepInv ==
    ASSUME AInv, [Next]_vars
    PROVE  AInv'
PROOF
<1>1. CASE UNCHANGED vars BY <1>1 DEF AInv, Sorting, vars
<1>2. CASE Next
  <2>1. \/ Operation \/ Start \/ SortNext \/ SiftHead \/ SortCompared \/ CallbackFails
        \/ WalkHead \/ (\E r \in Values \cup {Null} : WalkReturn(r))
    BY <1>2 DEF Next, Loop, Return
  <2> QED BY <2>1, OperationInv, StartInv, SortNextInv, SiftHeadInv, ReturnInv, WalkInv
<1> QED BY <1>1, <1>2

\* However callbacks change an array, and start loops over it, in the middle of a
\* loop, no loop of the base library and no slice uses an element that is not
\* there, and the array fits its allocation, as long as sort compares by a
\* function or by ObjCmp, not by a _cmp metamethod.
THEOREM LoopsStayInside ==
    ASSUME "meta" \notin Compares
    PROVE  Spec => []InBounds
PROOF
<1>1. Init => AInv BY InitInv
<1>2. AInv /\ [Next]_vars => AInv' BY StepInv
<1>3. AInv => InBounds BY DEF AInv, Inside, InBounds, Fits
<1> QED BY <1>1, <1>2, <1>3, PTL DEF Spec

-----------------------------------------------------------------------------
(* Loops that do what they are for.                                        *)

\* The order that sort is to establish.
Leq(x, y) == ObjCmp(x, y) \in {-1, 0}

\* Below the root p of a heap in the elements up to hi (indices from 0): the children of
\* p are 2 * p and 2 * p + 1, and 0 is its own child.
Below(p, hi) == {2 * p, 2 * p + 1} \cap 1 .. hi

\* Every element from lo on but r is no less than its children.
Heap(a, lo, hi, r) ==
    \A p \in lo .. hi : p # r => \A k \in Below(p, hi) : Leq(a[k + 1], a[p + 1])

\* The parent of r is no less than the children of r.
Grand(a, lo, hi, r) ==
    \A p \in lo .. hi : r \in Below(p, hi) => \A k \in Below(r, hi) : Leq(a[k + 1], a[p + 1])

\* From hi + 1 on, everything is in its place.
Placed(a, hi, size) == \A j \in hi + 1 .. size - 1 : \A i \in 0 .. j - 1 : Leq(a[i + 1], a[j + 1])

\* a is a permutation of old.
SameElements(a, old) == Len(a) = Len(old) /\ \A v \in Range(old) : Occurs(a, v) = Occurs(old, v)

\* Where the heap of a sort begins and ends.
HeapFrom(f) == IF f.building THEN f.n + 1 ELSE 0
HeapTo(f) == IF f.building THEN f.size - 1 ELSE f.n

\* A sort that nobody disturbed.
SortExact(f, a) ==
    /\ Len(a) = f.size /\ SameElements(a, f.old) /\ f.building \in BOOLEAN
    /\ f.n \in -1 .. f.size - 1 /\ HeapTo(f) \in 0 .. f.size - 1
    /\ Placed(a, HeapTo(f), f.size)
    /\ f.stage = "next" => Heap(a, HeapFrom(f), HeapTo(f), None)
    /\ f.stage # "next" =>
          /\ f.bottom = HeapTo(f) /\ f.root \in HeapFrom(f) .. f.size - 1
          /\ Heap(a, HeapFrom(f), HeapTo(f), f.root) /\ Grand(a, HeapFrom(f), HeapTo(f), f.root)
    /\ f.stage = "root" =>
          /\ f.child \in {2 * f.root, 2 * f.root + 1} /\ f.child <= HeapTo(f)
          /\ \A k \in Below(f.root, HeapTo(f)) : Leq(a[k + 1], a[f.child + 1])

\* The elements that filter has kept so far, since the last collection.
KeptOf(f) == {i \in 1 .. f.n : f.said[i] # Null /\ i > f.emptied}
KeptTo(f, i) == {k \in KeptOf(f) : k <= i}

FilterExact(f) ==
    /\ Len(f.dest) = Cardinality(KeptOf(f))
    /\ \A i \in KeptOf(f) : f.dest[Cardinality(KeptTo(f, i))] = f.seen[i]
    /\ f.stage = "call" => f.temp = f.seen[f.n + 1]

\* The result of map, which nothing is left of after a collection.
MapExact(f) ==
    IF f.emptied = None THEN Len(f.dest) = f.size /\ \A i \in 1 .. f.n : f.dest[i] = f.said[i]
    ELSE f.dest = <<>>

\* A walk that nobody disturbed.
WalkExact(f, a) ==
    /\ f.seen \in Seq(Elem) /\ f.said \in Seq(Elem) /\ f.dest \in Seq(Elem) /\ f.old \in Seq(Elem)
    /\ Len(a) = f.size /\ Len(f.old) = f.size /\ f.n <= f.size
    /\ Len(f.seen) = (IF f.stage = "call" THEN f.n + 1 ELSE f.n) /\ Len(f.seen) <= f.size
    /\ \A i \in 1 .. Len(f.seen) : f.seen[i] = f.old[i]
    /\ f.op # "apply" => a = f.old
    /\ f.op \in {"map", "apply", "filter"} => Len(f.said) = f.n
    /\ f.emptied \in Int /\ f.emptied <= f.n
    /\ f.op = "map" => MapExact(f)
    /\ f.op = "apply" => \A i \in 1 .. f.size : a[i] = IF i <= f.n THEN f.said[i] ELSE f.old[i]
    /\ f.op = "filter" => FilterExact(f)
    /\ (f.op = "reduce" /\ f.said # <<>>) => f.dest = <<f.said[Len(f.said)]>>

\* A loop that is exact as far as it has come.
Exact(f, a) ==
    f.quiet => /\ f.op \in Walks => WalkExact(f, a)
               /\ (f.op = "sort" /\ f.cmp \in {"objcmp", "honest"}) => SortExact(f, a)

\* All loops are, and the one that has just ended was.
AllExact == LoopsExact /\ \A k \in 1 .. Len(frames) : Exact(frames[k], arr.vals)

-----------------------------------------------------------------------------
(* The order of ObjCmp.                                                    *)

LEMMA OrderIs ==
    ASSUME NEW x \in Elem, NEW y \in Elem
    PROVE  /\ ObjCmp(x, y) \in {-1, 0, 1, 2} /\ Leq(x, x)
           /\ ObjCmp(x, y) \in {0, 1} => Leq(y, x)
PROOF
<1>1. PICK s, m, t, n : s = x.type /\ m = x.rank /\ t = y.type /\ n = y.rank OBVIOUS
<1>2. m \in Int /\ n \in Int BY <1>1 DEF Elem
<1>3. ObjCmp(x, x) = 0 BY <1>1, <1>2 DEF ObjCmp
<1>4. ObjCmp(x, y) = IF s = t \/ {s, t} = {"int", "float"}
                     THEN IF m < n THEN -1 ELSE IF m > n THEN 1 ELSE 0
                     ELSE IF s = "null" THEN -1 ELSE IF t = "null" THEN 1 ELSE 2
  BY <1>1 DEF ObjCmp
<1>5. ObjCmp(y, x) = IF s = t \/ {s, t} = {"int", "float"}
                     THEN IF n < m THEN -1 ELSE IF n > m THEN 1 ELSE 0
                     ELSE IF t = "null" THEN -1 ELSE IF s = "null" THEN 1 ELSE 2
  <2>1. {s, t} = {t, s} OBVIOUS
  <2> QED BY <1>1, <2>1 DEF ObjCmp
<1>6. Leq(x, x) BY <1>3 DEF Leq
<1>7. ObjCmp(x, y) \in {-1, 0, 1, 2} BY <1>2, <1>4
<1>8. ObjCmp(x, y) \in {0, 1} => ObjCmp(y, x) \in {-1, 0} BY <1>2, <1>4, <1>5
<1> QED BY <1>6, <1>7, <1>8 DEF Leq

LEMMA LeqIs ==
    ASSUME NEW x \in Elem, NEW y \in Elem
    PROVE  Leq(x, y) <=> \/ /\ x.type = y.type \/ (x.type \in {"int", "float"} /\ y.type \in {"int", "float"})
                            /\ x.rank <= y.rank
                         \/ x.type = "null" /\ y.type # "null"
PROOF
<1>1. PICK s, m, t, n : s = x.type /\ m = x.rank /\ t = y.type /\ n = y.rank OBVIOUS
<1>2. m \in Int /\ n \in Int BY <1>1 DEF Elem
<1>3. ObjCmp(x, y) = IF s = t \/ {s, t} = {"int", "float"}
                     THEN IF m < n THEN -1 ELSE IF m > n THEN 1 ELSE 0
                     ELSE IF s = "null" THEN -1 ELSE IF t = "null" THEN 1 ELSE 2
  BY <1>1 DEF ObjCmp
<1>4. s = t \/ {s, t} = {"int", "float"} <=> s = t \/ (s \in {"int", "float"} /\ t \in {"int", "float"})
  OBVIOUS
<1>5. "null" \notin {"int", "float"} OBVIOUS
<1>6. Leq(x, y) <=> \/ /\ s = t \/ (s \in {"int", "float"} /\ t \in {"int", "float"})
                       /\ m <= n
                    \/ s = "null" /\ t # "null"
  BY <1>2, <1>3, <1>4, <1>5 DEF Leq
<1> QED BY <1>1, <1>6

LEMMA LeqTrans ==
    ASSUME NEW x \in Elem, NEW y \in Elem, NEW z \in Elem, Leq(x, y), Leq(y, z)
    PROVE  Leq(x, z)
PROOF
<1>1. x.rank \in Int /\ y.rank \in Int /\ z.rank \in Int BY DEF Elem
<1>2. "null" \notin {"int", "float"} OBVIOUS
<1> QED BY <1>1, <1>2, LeqIs

-----------------------------------------------------------------------------
(* Two elements swapped.                                                   *)

SwapIn(a, i, j) == [a EXCEPT ![i + 1] = a[j + 1], ![j + 1] = a[i + 1]]

LEMMA SwapIs ==
    ASSUME NEW a \in Seq(Elem), NEW i \in 0 .. Len(a) - 1, NEW j \in 0 .. Len(a) - 1
    PROVE  /\ SwapIn(a, i, j) \in Seq(Elem) /\ Len(SwapIn(a, i, j)) = Len(a)
           /\ SwapIn(a, i, j)[i + 1] = a[j + 1] /\ SwapIn(a, i, j)[j + 1] = a[i + 1]
           /\ \A k \in 0 .. Len(a) - 1 : k \notin {i, j} => SwapIn(a, i, j)[k + 1] = a[k + 1]
PROOF
<1>1. PICK n : n = Len(a) OBVIOUS
<1>2. n \in Nat /\ DOMAIN a = 1 .. n /\ \A k \in 1 .. n : a[k] \in Elem BY <1>1
<1>3. PICK k, l : k = i + 1 /\ l = j + 1 OBVIOUS
<1>4. k \in 1 .. n /\ l \in 1 .. n BY <1>1, <1>2, <1>3
<1>5. PICK x, y : x = a[k] /\ y = a[l] OBVIOUS
<1>6. x \in Elem /\ y \in Elem BY <1>2, <1>4, <1>5
<1>7. PICK b : b = [a EXCEPT ![k] = y, ![l] = x] OBVIOUS
<1>8. /\ DOMAIN b = 1 .. n /\ b = [m \in 1 .. n |-> b[m]]
      /\ \A m \in 1 .. n : b[m] = IF m = l THEN x ELSE IF m = k THEN y ELSE a[m]
  BY <1>2, <1>4, <1>7
<1>9. \A m \in 1 .. n : b[m] \in Elem BY <1>2, <1>6, <1>8
<1>10. b \in Seq(Elem) /\ Len(b) = n BY <1>2, <1>8, <1>9, ListIs
<1>11. b[k] = y /\ b[l] = x BY <1>4, <1>5, <1>8
<1>12. \A m \in 0 .. n - 1 : m \notin {i, j} => b[m + 1] = a[m + 1]
  <2> TAKE m \in 0 .. n - 1
  <2>1. m + 1 \in 1 .. n BY <1>2
  <2>2. m \notin {i, j} => m + 1 # k /\ m + 1 # l BY <1>1, <1>2, <1>3
  <2> QED BY <1>8, <2>1, <2>2
<1>13. SwapIn(a, i, j) = b BY <1>3, <1>5, <1>7 DEF SwapIn
<1> QED BY <1>1, <1>3, <1>5, <1>10, <1>11, <1>12, <1>13

LEMMA SwapOccurs ==
    ASSUME NEW a \in Seq(Elem), NEW i \in 0 .. Len(a) - 1, NEW j \in 0 .. Len(a) - 1, NEW v
    PROVE  Occurs(SwapIn(a, i, j), v) = Occurs(a, v)
PROOF
<1>1. PICK n : n = Len(a) OBVIOUS
<1>2. n \in Nat /\ DOMAIN a = 1 .. n BY <1>1
<1>3. PICK b : b = SwapIn(a, i, j) OBVIOUS
<1>4. PICK k, l : k = i + 1 /\ l = j + 1 OBVIOUS
<1>5. k \in 1 .. n /\ l \in 1 .. n BY <1>1, <1>2, <1>4
<1>6. /\ DOMAIN b = 1 .. n /\ b[k] = a[l] /\ b[l] = a[k]
      /\ \A m \in 1 .. n : m \notin {k, l} => b[m] = a[m]
  <2>1. b \in Seq(Elem) /\ Len(b) = n /\ b[k] = a[l] /\ b[l] = a[k] BY <1>1, <1>3, <1>4, SwapIs
  <2>2. ASSUME NEW m \in 1 .. n, m \notin {k, l} PROVE b[m] = a[m]
    <3>1. PICK p : p = m - 1 OBVIOUS
    <3>2. p \in 0 .. Len(a) - 1 /\ p \notin {i, j} /\ m = p + 1 BY <1>1, <1>2, <1>4, <2>2, <3>1
    <3> QED BY <1>3, <3>2, SwapIs
  <2> QED BY <2>1, <2>2
<1>7. PICK S, T : S = {m \in 1 .. n : a[m] = v} /\ T = {m \in 1 .. n : b[m] = v} OBVIOUS
<1>8. PICK f : f = [m \in S |-> IF m = k THEN l ELSE IF m = l THEN k ELSE m] OBVIOUS
<1>9. f \in [S -> T] /\ \A x, y \in S : f[x] = f[y] => x = y
  <2>1. \A m \in S : f[m] \in 1 .. n /\ b[f[m]] = a[m] BY <1>5, <1>6, <1>7, <1>8
  <2>2. f \in [S -> T] BY <1>7, <1>8, <2>1
  <2>3. \A x, y \in S : f[x] = f[y] => x = y BY <1>8
  <2> QED BY <2>2, <2>3
<1>10. \A y \in T : \E x \in S : f[x] = y
  <2> TAKE y \in T
  <2>1. PICK x : x = IF y = k THEN l ELSE IF y = l THEN k ELSE y OBVIOUS
  <2>2. y \in 1 .. n /\ b[y] = v BY <1>7
  <2>3. x \in 1 .. n /\ a[x] = v BY <1>5, <1>6, <2>1, <2>2
  <2>4. x \in S /\ f[x] = y BY <1>7, <1>8, <2>1, <2>3
  <2> QED BY <2>4
<1>11. f \in Bijection(S, T)
  BY <1>9, <1>10 DEF Bijection, Injection, Surjection, IsInjective
<1>12. IsFiniteSet(S)
  <2>1. IsFiniteSet(1 .. n) BY <1>2, FS_Interval
  <2> QED BY <1>7, <2>1, FS_Subset
<1>13. Cardinality(T) = Cardinality(S) BY <1>11, <1>12, FS_Bijection DEF ExistsBijection
<1> QED BY <1>2, <1>3, <1>6, <1>7, <1>13 DEF Occurs

\* In the elements of a swapped array nothing is new and nothing is lost.
LEMMA SwapSame ==
    ASSUME NEW a \in Seq(Elem), NEW old, SameElements(a, old),
           NEW i \in 0 .. Len(a) - 1, NEW j \in 0 .. Len(a) - 1
    PROVE  SameElements(SwapIn(a, i, j), old)
BY SwapIs, SwapOccurs DEF SameElements

-----------------------------------------------------------------------------
(* The heap.                                                               *)

LEMMA ItemIs ==
    ASSUME NEW a \in Seq(Elem), NEW k \in 0 .. Len(a) - 1
    PROVE  a[k + 1] \in Elem
OBVIOUS

\* r has given its place to its larger child c, and is where c was.
LEMMA SiftSwap ==
    ASSUME NEW a \in Seq(Elem), NEW lo \in Nat, NEW hi \in 0 .. Len(a) - 1, NEW r \in lo .. hi,
           NEW c \in {2 * r, 2 * r + 1}, c <= hi, c # r,
           Heap(a, lo, hi, r), Grand(a, lo, hi, r), Leq(a[r + 1], a[c + 1]),
           \A k \in Below(r, hi) : Leq(a[k + 1], a[c + 1])
    PROVE  Heap(SwapIn(a, r, c), lo, hi, c) /\ Grand(SwapIn(a, r, c), lo, hi, c)
PROOF
<1>1. PICK b, n : b = SwapIn(a, r, c) /\ n = Len(a) OBVIOUS
<1>2. n \in Nat /\ hi \in 0 .. n - 1 /\ r \in Nat /\ c \in Nat /\ r < c /\ c <= hi /\ lo <= r
  BY <1>1
<1>3. b[r + 1] = a[c + 1] /\ b[c + 1] = a[r + 1] BY <1>1, <1>2, SwapIs
<1>4. ASSUME NEW k \in 0 .. hi, k # r, k # c PROVE b[k + 1] = a[k + 1]
  <2>1. k \in 0 .. Len(a) - 1 /\ k \notin {r, c} /\ r \in 0 .. Len(a) - 1 /\ c \in 0 .. Len(a) - 1
    BY <1>1, <1>2, <1>4
  <2> QED BY <1>1, <2>1, SwapIs
<1>5. c \in Below(r, hi) BY <1>2 DEF Below
<1>6. ASSUME NEW p \in lo .. hi, p # c, NEW k \in Below(p, hi) PROVE Leq(b[k + 1], b[p + 1])
  <2>1. k \in 1 .. hi /\ k \in {2 * p, 2 * p + 1} /\ p \in 0 .. hi /\ p < k BY <1>2, <1>6 DEF Below
  <2>2. CASE p = r
    <3>1. b[p + 1] = a[c + 1] BY <1>3, <2>2
    <3>2. CASE k = c BY <1>3, <3>1, <3>2
    <3>3. CASE k # c
      <4>1. b[k + 1] = a[k + 1] BY <1>4, <2>1, <2>2, <3>3
      <4>2. Leq(a[k + 1], a[c + 1]) BY <1>6, <2>2
      <4> QED BY <3>1, <4>1, <4>2
    <3> QED BY <3>2, <3>3
  <2>3. CASE p # r
    <3>1. b[p + 1] = a[p + 1] BY <1>4, <1>6, <2>1, <2>3
    <3>2. k # c BY <1>2, <2>1, <2>3
    <3>3. CASE k = r
      <4>1. b[k + 1] = a[c + 1] BY <1>3, <3>3
      <4>2. Leq(a[c + 1], a[p + 1]) BY <1>5, <1>6, <3>3 DEF Grand
      <4> QED BY <3>1, <4>1, <4>2
    <3>4. CASE k # r
      <4>1. b[k + 1] = a[k + 1] BY <1>4, <2>1, <3>2, <3>4
      <4>2. Leq(a[k + 1], a[p + 1]) BY <1>6, <2>3 DEF Heap
      <4> QED BY <3>1, <4>1, <4>2
    <3> QED BY <3>3, <3>4
  <2> QED BY <2>2, <2>3
<1>7. ASSUME NEW p \in lo .. hi, c \in Below(p, hi), NEW k \in Below(c, hi) PROVE Leq(b[k + 1], b[p + 1])
  <2>1. p = r
    <3>1. c \in {2 * p, 2 * p + 1} /\ p \in Nat BY <1>2, <1>7 DEF Below
    <3> QED BY <1>2, <3>1
  <2>2. k \in 1 .. hi /\ k \in {2 * c, 2 * c + 1} BY <1>7 DEF Below
  <2>3. k \in 0 .. hi /\ k # r /\ k # c BY <1>2, <2>2
  <2>4. b[k + 1] = a[k + 1] BY <1>4, <2>3
  <2>5. c \in lo .. hi /\ c # r BY <1>2
  <2>6. Leq(a[k + 1], a[c + 1]) BY <1>7, <2>5 DEF Heap
  <2> QED BY <1>3, <2>1, <2>4, <2>6
<1>8. Heap(b, lo, hi, c) BY <1>6 DEF Heap
<1>9. Grand(b, lo, hi, c) BY <1>7 DEF Grand
<1> QED BY <1>1, <1>8, <1>9

\* Swapping two elements below leaves what is in its place there.
LEMMA SwapPlaced ==
    ASSUME NEW a \in Seq(Elem), NEW hi \in 0 .. Len(a) - 1, Placed(a, hi, Len(a)),
           NEW r \in 0 .. hi, NEW c \in 0 .. hi
    PROVE  Placed(SwapIn(a, r, c), hi, Len(a))
PROOF
<1>1. PICK b, n : b = SwapIn(a, r, c) /\ n = Len(a) OBVIOUS
<1>2. n \in Nat /\ hi \in 0 .. n - 1 /\ r \in 0 .. n - 1 /\ c \in 0 .. n - 1 BY <1>1
<1>3. b[r + 1] = a[c + 1] /\ b[c + 1] = a[r + 1] BY <1>1, <1>2, SwapIs
<1>4. ASSUME NEW k \in 0 .. n - 1, k # r, k # c PROVE b[k + 1] = a[k + 1]
  <2>1. k \in 0 .. Len(a) - 1 /\ k \notin {r, c} BY <1>1, <1>4
  <2> QED BY <1>1, <1>2, <2>1, SwapIs
<1>5. ASSUME NEW j \in hi + 1 .. n - 1, NEW i \in 0 .. j - 1 PROVE Leq(b[i + 1], b[j + 1])
  <2>1. j \in 0 .. n - 1 /\ j # r /\ j # c /\ i \in 0 .. n - 1 BY <1>2
  <2>2. b[j + 1] = a[j + 1] BY <1>4, <2>1
  <2>3. PICK k : k = IF i = r THEN c ELSE IF i = c THEN r ELSE i OBVIOUS
  <2>4. k \in 0 .. j - 1 BY <1>2, <2>3
  <2>5. b[i + 1] = a[k + 1] BY <1>3, <1>4, <2>1, <2>3
  <2>6. Leq(a[k + 1], a[j + 1]) BY <1>1, <2>4 DEF Placed
  <2> QED BY <2>2, <2>5, <2>6
<1> QED BY <1>1, <1>5 DEF Placed

\* The first element of a heap is no less than any other.
LEMMA HeapTop ==
    ASSUME NEW a \in Seq(Elem), NEW hi \in 0 .. Len(a) - 1, Heap(a, 0, hi, None), NEW k \in 0 .. hi
    PROVE  Leq(a[k + 1], a[1])
PROOF
<1>1. PICK n : n = Len(a) OBVIOUS
<1>2. n \in Nat /\ hi \in 0 .. n - 1 /\ \A m \in 0 .. hi : a[m + 1] \in Elem BY <1>1
<1> DEFINE Bad == {m \in 0 .. hi : ~Leq(a[m + 1], a[1])}
<1> SUFFICES ASSUME Bad # {} PROVE FALSE OBVIOUS
<1>3. PICK m \in Bad : \A l \in Bad : m <= l
  <2>1. Bad \subseteq Nat BY <1>2
  <2> QED BY <2>1, Least
<1>4. a[1] \in Elem /\ 0 + 1 = 1
  <2>1. 0 \in 0 .. hi BY <1>2
  <2> QED BY <1>2, <2>1
<1>5. Leq(a[1], a[1]) BY <1>4, OrderIs
<1>6. m \in 1 .. hi
  <2>1. m # 0 BY <1>4, <1>5
  <2> QED BY <1>2, <2>1
<1>7. PICK p : p = m \div 2 OBVIOUS
<1>8. p \in 0 .. hi /\ m \in {2 * p, 2 * p + 1} /\ p < m BY <1>2, <1>6, <1>7
<1>9. p \notin Bad BY <1>3, <1>8
<1>10. Leq(a[p + 1], a[1]) BY <1>8, <1>9
<1>11. p # None BY <1>8 DEF None
<1>12. m \in Below(p, hi) BY <1>6, <1>8 DEF Below
<1>13. Leq(a[m + 1], a[p + 1]) BY <1>8, <1>11, <1>12 DEF Heap
<1>14. a[m + 1] \in Elem /\ a[p + 1] \in Elem BY <1>2, <1>6, <1>8
<1>15. Leq(a[m + 1], a[1]) BY <1>4, <1>10, <1>13, <1>14, LeqTrans
<1> QED BY <1>15

\* The first element goes to the end of the heap, where it is in its place.
LEMMA HeapPop ==
    ASSUME NEW a \in Seq(Elem), NEW n \in 1 .. Len(a) - 1, Heap(a, 0, n, None), Placed(a, n, Len(a))
    PROVE  /\ Heap(SwapIn(a, 0, n), 0, n - 1, 0) /\ Grand(SwapIn(a, 0, n), 0, n - 1, 0)
           /\ Placed(SwapIn(a, 0, n), n - 1, Len(a))
PROOF
<1>1. PICK b, size : b = SwapIn(a, 0, n) /\ size = Len(a) OBVIOUS
<1>2. size \in Nat /\ n \in 1 .. size - 1 /\ 0 \in 0 .. Len(a) - 1 /\ n \in 0 .. Len(a) - 1 BY <1>1
<1>3. b[0 + 1] = a[n + 1] /\ b[n + 1] = a[0 + 1] BY <1>1, <1>2, SwapIs
<1>4. ASSUME NEW k \in 0 .. size - 1, k # 0, k # n PROVE b[k + 1] = a[k + 1]
  <2>1. k \in 0 .. Len(a) - 1 /\ k \notin {0, n} BY <1>1, <1>4
  <2> QED BY <1>1, <1>2, <2>1, SwapIs
<1>5. Heap(b, 0, n - 1, 0)
  <2>1. ASSUME NEW p \in 0 .. n - 1, p # 0, NEW k \in Below(p, n - 1) PROVE Leq(b[k + 1], b[p + 1])
    <3>1. k \in 1 .. n - 1 /\ k \in {2 * p, 2 * p + 1} BY <2>1 DEF Below
    <3>2. k \in 0 .. size - 1 /\ k # 0 /\ k # n /\ p \in 0 .. size - 1 /\ p # n /\ p \in 0 .. n /\ k \in 1 .. n
      BY <1>2, <3>1
    <3>3. b[k + 1] = a[k + 1] /\ b[p + 1] = a[p + 1] BY <1>4, <2>1, <3>2
    <3>4. k \in Below(p, n) /\ p # None BY <3>1, <3>2 DEF Below, None
    <3> QED BY <3>2, <3>3, <3>4 DEF Heap
  <2> QED BY <2>1 DEF Heap
<1>6. Grand(b, 0, n - 1, 0) BY DEF Grand, Below
<1>7. ASSUME NEW j \in n - 1 + 1 .. size - 1, NEW i \in 0 .. j - 1 PROVE Leq(b[i + 1], b[j + 1])
  <2>1. PICK k : k = IF i = 0 THEN n ELSE IF i = n THEN 0 ELSE i OBVIOUS
  <2>2. i \in 0 .. size - 1 /\ j \in 0 .. size - 1 /\ n <= j /\ i < j /\ j \in Nat /\ i \in Nat BY <1>2
  <2>3. b[i + 1] = a[k + 1] BY <1>3, <1>4, <2>1, <2>2
  <2>4. CASE j = n
    <3>1. b[j + 1] = a[1] BY <1>3, <2>4
    <3>2. k \in 0 .. n BY <1>2, <2>1, <2>2, <2>4
    <3>3. Leq(a[k + 1], a[1]) BY <1>2, <3>2, HeapTop
    <3> QED BY <2>3, <3>1, <3>3
  <2>5. CASE j # n
    <3>1. j \in n + 1 .. size - 1 /\ k \in 0 .. j - 1 /\ j # 0 BY <1>2, <2>1, <2>2, <2>5
    <3>2. b[j + 1] = a[j + 1] BY <1>4, <2>2, <2>5, <3>1
    <3>3. Leq(a[k + 1], a[j + 1]) BY <1>1, <3>1 DEF Placed
    <3> QED BY <2>3, <3>2, <3>3
  <2> QED BY <2>4, <2>5
<1>8. Placed(b, n - 1, size) BY <1>7 DEF Placed
<1> QED BY <1>1, <1>5, <1>6, <1>8

\* Nothing is left to do at r.
LEMMA HeapDone ==
    ASSUME NEW a, NEW lo, NEW hi, NEW r, Heap(a, lo, hi, r),
           \A k \in Below(r, hi) : Leq(a[k + 1], a[r + 1])
    PROVE  Heap(a, lo, hi, None)
BY DEF Heap

\* One more root to sift down.
LEMMA HeapGrows ==
    ASSUME NEW a, NEW n \in Nat, NEW hi \in Int, Heap(a, n + 1, hi, None)
    PROVE  Heap(a, n, hi, n) /\ Grand(a, n, hi, n)
PROOF
<1>1. \A p \in n .. hi : p # n => p \in n + 1 .. hi /\ p # None BY DEF None
<1>2. \A p \in n .. hi : n \notin Below(p, hi) BY DEF Below
<1> QED BY <1>1, <1>2 DEF Heap, Grand

\* The second half of an array is a heap.
LEMMA HeapBegins ==
    ASSUME NEW a, NEW size \in Nat
    PROVE  Heap(a, size \div 2 + 1, size - 1, None)
PROOF
<1>1. \A p \in size \div 2 + 1 .. size - 1 : Below(p, size - 1) = {} BY DEF Below
<1> QED BY <1>1 DEF Heap

-----------------------------------------------------------------------------
(* What a step does to loops that are exact.                               *)

\* What LoopsExact says of a loop that has come to its end.
Finished(f, a) ==
    IF f.op = "sort"
    THEN f.cmp \in {"objcmp", "honest"} =>
           /\ \A i, j \in DOMAIN a : i < j => ObjCmp(a[i], a[j]) \in {-1, 0}
           /\ \A v \in Range(f.old) : Occurs(a, v) = Occurs(f.old, v)
           /\ Len(a) = Len(f.old)
    ELSE /\ f.seen = f.old
         /\ f.op = "map" => f.dest = IF f.emptied = None THEN f.said ELSE <<>>
         /\ f.op = "apply" => a = f.said
         /\ f.op = "filter" =>
              /\ Len(f.dest) = Cardinality(Kept(f))
              /\ \A i \in Kept(f) : f.dest[Cardinality({k \in Kept(f) : k <= i})] = f.seen[i]
         /\ (f.op = "reduce" /\ f.said # <<>>) => f.dest = <<f.said[Len(f.said)]>>

LEMMA DisturbedExact ==
    ASSUME NEW s, NEW len, NEW moved, IsSeq(s), \A k \in 1 .. Len(s) : FrameInv(s[k], len),
           NEW k \in 1 .. Len(s), NEW a
    PROVE  Exact(Disturbed(s, moved)[k], a)
PROOF
<1>1. PICK S : s \in Seq(S) BY DEF IsSeq
<1>2. k \in DOMAIN s BY <1>1
<1>3. PICK f, b, no : f = s[k] /\ b = (f.moved \/ moved) /\ no = FALSE OBVIOUS
<1>4. Disturbed(s, moved)[k] = [f EXCEPT !.quiet = no, !.moved = b] BY <1>2, <1>3 DEF Disturbed
<1>5. DOMAIN f = FrameFields BY <1>3 DEF FrameInv
<1>6. Disturbed(s, moved)[k].quiet = no BY <1>4, <1>5 DEF FrameFields
<1>7. ~ Disturbed(s, moved)[k].quiet BY <1>3, <1>6
<1> QED BY <1>7 DEF Exact

LEMMA NothingExact ==
    ASSUME ended' = Nothing
    PROVE  LoopsExact'
BY DEF LoopsExact

LEMMA ContinueExact ==
    ASSUME AInv, AllExact, frames # <<>>, NEW f, NEW new, Continue(f, new), Exact(f, new.vals)
    PROVE  AllExact'
PROOF
<1>1. PICK len : len = Len(arr.vals) OBVIOUS
<1>2. Sorting(len) BY <1>1 DEF AInv
<1>3. /\ IsSeq(Outer) /\ Len(Outer) = Len(frames) - 1 /\ Len(frames) \in Nat \ {0}
      /\ \A k \in 1 .. Len(Outer) : FrameInv(Outer[k], len)
  BY <1>2, TopIs
<1>4. PICK o, no : o = Outer /\ no = FALSE OBVIOUS
<1>5. PICK s : s = IF new = arr THEN o ELSE Disturbed(o, no) OBVIOUS
<1>6. frames' = Append(s, f) /\ arr' = new /\ ended' = Nothing BY <1>4, <1>5 DEF Continue
<1>7. \A k \in 1 .. Len(o) : o[k] = frames[k]
  <2>1. PICK S : frames \in Seq(S) BY <1>2 DEF Sorting, IsSeq
  <2>2. PICK m : m = Len(frames) - 1 OBVIOUS
  <2>3. m \in 0 .. Len(frames) /\ o = SubSeq(frames, 1, m) /\ Len(o) = m
    BY <1>3, <1>4, <2>2 DEF Outer
  <2> QED BY <2>1, <2>3, PrefixIs
<1>8. IsSeq(s) /\ Len(s) = Len(o) /\ \A k \in 1 .. Len(s) : Exact(s[k], new.vals)
  <2>1. CASE new = arr
    <3>1. s = o /\ new.vals = arr.vals BY <1>5, <2>1
    <3>2. \A k \in 1 .. Len(o) : k \in 1 .. Len(frames) BY <1>3, <1>4
    <3> QED BY <1>3, <1>4, <1>7, <3>1, <3>2 DEF AllExact
  <2>2. CASE new # arr
    <3>1. s = Disturbed(o, no) BY <1>5, <2>2
    <3>2. \A k \in 1 .. Len(o) : FrameInv(o[k], len) /\ Waits(o[k]) BY <1>2, <1>4, TopIs
    <3>3. IsSeq(s) /\ Len(s) = Len(o) BY <1>3, <1>4, <3>1, <3>2, DisturbedIs
    <3>4. PICK a : a = new.vals OBVIOUS
    <3>5. \A k \in 1 .. Len(o) : Exact(Disturbed(o, no)[k], a)
      BY <1>3, <1>4, <3>2, DisturbedExact
    <3> QED BY <3>1, <3>3, <3>4, <3>5
  <2> QED BY <2>1, <2>2
<1>9. PICK S, n : s \in Seq(S) /\ n = Len(s) BY <1>8 DEF IsSeq
<1>10. PICK t : t = Append(s, f) OBVIOUS
<1>11. n \in Nat /\ Len(t) = n + 1 /\ t[n + 1] = f /\ \A k \in 1 .. n : t[k] = s[k] BY <1>9, <1>10
<1>12. \A k \in 1 .. n + 1 : Exact(t[k], new.vals)
  <2> TAKE k \in 1 .. n + 1
  <2>1. k = n + 1 \/ k \in 1 .. n BY <1>11
  <2> QED BY <1>8, <1>9, <1>11, <2>1
<1>13. \A k \in 1 .. Len(frames') : Exact(frames'[k], arr'.vals) BY <1>6, <1>10, <1>11, <1>12
<1>14. LoopsExact' BY <1>6, NothingExact
<1> QED BY <1>13, <1>14 DEF AllExact

\* f is the loop that ends, or Nothing when it fails.
LEMMA EndExact ==
    ASSUME AInv, AllExact, frames # <<>>, NEW f, End(f),
           (f # Nothing /\ f.quiet) => Finished(f, arr.vals)
    PROVE  AllExact'
PROOF
<1>1. PICK len : len = Len(arr.vals) OBVIOUS
<1>2. Sorting(len) BY <1>1 DEF AInv
<1>3. Len(Outer) = Len(frames) - 1 /\ Len(frames) \in Nat \ {0} BY <1>2, TopIs
<1>4. frames' = Outer /\ arr' = arr /\ ended' = f BY DEF End
<1>5. \A k \in 1 .. Len(Outer) : Outer[k] = frames[k] /\ k \in 1 .. Len(frames)
  <2>1. PICK S : frames \in Seq(S) BY <1>2 DEF Sorting, IsSeq
  <2>2. PICK m : m = Len(frames) - 1 OBVIOUS
  <2>3. m \in 0 .. Len(frames) /\ Outer = SubSeq(frames, 1, m) /\ Len(Outer) = m
    BY <1>3, <2>2 DEF Outer
  <2>4. \A k \in 1 .. m : SubSeq(frames, 1, m)[k] = frames[k] BY <2>1, <2>3, PrefixIs
  <2> QED BY <2>3, <2>4
<1>6. \A k \in 1 .. Len(frames') : Exact(frames'[k], arr'.vals) BY <1>4, <1>5 DEF AllExact
<1>7. LoopsExact' BY <1>4 DEF LoopsExact, Finished
<1> QED BY <1>6, <1>7 DEF AllExact

LEMMA BeginExact ==
    ASSUME AInv, AllExact, NEW f, Begin(f), Exact(f, arr.vals)
    PROVE  AllExact'
PROOF
<1>1. arr' = arr /\ frames' = Append(frames, f) /\ ended' = Nothing BY DEF Begin
<1>2. PICK S, n : frames \in Seq(S) /\ n = Len(frames) BY DEF AInv, Sorting, IsSeq
<1>3. PICK t : t = Append(frames, f) OBVIOUS
<1>4. n \in Nat /\ Len(t) = n + 1 /\ t[n + 1] = f /\ \A k \in 1 .. n : t[k] = frames[k] BY <1>2, <1>3
<1>5. \A k \in 1 .. n + 1 : Exact(t[k], arr.vals)
  <2> TAKE k \in 1 .. n + 1
  <2>1. k = n + 1 \/ k \in 1 .. n BY <1>4
  <2> QED BY <1>2, <1>4, <2>1 DEF AllExact
<1>6. \A k \in 1 .. Len(frames') : Exact(frames'[k], arr'.vals) BY <1>1, <1>3, <1>4, <1>5
<1> QED BY <1>1, <1>6, NothingExact DEF AllExact

LEMMA ChangeExact ==
    ASSUME AInv, NEW new, Change(new)
    PROVE  AllExact'
PROOF
<1>1. /\ InScript /\ arr' = new /\ frames' = Disturbed(frames, new.alloc # arr.alloc) /\ ended' = Nothing
  BY DEF Change
<1>2. PICK len, moved, a : len = Len(arr.vals) /\ moved = (new.alloc # arr.alloc) /\ a = new.vals OBVIOUS
<1>3. IsSeq(frames) /\ \A k \in 1 .. Len(frames) : FrameInv(frames[k], len) /\ Waits(frames[k])
  BY <1>1, <1>2, Waiting DEF AInv, Sorting
<1>4. Len(Disturbed(frames, moved)) = Len(frames) BY <1>3, DisturbedIs
<1>5. \A k \in 1 .. Len(frames) : Exact(Disturbed(frames, moved)[k], a) BY <1>3, DisturbedExact
<1>6. \A k \in 1 .. Len(frames') : Exact(frames'[k], arr'.vals) BY <1>1, <1>2, <1>4, <1>5
<1> QED BY <1>1, <1>6, NothingExact DEF AllExact

\* What a collection leaves of a loop is still exact.
LEMMA CollectedExact ==
    ASSUME NEW f, NEW len, FrameInv(f, len), Waits(f), NEW a, Exact(f, a)
    PROVE  Exact(Collected(f), a)
PROOF
<1>1. CASE f.op \notin {"map", "filter"} BY <1>1 DEF Collected
<1>2. CASE f.op \in {"map", "filter"}
  <2>1. DOMAIN f = FrameFields /\ f.op \in Walks /\ f.op # "sort" /\ f.op # "apply" /\ f.n \in Nat
        /\ f.stage = "call"
    BY <1>2 DEF FrameInv, Walks, Waits
  <2>2. PICK d, m : d = <<>> /\ m = Len(f.said) OBVIOUS
  <2>3. PICK g : g = [f EXCEPT !.dest = d, !.emptied = m] OBVIOUS
  <2>4. g = Collected(f) BY <1>2, <2>2, <2>3 DEF Collected
  <2>5. /\ g.op = f.op /\ g.stage = f.stage /\ g.n = f.n /\ g.size = f.size /\ g.seen = f.seen
        /\ g.said = f.said /\ g.old = f.old /\ g.temp = f.temp /\ g.quiet = f.quiet
        /\ g.dest = d /\ g.emptied = m
    BY <2>1, <2>3 DEF FrameFields
  <2>6. ASSUME f.quiet PROVE WalkExact(g, a)
    <3>1. WalkExact(f, a) BY <2>1, <2>6 DEF Exact
    <3>2. m = f.n BY <1>2, <2>2, <3>1 DEF WalkExact
    <3>3. d \in Seq(Elem) /\ Len(d) = 0 BY <2>2
    <3>4. g.op = "map" => MapExact(g) BY <2>1, <2>2, <2>5, <3>2 DEF MapExact, None
    <3>5. g.op = "filter" => FilterExact(g)
      <4> SUFFICES ASSUME g.op = "filter" PROVE FilterExact(g) OBVIOUS
      <4>1. FilterExact(f) BY <2>5, <3>1 DEF WalkExact
      <4>2. KeptOf(g) = {} BY <2>1, <2>5, <3>2 DEF KeptOf
      <4>3. Len(g.dest) = Cardinality(KeptOf(g)) BY <2>5, <3>3, <4>2, FS_EmptySet
      <4> QED BY <2>5, <4>1, <4>2, <4>3 DEF FilterExact
    <3>6. g.emptied \in Int /\ g.emptied <= g.n BY <2>1, <2>5, <3>2
    <3> QED BY <1>2, <2>1, <2>5, <3>1, <3>3, <3>4, <3>5, <3>6 DEF WalkExact
  <2> QED BY <2>1, <2>4, <2>5, <2>6 DEF Exact
<1> QED BY <1>1, <1>2

LEMMA CollectExact ==
    ASSUME AInv, AllExact, CollectGarbage
    PROVE  AllExact'
PROOF
<1>1. PICK len, a : len = Len(arr.vals) /\ a = arr.vals OBVIOUS
<1>2. InScript /\ Sorting(len) /\ arr' = arr /\ ended' = Nothing BY <1>1 DEF AInv, CollectGarbage
<1>3. \A k \in 1 .. Len(frames) : FrameInv(frames[k], len) /\ Waits(frames[k]) BY <1>2, Waiting
<1>4. Len(frames') = Len(frames) /\ \A k \in 1 .. Len(frames) : frames'[k] = Collected(frames[k])
  BY <1>2, CollectedIs DEF Sorting
<1>5. \A k \in 1 .. Len(frames) : Exact(Collected(frames[k]), a)
  BY <1>1, <1>3, CollectedExact DEF AllExact
<1>6. \A k \in 1 .. Len(frames') : Exact(frames'[k], arr'.vals) BY <1>1, <1>2, <1>4, <1>5
<1> QED BY <1>2, <1>6, NothingExact DEF AllExact

LEMMA OperationExact ==
    ASSUME AInv, AllExact, Operation
    PROVE  AllExact'
PROOF
<1>1. CASE \E new : Change(new) BY <1>1, ChangeExact
<1>2. ASSUME NEW s, NEW e, Slice(s, e) PROVE AllExact'
  <2>1. arr' = arr /\ frames' = frames /\ ended' = Nothing BY <1>2 DEF Slice
  <2>2. \A k \in 1 .. Len(frames') : Exact(frames'[k], arr'.vals) BY <2>1 DEF AllExact
  <2> QED BY <2>1, <2>2, NothingExact DEF AllExact
<1>3. ASSUME ~ \E new : Change(new)
      PROVE  CollectGarbage \/ \E s, e \in -MaxLen .. MaxLen : Slice(s, e)
  BY <1>3 DEF Operation, AppendValue, ExtendBy, Pop, Insert, RemoveIndex, Resize, Set, ReverseArray,
     TypeCheck, Clone
<1>4. CASE CollectGarbage BY <1>4, CollectExact
<1> QED BY <1>1, <1>2, <1>3, <1>4

-----------------------------------------------------------------------------
(* The loops that walk.                                                    *)

LEMMA SameSeq ==
    ASSUME NEW S, NEW s \in Seq(S), NEW t \in Seq(S), Len(s) = Len(t),
           \A i \in 1 .. Len(s) : s[i] = t[i]
    PROVE  s = t
PROOF
<1>1. PICK n : n = Len(s) OBVIOUS
<1>2. s \in [1 .. n -> S] /\ t \in [1 .. n -> S] BY <1>1
<1> QED BY <1>1, <1>2

LEMMA AppendIs ==
    ASSUME NEW S, NEW s \in Seq(S), NEW v \in S
    PROVE  /\ Append(s, v) \in Seq(S) /\ Len(Append(s, v)) = Len(s) + 1 /\ Len(s) \in Nat
           /\ Append(s, v)[Len(s) + 1] = v /\ \A i \in 1 .. Len(s) : Append(s, v)[i] = s[i]
OBVIOUS

\* One more element is given to the callback.
LEMMA CallExact ==
    ASSUME NEW t, DOMAIN t = FrameFields, t.op \in Walks, t.n \in Nat, t.size \in Nat, t.stage = "head",
           NEW a \in Seq(Elem), WalkExact(t, a), t.n < t.size,
           NEW e, e = a[t.n + 1], NEW f, f = [t EXCEPT !.stage = "call", !.temp = e, !.seen = Append(@, e)]
    PROVE  WalkExact(f, a)
PROOF
<1>1. PICK n, size : n = t.n /\ size = t.size OBVIOUS
<1>2. n \in Nat /\ size \in Nat /\ n < size BY <1>1
<1>3. /\ t.seen \in Seq(Elem) /\ t.old \in Seq(Elem) /\ Len(a) = size /\ Len(t.old) = size
      /\ Len(t.seen) = n /\ \A i \in 1 .. n : t.seen[i] = t.old[i]
  BY <1>1 DEF WalkExact
<1>4. e \in Elem /\ e = t.old[n + 1]
  <2>1. n + 1 \in 1 .. size /\ ~(n + 1 <= n) BY <1>2
  <2>2. CASE t.op = "apply"
    <3>1. \A i \in 1 .. size : a[i] = IF i <= n THEN t.said[i] ELSE t.old[i] BY <1>1, <2>2 DEF WalkExact
    <3> QED BY <1>1, <1>3, <2>1, <3>1
  <2>3. CASE t.op # "apply"
    <3>1. a = t.old BY <2>3 DEF WalkExact
    <3> QED BY <1>1, <1>3, <2>1, <3>1
  <2> QED BY <2>2, <2>3
<1>5. PICK s, stage : s = Append(t.seen, e) /\ stage = "call" OBVIOUS
<1>6. /\ s \in Seq(Elem) /\ Len(s) = n + 1 /\ s[n + 1] = e
      /\ \A i \in 1 .. n : s[i] = t.seen[i]
  BY <1>3, <1>4, <1>5, AppendIs
<1>7. f = [t EXCEPT !.stage = stage, !.temp = e, !.seen = s] BY <1>5
<1>8. /\ f.stage = "call" /\ f.temp = e /\ f.seen = s /\ f.op = t.op /\ f.n = n /\ f.size = size
      /\ f.dest = t.dest /\ f.said = t.said /\ f.old = t.old /\ f.emptied = t.emptied
  BY <1>1, <1>5, <1>7 DEF FrameFields
<1>9. \A i \in 1 .. n + 1 : s[i] = t.old[i]
  <2> TAKE i \in 1 .. n + 1
  <2>1. i = n + 1 \/ i \in 1 .. n BY <1>2
  <2> QED BY <1>3, <1>4, <1>6, <2>1
<1>10. t.op = "filter" => FilterExact(f)
  <2> SUFFICES ASSUME t.op = "filter" PROVE FilterExact(f) OBVIOUS
  <2>1. FilterExact(t) BY DEF WalkExact
  <2>2. KeptOf(f) = KeptOf(t) /\ KeptOf(t) \subseteq 1 .. n BY <1>1, <1>8 DEF KeptOf
  <2>3. \A i : KeptTo(f, i) = KeptTo(t, i) BY <2>2 DEF KeptTo
  <2>4. Len(f.dest) = Cardinality(KeptOf(f)) BY <1>8, <2>1, <2>2 DEF FilterExact
  <2>5. \A i \in KeptOf(f) : f.dest[Cardinality(KeptTo(f, i))] = f.seen[i]
    BY <1>6, <1>8, <2>1, <2>2, <2>3 DEF FilterExact
  <2>6. f.temp = f.seen[f.n + 1] BY <1>6, <1>8
  <2> QED BY <2>4, <2>5, <2>6 DEF FilterExact
<1>11. /\ f.seen \in Seq(Elem) /\ f.said \in Seq(Elem) /\ f.dest \in Seq(Elem) /\ f.old \in Seq(Elem)
       /\ Len(a) = f.size /\ Len(f.old) = f.size /\ f.n <= f.size
  BY <1>2, <1>3, <1>6, <1>8 DEF WalkExact
<1>12. /\ Len(f.seen) = (IF f.stage = "call" THEN f.n + 1 ELSE f.n) /\ Len(f.seen) <= f.size
       /\ \A i \in 1 .. Len(f.seen) : f.seen[i] = f.old[i]
  BY <1>2, <1>6, <1>8, <1>9
<1>13. /\ f.op # "apply" => a = f.old
       /\ f.op \in {"map", "apply", "filter"} => Len(f.said) = f.n
       /\ f.emptied \in Int /\ f.emptied <= f.n
       /\ f.op = "map" => MapExact(f)
       /\ f.op = "apply" => \A i \in 1 .. f.size : a[i] = IF i <= f.n THEN f.said[i] ELSE f.old[i]
       /\ (f.op = "reduce" /\ f.said # <<>>) => f.dest = <<f.said[Len(f.said)]>>
  BY <1>1, <1>8 DEF WalkExact, MapExact
<1> QED BY <1>8, <1>10, <1>11, <1>12, <1>13 DEF WalkExact

\* What the answer r makes of what filter has kept.
LEMMA FilterKeeps ==
    ASSUME NEW t, t.n \in Nat, t.dest \in Seq(Elem), t.seen \in Seq(Elem), t.said \in Seq(Elem),
           Len(t.said) = t.n, Len(t.seen) = t.n + 1, FilterExact(t), t.stage = "call",
           t.emptied \in Int, t.emptied <= t.n, NEW r \in Elem, NEW f, f.n = t.n + 1,
           f.said = Append(t.said, r), f.seen = t.seen, f.emptied = t.emptied,
           f.stage = "head", f.dest = IF r # Null THEN Append(t.dest, t.temp) ELSE t.dest
    PROVE  FilterExact(f) /\ f.dest \in Seq(Elem)
PROOF
<1>1. PICK n, m : n = t.n /\ m = t.n + 1 OBVIOUS
<1>2. n \in Nat /\ m = n + 1 BY <1>1
<1>3. PICK K, L : K = KeptOf(t) /\ L = KeptOf(f) OBVIOUS
<1>4. K \subseteq 1 .. n /\ IsFiniteSet(K) /\ m \notin K
  <2>1. K \subseteq 1 .. n BY <1>1, <1>3 DEF KeptOf
  <2>2. PICK I : I = 1 .. n OBVIOUS
  <2>3. IsFiniteSet(I) BY <1>2, <2>2, FS_Interval
  <2>4. K \in SUBSET I BY <2>1, <2>2
  <2>5. IsFiniteSet(K) BY <2>3, <2>4, FS_Subset
  <2>6. m \notin K BY <1>2, <2>1
  <2> QED BY <2>1, <2>5, <2>6
<1>5. f.said[m] = r /\ \A i \in 1 .. n : f.said[i] = t.said[i] BY <1>1, AppendIs
<1>6. L = IF r # Null THEN K \cup {m} ELSE K
  <2>1. PICK e : e = t.emptied OBVIOUS
  <2>2. /\ L = {i \in 1 .. m : f.said[i] # Null /\ i > e}
        /\ K = {i \in 1 .. n : t.said[i] # Null /\ i > e}
    BY <1>1, <1>3, <2>1 DEF KeptOf
  <2>3. 1 .. m = 1 .. n \cup {m} /\ m > e BY <1>1, <1>2, <2>1
  <2> QED BY <1>4, <1>5, <2>2, <2>3
<1>7. t.temp = t.seen[m] /\ t.temp \in Elem
  <2>1. t.temp = t.seen[m] BY <1>1 DEF FilterExact
  <2>2. m \in 1 .. Len(t.seen) BY <1>1, <1>2
  <2> QED BY <2>1, <2>2
<1>8. /\ Len(t.dest) = Cardinality(K) /\ Cardinality(K) \in Nat
      /\ \A i \in K : t.dest[Cardinality(KeptTo(t, i))] = t.seen[i]
  BY <1>3, <1>4, FS_CardinalityType DEF FilterExact
<1>9. \A i \in K : KeptTo(f, i) = KeptTo(t, i)
  <2> TAKE i \in K
  <2>1. i <= n /\ ~(m <= i) /\ i \in Nat BY <1>2, <1>4
  <2>2. KeptTo(f, i) = {k \in L : k <= i} /\ KeptTo(t, i) = {k \in K : k <= i} BY <1>3 DEF KeptTo
  <2> QED BY <1>6, <2>1, <2>2
<1>10. CASE r = Null
  <2>1. L = K /\ f.dest = t.dest BY <1>6, <1>10
  <2>2. \A i \in L : f.dest[Cardinality(KeptTo(f, i))] = f.seen[i] BY <1>8, <1>9, <2>1
  <2> QED BY <1>3, <1>8, <2>1, <2>2 DEF FilterExact
<1>11. CASE r # Null
  <2>1. L = K \cup {m} /\ f.dest = Append(t.dest, t.temp) BY <1>6, <1>11
  <2>2. Cardinality(L) = Cardinality(K) + 1 BY <1>4, <2>1, FS_AddElement
  <2>3. /\ f.dest \in Seq(Elem) /\ Len(f.dest) = Cardinality(L)
        /\ f.dest[Cardinality(L)] = t.temp /\ \A j \in 1 .. Cardinality(K) : f.dest[j] = t.dest[j]
    BY <1>7, <1>8, <2>1, <2>2, AppendIs
  <2>4. ASSUME NEW i \in L PROVE f.dest[Cardinality(KeptTo(f, i))] = f.seen[i]
    <3>1. CASE i = m
      <4>1. KeptTo(f, i) = L
        <5>1. KeptTo(f, i) = {k \in L : k <= m} BY <1>3, <3>1 DEF KeptTo
        <5>2. \A k \in L : k <= m BY <1>2, <1>4, <2>1
        <5> QED BY <5>1, <5>2
      <4> QED BY <1>7, <2>3, <3>1, <4>1
    <3>2. CASE i # m
      <4>1. i \in K BY <2>1, <3>2
      <4>2. Cardinality(KeptTo(t, i)) \in 1 .. Cardinality(K)
        <5>1. PICK T : T = KeptTo(t, i) OBVIOUS
        <5>2. T \subseteq K /\ i \in T BY <1>3, <1>4, <4>1, <5>1 DEF KeptTo
        <5>3. IsFiniteSet(T) /\ Cardinality(T) <= Cardinality(K) BY <1>4, <5>2, FS_Subset
        <5>4. Cardinality(T) \in Nat /\ Cardinality(T) # 0 BY <5>2, <5>3, FS_CardinalityType, FS_EmptySet
        <5> QED BY <1>8, <5>1, <5>3, <5>4
      <4>3. f.dest[Cardinality(KeptTo(t, i))] = t.seen[i] BY <1>8, <2>3, <4>1, <4>2
      <4> QED BY <1>9, <4>1, <4>3
    <3> QED BY <3>1, <3>2
  <2> QED BY <1>3, <2>3, <2>4 DEF FilterExact
<1> QED BY <1>10, <1>11

\* The callback has answered r: what map, apply, filter, reduce and foreach make of it.
LEMMA AnswerExact ==
    ASSUME NEW t, DOMAIN t = FrameFields, t.op \in Walks, t.n \in Nat, t.size \in Nat, t.stage = "call",
           NEW a \in Seq(Elem), WalkExact(t, a), NEW r \in Elem,
           NEW f, f = [t EXCEPT !.stage = "head", !.n = @ + 1, !.said = Append(@, r)]
    PROVE  /\ t.n + 1 <= t.size
           /\ t.op = "map" =>
                 WalkExact([f EXCEPT !.dest = IF t.n < Len(@) THEN [@ EXCEPT ![t.n + 1] = r] ELSE @], a)
           /\ t.op = "apply" => WalkExact(f, [a EXCEPT ![t.n + 1] = r])
           /\ t.op = "filter" =>
                 WalkExact([f EXCEPT !.dest = IF r # Null THEN Append(@, t.temp) ELSE @], a)
           /\ t.op = "reduce" => WalkExact([f EXCEPT !.dest = <<r>>], a)
           /\ t.op = "foreach" => WalkExact([f EXCEPT !.said = <<>>], a)
PROOF
<1>1. PICK n, size, m : n = t.n /\ size = t.size /\ m = t.n + 1 OBVIOUS
<1>2. n \in Nat /\ size \in Nat /\ m = n + 1 BY <1>1
<1>3. /\ t.seen \in Seq(Elem) /\ t.said \in Seq(Elem) /\ t.dest \in Seq(Elem) /\ t.old \in Seq(Elem)
      /\ Len(a) = size /\ Len(t.old) = size /\ Len(t.seen) = m /\ m <= size
      /\ t.emptied \in Int /\ t.emptied <= n /\ \A i \in 1 .. m : t.seen[i] = t.old[i]
  BY <1>1 DEF WalkExact
<1>4. PICK s, stage : s = Append(t.said, r) /\ stage = "head" OBVIOUS
<1>5. /\ s \in Seq(Elem) /\ Len(s) = Len(t.said) + 1 /\ Len(t.said) \in Nat
      /\ s[Len(t.said) + 1] = r /\ \A i \in 1 .. Len(t.said) : s[i] = t.said[i]
  BY <1>3, <1>4, AppendIs
<1>6. f = [t EXCEPT !.stage = stage, !.n = m, !.said = s] BY <1>1, <1>4
<1>7. /\ f.stage = "head" /\ f.n = m /\ f.said = s /\ f.op = t.op /\ f.size = size
      /\ f.dest = t.dest /\ f.seen = t.seen /\ f.old = t.old /\ f.emptied = t.emptied
      /\ DOMAIN f = FrameFields
  BY <1>1, <1>4, <1>6 DEF FrameFields
<1>8. ASSUME NEW g, g.stage = "head", g.n = m, g.seen = t.seen, g.old = t.old, g.size = size,
             g.op \in Walks, g.op # "apply", g.op = t.op, g.dest \in Seq(Elem), g.said \in Seq(Elem),
             g.op \in {"map", "filter"} => Len(g.said) = m, g.emptied = t.emptied,
             g.op = "map" => MapExact(g),
             g.op = "filter" => FilterExact(g),
             (g.op = "reduce" /\ g.said # <<>>) => g.dest = <<g.said[Len(g.said)]>>
      PROVE  WalkExact(g, a)
  <2>1. a = g.old BY <1>8 DEF WalkExact
  <2>2. g.stage # "call" BY <1>8
  <2>3. Len(g.seen) = (IF g.stage = "call" THEN g.n + 1 ELSE g.n) /\ Len(g.seen) <= g.size
    BY <1>3, <1>8, <2>2
  <2>4. \A i \in 1 .. Len(g.seen) : g.seen[i] = g.old[i] BY <1>3, <1>8
  <2>5. g.emptied \in Int /\ g.emptied <= g.n BY <1>2, <1>3, <1>8
  <2> QED BY <1>3, <1>8, <2>1, <2>3, <2>4, <2>5 DEF WalkExact
<1>9. CASE t.op = "map"
  <2>1. PICK d : d = IF n < Len(t.dest) THEN [t.dest EXCEPT ![m] = r] ELSE t.dest OBVIOUS
  <2>2. PICK g : g = [f EXCEPT !.dest = d] OBVIOUS
  <2>3. /\ g.stage = "head" /\ g.n = m /\ g.said = s /\ g.op = t.op /\ g.size = size
        /\ g.dest = d /\ g.seen = t.seen /\ g.old = t.old /\ g.emptied = t.emptied
    BY <1>7, <2>2 DEF FrameFields
  <2>4. Len(t.said) = n /\ MapExact(t) BY <1>1, <1>9 DEF WalkExact
  <2>5. d \in Seq(Elem) /\ MapExact(g)
    <3>1. CASE t.emptied # None
      <4>1. t.dest = <<>> /\ Len(t.dest) = 0 BY <2>4, <3>1 DEF MapExact
      <4>2. d = <<>> BY <1>2, <2>1, <4>1
      <4> QED BY <1>3, <2>3, <3>1, <4>1, <4>2 DEF MapExact
    <3>2. CASE t.emptied = None
      <4>1. Len(t.dest) = size /\ \A i \in 1 .. n : t.dest[i] = t.said[i]
        BY <1>1, <2>4, <3>2 DEF MapExact
      <4>2. n < Len(t.dest) BY <1>2, <1>3, <4>1
      <4>3. DOMAIN d = 1 .. size /\ d = [i \in 1 .. size |-> d[i]]
            /\ \A i \in 1 .. size : d[i] = (IF i = m THEN r ELSE t.dest[i]) /\ d[i] \in Elem
        <5>1. PICK c : c = t.dest OBVIOUS
        <5>2. DOMAIN c = 1 .. size /\ c \in Seq(Elem) /\ Len(c) = size BY <1>3, <4>1, <5>1
        <5>3. \A i \in 1 .. size : c[i] \in Elem BY <5>2
        <5>4. d = [c EXCEPT ![m] = r] BY <2>1, <4>2, <5>1
        <5>5. d = [i \in 1 .. size |-> IF i = m THEN r ELSE c[i]] BY <5>2, <5>4
        <5> QED BY <5>1, <5>3, <5>5
      <4>4. d \in Seq(Elem) /\ Len(d) = size BY <1>2, <4>3, ListIs
      <4>5. \A i \in 1 .. m : d[i] = s[i]
        <5> TAKE i \in 1 .. m
        <5>1. i = m \/ i \in 1 .. n BY <1>2
        <5>2. i \in 1 .. size BY <1>2, <1>3
        <5> QED BY <1>2, <1>5, <2>4, <4>1, <4>3, <5>1, <5>2
      <4> QED BY <2>3, <3>2, <4>4, <4>5 DEF MapExact
    <3> QED BY <3>1, <3>2
  <2>6. WalkExact(g, a) BY <1>2, <1>5, <1>8, <1>9, <2>3, <2>4, <2>5
  <2>7. g = [f EXCEPT !.dest = IF t.n < Len(@) THEN [@ EXCEPT ![t.n + 1] = r] ELSE @]
    BY <1>1, <1>7, <2>1, <2>2
  <2> QED BY <1>1, <1>3, <1>9, <2>6, <2>7
<1>10. CASE t.op = "apply"
  <2>1. Len(t.said) = n /\ \A i \in 1 .. size : a[i] = IF i <= n THEN t.said[i] ELSE t.old[i]
    BY <1>1, <1>10 DEF WalkExact
  <2>2. PICK b : b = [a EXCEPT ![m] = r] OBVIOUS
  <2>3. DOMAIN b = 1 .. size /\ b = [i \in 1 .. size |-> b[i]]
        /\ \A i \in 1 .. size : b[i] = (IF i = m THEN r ELSE a[i]) /\ b[i] \in Elem
    <3>1. DOMAIN a = 1 .. size /\ \A i \in 1 .. size : a[i] \in Elem BY <1>3
    <3>2. b = [i \in 1 .. size |-> IF i = m THEN r ELSE a[i]] BY <2>2, <3>1
    <3> QED BY <3>1, <3>2
  <2>4. Len(b) = size BY <1>2, <2>3, ListIs
  <2>5. \A i \in 1 .. size : b[i] = IF i <= m THEN s[i] ELSE t.old[i]
    <3> TAKE i \in 1 .. size
    <3>1. i = m \/ i \in 1 .. n \/ (i > m /\ i > n) BY <1>2
    <3>2. CASE i = m BY <1>2, <1>5, <2>1, <2>3, <3>2
    <3>3. CASE i \in 1 .. n
      <4>1. i <= n /\ i <= m /\ i # m BY <1>2, <3>3
      <4> QED BY <1>5, <2>1, <2>3, <3>3, <4>1
    <3>4. CASE i > m /\ i > n
      <4>1. ~(i <= n) /\ ~(i <= m) /\ i # m BY <1>2, <3>4
      <4> QED BY <2>1, <2>3, <4>1
    <3> QED BY <3>1, <3>2, <3>3, <3>4
  <2>6. f.op = "apply" BY <1>7, <1>10
  <2>7. /\ f.seen \in Seq(Elem) /\ f.said \in Seq(Elem) /\ f.dest \in Seq(Elem) /\ f.old \in Seq(Elem)
        /\ Len(b) = f.size /\ Len(f.old) = f.size /\ f.n <= f.size
        /\ Len(f.seen) = (IF f.stage = "call" THEN f.n + 1 ELSE f.n) /\ Len(f.seen) <= f.size
        /\ f.emptied \in Int /\ f.emptied <= f.n
        /\ \A i \in 1 .. Len(f.seen) : f.seen[i] = f.old[i]
    BY <1>2, <1>3, <1>5, <1>7, <2>4
  <2>8. Len(f.said) = f.n /\ \A i \in 1 .. f.size : b[i] = IF i <= f.n THEN f.said[i] ELSE f.old[i]
    BY <1>2, <1>5, <1>7, <2>1, <2>5
  <2>9. WalkExact(f, b) BY <2>6, <2>7, <2>8 DEF WalkExact
  <2> QED BY <1>1, <1>3, <1>10, <2>2, <2>9
<1>11. CASE t.op = "filter"
  <2>1. Len(t.said) = n /\ FilterExact(t) BY <1>1, <1>11 DEF WalkExact
  <2>2. PICK d : d = IF r # Null THEN Append(t.dest, t.temp) ELSE t.dest OBVIOUS
  <2>3. PICK g : g = [f EXCEPT !.dest = d] OBVIOUS
  <2>4. /\ g.stage = "head" /\ g.n = m /\ g.said = s /\ g.op = t.op /\ g.size = size
        /\ g.dest = d /\ g.seen = t.seen /\ g.old = t.old /\ g.emptied = t.emptied
    BY <1>7, <2>3 DEF FrameFields
  <2>5. Len(t.said) = t.n /\ Len(t.seen) = t.n + 1 /\ g.n = t.n + 1 /\ g.said = Append(t.said, r)
        /\ t.emptied \in Int /\ t.emptied <= t.n
        /\ g.dest = IF r # Null THEN Append(t.dest, t.temp) ELSE t.dest
    BY <1>1, <1>3, <1>4, <2>1, <2>2, <2>4
  <2>6. FilterExact(g) /\ g.dest \in Seq(Elem) BY <1>3, <2>1, <2>4, <2>5, FilterKeeps
  <2>7. WalkExact(g, a) BY <1>2, <1>5, <1>8, <1>11, <2>1, <2>4, <2>6
  <2>8. g = [f EXCEPT !.dest = IF r # Null THEN Append(@, t.temp) ELSE @] BY <1>7, <2>2, <2>3
  <2> QED BY <1>1, <1>3, <1>11, <2>7, <2>8
<1>12. CASE t.op = "reduce"
  <2>1. PICK d : d = <<r>> OBVIOUS
  <2>2. PICK g : g = [f EXCEPT !.dest = d] OBVIOUS
  <2>3. /\ g.stage = "head" /\ g.n = m /\ g.said = s /\ g.op = t.op /\ g.size = size
        /\ g.dest = d /\ g.seen = t.seen /\ g.old = t.old /\ g.emptied = t.emptied
    BY <1>7, <2>2 DEF FrameFields
  <2>4. d \in Seq(Elem) /\ s[Len(s)] = r BY <1>5, <2>1
  <2>5. WalkExact(g, a) BY <1>5, <1>8, <1>12, <2>1, <2>3, <2>4
  <2> QED BY <1>1, <1>3, <1>12, <2>1, <2>2, <2>5
<1>13. CASE t.op = "foreach"
  <2>1. PICK d : d = <<>> OBVIOUS
  <2>2. PICK g : g = [f EXCEPT !.said = d] OBVIOUS
  <2>3. /\ g.stage = "head" /\ g.n = m /\ g.said = d /\ g.op = t.op /\ g.size = size
        /\ g.dest = t.dest /\ g.seen = t.seen /\ g.old = t.old /\ g.emptied = t.emptied
    BY <1>7, <2>2 DEF FrameFields
  <2>4. d \in Seq(Elem) BY <2>1
  <2>5. WalkExact(g, a) BY <1>3, <1>8, <1>13, <2>3, <2>4
  <2> QED BY <1>1, <1>3, <1>13, <2>1, <2>2, <2>5
<1>14. m <= size BY <1>3
<1> QED BY <1>1, <1>9, <1>10, <1>11, <1>12, <1>13, <1>14 DEF Walks

\* A walk at its end has done what it is for.
LEMMA WalkFinished ==
    ASSUME NEW t, t.op \in Walks, t.n \in Nat, t.size \in Nat, t.stage = "head",
           NEW a \in Seq(Elem), WalkExact(t, a), t.n >= t.size
    PROVE  Finished(t, a)
PROOF
<1>1. PICK n : n = t.size OBVIOUS
<1>2. n \in Nat /\ t.n = n /\ t.op # "sort" BY <1>1 DEF WalkExact, Walks
<1>3. /\ t.seen \in Seq(Elem) /\ t.said \in Seq(Elem) /\ t.dest \in Seq(Elem) /\ t.old \in Seq(Elem)
      /\ Len(a) = n /\ Len(t.old) = n /\ Len(t.seen) = n /\ \A i \in 1 .. n : t.seen[i] = t.old[i]
  BY <1>1, <1>2 DEF WalkExact
<1>4. t.seen = t.old BY <1>3, SameSeq
<1>5. t.op = "map" => t.dest = IF t.emptied = None THEN t.said ELSE <<>>
  <2> SUFFICES ASSUME t.op = "map" PROVE t.dest = IF t.emptied = None THEN t.said ELSE <<>> OBVIOUS
  <2>1. Len(t.said) = n /\ MapExact(t) BY <1>2 DEF WalkExact
  <2>2. CASE t.emptied # None BY <2>1, <2>2 DEF MapExact
  <2>3. CASE t.emptied = None
    <3>1. Len(t.dest) = n /\ \A i \in 1 .. n : t.dest[i] = t.said[i] BY <1>1, <1>2, <2>1, <2>3 DEF MapExact
    <3>2. t.dest = t.said BY <1>3, <2>1, <3>1, SameSeq
    <3> QED BY <2>3, <3>2
  <2> QED BY <2>2, <2>3
<1>6. t.op = "apply" => a = t.said
  <2> SUFFICES ASSUME t.op = "apply" PROVE a = t.said OBVIOUS
  <2>1. Len(t.said) = n /\ \A i \in 1 .. n : a[i] = IF i <= n THEN t.said[i] ELSE t.old[i]
    BY <1>1, <1>2 DEF WalkExact
  <2>2. \A i \in 1 .. n : a[i] = t.said[i] BY <1>2, <2>1
  <2> QED BY <1>3, <2>1, <2>2, SameSeq
<1>7. t.op = "filter" =>
         /\ Len(t.dest) = Cardinality(Kept(t))
         /\ \A i \in Kept(t) : t.dest[Cardinality({k \in Kept(t) : k <= i})] = t.seen[i]
  <2> SUFFICES ASSUME t.op = "filter"
               PROVE  /\ Len(t.dest) = Cardinality(Kept(t))
                      /\ \A i \in Kept(t) : t.dest[Cardinality({k \in Kept(t) : k <= i})] = t.seen[i]
    OBVIOUS
  <2>1. FilterExact(t) BY DEF WalkExact
  <2>2. Kept(t) = KeptOf(t)
    <3>1. DOMAIN t.seen = 1 .. n BY <1>3
    <3> QED BY <1>2, <3>1 DEF Kept, KeptOf
  <2> QED BY <2>1, <2>2 DEF FilterExact, KeptTo
<1>8. (t.op = "reduce" /\ t.said # <<>>) => t.dest = <<t.said[Len(t.said)]>> BY DEF WalkExact
<1> QED BY <1>2, <1>4, <1>5, <1>6, <1>7, <1>8 DEF Finished

LEMMA WalkStepExact ==
    ASSUME AInv, AllExact, WalkHead \/ \E r \in Values \cup {Null} : WalkReturn(r)
    PROVE  AllExact'
PROOF
<1>1. PICK a, len : a = arr.vals /\ len = Len(arr.vals) OBVIOUS
<1>2. frames # <<>> /\ Top.op \in Walks BY DEF WalkHead, WalkReturn
<1>3. PICK t : t = Top OBVIOUS
<1>4. FrameInv(t, len) /\ Len(frames) \in Nat \ {0} BY <1>1, <1>2, <1>3, TopIs DEF AInv
<1>5. DOMAIN t = FrameFields /\ t.op \in Walks /\ t.op # "sort" /\ t.n \in Nat /\ t.size \in Nat
  BY <1>2, <1>3, <1>4 DEF FrameInv, Walks
<1>6. a \in Seq(Elem) /\ a = arr.vals /\ arr \in ArrayT BY <1>1 DEF AInv, Fits, ArrayT
<1>7. t.quiet => WalkExact(t, a)
  <2>1. Exact(t, a) BY <1>1, <1>3, <1>4 DEF AllExact, Top
  <2> QED BY <1>5, <2>1 DEF Exact
<1>8. ASSUME NEW g, NEW new, Continue(g, new), g.op = t.op, g.quiet = t.quiet,
             t.quiet => WalkExact(g, new.vals)
      PROVE  AllExact'
  <2>1. Exact(g, new.vals) BY <1>5, <1>8 DEF Exact
  <2> QED BY <1>2, <1>8, <2>1, ContinueExact
<1>9. CASE WalkHead
  <2>1. t.stage = "head" BY <1>3, <1>9 DEF WalkHead
  <2>2. PICK bound : bound = IF t.op = "foreach" THEN len ELSE t.size OBVIOUS
  <2>3. t.quiet => bound = t.size
    <3>1. t.quiet => Len(a) = t.size BY <1>7 DEF WalkExact
    <3> QED BY <1>1, <2>2, <3>1
  <2>4. len \in Nat /\ bound \in Nat BY <1>1, <1>5, <1>6, <2>2
  <2>5. CASE t.n >= bound
    <3>1. End(t) BY <1>1, <1>3, <1>9, <2>2, <2>5 DEF WalkHead
    <3>2. t.quiet => Finished(t, a) BY <1>5, <1>6, <1>7, <2>1, <2>3, <2>5, WalkFinished
    <3> QED BY <1>1, <1>2, <3>1, <3>2, EndExact
  <2>6. CASE ~(t.n >= bound)
    <3>1. PICK e : e = IF t.n < len THEN At(t.n) ELSE t.temp OBVIOUS
    <3>2. PICK f : f = [t EXCEPT !.stage = "call", !.temp = e, !.seen = Append(@, e)] OBVIOUS
    <3>3. Continue(f, arr) BY <1>1, <1>3, <1>9, <2>2, <2>6, <3>1, <3>2 DEF WalkHead
    <3>4. f.op = t.op /\ f.quiet = t.quiet
      <4>1. PICK s, stage : s = Append(t.seen, e) /\ stage = "call" OBVIOUS
      <4>2. f = [t EXCEPT !.stage = stage, !.temp = e, !.seen = s] BY <3>2, <4>1
      <4> QED BY <1>5, <4>2 DEF FrameFields
    <3>5. t.quiet => WalkExact(f, a)
      <4> SUFFICES ASSUME t.quiet PROVE WalkExact(f, a) OBVIOUS
      <4>1. WalkExact(t, a) /\ t.n < t.size BY <1>5, <1>7, <2>3, <2>6
      <4>2. len = t.size BY <1>1, <4>1 DEF WalkExact
      <4>3. e = a[t.n + 1] BY <1>1, <3>1, <4>1, <4>2 DEF At
      <4> QED BY <1>5, <1>6, <2>1, <3>2, <4>1, <4>3, CallExact
    <3> QED BY <1>6, <1>8, <3>3, <3>4, <3>5
  <2> QED BY <2>5, <2>6
<1>10. ASSUME NEW r \in Values \cup {Null}, WalkReturn(r) PROVE AllExact'
  <2>1. t.stage = "call" /\ r \in Elem BY <1>3, <1>10, ValueIs DEF WalkReturn
  <2>2. PICK f : f = [t EXCEPT !.stage = "head", !.n = @ + 1, !.said = Append(@, r)] OBVIOUS
  <2>3. DOMAIN f = FrameFields /\ f.op = t.op /\ f.quiet = t.quiet /\ f.dest = t.dest
    <3>1. PICK s, stage, n : s = Append(t.said, r) /\ stage = "head" /\ n = t.n + 1 OBVIOUS
    <3>2. f = [t EXCEPT !.stage = stage, !.n = n, !.said = s] BY <2>2, <3>1
    <3> QED BY <1>5, <3>2 DEF FrameFields
  <2>4. t.quiet =>
           /\ t.n + 1 <= t.size
           /\ t.op = "map" =>
                 WalkExact([f EXCEPT !.dest = IF t.n < Len(@) THEN [@ EXCEPT ![t.n + 1] = r] ELSE @], a)
           /\ t.op = "apply" => WalkExact(f, [a EXCEPT ![t.n + 1] = r])
           /\ t.op = "filter" =>
                 WalkExact([f EXCEPT !.dest = IF r # Null THEN Append(@, t.temp) ELSE @], a)
           /\ t.op = "reduce" => WalkExact([f EXCEPT !.dest = <<r>>], a)
           /\ t.op = "foreach" => WalkExact([f EXCEPT !.said = <<>>], a)
    BY <1>5, <1>6, <1>7, <2>1, <2>2, AnswerExact
  <2>5. ASSUME NEW g, NEW d, g = [f EXCEPT !.dest = d] \/ g = [f EXCEPT !.said = d], Continue(g, arr),
               t.quiet => WalkExact(g, a)
        PROVE  AllExact'
    <3>1. g.op = t.op /\ g.quiet = t.quiet BY <2>3, <2>5 DEF FrameFields
    <3> QED BY <1>6, <1>8, <2>5, <3>1
  <2>6. CASE t.op = "map"
           /\ Continue([f EXCEPT !.dest = IF t.n < Len(@) THEN [@ EXCEPT ![t.n + 1] = r] ELSE @], arr)
    <3>1. PICK d, g : d = (IF t.n < Len(f.dest) THEN [f.dest EXCEPT ![t.n + 1] = r] ELSE f.dest)
                      /\ g = [f EXCEPT !.dest = d] OBVIOUS
    <3>2. g = [f EXCEPT !.dest = IF t.n < Len(@) THEN [@ EXCEPT ![t.n + 1] = r] ELSE @] BY <3>1
    <3>3. t.quiet => WalkExact(g, a) BY <2>4, <2>6, <3>2
    <3> QED BY <2>5, <2>6, <3>1, <3>2, <3>3
  <2>7. CASE t.op = "apply" /\ Continue(f, IF t.n < len THEN [arr EXCEPT !.vals[t.n + 1] = r] ELSE arr)
    <3>1. PICK new : new = IF t.n < len THEN [arr EXCEPT !.vals[t.n + 1] = r] ELSE arr OBVIOUS
    <3>2. t.quiet => WalkExact(f, new.vals)
      <4> SUFFICES ASSUME t.quiet PROVE WalkExact(f, new.vals) OBVIOUS
      <4>1. t.n < len
        <5>1. len = t.size /\ t.n + 1 <= t.size BY <1>1, <1>7, <2>4 DEF WalkExact
        <5> QED BY <1>5, <5>1
      <4>2. PICK b : b = [a EXCEPT ![t.n + 1] = r] OBVIOUS
      <4>3. new = [arr EXCEPT !.vals = b] BY <1>1, <3>1, <4>1, <4>2
      <4>4. new.vals = b BY <1>6, <4>3 DEF ArrayT
      <4> QED BY <2>4, <2>7, <4>2, <4>4
    <3> QED BY <1>8, <2>3, <2>7, <3>1, <3>2
  <2>8. CASE t.op = "filter" /\ Continue([f EXCEPT !.dest = IF r # Null THEN Append(@, t.temp) ELSE @], arr)
    <3>1. PICK d, g : d = (IF r # Null THEN Append(f.dest, t.temp) ELSE f.dest)
                      /\ g = [f EXCEPT !.dest = d] OBVIOUS
    <3>2. g = [f EXCEPT !.dest = IF r # Null THEN Append(@, t.temp) ELSE @] BY <3>1
    <3>3. t.quiet => WalkExact(g, a) BY <2>4, <2>8, <3>2
    <3> QED BY <2>5, <2>8, <3>1, <3>2, <3>3
  <2>9. CASE t.op = "reduce" /\ Continue([f EXCEPT !.dest = <<r>>], arr)
    <3>1. PICK d, g : d = <<r>> /\ g = [f EXCEPT !.dest = d] OBVIOUS
    <3> QED BY <2>4, <2>5, <2>9, <3>1
  <2>10. CASE t.op = "foreach" /\ Continue([f EXCEPT !.said = <<>>], arr)
    <3>1. PICK d, g : d = <<>> /\ g = [f EXCEPT !.said = d] OBVIOUS
    <3> QED BY <2>4, <2>5, <2>10, <3>1
  <2>11. \/ t.op \in {"map", "apply"} /\ MapAnswer(f, r)
         \/ t.op = "filter" /\ FilterAnswer(f, r)
         \/ t.op = "reduce" /\ ReduceAnswer(f, r)
         \/ t.op = "foreach" /\ Continue([f EXCEPT !.said = <<>>], arr)
    BY <1>3, <1>10, <2>2 DEF WalkReturn
  <2>12. CASE t.op \in {"map", "apply"} /\ MapAnswer(f, r)
    <3>1. IF f.op = "map"
          THEN Continue([f EXCEPT !.dest = IF t.n < Len(@) THEN [@ EXCEPT ![t.n + 1] = r] ELSE @], arr)
          ELSE Continue(f, IF t.n < len THEN [arr EXCEPT !.vals[t.n + 1] = r] ELSE arr)
      BY <1>1, <1>3, <2>12 DEF MapAnswer
    <3> QED BY <2>3, <2>6, <2>7, <2>12, <3>1
  <2>13. CASE t.op = "filter" /\ FilterAnswer(f, r) BY <1>3, <2>8, <2>13 DEF FilterAnswer
  <2>14. CASE t.op = "reduce" /\ ReduceAnswer(f, r) BY <2>9, <2>14 DEF ReduceAnswer
  <2> QED BY <2>10, <2>11, <2>12, <2>13, <2>14
<1> QED BY <1>9, <1>10

LEMMA EmptyIs == <<>> \in Seq(Elem) /\ Len(<<>>) = 0 /\ Cardinality({}) = 0
BY FS_EmptySet

\* A walk that has not begun, or has taken the first element without a call.
LEMMA FreshExact ==
    ASSUME NEW f, f.op \in Walks, f.stage = "head", NEW a \in Seq(Elem), f.old = a, f.size = Len(a),
           f.said = <<>>, f.emptied = None, f.dest \in Seq(Elem),
           f.op = "map" => Len(f.dest) = Len(a),
           f.op = "filter" => f.dest = <<>>,
           \/ f.n = 0 /\ f.seen = <<>>
           \/ f.n = 1 /\ f.seen = <<a[1]>> /\ Len(a) > 0 /\ f.op = "reduce"
    PROVE  WalkExact(f, a)
PROOF
<1>1. PICK n, e : n = Len(a) /\ e = <<>> OBVIOUS
<1>2. n \in Nat /\ f.said = e /\ e \in Seq(Elem) /\ Len(e) = 0 /\ f.stage # "call" BY <1>1, EmptyIs
<1>3. f.op = "filter" => FilterExact(f)
  <2> SUFFICES ASSUME f.op = "filter" PROVE FilterExact(f) OBVIOUS
  <2>1. f.n = 0 /\ f.dest = e BY <1>1
  <2>2. KeptOf(f) = {} BY <2>1 DEF KeptOf
  <2>3. Len(f.dest) = Cardinality(KeptOf(f)) BY <1>2, <2>1, <2>2, EmptyIs
  <2> QED BY <1>2, <2>2, <2>3 DEF FilterExact
<1>4. CASE f.n = 0 /\ f.seen = e
  <2>1. \A i \in 1 .. Len(f.seen) : f.seen[i] = f.old[i] BY <1>2, <1>4
  <2>2. f.op = "apply" => \A i \in 1 .. f.size : a[i] = IF i <= f.n THEN f.said[i] ELSE f.old[i]
    <3>1. \A i \in 1 .. f.size : ~(i <= f.n) BY <1>1, <1>2, <1>4
    <3> QED BY <3>1
  <2>3. f.op = "map" => MapExact(f) BY <1>4 DEF MapExact
  <2>4. f.emptied \in Int /\ f.emptied <= f.n BY <1>4 DEF None
  <2> QED BY <1>1, <1>2, <1>3, <1>4, <2>1, <2>2, <2>3, <2>4 DEF WalkExact
<1>5. CASE f.n = 1 /\ f.seen = <<a[1]>> /\ n > 0 /\ f.op = "reduce"
  <2>1. a[1] \in Elem BY <1>1, <1>2, <1>5
  <2>2. f.seen \in Seq(Elem) /\ Len(f.seen) = 1 /\ f.seen[1] = a[1] BY <1>5, <2>1
  <2>3. \A i \in 1 .. Len(f.seen) : f.seen[i] = f.old[i] BY <2>2
  <2>4. f.emptied \in Int /\ f.emptied <= f.n BY <1>5 DEF None
  <2> QED BY <1>1, <1>2, <1>5, <2>2, <2>3, <2>4 DEF WalkExact
<1> QED BY <1>1, <1>4, <1>5

LEMMA StartExact ==
    ASSUME AInv, AllExact, Start
    PROVE  AllExact'
PROOF
<1>1. PICK a, len, e : a = arr.vals /\ len = Len(a) /\ e = <<>> OBVIOUS
<1>2. a \in Seq(Elem) /\ len \in Nat /\ DOMAIN a = 1 .. len /\ e \in Seq(Elem)
  BY <1>1, EmptyIs DEF AInv, Fits, ArrayT
<1>3. ASSUME NEW f, Begin(f), f.op \in Walks, f.op # "sort", WalkExact(f, a) PROVE AllExact'
  <2>1. Exact(f, arr.vals) BY <1>1, <1>3 DEF Exact
  <2> QED BY <1>3, <2>1, BeginExact
<1>4. Walks = {"map", "apply", "filter", "reduce", "foreach"} /\ "sort" \notin Walks BY DEF Walks
<1>5. ASSUME NEW op \in Walks, NEW d \in Seq(Elem), op = "map" => Len(d) = len, op = "filter" => d = e,
             Begin([Frame(op, "none") EXCEPT !.dest = d])
      PROVE  AllExact'
  <2>1. PICK f : f = [Frame(op, "none") EXCEPT !.dest = d] OBVIOUS
  <2>2. /\ f.op = op /\ f.stage = "head" /\ f.old = a /\ f.size = Len(a) /\ f.said = <<>> /\ f.dest = d
        /\ f.n = 0 /\ f.seen = <<>> /\ f.emptied = None
    BY <1>1, <2>1 DEF Frame
  <2>3. WalkExact(f, a) BY <1>1, <1>2, <1>5, <2>2, FreshExact
  <2> QED BY <1>3, <1>4, <1>5, <2>1, <2>2, <2>3
<1>6. ASSUME NEW op \in Walks, op # "map", Begin(Frame(op, "none")) PROVE AllExact'
  <2>1. PICK f : f = Frame(op, "none") OBVIOUS
  <2>2. /\ f.op = op /\ f.stage = "head" /\ f.old = a /\ f.size = Len(a) /\ f.said = <<>> /\ f.dest = <<>>
        /\ f.n = 0 /\ f.seen = <<>> /\ f.emptied = None
    BY <1>1, <2>1 DEF Frame
  <2>3. f.dest \in Seq(Elem) BY <2>2, EmptyIs
  <2>4. WalkExact(f, a) BY <1>2, <1>6, <2>2, <2>3, FreshExact
  <2> QED BY <1>3, <1>4, <1>6, <2>1, <2>2, <2>4
<1>7. CASE StartMap
  <2>1. PICK z : z = Null OBVIOUS
  <2>2. PICK d : d = [i \in 1 .. len |-> z] OBVIOUS
  <2>3. z \in Elem BY <2>1, ValueIs
  <2>4. DOMAIN d = 1 .. len /\ d = [i \in 1 .. len |-> d[i]] /\ \A i \in 1 .. len : d[i] \in Elem
    BY <2>2, <2>3
  <2>5. d \in Seq(Elem) /\ Len(d) = len BY <1>2, <2>4, ListIs
  <2>6. d = [i \in DOMAIN arr.vals |-> Null] BY <1>1, <1>2, <2>1, <2>2
  <2>7. PICK op : op = "map" OBVIOUS
  <2>8. Begin([Frame(op, "none") EXCEPT !.dest = d]) BY <1>7, <2>6, <2>7 DEF StartMap
  <2> QED BY <1>4, <1>5, <2>5, <2>7, <2>8
<1>8. CASE StartApply
  <2>1. PICK op : op = "apply" OBVIOUS
  <2> QED BY <1>4, <1>6, <1>8, <2>1 DEF StartApply
<1>9. CASE StartFilter
  <2>1. PICK op : op = "filter" OBVIOUS
  <2> QED BY <1>4, <1>6, <1>9, <2>1 DEF StartFilter
<1>10. CASE StartForeach
  <2>1. PICK op : op = "foreach" OBVIOUS
  <2> QED BY <1>4, <1>6, <1>10, <2>1 DEF StartForeach
<1>11. ASSUME NEW given \in Values \cup {Nothing}, StartReduce(given) PROVE AllExact'
  <2>1. PICK op : op = "reduce" OBVIOUS
  <2>2. CASE given # Nothing
    <3>1. PICK d : d = <<given>> OBVIOUS
    <3>2. given \in Elem BY <2>2, ValueIs
    <3>3. d \in Seq(Elem) BY <3>1, <3>2
    <3>4. Begin([Frame(op, "none") EXCEPT !.dest = d]) BY <1>11, <2>1, <2>2, <3>1 DEF StartReduce
    <3> QED BY <1>4, <1>5, <2>1, <3>3, <3>4
  <2>3. CASE given = Nothing
    <3>1. PICK d, n, x : d = <<x>> /\ n = 1 /\ x = a[1] OBVIOUS
    <3>2. len > 0 /\ At(0) = x BY <1>1, <1>11, <2>3, <3>1 DEF StartReduce, At
    <3>3. PICK f : f = [Frame(op, "none") EXCEPT !.dest = d, !.n = n, !.seen = d] OBVIOUS
    <3>4. Begin(f) BY <1>11, <2>1, <2>3, <3>1, <3>2, <3>3 DEF StartReduce
    <3>5. x \in Elem BY <1>1, <1>2, <3>1, <3>2
    <3>6. d \in Seq(Elem) BY <3>1, <3>5
    <3>7. /\ f.op = op /\ f.stage = "head" /\ f.old = a /\ f.size = Len(a) /\ f.said = <<>> /\ f.dest = d
          /\ f.n = n /\ f.seen = d /\ f.emptied = None
      BY <1>1, <3>3 DEF Frame
    <3>8. f.seen = <<a[1]>> /\ Len(a) > 0 /\ f.op = "reduce" /\ f.n = 1
      BY <1>1, <2>1, <3>1, <3>2, <3>7
    <3>9. WalkExact(f, a) BY <1>2, <1>4, <2>1, <3>6, <3>7, <3>8, FreshExact
    <3> QED BY <1>3, <1>4, <2>1, <3>4, <3>7, <3>9
  <2> QED BY <2>2, <2>3
<1>12. ASSUME NEW cmp \in Compares, StartSort(cmp) PROVE AllExact'
  <2>1. PICK n : n = len \div 2 OBVIOUS
  <2>2. PICK f : f = [Frame("sort", cmp) EXCEPT !.stage = "next", !.n = n] OBVIOUS
  <2>3. /\ f.op = "sort" /\ f.stage = "next" /\ f.n = n /\ f.size = len /\ f.old = a /\ f.building = TRUE
    BY <1>1, <2>2 DEF Frame
  <2>4. len > 1 /\ n \in Nat /\ n < len
    <3>1. len > 1 BY <1>1, <1>12 DEF StartSort
    <3> QED BY <1>2, <2>1, <3>1
  <2>5. Heap(a, n + 1, len - 1, None) BY <1>2, <2>1, HeapBegins
  <2>6. Placed(a, len - 1, len) BY <1>2 DEF Placed
  <2>7. SortExact(f, a)
    <3>1. HeapFrom(f) = n + 1 /\ HeapTo(f) = len - 1 /\ f.building \in BOOLEAN
      BY <2>3 DEF HeapFrom, HeapTo
    <3>2. HeapTo(f) \in 0 .. f.size - 1 /\ f.n \in -1 .. f.size - 1 BY <1>2, <2>3, <2>4, <3>1
    <3>3. f.stage # "root" /\ f.stage = "next" BY <2>3
    <3>4. Len(a) = f.size /\ SameElements(a, f.old) BY <1>1, <2>3 DEF SameElements
    <3> QED BY <2>3, <2>5, <2>6, <3>1, <3>2, <3>3, <3>4 DEF SortExact
  <2>8. Begin(f) BY <1>1, <1>12, <2>1, <2>2 DEF StartSort
  <2>9. Exact(f, arr.vals) BY <1>1, <1>4, <2>3, <2>7 DEF Exact
  <2> QED BY <2>8, <2>9, BeginExact
<1> QED BY <1>7, <1>8, <1>9, <1>10, <1>11, <1>12 DEF Start

-----------------------------------------------------------------------------
(* Sort.                                                                   *)

LEMMA SwappedIs ==
    ASSUME Fits(arr), NEW i \in 0 .. Len(arr.vals) - 1, NEW j \in 0 .. Len(arr.vals) - 1
    PROVE  Swapped(i, j).vals = SwapIn(arr.vals, i, j)
PROOF
<1>1. PICK a, k, l : a = arr.vals /\ k = i + 1 /\ l = j + 1 OBVIOUS
<1>2. PICK x, y : x = At(i) /\ y = At(j) OBVIOUS
<1>3. x = a[k] /\ y = a[l] BY <1>1, <1>2 DEF At
<1>4. Swapped(i, j) = [arr EXCEPT !.vals[k] = y, !.vals[l] = x] BY <1>1, <1>2 DEF Swapped
<1>5. PICK b : b = [a EXCEPT ![k] = y, ![l] = x] OBVIOUS
<1>6. [arr EXCEPT !.vals[k] = y, !.vals[l] = x] = [arr EXCEPT !.vals = b] BY <1>1, <1>5 DEF Fits, ArrayT
<1>7. [arr EXCEPT !.vals = b].vals = b BY DEF Fits, ArrayT
<1>8. SwapIn(arr.vals, i, j) = b BY <1>1, <1>3, <1>5 DEF SwapIn
<1> QED BY <1>4, <1>6, <1>7, <1>8

\* A sort by an order.
Orders(f) == f.quiet /\ f.cmp \in {"objcmp", "honest"}

\* What the steps of a sort have in common: the innermost loop is a sort, whose fields
\* are typed, and exact if it sorts by an order; and goes on.
LEMMA SortTop ==
    ASSUME AInv, AllExact, frames # <<>>, NEW t, t = Top, t.op = "sort"
    PROVE  /\ DOMAIN t = FrameFields /\ SortTyped(t) /\ t.n \in Int /\ t.size \in Nat /\ t.bottom \in Int
           /\ Orders(t) => SortExact(t, arr.vals)
           /\ arr.vals \in Seq(Elem) /\ Fits(arr)
PROOF
<1>1. PICK len : len = Len(arr.vals) OBVIOUS
<1>2. FrameInv(t, len) /\ Len(frames) \in Nat \ {0} BY <1>1, TopIs DEF AInv
<1>3. Exact(t, arr.vals) BY <1>2 DEF AllExact, Top
<1>4. Orders(t) => SortExact(t, arr.vals) BY <1>3 DEF Exact, Orders
<1> QED BY <1>2, <1>4 DEF FrameInv, AInv, Fits, ArrayT

LEMMA SortGoesOn ==
    ASSUME AInv, AllExact, frames # <<>>, NEW t, NEW f, NEW new, Continue(f, new),
           f.op = "sort", f.cmp = t.cmp, f.quiet = t.quiet, Orders(t) => SortExact(f, new.vals)
    PROVE  AllExact'
PROOF
<1>1. Exact(f, new.vals) BY DEF Exact, Orders, Walks
<1> QED BY <1>1, ContinueExact

LEMMA SortNextExact ==
    ASSUME AInv, AllExact, SortNext
    PROVE  AllExact'
PROOF
<1>1. PICK t, a : t = Top /\ a = arr.vals OBVIOUS
<1>2. frames # <<>> /\ t.op = "sort" /\ t.stage = "next" BY <1>1 DEF SortNext
<1>3. /\ DOMAIN t = FrameFields /\ SortTyped(t) /\ t.n \in Int /\ t.size \in Nat /\ t.bottom \in Int
      /\ Orders(t) => SortExact(t, a) /\ a \in Seq(Elem) /\ Fits(arr)
  BY <1>1, <1>2, SortTop
<1>4. PICK n, size, old : n = t.n /\ size = t.size /\ old = t.old OBVIOUS
<1>5. n \in Int /\ size \in Nat /\ n < size /\ size > 0 BY <1>3, <1>4 DEF SortTyped
<1>6. Fits(arr) /\ a \in Seq(Elem) BY <1>1 DEF AInv, Fits, ArrayT
<1>7. Orders(t) => /\ SameElements(a, old) /\ Len(a) = size /\ t.building \in BOOLEAN /\ n \in -1 .. size - 1
                   /\ HeapTo(t) \in 0 .. size - 1 /\ Placed(a, HeapTo(t), size)
                   /\ Heap(a, HeapFrom(t), HeapTo(t), None)
  BY <1>2, <1>3, <1>4 DEF SortExact
<1> DEFINE Sift == [t EXCEPT !.stage = "head", !.n = @ - 1]
<1>8. CASE /\ t.building /\ n >= 0
           /\ Continue([Sift EXCEPT !.root = t.n, !.bottom = t.size - 1], arr)
  <2>1. PICK f : f = [Sift EXCEPT !.root = t.n, !.bottom = t.size - 1] OBVIOUS
  <2>2. /\ f.stage = "head" /\ f.n = n - 1 /\ f.root = n /\ f.bottom = size - 1 /\ f.size = size
        /\ f.old = old /\ f.building = t.building /\ f.op = "sort" /\ f.cmp = t.cmp /\ f.quiet = t.quiet
    BY <1>2, <1>3, <1>4, <2>1 DEF FrameFields
  <2>3. Orders(t) => SortExact(f, a)
    <3> SUFFICES ASSUME Orders(t) PROVE SortExact(f, a) OBVIOUS
    <3>1. HeapFrom(t) = n + 1 /\ HeapTo(t) = size - 1 BY <1>4, <1>8 DEF HeapFrom, HeapTo
    <3>2. HeapFrom(f) = n /\ HeapTo(f) = size - 1 BY <1>5, <1>8, <2>2 DEF HeapFrom, HeapTo
    <3>3. n \in Nat /\ size - 1 \in Int /\ Heap(a, n + 1, size - 1, None) BY <1>5, <1>7, <1>8, <3>1
    <3>4. PICK hi : hi = size - 1 OBVIOUS
    <3>5. Heap(a, n, hi, n) /\ Grand(a, n, hi, n) BY <3>3, <3>4, HeapGrows
    <3>6. f.n \in -1 .. f.size - 1 /\ f.root \in n .. f.size - 1 /\ size - 1 \in 0 .. size - 1
      BY <1>5, <1>8, <2>2
    <3>7. f.stage # "next" /\ f.stage # "root" BY <2>2
    <3> QED BY <1>6, <1>7, <2>2, <3>1, <3>2, <3>4, <3>5, <3>6, <3>7 DEF SortExact
  <2>4. Continue(f, arr) BY <1>8, <2>1
  <2> QED BY <1>1, <1>2, <2>2, <2>3, <2>4, SortGoesOn
<1>9. CASE t.building /\ n < 0 /\ Continue([t EXCEPT !.building = FALSE, !.n = t.size - 1], arr)
  <2>1. PICK no, m : no = FALSE /\ m = size - 1 OBVIOUS
  <2>2. PICK f : f = [t EXCEPT !.building = no, !.n = m] OBVIOUS
  <2>3. /\ f.stage = "next" /\ f.n = m /\ f.size = size
        /\ f.old = old /\ f.building = no /\ f.op = "sort" /\ f.cmp = t.cmp /\ f.quiet = t.quiet
    BY <1>2, <1>3, <1>4, <2>2 DEF FrameFields
  <2>4. Orders(t) => SortExact(f, a)
    <3> SUFFICES ASSUME Orders(t) PROVE SortExact(f, a) OBVIOUS
    <3>1. HeapFrom(t) = n + 1 /\ HeapTo(t) = size - 1 BY <1>4, <1>9 DEF HeapFrom, HeapTo
    <3>2. n = -1 BY <1>5, <1>7, <1>9
    <3>3. HeapFrom(t) = 0 BY <3>1, <3>2
    <3>4. HeapFrom(f) = 0 /\ HeapTo(f) = m BY <2>1, <2>3 DEF HeapFrom, HeapTo
    <3>5. f.n \in -1 .. f.size - 1 /\ m \in 0 .. f.size - 1 BY <1>5, <2>1, <2>3
    <3>6. f.stage # "root" /\ f.building \in BOOLEAN BY <2>1, <2>3
    <3> QED BY <1>6, <1>7, <2>1, <2>3, <3>1, <3>3, <3>4, <3>5, <3>6 DEF SortExact
  <2>5. Continue(f, arr) BY <1>4, <1>9, <2>1, <2>2
  <2> QED BY <1>1, <1>2, <2>3, <2>4, <2>5, SortGoesOn
<1>10. CASE /\ ~t.building /\ n >= 1
            /\ Continue([Sift EXCEPT !.root = 0, !.bottom = t.n - 1], Swapped(0, t.n))
  <2>1. PICK f : f = [Sift EXCEPT !.root = 0, !.bottom = t.n - 1] OBVIOUS
  <2>2. /\ f.stage = "head" /\ f.n = n - 1 /\ f.root = 0 /\ f.bottom = n - 1 /\ f.size = size
        /\ f.old = old /\ f.building = t.building /\ f.op = "sort" /\ f.cmp = t.cmp /\ f.quiet = t.quiet
    BY <1>2, <1>3, <1>4, <2>1 DEF FrameFields
  <2>3. PICK new, b : new = Swapped(0, t.n) /\ b = SwapIn(a, 0, n) OBVIOUS
  <2>4. Orders(t) => n \in 1 .. Len(a) - 1 /\ 0 \in 0 .. Len(a) - 1 /\ n \in 0 .. Len(a) - 1
    BY <1>5, <1>7, <1>10
  <2>5. Orders(t) => new.vals = b BY <1>1, <1>4, <1>6, <2>3, <2>4, SwappedIs
  <2>6. Orders(t) => SortExact(f, new.vals)
    <3> SUFFICES ASSUME Orders(t) PROVE SortExact(f, b) BY <2>5
    <3>1. HeapFrom(t) = 0 /\ HeapTo(t) = n BY <1>4, <1>10 DEF HeapFrom, HeapTo
    <3>2. HeapFrom(f) = 0 /\ HeapTo(f) = n - 1 BY <1>10, <2>2 DEF HeapFrom, HeapTo
    <3>3. Heap(a, 0, n, None) /\ Placed(a, n, Len(a)) BY <1>6, <1>7, <3>1
    <3>4. /\ Heap(SwapIn(a, 0, n), 0, n - 1, 0) /\ Grand(SwapIn(a, 0, n), 0, n - 1, 0)
          /\ Placed(SwapIn(a, 0, n), n - 1, Len(a))
      BY <1>6, <2>4, <3>3, HeapPop
    <3>5. SameElements(SwapIn(a, 0, n), old) BY <1>6, <1>7, <2>4, SwapSame
    <3>6. Len(SwapIn(a, 0, n)) = Len(a) BY <1>6, <2>4, SwapIs
    <3>7. f.n \in -1 .. f.size - 1 /\ f.root \in 0 .. f.size - 1 /\ n - 1 \in 0 .. size - 1
      BY <1>5, <1>10, <2>2
    <3>8. f.stage # "next" /\ f.stage # "root" BY <2>2
    <3> QED BY <1>6, <1>7, <2>2, <2>3, <3>2, <3>4, <3>5, <3>6, <3>7, <3>8 DEF SortExact
  <2>7. Continue(f, new) BY <1>10, <2>1, <2>3
  <2> QED BY <1>1, <1>2, <2>2, <2>5, <2>6, <2>7, SortGoesOn
<1>11. CASE ~t.building /\ n < 1 /\ End(t)
  <2>1. t.quiet => Finished(t, a)
    <3> SUFFICES ASSUME Orders(t) PROVE Finished(t, a) BY <1>2 DEF Finished, Orders
    <3>1. HeapTo(t) = n BY <1>4, <1>11 DEF HeapTo
    <3>2. n = 0 /\ Placed(a, 0, size) /\ SameElements(a, old) BY <1>5, <1>7, <1>11, <3>1
    <3>3. ASSUME NEW i \in DOMAIN a, NEW j \in DOMAIN a, i < j PROVE ObjCmp(a[i], a[j]) \in {-1, 0}
      <4>1. i \in 1 .. size /\ j \in 1 .. size BY <1>6, <1>7
      <4>2. PICK p, q : p = i - 1 /\ q = j - 1 OBVIOUS
      <4>3. q \in 0 + 1 .. size - 1 /\ p \in 0 .. q - 1 /\ p + 1 = i /\ q + 1 = j BY <1>5, <3>3, <4>1, <4>2
      <4>4. Leq(a[p + 1], a[q + 1]) BY <3>2, <4>3 DEF Placed
      <4> QED BY <4>3, <4>4 DEF Leq
    <3> QED BY <1>2, <1>4, <3>2, <3>3 DEF Finished, SameElements
  <2> QED BY <1>1, <1>2, <1>11, <2>1, EndExact
<1> QED BY <1>1, <1>4, <1>8, <1>9, <1>10, <1>11 DEF SortNext

LEMMA SiftHeadExact ==
    ASSUME AInv, AllExact, SiftHead
    PROVE  AllExact'
PROOF
<1>1. PICK t, a : t = Top /\ a = arr.vals OBVIOUS
<1>2. frames # <<>> /\ t.op = "sort" /\ t.stage = "head" BY <1>1 DEF SiftHead
<1>3. /\ DOMAIN t = FrameFields /\ SortTyped(t) /\ t.n \in Int /\ t.size \in Nat /\ t.bottom \in Int
      /\ Orders(t) => SortExact(t, a) /\ a \in Seq(Elem) /\ Fits(arr)
  BY <1>1, <1>2, SortTop
<1>4. a \in Seq(Elem) BY <1>1 DEF AInv, Fits, ArrayT
<1>5. PICK r, hi, size : r = t.root /\ hi = t.bottom /\ size = t.size OBVIOUS
<1>6. r \in Nat /\ size \in Nat /\ hi \in Int /\ hi < size BY <1>3, <1>5 DEF SortTyped
<1>7. Orders(t) => /\ Len(a) = size /\ SameElements(a, t.old) /\ t.building \in BOOLEAN
                   /\ t.n \in -1 .. size - 1 /\ HeapTo(t) = hi /\ hi \in 0 .. size - 1
                   /\ Placed(a, hi, size) /\ r \in HeapFrom(t) .. size - 1
                   /\ Heap(a, HeapFrom(t), hi, r) /\ Grand(a, HeapFrom(t), hi, r)
  BY <1>2, <1>3, <1>5 DEF SortExact
<1>8. ASSUME NEW f, Continue(f, arr), DOMAIN f = FrameFields, NEW stage, f.stage = stage, f.op = "sort",
             f.cmp = t.cmp, f.quiet = t.quiet,
             f.building = t.building, f.n = t.n, f.size = size, f.old = t.old, f.root = r, f.bottom = hi,
             stage \in {"next", "children", "root"},
             stage = "next" => 2 * r > hi,
             stage = "root" => f.child = 2 * r /\ 2 * r = hi
      PROVE  AllExact'
  <2>1. Orders(t) => SortExact(f, a)
    <3> SUFFICES ASSUME Orders(t) PROVE SortExact(f, a) OBVIOUS
    <3>1. PICK lo : lo = HeapFrom(t) OBVIOUS
    <3>2. HeapFrom(f) = lo /\ HeapTo(f) = hi BY <1>5, <1>7, <1>8, <3>1 DEF HeapFrom, HeapTo
    <3>3. f.stage = "next" => Heap(a, lo, hi, None)
      <4> SUFFICES ASSUME f.stage = "next" PROVE Heap(a, lo, hi, None) OBVIOUS
      <4>1. Below(r, hi) = {} BY <1>6, <1>8 DEF Below
      <4> QED BY <1>7, <3>1, <4>1, HeapDone
    <3>4. f.stage = "root" =>
             /\ f.child \in {2 * f.root, 2 * f.root + 1} /\ f.child <= hi
             /\ \A k \in Below(f.root, hi) : Leq(a[k + 1], a[f.child + 1])
      <4> SUFFICES ASSUME f.stage = "root"
                   PROVE  /\ f.child \in {2 * r, 2 * r + 1} /\ f.child <= hi
                          /\ \A k \in Below(r, hi) : Leq(a[k + 1], a[f.child + 1])
        BY <1>8
      <4>1. f.child = hi /\ hi = 2 * r BY <1>8
      <4>2. ASSUME NEW k \in Below(r, hi) PROVE Leq(a[k + 1], a[hi + 1])
        <5>1. k = hi BY <1>6, <4>1 DEF Below
        <5>2. a[hi + 1] \in Elem BY <1>4, <1>7, ItemIs
        <5> QED BY <5>1, <5>2, OrderIs
      <4> QED BY <1>6, <4>1, <4>2
    <3> QED BY <1>7, <1>8, <3>1, <3>2, <3>3, <3>4 DEF SortExact
  <2> QED BY <1>1, <1>2, <1>8, <2>1, SortGoesOn
<1>9. CASE 2 * r > hi /\ Continue([t EXCEPT !.stage = "next"], arr)
  <2>1. PICK stage, f : stage = "next" /\ f = [t EXCEPT !.stage = stage] OBVIOUS
  <2>2. /\ DOMAIN f = FrameFields /\ f.stage = stage /\ f.op = "sort" /\ f.cmp = t.cmp /\ f.quiet = t.quiet
        /\ f.building = t.building /\ f.n = t.n /\ f.size = size /\ f.old = t.old /\ f.root = r
        /\ f.bottom = hi
    BY <1>2, <1>3, <1>5, <2>1 DEF FrameFields
  <2> QED BY <1>8, <1>9, <2>1, <2>2
<1>10. CASE 2 * r = hi /\ Continue([t EXCEPT !.child = 2 * r, !.stage = "root"], arr)
  <2>1. PICK stage, child : stage = "root" /\ child = 2 * r OBVIOUS
  <2>2. PICK f : f = [t EXCEPT !.child = child, !.stage = stage] OBVIOUS
  <2>3. /\ DOMAIN f = FrameFields /\ f.stage = stage /\ f.op = "sort" /\ f.cmp = t.cmp /\ f.quiet = t.quiet
        /\ f.building = t.building /\ f.n = t.n /\ f.size = size /\ f.old = t.old /\ f.root = r
        /\ f.bottom = hi /\ f.child = child
    BY <1>2, <1>3, <1>5, <2>2 DEF FrameFields
  <2> QED BY <1>8, <1>10, <2>1, <2>2, <2>3
<1>11. CASE Continue([t EXCEPT !.stage = "children"], arr)
  <2>1. PICK stage, f : stage = "children" /\ f = [t EXCEPT !.stage = stage] OBVIOUS
  <2>2. /\ DOMAIN f = FrameFields /\ f.stage = stage /\ f.op = "sort" /\ f.cmp = t.cmp /\ f.quiet = t.quiet
        /\ f.building = t.building /\ f.n = t.n /\ f.size = size /\ f.old = t.old /\ f.root = r
        /\ f.bottom = hi
    BY <1>2, <1>3, <1>5, <2>1 DEF FrameFields
  <2> QED BY <1>8, <1>11, <2>1, <2>2
<1> QED BY <1>1, <1>5, <1>9, <1>10, <1>11 DEF SiftHead

\* The answer of an order, when a sort by it has not failed.
LEMMA SiftBodyExact ==
    ASSUME AInv, AllExact, frames # <<>>, Top.op = "sort", Top.stage \in {"children", "root"},
           NEW ret \in Answers(At(Compared[1]), At(Compared[2])), ret # 2, SiftBody(ret)
    PROVE  AllExact'
PROOF
<1>1. PICK t, a : t = Top /\ a = arr.vals OBVIOUS
<1>2. t.op = "sort" /\ t.stage \in {"children", "root"} BY <1>1
<1>3. /\ DOMAIN t = FrameFields /\ SortTyped(t) /\ t.n \in Int /\ t.size \in Nat /\ t.bottom \in Int
      /\ Orders(t) => SortExact(t, a) /\ a \in Seq(Elem) /\ Fits(arr)
  BY <1>1, <1>2, SortTop
<1>4. a \in Seq(Elem) /\ Fits(arr) BY <1>1 DEF AInv, Fits, ArrayT
<1>5. PICK r, c, hi, lo, size : r = t.root /\ c = t.child /\ hi = t.bottom /\ lo = HeapFrom(t) /\ size = t.size
  OBVIOUS
<1>6. /\ r \in Nat /\ c \in Nat /\ size \in Nat /\ hi \in Int /\ hi < size
      /\ t.stage = "children" => 2 * r < hi
  BY <1>3, <1>5 DEF SortTyped
<1>7. Orders(t) => /\ Len(a) = size /\ SameElements(a, t.old) /\ t.building \in BOOLEAN
                   /\ t.n \in -1 .. size - 1 /\ HeapTo(t) = hi /\ hi \in 0 .. size - 1
                   /\ Placed(a, hi, size) /\ r \in lo .. size - 1 /\ lo \in Nat
                   /\ Heap(a, lo, hi, r) /\ Grand(a, lo, hi, r)
  <2> SUFFICES ASSUME Orders(t) PROVE t.n \in -1 .. size - 1 /\ lo \in Nat
    BY <1>2, <1>3, <1>5 DEF SortExact
  <2>1. t.n \in -1 .. size - 1 BY <1>3, <1>5 DEF SortExact
  <2> QED BY <1>3, <1>5, <2>1 DEF HeapFrom
<1>8. Orders(t) => ret = ObjCmp(At(Compared[1]), At(Compared[2])) BY <1>1 DEF Orders, Answers
<1>9. PICK no : no = FALSE OBVIOUS
<1>10. CASE t.stage = "children"
  <2>1. PICK child, stage : child = (IF ret > 0 THEN 2 * r ELSE 2 * r + 1) /\ stage = "root" OBVIOUS
  <2>2. PICK f : f = [t EXCEPT !.moved = no, !.child = child, !.stage = stage] OBVIOUS
  <2>3. /\ f.stage = "root" /\ f.op = "sort" /\ f.cmp = t.cmp /\ f.quiet = t.quiet
        /\ f.building = t.building /\ f.n = t.n /\ f.size = size /\ f.old = t.old /\ f.root = r
        /\ f.bottom = hi /\ f.child = child
    BY <1>2, <1>3, <1>5, <2>1, <2>2 DEF FrameFields
  <2>4. Continue(f, arr)
    <3>1. [[t EXCEPT !.moved = FALSE] EXCEPT !.child = child, !.stage = stage] = f
      BY <1>3, <1>9, <2>2 DEF FrameFields
    <3>2. Continue([[t EXCEPT !.moved = FALSE] EXCEPT !.child = child, !.stage = "root"], arr)
      BY <1>1, <1>5, <1>10, <2>1, SMTT(30) DEF SiftBody
    <3> QED BY <2>1, <3>1, <3>2
  <2>5. Orders(t) => SortExact(f, a)
    <3> SUFFICES ASSUME Orders(t) PROVE SortExact(f, a) OBVIOUS
    <3>1. HeapFrom(f) = lo /\ HeapTo(f) = hi BY <1>5, <1>7, <2>3 DEF HeapFrom, HeapTo
    <3>2. PICK p, q : p = 2 * r /\ q = 2 * r + 1 OBVIOUS
    <3>3. p \in 0 .. size - 1 /\ q \in 0 .. size - 1 /\ p <= hi /\ q <= hi /\ Len(a) = size
      BY <1>6, <1>7, <1>10, <3>2
    <3>4. PICK x, y : x = a[p + 1] /\ y = a[q + 1] OBVIOUS
    <3>5. x \in Elem /\ y \in Elem BY <1>4, <3>3, <3>4, ItemIs
    <3>6. ret = ObjCmp(x, y)
      <4>1. At(p) = x /\ At(q) = y BY <1>1, <3>3, <3>4 DEF At
      <4>2. Compared[1] = p /\ Compared[2] = q BY <1>1, <1>5, <1>10, <3>2 DEF Compared
      <4> QED BY <1>8, <4>1, <4>2
    <3>7. CASE ret > 0
      <4>1. child = p BY <2>1, <3>2, <3>7
      <4>2. ret \in {0, 1} BY <3>5, <3>6, <3>7, OrderIs
      <4>3. Leq(y, x) /\ Leq(x, x) BY <3>5, <3>6, <4>2, OrderIs
      <4>4. \A k \in Below(r, hi) : Leq(a[k + 1], a[child + 1]) BY <3>2, <3>4, <4>1, <4>3 DEF Below
      <4> QED BY <1>7, <2>3, <3>1, <3>2, <3>3, <4>1, <4>4 DEF SortExact
    <3>8. CASE ~(ret > 0)
      <4>1. child = q BY <2>1, <3>2, <3>8
      <4>2. ret \in {-1, 0} BY <3>5, <3>6, <3>8, OrderIs
      <4>3. Leq(x, y) /\ Leq(y, y) BY <3>5, <3>6, <4>2, OrderIs DEF Leq
      <4>4. \A k \in Below(r, hi) : Leq(a[k + 1], a[child + 1]) BY <3>2, <3>4, <4>1, <4>3 DEF Below
      <4> QED BY <1>7, <2>3, <3>1, <3>2, <3>3, <4>1, <4>4 DEF SortExact
    <3> QED BY <3>7, <3>8
  <2> QED BY <1>1, <2>3, <2>4, <2>5, SortGoesOn
<1>11. CASE t.stage # "children"
  <2>1. t.stage = "root" BY <1>2, <1>11
  <2>2. \/ ret >= 0 /\ Continue([[t EXCEPT !.moved = FALSE] EXCEPT !.stage = "next"], arr)
        \/ End(Nothing)
        \/ /\ ~(ret >= 0) /\ r # c
           /\ Continue([[t EXCEPT !.moved = FALSE] EXCEPT !.root = c, !.stage = "head"], Swapped(r, c))
    BY <1>1, <1>5, <1>11 DEF SiftBody, Fail
  <2>3. Orders(t) => /\ c \in {2 * r, 2 * r + 1} /\ c <= hi /\ \A k \in Below(r, hi) : Leq(a[k + 1], a[c + 1])
                     /\ r \in 0 .. size - 1 /\ c \in 0 .. size - 1 /\ r \in lo .. hi
    <3> SUFFICES ASSUME Orders(t)
                 PROVE  /\ c \in {2 * r, 2 * r + 1} /\ c <= hi
                        /\ \A k \in Below(r, hi) : Leq(a[k + 1], a[c + 1])
                        /\ r \in 0 .. size - 1 /\ c \in 0 .. size - 1 /\ r \in lo .. hi
      OBVIOUS
    <3>1. c \in {2 * r, 2 * r + 1} /\ c <= hi /\ \A k \in Below(r, hi) : Leq(a[k + 1], a[c + 1])
      BY <1>3, <1>5, <1>7, <2>1 DEF SortExact
    <3> QED BY <1>6, <1>7, <3>1
  <2>4. Orders(t) => /\ a[r + 1] \in Elem /\ a[c + 1] \in Elem /\ ret = ObjCmp(a[r + 1], a[c + 1])
    <3> SUFFICES ASSUME Orders(t)
                 PROVE  a[r + 1] \in Elem /\ a[c + 1] \in Elem /\ ret = ObjCmp(a[r + 1], a[c + 1])
      OBVIOUS
    <3>1. r \in 0 .. Len(a) - 1 /\ c \in 0 .. Len(a) - 1 BY <1>7, <2>3
    <3>2. At(r) = a[r + 1] /\ At(c) = a[c + 1] BY <1>1, <1>4, <1>6, <3>1 DEF At
    <3>3. Compared[1] = r /\ Compared[2] = c BY <1>1, <1>5, <1>11 DEF Compared
    <3> QED BY <1>4, <1>8, <3>1, <3>2, <3>3, ItemIs
  <2>5. CASE ret >= 0 /\ Continue([[t EXCEPT !.moved = FALSE] EXCEPT !.stage = "next"], arr)
    <3>1. PICK stage : stage = "next" OBVIOUS
    <3>2. PICK f : f = [t EXCEPT !.moved = no, !.stage = stage] OBVIOUS
    <3>3. /\ f.stage = "next" /\ f.op = "sort" /\ f.cmp = t.cmp /\ f.quiet = t.quiet
          /\ f.building = t.building /\ f.n = t.n /\ f.size = size /\ f.old = t.old /\ f.root = r
          /\ f.bottom = hi /\ f.child = c
      BY <1>2, <1>3, <1>5, <3>1, <3>2 DEF FrameFields
    <3>4. [[t EXCEPT !.moved = FALSE] EXCEPT !.stage = stage] = f BY <1>3, <1>9, <3>2 DEF FrameFields
    <3>5. Continue(f, arr) BY <2>5, <3>1, <3>4
    <3>6. Orders(t) => SortExact(f, a)
      <4> SUFFICES ASSUME Orders(t) PROVE SortExact(f, a) OBVIOUS
      <4>1. HeapFrom(f) = lo /\ HeapTo(f) = hi BY <1>5, <1>7, <3>3 DEF HeapFrom, HeapTo
      <4>2. ret \in {0, 1}
        <5>1. ret \in {-1, 0, 1, 2} BY <2>4, OrderIs
        <5> QED BY <2>5, <5>1
      <4>3. Leq(a[c + 1], a[r + 1]) BY <2>4, <4>2, OrderIs
      <4>4. \A k \in Below(r, hi) : Leq(a[k + 1], a[r + 1])
        <5> TAKE k \in Below(r, hi)
        <5>1. k \in 0 .. Len(a) - 1 BY <1>6, <1>7 DEF Below
        <5>2. a[k + 1] \in Elem BY <1>4, <5>1, ItemIs
        <5>3. Leq(a[k + 1], a[c + 1]) BY <2>3
        <5> QED BY <2>4, <4>3, <5>2, <5>3, LeqTrans
      <4>5. Heap(a, lo, hi, None) BY <1>7, <4>4, HeapDone
      <4>6. f.stage # "root" BY <3>3
      <4> QED BY <1>7, <3>3, <4>1, <4>5, <4>6 DEF SortExact
    <3> QED BY <1>1, <3>3, <3>5, <3>6, SortGoesOn
  <2>6. CASE /\ ~(ret >= 0) /\ r # c
             /\ Continue([[t EXCEPT !.moved = FALSE] EXCEPT !.root = c, !.stage = "head"], Swapped(r, c))
    <3>1. PICK stage, new : stage = "head" /\ new = Swapped(r, c) OBVIOUS
    <3>2. PICK f : f = [t EXCEPT !.moved = no, !.root = c, !.stage = stage] OBVIOUS
    <3>3. /\ f.stage = "head" /\ f.op = "sort" /\ f.cmp = t.cmp /\ f.quiet = t.quiet
          /\ f.building = t.building /\ f.n = t.n /\ f.size = size /\ f.old = t.old /\ f.root = c
          /\ f.bottom = hi
      BY <1>2, <1>3, <1>5, <3>1, <3>2 DEF FrameFields
    <3>4. [[t EXCEPT !.moved = FALSE] EXCEPT !.root = c, !.stage = stage] = f
      BY <1>3, <1>9, <3>2 DEF FrameFields
    <3>5. Continue(f, new) BY <2>6, <3>1, <3>4
    <3>6. Orders(t) => SortExact(f, new.vals)
      <4> SUFFICES ASSUME Orders(t) PROVE SortExact(f, new.vals) OBVIOUS
      <4>1. HeapFrom(f) = lo /\ HeapTo(f) = hi BY <1>5, <1>7, <3>3 DEF HeapFrom, HeapTo
      <4>2. r \in 0 .. Len(a) - 1 /\ c \in 0 .. Len(a) - 1 BY <1>7, <2>3
      <4>3. PICK b : b = SwapIn(a, r, c) OBVIOUS
      <4>4. new.vals = b BY <1>1, <1>4, <3>1, <4>2, <4>3, SwappedIs
      <4>5. Leq(a[r + 1], a[c + 1])
        <5>1. ret \in {-1, 0, 1, 2} BY <2>4, OrderIs
        <5>2. ret = -1 BY <2>6, <5>1
        <5> QED BY <2>4, <5>2 DEF Leq
      <4>6. Heap(SwapIn(a, r, c), lo, hi, c) /\ Grand(SwapIn(a, r, c), lo, hi, c)
        <5>1. hi \in 0 .. Len(a) - 1 /\ lo \in Nat /\ r \in lo .. hi /\ c \in {2 * r, 2 * r + 1} /\ c <= hi
              /\ c # r
          BY <1>7, <2>3, <2>6
        <5> QED BY <1>4, <1>7, <2>3, <4>5, <5>1, SiftSwap
      <4>7. Placed(SwapIn(a, r, c), hi, Len(a))
        <5>1. hi \in 0 .. Len(a) - 1 /\ r \in 0 .. hi /\ c \in 0 .. hi BY <1>6, <1>7, <2>3
        <5> QED BY <1>4, <1>7, <5>1, SwapPlaced
      <4>8. SameElements(SwapIn(a, r, c), t.old) /\ Len(SwapIn(a, r, c)) = Len(a)
        BY <1>4, <1>7, <4>2, SwapSame, SwapIs
      <4>9. c \in lo .. size - 1 /\ f.stage # "next" /\ f.stage # "root" BY <1>6, <1>7, <2>3, <3>3
      <4> QED BY <1>7, <3>3, <4>1, <4>3, <4>4, <4>6, <4>7, <4>8, <4>9 DEF SortExact
    <3> QED BY <1>1, <3>3, <3>5, <3>6, SortGoesOn
  <2> QED BY <2>2, <2>5, <2>6, EndExact
<1> QED BY <1>10, <1>11

LEMMA ReturnExact ==
    ASSUME AInv, AllExact, SortCompared \/ CallbackFails
    PROVE  AllExact'
PROOF
<1>1. frames # <<>> BY DEF SortCompared, CallbackFails
<1>2. CASE Fail
  <2>1. PICK f : f = Nothing OBVIOUS
  <2>2. End(f) BY <1>2, <2>1 DEF Fail
  <2> QED BY <1>1, <2>1, <2>2, EndExact
<1>3. \/ Fail
      \/ /\ Top.op = "sort" /\ Top.stage \in {"children", "root"}
         /\ \E ret \in Answers(At(Compared[1]), At(Compared[2])) : ret # 2 /\ SiftBody(ret)
  BY DEF SortCompared, CallbackFails
<1> QED BY <1>1, <1>2, <1>3, SiftBodyExact

-----------------------------------------------------------------------------
(* The theorems about what loops do.                                       *)

LEMMA ExactStep ==
    ASSUME AInv, AllExact, [Next]_vars
    PROVE  AllExact'
PROOF
<1>1. CASE UNCHANGED vars BY <1>1 DEF AllExact, LoopsExact, vars
<1>2. CASE Next
  <2>1. \/ Operation \/ Start \/ SortNext \/ SiftHead \/ SortCompared \/ CallbackFails
        \/ WalkHead \/ (\E r \in Values \cup {Null} : WalkReturn(r))
    BY <1>2 DEF Next, Loop, Return
  <2> QED BY <2>1, OperationExact, StartExact, SortNextExact, SiftHeadExact, ReturnExact, WalkStepExact
<1> QED BY <1>1, <1>2

\* The inductive invariant of the loops.
THEOREM LoopsInvariant == Spec => [](AInv /\ AllExact)
PROOF
<1>1. Init => AInv /\ AllExact
  <2> SUFFICES ASSUME Init PROVE AInv /\ AllExact OBVIOUS
  <2>1. frames = <<>> /\ ended = Nothing BY DEF Init
  <2>2. LoopsExact BY <2>1 DEF LoopsExact
  <2>3. \A k \in 1 .. Len(frames) : Exact(frames[k], arr.vals) BY <2>1
  <2> QED BY <2>2, <2>3, InitInv DEF AllExact
<1>2. AInv /\ AllExact /\ [Next]_vars => (AInv /\ AllExact)' BY StepInv, ExactStep
<1> QED BY <1>1, <1>2, PTL DEF Spec

\* A loop of the base library, or a foreach, whose callbacks left the array alone gave
\* every element to the callback, once and in order, and made of the answers what it
\* should; and sort, where the array is compared by an order, leaves a sorted array of the
\* elements that it had.
THEOREM LoopsAreExact == Spec => []LoopsExact
PROOF
<1>1. AllExact => LoopsExact BY DEF AllExact
<1> QED BY <1>1, LoopsInvariant, PTL
=============================================================================
