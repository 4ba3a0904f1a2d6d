---------------------------- MODULE GSCallsProofs ---------------------------
(***************************************************************************)
(* What holds of calls, generators and threads for every program, host and *)
(* allocator (all Features, any bounds): the counters that limit native    *)
(* recursion and guard suspend are exact, and a generator runs in one      *)
(* frame at most.                                                          *)
(*                                                                         *)
(* The counters: every path out of an Execute or a native function takes   *)
(* one activation off the C++ stack and one off the counter of its VM.     *)
(* The exception is Suspend, which takes two off at once and never counts  *)
(* down _nmetamethodscall; it is right because an Execute for a metamethod *)
(* has the Execute of the instruction below it, so that its VM counts at   *)
(* least three.                                                            *)
(***************************************************************************)
EXTENDS GSCalls, FiniteSetTheorems, SequenceTheorems, WellFoundedInduction, TLAPS

VMFields == {"calls", "alloc", "etraps", "nnative", "nmeta", "suspended", "straps", "sroot"}

FrameG == [code : BOOLEAN, root : BOOLEAN, gen : Gens \cup {None}, etraps : Int]
Act ==
    [kind : Kinds, vm : VMs, for : Fors, base : Nat, traps : Int, raise : BOOLEAN,
     mode : Modes, fn : NativeFns \cup {"none"}]

\* The shapes of the state.  Nothing is said of _etraps: with GS_resume a frame
\* can be left with traps that are not its own.
VMShape(m) ==
    /\ DOMAIN m = VMFields
    /\ m.calls \in Seq(FrameG)
    /\ m.nnative \in Int /\ m.nmeta \in Int /\ m.straps \in Int /\ m.sroot \in BOOLEAN

GenStates == {"none", "running", "suspended", "dead"}
GenShape(r) ==
    /\ DOMAIN r = {"state", "etraps", "root"}
    /\ r.state \in GenStates /\ r.root \in BOOLEAN /\ Len(r.etraps) \in Nat

Shape ==
    /\ DOMAIN vm = VMs /\ \A v \in VMs : VMShape(vm[v])
    /\ DOMAIN gen = Gens /\ \A g \in Gens : GenShape(gen[g])
    /\ cstack \in Seq(Act)

-----------------------------------------------------------------------------
(* Numbers and sequences.                                                  *)

LEMMA Least ==
    ASSUME NEW T, T \subseteq Nat, T # {}
    PROVE  \E x \in T : \A y \in T : x <= y
PROOF
<1>1. PICK R : R = {ss \in Nat \X Nat : ss[1] < ss[2]} OBVIOUS
<1>2. IsWellFoundedOn(OpToRel(<, Nat), Nat) BY NatLessThanWellFounded
<1>3. IsWellFoundedOn(R, Nat) BY <1>1, <1>2 DEF OpToRel
<1>4. PICK x \in T : \A y \in T : ~(<<y, x>> \in R) BY <1>3, WFMin
<1>5. ASSUME NEW y \in T PROVE x <= y
  <2>1. x \in Nat /\ y \in Nat OBVIOUS
  <2>2. <<y, x>> \notin R BY <1>4
  <2>3. <<y, x>> \in Nat \X Nat /\ <<y, x>>[1] = y /\ <<y, x>>[2] = x BY <2>1
  <2>4. ~(y < x) BY <1>1, <2>2, <2>3
  <2> QED BY <2>1, <2>4
<1> QED BY <1>5

LEMMA Greatest ==
    ASSUME NEW S, NEW n \in Int, S # {}, \A x \in S : x \in Int /\ x <= n
    PROVE  Max(S) \in S /\ \A y \in S : y <= Max(S)
PROOF
<1>1. PICK T : T = {k \in Nat : n - k \in S} OBVIOUS
<1>2. T \subseteq Nat /\ T # {}
  <2>1. PICK x \in S : TRUE OBVIOUS
  <2>2. n - x \in Nat /\ n - (n - x) = x BY <2>1
  <2>3. n - x \in T BY <1>1, <2>1, <2>2
  <2> QED BY <1>1, <2>3
<1>3. PICK k \in T : \A l \in T : k <= l BY <1>2, Least
<1>4. k \in Nat /\ n - k \in S BY <1>1, <1>3
<1>5. ASSUME NEW y \in S PROVE n - k >= y
  <2>1. n - y \in Nat /\ n - (n - y) = y OBVIOUS
  <2>2. n - y \in T BY <1>1, <2>1
  <2>3. k <= n - y BY <1>3, <2>2
  <2> QED BY <1>4, <2>1, <2>3
<1>6. \E x \in S : \A y \in S : x >= y BY <1>4, <1>5
<1>7. Max(S) \in S /\ \A y \in S : Max(S) >= y BY <1>6 DEF Max
<1> QED BY <1>7

LEMMA PrefixIs ==
    ASSUME NEW S, NEW s \in Seq(S), NEW n \in 0 .. Len(s)
    PROVE  /\ SubSeq(s, 1, n) \in Seq(S) /\ Len(SubSeq(s, 1, n)) = n
           /\ \A i \in 1 .. n : SubSeq(s, 1, n)[i] = s[i]
PROOF
<1>1. n \in Int /\ 1 \in Int /\ \A i \in 1 .. n : s[i] \in S OBVIOUS
<1>2. /\ SubSeq(s, 1, n) \in Seq(S)
      /\ Len(SubSeq(s, 1, n)) = IF 1 <= n THEN n - 1 + 1 ELSE 0
      /\ \A i \in 1 .. n - 1 + 1 : SubSeq(s, 1, n)[i] = s[1 + i - 1]
  BY <1>1, SubSeqProperties
<1> QED BY <1>1, <1>2

LEMMA FrontIs ==
    ASSUME NEW S, NEW s \in Seq(S), s # <<>>
    PROVE  /\ Front(s) \in Seq(S) /\ Len(Front(s)) = Len(s) - 1
           /\ \A i \in 1 .. Len(s) - 1 : Front(s)[i] = s[i]
           /\ Len(s) \in 1 .. Len(s) /\ Last(s) = s[Len(s)] /\ Last(s) \in S
PROOF
<1>1. Len(s) \in Nat \ {0} /\ Len(s) - 1 \in 0 .. Len(s) OBVIOUS
<1>2. /\ Front(s) \in Seq(S) /\ Len(Front(s)) = Len(s) - 1
      /\ \A i \in 1 .. Len(s) - 1 : Front(s)[i] = s[i]
  BY <1>1, PrefixIs DEF Front
<1> QED BY <1>1, <1>2 DEF Last

LEMMA LenOf ==
    ASSUME NEW n \in Int, NEW s, DOMAIN s = 1 .. n
    PROVE  Len(s) = IF n > 0 THEN n ELSE 0
PROOF
<1>1. CASE n > 0 BY <1>1
<1>2. CASE n <= 0
  <2>1. DOMAIN s = 1 .. 0 BY <1>2
  <2> QED BY <1>2, <2>1
<1> QED BY <1>1, <1>2

-----------------------------------------------------------------------------
(* Counting activations.                                                   *)

Num(s, v) == Cardinality({i \in 1 .. Len(s) : s[i].vm = v})
NumMeta(s, v) == Cardinality({i \in 1 .. Len(s) : s[i].vm = v /\ s[i].for = "meta"})

LEMMA NumTypes ==
    ASSUME NEW s \in Seq(Act), NEW v
    PROVE  Num(s, v) \in Nat /\ NumMeta(s, v) \in Nat
PROOF
<1> DEFINE A == {i \in 1 .. Len(s) : s[i].vm = v}
           B == {i \in 1 .. Len(s) : s[i].vm = v /\ s[i].for = "meta"}
<1>1. IsFiniteSet(1 .. Len(s)) BY FS_Interval
<1>2. A \subseteq 1 .. Len(s) /\ B \subseteq 1 .. Len(s) OBVIOUS
<1>3. IsFiniteSet(A) /\ IsFiniteSet(B) BY <1>1, <1>2, FS_Subset
<1> QED BY <1>3, FS_CardinalityType DEF Num, NumMeta

\* t is s, up to what a call leaves alone in those below it.
Alike(s, t) ==
    /\ Len(t) = Len(s)
    /\ \A i \in 1 .. Len(s) : /\ t[i].kind = s[i].kind /\ t[i].vm = s[i].vm
                              /\ t[i].for = s[i].for /\ t[i].base = s[i].base
                              /\ t[i].raise = s[i].raise /\ t[i].fn = s[i].fn

LEMMA NumAlike ==
    ASSUME NEW s, NEW t, Alike(s, t), NEW v
    PROVE  Num(t, v) = Num(s, v) /\ NumMeta(t, v) = NumMeta(s, v)
PROOF
<1>1. {i \in 1 .. Len(t) : t[i].vm = v} = {i \in 1 .. Len(s) : s[i].vm = v} BY DEF Alike
<1>2. {i \in 1 .. Len(t) : t[i].vm = v /\ t[i].for = "meta"}
        = {i \in 1 .. Len(s) : s[i].vm = v /\ s[i].for = "meta"} BY DEF Alike
<1> QED BY <1>1, <1>2 DEF Num, NumMeta

LEMMA NumAppend ==
    ASSUME NEW s \in Seq(Act), NEW a \in Act, NEW v
    PROVE  /\ Num(Append(s, a), v) = Num(s, v) + (IF a.vm = v THEN 1 ELSE 0)
           /\ NumMeta(Append(s, a), v) =
                NumMeta(s, v) + (IF a.vm = v /\ a.for = "meta" THEN 1 ELSE 0)
PROOF
<1> DEFINE A == {i \in 1 .. Len(s) : s[i].vm = v}
           B == {i \in 1 .. Len(s) : s[i].vm = v /\ s[i].for = "meta"}
           t == Append(s, a)
           x == Len(s) + 1
<1>1. IsFiniteSet(1 .. Len(s)) BY FS_Interval
<1>2. A \subseteq 1 .. Len(s) /\ B \subseteq 1 .. Len(s) OBVIOUS
<1>3. IsFiniteSet(A) /\ IsFiniteSet(B) BY <1>1, <1>2, FS_Subset
<1>4. x \notin A /\ x \notin B OBVIOUS
<1>5. /\ {i \in 1 .. Len(t) : t[i].vm = v} = IF a.vm = v THEN A \cup {x} ELSE A
      /\ {i \in 1 .. Len(t) : t[i].vm = v /\ t[i].for = "meta"}
           = IF a.vm = v /\ a.for = "meta" THEN B \cup {x} ELSE B
  <2>1. Len(t) = x /\ t[x] = a /\ \A i \in 1 .. Len(s) : t[i] = s[i] OBVIOUS
  <2>2. 1 .. x = 1 .. Len(s) \cup {x} /\ x \notin 1 .. Len(s) OBVIOUS
  <2> HIDE DEF t, x
  <2>3. /\ {i \in 1 .. Len(t) : t[i].vm = v} = A \cup {i \in {x} : a.vm = v}
        /\ {i \in 1 .. Len(t) : t[i].vm = v /\ t[i].for = "meta"}
             = B \cup {i \in {x} : a.vm = v /\ a.for = "meta"}
    BY <2>1, <2>2
  <2>4. /\ {i \in {x} : a.vm = v} = IF a.vm = v THEN {x} ELSE {}
        /\ {i \in {x} : a.vm = v /\ a.for = "meta"} = IF a.vm = v /\ a.for = "meta" THEN {x} ELSE {}
    <3>1. {i \in {x} : a.vm = v} = IF a.vm = v THEN {x} ELSE {} BY Zenon
    <3>2. {i \in {x} : a.vm = v /\ a.for = "meta"} = IF a.vm = v /\ a.for = "meta" THEN {x} ELSE {}
      BY Zenon
    <3> QED BY <3>1, <3>2
  <2> HIDE DEF A, B
  <2>5. A \cup {} = A /\ B \cup {} = B OBVIOUS
  <2> QED BY <2>3, <2>4, <2>5, Zenon
<1>6. /\ Cardinality(A \cup {x}) = Cardinality(A) + 1
      /\ Cardinality(B \cup {x}) = Cardinality(B) + 1 BY <1>3, <1>4, FS_AddElement
<1>7. Cardinality(A) \in Nat /\ Cardinality(B) \in Nat BY <1>3, FS_CardinalityType
<1>8. /\ Num(t, v) = Cardinality(IF a.vm = v THEN A \cup {x} ELSE A)
      /\ NumMeta(t, v) = Cardinality(IF a.vm = v /\ a.for = "meta" THEN B \cup {x} ELSE B)
      /\ Num(s, v) = Cardinality(A) /\ NumMeta(s, v) = Cardinality(B)
  BY <1>5 DEF Num, NumMeta
<1> HIDE DEF A, B, x
<1>9. /\ Num(t, v) = Cardinality(A) + (IF a.vm = v THEN 1 ELSE 0)
      /\ NumMeta(t, v) = Cardinality(B) + (IF a.vm = v /\ a.for = "meta" THEN 1 ELSE 0)
  BY <1>6, <1>7, <1>8
<1> QED BY <1>8, <1>9

LEMMA NumFront ==
    ASSUME NEW s \in Seq(Act), s # <<>>, NEW v
    PROVE  /\ Front(s) \in Seq(Act)
           /\ Num(Front(s), v) = Num(s, v) - (IF Last(s).vm = v THEN 1 ELSE 0)
           /\ NumMeta(Front(s), v) =
                NumMeta(s, v) - (IF Last(s).vm = v /\ Last(s).for = "meta" THEN 1 ELSE 0)
PROOF
<1>1. Front(s) \in Seq(Act) /\ Last(s) \in Act BY DEF Front, Last
<1>2. s = Append(Front(s), Last(s)) BY DEF Front, Last
<1>3. Num(Front(s), v) \in Nat /\ NumMeta(Front(s), v) \in Nat BY <1>1, NumTypes
<1>4. PICK f, a : f = Front(s) /\ a = Last(s) OBVIOUS
<1>5. /\ Num(s, v) = Num(f, v) + (IF a.vm = v THEN 1 ELSE 0)
      /\ NumMeta(s, v) = NumMeta(f, v) + (IF a.vm = v /\ a.for = "meta" THEN 1 ELSE 0)
  <2>1. f \in Seq(Act) /\ a \in Act /\ s = Append(f, a) BY <1>1, <1>2, <1>4
  <2> QED BY <2>1, NumAppend
<1> QED BY <1>1, <1>3, <1>4, <1>5

-----------------------------------------------------------------------------
(* What the operations on a VM's record do to its fields.                  *)

One(for) == IF for = "meta" THEN 1 ELSE 0
Grown(m) == IF Len(m.calls) = m.alloc THEN 2 * m.alloc ELSE m.alloc

\* r is m with other calls, traps and counters.
Is(r, m, calls, alloc, etraps, nn, nm) ==
    /\ DOMAIN r = VMFields
    /\ r.calls = calls /\ r.alloc = alloc /\ r.etraps = etraps
    /\ r.nnative = nn /\ r.nmeta = nm
    /\ r.suspended = m.suspended /\ r.straps = m.straps /\ r.sroot = m.sroot

Only(u) == DOMAIN vm' = VMs /\ \A w \in VMs \ {u} : vm'[w] = vm[w]

LEMMA IsSelf ==
    ASSUME NEW m, DOMAIN m = VMFields
    PROVE  Is(m, m, m.calls, m.alloc, m.etraps, m.nnative, m.nmeta)
BY DEF Is

LEMMA IsGrown ==
    ASSUME NEW m, DOMAIN m = VMFields
    PROVE  Is(GrowCallStack(m), m, m.calls, Grown(m), m.etraps, m.nnative, m.nmeta)
BY DEF Is, GrowCallStack, Grown, VMFields

LEMMA IsEntered ==
    ASSUME NEW m, DOMAIN m = VMFields, NEW f
    PROVE  Is(EnterFrame(m, f), m, Append(m.calls, f), Grown(m), m.etraps, m.nnative, m.nmeta)
PROOF
<1>1. PICK r : r = GrowCallStack(m) OBVIOUS
<1>2. Is(r, m, m.calls, Grown(m), m.etraps, m.nnative, m.nmeta) BY <1>1, IsGrown
<1>3. EnterFrame(m, f) = [r EXCEPT !.calls = Append(@, f)] BY <1>1 DEF EnterFrame
<1> QED BY <1>2, <1>3 DEF Is, VMFields

LEMMA IsLeft ==
    ASSUME NEW m, DOMAIN m = VMFields
    PROVE  Is(LeaveFrame(m), m, Front(m.calls), m.alloc, m.etraps, m.nnative, m.nmeta)
BY DEF Is, LeaveFrame, VMFields

\* Counting up and down after another change.
LEMMA IsCounted ==
    ASSUME NEW m, NEW r, NEW a, NEW calls, NEW alloc, NEW etraps, NEW nn, NEW nm,
           Is(r, m, calls, alloc, etraps, nn, nm)
    PROVE  Is(Counted(r, a), m, calls, alloc, etraps, nn - 1, nm - One(a.for))
BY DEF Is, Counted, VMFields, One

LEMMA IsBegun ==
    ASSUME NEW m, NEW r, NEW n, NEW calls, NEW alloc, NEW etraps, NEW nn, NEW nm,
           Is(r, m, calls, alloc, etraps, nn, nm)
    PROVE  Is([r EXCEPT !.nnative = @ + 1, !.nmeta = @ + n], m, calls, alloc, etraps, nn + 1, nm + n)
BY DEF Is, VMFields

LEMMA VMSet ==
    ASSUME DOMAIN vm = VMs, NEW u \in VMs, NEW r, vm' = [vm EXCEPT ![u] = r]
    PROVE  Only(u) /\ vm'[u] = r
BY DEF Only

-----------------------------------------------------------------------------
(* What the steps do to the C++ stack.                                     *)

LEMMA ResumedType ==
    ASSUME NEW b \in Act, NEW for \in Fors, NEW ok \in BOOLEAN
    PROVE  /\ Resumed(b, for, ok) \in Act
           /\ Resumed(b, for, ok) = [b EXCEPT !.mode = Resumed(b, for, ok).mode]
           /\ Resumed(b, for, ok).mode \in {b.mode, Handled(b.mode), Thrown(b), "done", "failed"}
BY DEF Resumed, Act, Handled, Thrown, Fors, Modes

\* t is s but for its last, which is b.
Topped(s, t, b) ==
    /\ Len(t) = Len(s) /\ t[Len(s)] = b
    /\ \A i \in 1 .. Len(s) - 1 : t[i] = s[i]

LEMMA BackTop ==
    ASSUME NEW s \in Seq(Act), NEW for \in Fors, NEW ok \in BOOLEAN
    PROVE  /\ Back(s, for, ok) \in Seq(Act) /\ Alike(s, Back(s, for, ok))
           /\ s # <<>> => Topped(s, Back(s, for, ok), Resumed(s[Len(s)], for, ok))
PROOF
<1>1. CASE s = <<>> BY <1>1 DEF Back, Alike
<1>2. CASE s # <<>>
  <2>1. PICK n : n = Len(s) OBVIOUS
  <2>2. n \in 1 .. Len(s) /\ s[n] \in Act BY <1>2, <2>1
  <2>3. PICK b : b = Resumed(s[n], for, ok) OBVIOUS
  <2>4. b \in Act /\ b = [s[n] EXCEPT !.mode = b.mode] BY <2>2, <2>3, ResumedType
  <2>5. Back(s, for, ok) = [s EXCEPT ![n] = b] BY <1>2, <2>1, <2>3 DEF Back
  <2>6. b.kind = s[n].kind /\ b.vm = s[n].vm /\ b.for = s[n].for /\ b.base = s[n].base
        /\ b.raise = s[n].raise /\ b.fn = s[n].fn
    BY <2>2, <2>4 DEF Act
  <2> QED BY <1>2, <2>1, <2>2, <2>3, <2>4, <2>5, <2>6 DEF Alike, Topped
<1> QED BY <1>1, <1>2

LEMMA TopType ==
    ASSUME Shape, cstack # <<>>
    PROVE  /\ Len(cstack) \in 1 .. Len(cstack) /\ Top \in Act /\ Top = cstack[Len(cstack)]
           /\ Front(cstack) \in Seq(Act) /\ Len(Front(cstack)) = Len(cstack) - 1
           /\ \A i \in 1 .. Len(cstack) - 1 : Front(cstack)[i] = cstack[i]
           /\ Top.vm \in VMs /\ Top.for \in Fors /\ VMShape(vm[Top.vm])
PROOF
<1>1. cstack \in Seq(Act) /\ Len(cstack) \in Nat \ {0} BY DEF Shape
<1>2. Len(cstack) \in 1 .. Len(cstack) /\ Top = cstack[Len(cstack)] /\ Top \in Act
  BY <1>1 DEF Top, Last
<1>3. /\ Front(cstack) \in Seq(Act) /\ Len(Front(cstack)) = Len(cstack) - 1
      /\ \A i \in 1 .. Len(cstack) - 1 : Front(cstack)[i] = cstack[i]
  BY <1>1, FrontIs
<1>4. Top.vm \in VMs /\ Top.for \in Fors BY <1>2 DEF Act
<1>5. VMShape(vm[Top.vm]) BY <1>4 DEF Shape
<1> QED BY <1>2, <1>3, <1>4, <1>5

\* Only the top of the C++ stack changes.
LEMMA TopChanged ==
    ASSUME NEW s \in Seq(Act), NEW n \in 1 .. Len(s), n = Len(s), NEW b \in Act,
           b.kind = s[n].kind, b.vm = s[n].vm, b.for = s[n].for, b.base = s[n].base,
           b.raise = s[n].raise, b.fn = s[n].fn, NEW t, t = [s EXCEPT ![n] = b]
    PROVE  t \in Seq(Act) /\ Alike(s, t) /\ Topped(s, t, b)
PROOF
<1>1. t \in Seq(Act) /\ Len(t) = n /\ Len(s) = n OBVIOUS
<1>2. t[n] = b OBVIOUS
<1>3. ASSUME NEW i \in 1 .. Len(s), i # n PROVE t[i] = s[i] BY <1>3
<1>4. Alike(s, t)
  <2>1. ASSUME NEW i \in 1 .. Len(s)
        PROVE  /\ t[i].kind = s[i].kind /\ t[i].vm = s[i].vm /\ t[i].for = s[i].for
               /\ t[i].base = s[i].base /\ t[i].raise = s[i].raise /\ t[i].fn = s[i].fn
    <3>1. CASE i = n BY <1>2, <3>1
    <3>2. CASE i # n BY <1>3, <3>2
    <3> QED BY <3>1, <3>2
  <2> QED BY <1>1, <2>1 DEF Alike
<1>5. Topped(s, t, b)
  <2>1. ASSUME NEW i \in 1 .. Len(s) - 1 PROVE t[i] = s[i]
    <3>1. i \in 1 .. Len(s) /\ i # n BY <1>1
    <3> QED BY <1>3, <3>1
  <2> QED BY <1>1, <1>2, <2>1 DEF Topped
<1> QED BY <1>1, <1>4, <1>5

LEMMA ThrowTop ==
    ASSUME Shape, cstack # <<>>, Throw
    PROVE  /\ cstack' \in Seq(Act) /\ Alike(cstack, cstack')
           /\ Topped(cstack, cstack', [Top EXCEPT !.mode = Thrown(Top)])
PROOF
<1>1. PICK n : n = Len(cstack) OBVIOUS
<1>2. n \in 1 .. Len(cstack) /\ cstack[n] \in Act /\ Top = cstack[n] /\ cstack \in Seq(Act)
  BY <1>1, TopType DEF Shape
<1>3. PICK b : b = [Top EXCEPT !.mode = Thrown(Top)] OBVIOUS
<1>4. cstack' = [cstack EXCEPT ![n] = b]
  BY <1>1, <1>2, <1>3 DEF Throw
<1>5. Thrown(Top) \in Modes BY DEF Thrown, Modes
<1>6. b \in Act /\ b.kind = cstack[n].kind /\ b.vm = cstack[n].vm /\ b.for = cstack[n].for
      /\ b.base = cstack[n].base /\ b.raise = cstack[n].raise /\ b.fn = cstack[n].fn
  BY <1>2, <1>3, <1>5 DEF Act
<1> QED BY <1>1, <1>2, <1>3, <1>4, <1>6, TopChanged

LEMMA AddTrapsTop ==
    ASSUME Shape, cstack # <<>>, NEW n \in Int, cstack' = AddTraps(n)
    PROVE  /\ cstack' \in Seq(Act) /\ Alike(cstack, cstack')
           /\ Topped(cstack, cstack', [Top EXCEPT !.traps = @ + n])
PROOF
<1>1. PICK k : k = Len(cstack) OBVIOUS
<1>2. k \in 1 .. Len(cstack) /\ cstack[k] \in Act /\ Top = cstack[k] /\ cstack \in Seq(Act)
  BY <1>1, TopType DEF Shape
<1>3. PICK b : b = [Top EXCEPT !.traps = @ + n] OBVIOUS
<1>4. cstack' = [cstack EXCEPT ![k] = b]
  BY <1>1, <1>2, <1>3 DEF AddTraps
<1>5. b \in Act /\ b.kind = cstack[k].kind /\ b.vm = cstack[k].vm /\ b.for = cstack[k].for
      /\ b.base = cstack[k].base /\ b.raise = cstack[k].raise /\ b.fn = cstack[k].fn
  <2>1. Top \in Act /\ Top = cstack[k] BY <1>2
  <2>2. Top.traps + n \in Int BY <2>1 DEF Act
  <2>3. b \in Act BY <1>3, <2>1, <2>2 DEF Act
  <2>4. /\ b.kind = Top.kind /\ b.vm = Top.vm /\ b.for = Top.for
        /\ b.base = Top.base /\ b.raise = Top.raise /\ b.fn = Top.fn
    BY <1>3, <2>1 DEF Act
  <2> QED BY <2>1, <2>3, <2>4
<1> QED BY <1>1, <1>2, <1>3, <1>4, <1>5, TopChanged

-----------------------------------------------------------------------------
(* What the steps do to the VM they run in.                                *)

Eff(u, calls, alloc, etraps, dn, dm) ==
    /\ Only(u)
    /\ Is(vm'[u], vm[u], calls, alloc, etraps, vm[u].nnative + dn, vm[u].nmeta + dm)

NewAct(kind, u, for, base, traps, raise, mode, fn) ==
    [kind |-> kind, vm |-> u, for |-> for, base |-> base,
     traps |-> traps, raise |-> raise, mode |-> mode, fn |-> fn]

LEMMA BeginEff ==
    ASSUME Shape, NEW u \in VMs, NEW a, NEW f, Begin(u, a, f)
    PROVE  /\ Eff(u, Append(vm[u].calls, f), Grown(vm[u]), vm[u].etraps, 1, One(a.for))
           /\ cstack' = Append(cstack, a) /\ Len(vm[u].calls) < MaxFrames
PROOF
<1>1. DOMAIN vm = VMs /\ DOMAIN vm[u] = VMFields BY DEF Shape, VMShape
<1>2. PICK r : r = EnterFrame(vm[u], f) OBVIOUS
<1>3. Is(r, vm[u], Append(vm[u].calls, f), Grown(vm[u]), vm[u].etraps, vm[u].nnative, vm[u].nmeta)
  BY <1>1, <1>2, IsEntered
<1>4. PICK q : q = [r EXCEPT !.nnative = @ + 1, !.nmeta = @ + One(a.for)] OBVIOUS
<1>5. Is(q, vm[u], Append(vm[u].calls, f), Grown(vm[u]), vm[u].etraps,
         vm[u].nnative + 1, vm[u].nmeta + One(a.for))
  BY <1>3, <1>4, IsBegun
<1>6. vm' = [vm EXCEPT ![u] = q] BY <1>2, <1>4 DEF Begin, One
<1>7. Only(u) /\ vm'[u] = q BY <1>1, <1>6, VMSet
<1> QED BY <1>5, <1>7 DEF Eff, Begin, HasRoom, Depth

LEMMA CallScriptEff ==
    ASSUME Shape, NEW u \in VMs, NEW for, NEW raise, CallScript(u, for, raise)
    PROVE  /\ Eff(u, Append(vm[u].calls, [Frame EXCEPT !.root = TRUE]), Grown(vm[u]), vm[u].etraps,
                  1, One(for))
           /\ cstack' = Append(cstack, NewAct("execute", u, for, Len(vm[u].calls), 0, raise, "run", "none"))
           /\ Len(vm[u].calls) < MaxFrames /\ gen' = gen
PROOF
<1>1. PICK a : a = [Activation("execute", u, for) EXCEPT !.raise = raise] OBVIOUS
<1>2. a = NewAct("execute", u, for, Len(vm[u].calls), 0, raise, "run", "none")
  BY <1>1 DEF Activation, NewAct, Depth
<1>3. a.for = for BY <1>2 DEF NewAct
<1>4. Begin(u, a, [Frame EXCEPT !.root = TRUE]) /\ gen' = gen BY <1>1 DEF CallScript
<1> QED BY <1>2, <1>3, <1>4, BeginEff

LEMMA CallNativeEff ==
    ASSUME Shape, NEW u \in VMs, NEW for, NEW fn, CallNative(u, for, fn)
    PROVE  /\ Eff(u, Append(vm[u].calls, NativeFrame), Grown(vm[u]), vm[u].etraps, 1, One(for))
           /\ cstack' = Append(cstack, NewAct("native", u, for, Len(vm[u].calls), 0, FALSE, "run", fn))
           /\ Len(vm[u].calls) < MaxFrames /\ gen' = gen
PROOF
<1>1. PICK a : a = [Activation("native", u, for) EXCEPT !.fn = fn] OBVIOUS
<1>2. a = NewAct("native", u, for, Len(vm[u].calls), 0, FALSE, "run", fn)
  BY <1>1 DEF Activation, NewAct, Depth
<1>3. a.for = for BY <1>2 DEF NewAct
<1>4. Begin(u, a, NativeFrame) /\ gen' = gen BY <1>1 DEF CallNative
<1> QED BY <1>2, <1>3, <1>4, BeginEff

LEMMA CallBadlyEff ==
    ASSUME Shape, NEW u \in VMs, NEW for, CallBadly(u, for)
    PROVE  /\ Eff(u, vm[u].calls, vm[u].alloc, vm[u].etraps, 1, One(for))
           /\ cstack' = Append(cstack, NewAct("execute", u, for, Len(vm[u].calls), 0, FALSE,
                               IF Len(vm[u].calls) = 0 THEN "startraise" ELSE "startfail", "none"))
           /\ gen' = gen
PROOF
<1>1. DOMAIN vm = VMs /\ DOMAIN vm[u] = VMFields BY DEF Shape, VMShape
<1>2. PICK q : q = [vm[u] EXCEPT !.nnative = @ + 1, !.nmeta = @ + One(for)] OBVIOUS
<1>3. Is(q, vm[u], vm[u].calls, vm[u].alloc, vm[u].etraps, vm[u].nnative + 1, vm[u].nmeta + One(for))
  <2>1. Is(vm[u], vm[u], vm[u].calls, vm[u].alloc, vm[u].etraps, vm[u].nnative, vm[u].nmeta)
    BY <1>1, IsSelf
  <2> QED BY <1>2, <2>1, IsBegun
<1>4. vm' = [vm EXCEPT ![u] = q] BY <1>1, <1>2 DEF CallBadly, One
<1>5. Only(u) /\ vm'[u] = q BY <1>1, <1>4, VMSet
<1>6. PICK mode : mode = IF Depth(u) = 0 THEN "startraise" ELSE "startfail" OBVIOUS
<1>7. [Activation("execute", u, for) EXCEPT !.mode = mode]
         = NewAct("execute", u, for, Len(vm[u].calls), 0, FALSE, mode, "none")
  <2>1. PICK a : a = [Activation("execute", u, for) EXCEPT !.mode = mode] OBVIOUS
  <2>2. a = NewAct("execute", u, for, Len(vm[u].calls), 0, FALSE, mode, "none")
    BY <2>1 DEF Activation, NewAct, Depth
  <2> QED BY <2>1, <2>2
<1>8. cstack' = Append(cstack, [Activation("execute", u, for) EXCEPT !.mode = mode])
  BY <1>6 DEF CallBadly
<1>9. mode = IF Len(vm[u].calls) = 0 THEN "startraise" ELSE "startfail" BY <1>6 DEF Depth
<1> QED BY <1>3, <1>5, <1>7, <1>8, <1>9 DEF Eff, CallBadly

\* A VM's record is replaced by one that differs only in calls and traps.
LEMMA SetEff ==
    ASSUME Shape, NEW u \in VMs, NEW r, NEW calls, NEW alloc, NEW etraps,
           Is(r, vm[u], calls, alloc, etraps, vm[u].nnative, vm[u].nmeta), vm' = [vm EXCEPT ![u] = r]
    PROVE  Eff(u, calls, alloc, etraps, 0, 0)
PROOF
<1>1. DOMAIN vm = VMs /\ vm[u].nnative \in Int /\ vm[u].nmeta \in Int BY DEF Shape, VMShape
<1>2. Only(u) /\ vm'[u] = r BY <1>1, VMSet
<1> QED BY <1>1, <1>2 DEF Eff, Is

LEMMA FinishEff ==
    ASSUME Shape, cstack # <<>>, NEW r, NEW ok, NEW calls, NEW alloc, NEW etraps,
           Is(r, vm[Top.vm], calls, alloc, etraps, vm[Top.vm].nnative, vm[Top.vm].nmeta),
           vm' = [vm EXCEPT ![Top.vm] = Counted(r, Top)]
    PROVE  Eff(Top.vm, calls, alloc, etraps, -1, -One(Top.for))
PROOF
<1>1. DOMAIN vm = VMs /\ Top.vm \in VMs BY TopType DEF Shape
<1>2. vm[Top.vm].nnative \in Int /\ vm[Top.vm].nmeta \in Int BY TopType DEF VMShape
<1>3. PICK q : q = Counted(r, Top) OBVIOUS
<1>4. Is(q, vm[Top.vm], calls, alloc, etraps, vm[Top.vm].nnative - 1, vm[Top.vm].nmeta - One(Top.for))
  BY <1>3, IsCounted
<1>5. Only(Top.vm) /\ vm'[Top.vm] = q BY <1>1, <1>3, VMSet
<1>6. One(Top.for) \in Int BY DEF One
<1> QED BY <1>2, <1>4, <1>5, <1>6 DEF Eff, Is

LEMMA GrowEff ==
    ASSUME Shape, NEW u \in VMs, vm' = [vm EXCEPT ![u] = GrowCallStack(vm[u])]
    PROVE  Eff(u, vm[u].calls, Grown(vm[u]), vm[u].etraps, 0, 0)
PROOF
<1>1. PICK r : r = GrowCallStack(vm[u]) OBVIOUS
<1>2. DOMAIN vm[u] = VMFields BY DEF Shape, VMShape
<1>3. Is(r, vm[u], vm[u].calls, Grown(vm[u]), vm[u].etraps, vm[u].nnative, vm[u].nmeta)
  BY <1>1, <1>2, IsGrown
<1> QED BY <1>1, <1>3, SetEff

LEMMA EnterEff ==
    ASSUME Shape, NEW u \in VMs, NEW f, vm' = [vm EXCEPT ![u] = EnterFrame(vm[u], f)]
    PROVE  Eff(u, Append(vm[u].calls, f), Grown(vm[u]), vm[u].etraps, 0, 0)
PROOF
<1>1. PICK r : r = EnterFrame(vm[u], f) OBVIOUS
<1>2. DOMAIN vm[u] = VMFields BY DEF Shape, VMShape
<1>3. Is(r, vm[u], Append(vm[u].calls, f), Grown(vm[u]), vm[u].etraps, vm[u].nnative, vm[u].nmeta)
  BY <1>1, <1>2, IsEntered
<1> QED BY <1>1, <1>3, SetEff

LEMMA CallGeneratorEff ==
    ASSUME Shape, NEW u \in VMs, NEW for, NEW g \in Gens, CallGenerator(u, for, g)
    PROVE  /\ Eff(u, vm[u].calls, Grown(vm[u]), vm[u].etraps, 0, 0)
           /\ cstack' = Back(cstack, for, TRUE)
           /\ gen[g].state = "none" /\ gen' = [gen EXCEPT ![g].state = "suspended"]
BY GrowEff DEF CallGenerator, AtOnce

LEMMA CallOverflowsEff ==
    ASSUME Shape, NEW u \in VMs, NEW for, CallOverflows(u, for)
    PROVE  /\ Eff(u, Append(vm[u].calls, NativeFrame), Grown(vm[u]), vm[u].etraps, 0, 0)
           /\ cstack' = Back(cstack, for, FALSE) /\ gen' = gen
BY EnterEff DEF CallOverflows, AtOnce

\* The last frame is a root now.
LEMMA CallGeneratorMovedEff ==
    ASSUME Shape, NEW u \in VMs, NEW for, NEW raise, NEW g \in Gens,
           CallGeneratorMoved(u, for, raise, g)
    PROVE  /\ Eff(u, [vm[u].calls EXCEPT ![Len(vm[u].calls)].root = TRUE], Grown(vm[u]), vm[u].etraps,
                  1, One(for))
           /\ cstack' = Append(cstack, NewAct("execute", u, for, Len(vm[u].calls), 0, raise, "run", "none"))
           /\ gen[g].state = "none" /\ gen' = [gen EXCEPT ![g].state = "suspended"]
PROOF
<1>1. DOMAIN vm = VMs /\ DOMAIN vm[u] = VMFields BY DEF Shape, VMShape
<1>2. PICK r : r = GrowCallStack(vm[u]) OBVIOUS
<1>3. Is(r, vm[u], vm[u].calls, Grown(vm[u]), vm[u].etraps, vm[u].nnative, vm[u].nmeta)
  BY <1>1, <1>2, IsGrown
<1>4. PICK n : n = Depth(u) OBVIOUS
<1>5. PICK q : q = [r EXCEPT !.nnative = @ + 1, !.nmeta = @ + One(for), !.calls[n].root = TRUE] OBVIOUS
<1>6. Is(q, vm[u], [vm[u].calls EXCEPT ![n].root = TRUE], Grown(vm[u]), vm[u].etraps,
         vm[u].nnative + 1, vm[u].nmeta + One(for))
  BY <1>3, <1>5 DEF Is, VMFields
<1>7. vm' = [vm EXCEPT ![u] = q] BY <1>2, <1>4, <1>5 DEF CallGeneratorMoved, One
<1>8. Only(u) /\ vm'[u] = q BY <1>1, <1>7, VMSet
<1>9. PICK a : a = [Activation("execute", u, for) EXCEPT !.raise = raise] OBVIOUS
<1>10. a = NewAct("execute", u, for, Len(vm[u].calls), 0, raise, "run", "none")
  BY <1>9 DEF Activation, NewAct, Depth
<1>11. n = Len(vm[u].calls) BY <1>4 DEF Depth
<1> QED BY <1>6, <1>8, <1>9, <1>10, <1>11 DEF Eff, CallGeneratorMoved

\* The frame and the traps that Resume puts back.
ResumedFrame(g, root) == [code |-> TRUE, root |-> root, gen |-> g, etraps |-> Len(gen[g].etraps)]
ResumedTraps(g, n) ==
    [k \in 1 .. Len(gen[g].etraps) |->
        [at |-> n, level |-> gen[g].etraps[Len(gen[g].etraps) - k + 1]]]

LEMMA RestoredIs ==
    ASSUME Shape, NEW g \in Gens, NEW m, DOMAIN m = VMFields, NEW root
    PROVE  Is(Restored(m, g, root), m, Append(m.calls, ResumedFrame(g, root)), Grown(m),
              m.etraps \o ResumedTraps(g, Len(m.calls) + 1), m.nnative, m.nmeta)
PROOF
<1>1. PICK e, n : e = gen[g].etraps /\ n = Len(e) OBVIOUS
<1>2. n \in Nat BY <1>1 DEF Shape, GenShape
<1>3. PICK levels : levels = Reverse(e) OBVIOUS
<1>4. DOMAIN levels = 1 .. n /\ \A k \in 1 .. n : levels[k] = e[n - k + 1]
  BY <1>1, <1>3 DEF Reverse
<1>5. Len(levels) = n
  <2>1. Len(levels) = IF n > 0 THEN n ELSE 0 BY <1>2, <1>4, LenOf
  <2> QED BY <1>2, <2>1
<1>6. PICK f : f = [Frame EXCEPT !.root = root, !.gen = g, !.etraps = n] OBVIOUS
<1>7. f = ResumedFrame(g, root) BY <1>1, <1>6 DEF Frame, ResumedFrame
<1>8. PICK t : t = [k \in 1 .. n |-> [at |-> Len(m.calls) + 1, level |-> levels[k]]] OBVIOUS
<1>9. t = ResumedTraps(g, Len(m.calls) + 1)
  <2>1. ResumedTraps(g, Len(m.calls) + 1) = [k \in 1 .. n |-> [at |-> Len(m.calls) + 1, level |-> e[n - k + 1]]]
    BY <1>1 DEF ResumedTraps
  <2> QED BY <1>4, <1>8, <2>1
<1>10. PICK r : r = EnterFrame(m, f) OBVIOUS
<1>11. Is(r, m, Append(m.calls, f), Grown(m), m.etraps, m.nnative, m.nmeta) BY <1>10, IsEntered
<1>12. Restored(m, g, root) = [r EXCEPT !.etraps = @ \o t]
  BY <1>1, <1>3, <1>5, <1>6, <1>8, <1>10 DEF Restored
<1>13. Is([r EXCEPT !.etraps = @ \o t], m, Append(m.calls, f), Grown(m), m.etraps \o t, m.nnative, m.nmeta)
  BY <1>11 DEF Is, VMFields
<1> QED BY <1>7, <1>9, <1>12, <1>13

LEMMA ResumeEff ==
    ASSUME Shape, NEW v \in VMs, NEW g \in Gens, Resume(v, g)
    PROVE  /\ Eff(v, Append(vm[v].calls, ResumedFrame(g, gen[g].root)), Grown(vm[v]),
                  vm[v].etraps \o ResumedTraps(g, Len(vm[v].calls) + 1), 0, 0)
           /\ gen[g].state = "suspended" /\ Len(vm[v].calls) < MaxFrames
           /\ gen' = [gen EXCEPT ![g] = [state |-> "running", etraps |-> <<>>, root |-> FALSE]]
PROOF
<1>1. DOMAIN vm[v] = VMFields BY DEF Shape, VMShape
<1>2. PICK r : r = Restored(vm[v], g, gen[g].root) OBVIOUS
<1>3. Is(r, vm[v], Append(vm[v].calls, ResumedFrame(g, gen[g].root)), Grown(vm[v]),
         vm[v].etraps \o ResumedTraps(g, Len(vm[v].calls) + 1), vm[v].nnative, vm[v].nmeta)
  BY <1>1, <1>2, RestoredIs
<1>4. vm' = [vm EXCEPT ![v] = r] BY <1>2 DEF Resume
<1> QED BY <1>3, <1>4, SetEff DEF Resume, HasRoom, Depth

LEMMA ApiResumeEff ==
    ASSUME Shape, NEW u \in VMs, NEW g \in Gens, ApiResume(u, g)
    PROVE  /\ Eff(u, Append(vm[u].calls, ResumedFrame(g, TRUE)), Grown(vm[u]),
                  vm[u].etraps \o ResumedTraps(g, Len(vm[u].calls) + 1), 1, 0)
           /\ gen[g].state = "suspended"
           /\ gen' = [gen EXCEPT ![g] = [state |-> "running", etraps |-> <<>>, root |-> FALSE]]
           /\ cstack' = Append(cstack, NewAct("execute", u, "host", Len(vm[u].calls),
                                              Len(gen[g].etraps), TRUE, "run", "none"))
PROOF
<1>1. DOMAIN vm = VMs /\ DOMAIN vm[u] = VMFields /\ vm[u].nmeta \in Int BY DEF Shape, VMShape
<1>2. PICK r : r = Restored(vm[u], g, TRUE) OBVIOUS
<1>3. Is(r, vm[u], Append(vm[u].calls, ResumedFrame(g, TRUE)), Grown(vm[u]),
         vm[u].etraps \o ResumedTraps(g, Len(vm[u].calls) + 1), vm[u].nnative, vm[u].nmeta)
  BY <1>1, <1>2, RestoredIs
<1>4. PICK q : q = [r EXCEPT !.nnative = @ + 1] OBVIOUS
<1>5. Is(q, vm[u], Append(vm[u].calls, ResumedFrame(g, TRUE)), Grown(vm[u]),
         vm[u].etraps \o ResumedTraps(g, Len(vm[u].calls) + 1), vm[u].nnative + 1, vm[u].nmeta)
  BY <1>3, <1>4 DEF Is, VMFields
<1>6. vm' = [vm EXCEPT ![u] = q] BY <1>2, <1>4 DEF ApiResume
<1>7. Only(u) /\ vm'[u] = q BY <1>1, <1>6, VMSet
<1>8. PICK a, n : a = [Activation("execute", u, "host") EXCEPT !.traps = n, !.raise = TRUE]
                  /\ n = Len(gen[g].etraps) OBVIOUS
<1>9. a = NewAct("execute", u, "host", Len(vm[u].calls), n, TRUE, "run", "none")
  BY <1>8 DEF Activation, NewAct, Depth
<1>10. cstack' = Append(cstack, a) BY <1>8 DEF ApiResume
<1>11. vm[u].nmeta + 0 = vm[u].nmeta BY <1>1
<1>12. gen[g].state = "suspended" /\ gen' = [gen EXCEPT ![g] = [state |-> "running", etraps |-> <<>>, root |-> FALSE]]
  BY DEF ApiResume
<1> QED BY <1>5, <1>7, <1>8, <1>9, <1>10, <1>11, <1>12 DEF Eff

LEMMA RunsIs ==
    ASSUME Shape, NEW kind, Runs(kind)
    PROVE  cstack # <<>> /\ Top.kind = kind /\ Top.vm \in VMs /\ Top \in Act
BY TopType DEF Runs

\* A change of the last frame.
LEMMA PushTrapEff ==
    ASSUME Shape, NEW v \in VMs, OpPushTrap(v)
    PROVE  /\ Eff(v, [vm[v].calls EXCEPT ![Len(vm[v].calls)].etraps = @ + 1], vm[v].alloc,
                  Append(vm[v].etraps, [at |-> Len(vm[v].calls), level |-> ci(v).etraps + 1]), 0, 0)
           /\ cstack' = AddTraps(1) /\ gen' = gen
PROOF
<1>1. DOMAIN vm = VMs /\ DOMAIN vm[v] = VMFields BY DEF Shape, VMShape
<1>2. PICK n, t : n = Depth(v) /\ t = [at |-> Depth(v), level |-> ci(v).etraps + 1] OBVIOUS
<1>3. PICK r : r = [vm[v] EXCEPT !.etraps = Append(@, t), !.calls[n].etraps = @ + 1] OBVIOUS
<1>4. Is(r, vm[v], [vm[v].calls EXCEPT ![n].etraps = @ + 1], vm[v].alloc, Append(vm[v].etraps, t),
         vm[v].nnative, vm[v].nmeta)
  BY <1>1, <1>3 DEF Is, VMFields
<1>5. vm' = [vm EXCEPT ![v] = r] BY <1>1, <1>2, <1>3 DEF OpPushTrap
<1>6. Eff(v, [vm[v].calls EXCEPT ![n].etraps = @ + 1], vm[v].alloc, Append(vm[v].etraps, t), 0, 0)
  BY <1>4, <1>5, SetEff
<1>7. n = Len(vm[v].calls) /\ t = [at |-> Len(vm[v].calls), level |-> ci(v).etraps + 1]
  BY <1>2 DEF Depth
<1> QED BY <1>6, <1>7 DEF OpPushTrap

LEMMA PopTrapEff ==
    ASSUME Shape, NEW v \in VMs, OpPopTrap(v)
    PROVE  /\ Eff(v, [vm[v].calls EXCEPT ![Len(vm[v].calls)].etraps = @ - 1], vm[v].alloc,
                  Front(vm[v].etraps), 0, 0)
           /\ cstack' = AddTraps(-1) /\ gen' = gen
PROOF
<1>1. DOMAIN vm = VMs /\ DOMAIN vm[v] = VMFields BY DEF Shape, VMShape
<1>2. PICK n : n = Depth(v) OBVIOUS
<1>3. PICK r : r = [vm[v] EXCEPT !.etraps = Front(@), !.calls[n].etraps = @ - 1] OBVIOUS
<1>4. Is(r, vm[v], [vm[v].calls EXCEPT ![n].etraps = @ - 1], vm[v].alloc, Front(vm[v].etraps),
         vm[v].nnative, vm[v].nmeta)
  BY <1>1, <1>3 DEF Is, VMFields
<1>5. vm' = [vm EXCEPT ![v] = r] BY <1>1, <1>2, <1>3 DEF OpPopTrap
<1>6. Eff(v, [vm[v].calls EXCEPT ![n].etraps = @ - 1], vm[v].alloc, Front(vm[v].etraps), 0, 0)
  BY <1>4, <1>5, SetEff
<1>7. n = Len(vm[v].calls) BY <1>2 DEF Depth
<1> QED BY <1>6, <1>7 DEF OpPopTrap

\* Leaving frames: Return, Yield, native functions, exceptions.
LEMMA ReturnFromEff ==
    ASSUME Shape, NEW v \in VMs, cstack # <<>>, Top.vm = v, NEW etraps, NEW m,
           Is(m, vm[v], vm[v].calls, vm[v].alloc, etraps, vm[v].nnative, vm[v].nmeta), ReturnFrom(v, m)
    PROVE  /\ ci(v).root = TRUE =>
                 /\ Eff(v, Front(vm[v].calls), vm[v].alloc, etraps, -1, -One(Top.for))
                 /\ cstack' = Back(Front(cstack), Top.for, TRUE)
           /\ ci(v).root = FALSE => Eff(v, Front(vm[v].calls), vm[v].alloc, etraps, 0, 0)
PROOF
<1>1. PICK r : r = LeaveFrame(m) OBVIOUS
<1>2. Is(r, m, Front(m.calls), m.alloc, m.etraps, m.nnative, m.nmeta)
  BY <1>1, IsLeft DEF Is
<1>3. Is(r, vm[v], Front(vm[v].calls), vm[v].alloc, etraps, vm[v].nnative, vm[v].nmeta)
  BY <1>2 DEF Is
<1>4. CASE ci(v).root = TRUE
  <2>1. vm' = [vm EXCEPT ![v] = Counted(r, Top)] /\ cstack' = Back(Front(cstack), Top.for, TRUE)
    BY <1>1, <1>4 DEF ReturnFrom
  <2> QED BY <1>3, <1>4, <2>1, FinishEff
<1>5. CASE ci(v).root = FALSE
  <2>1. vm' = [vm EXCEPT ![v] = r] BY <1>1, <1>5 DEF ReturnFrom
  <2> QED BY <1>3, <1>5, <2>1, SetEff
<1> QED BY <1>4, <1>5

LEMMA OpReturnEff ==
    ASSUME Shape, NEW v \in VMs, OpReturn(v)
    PROVE  /\ ci(v).root = TRUE =>
                 /\ Eff(v, Front(vm[v].calls), vm[v].alloc, vm[v].etraps, -1, -One(Top.for))
                 /\ cstack' = Back(Front(cstack), Top.for, TRUE)
           /\ ci(v).root = FALSE =>
                 /\ Eff(v, Front(vm[v].calls), vm[v].alloc, vm[v].etraps, 0, 0)
                 /\ cstack' = cstack
           /\ ci(v).etraps = 0 /\ gen' = Kill(gen, {ci(v)})
PROOF
<1>1. cstack # <<>> /\ Top.vm = v BY DEF OpReturn, Running, Runs
<1>2. PICK m : m = vm[v] OBVIOUS
<1>3. DOMAIN m = VMFields BY <1>2 DEF Shape, VMShape
<1>4. Is(m, vm[v], vm[v].calls, vm[v].alloc, vm[v].etraps, vm[v].nnative, vm[v].nmeta)
  BY <1>2, <1>3, IsSelf
<1>5. ReturnFrom(v, m) BY <1>2 DEF OpReturn
<1>6. ci(v).root = FALSE => cstack' = cstack BY DEF OpReturn
<1>7. ci(v).etraps = 0 /\ gen' = Kill(gen, {ci(v)}) BY DEF OpReturn
<1> QED BY <1>1, <1>4, <1>5, <1>6, <1>7, ReturnFromEff

LEMMA OpYieldEff ==
    ASSUME Shape, NEW v \in VMs, OpYield(v)
    PROVE  /\ ci(v).root = TRUE =>
                 /\ Eff(v, Front(vm[v].calls), vm[v].alloc,
                        SubSeq(vm[v].etraps, 1, Len(vm[v].etraps) - ci(v).etraps), -1, -One(Top.for))
                 /\ cstack' = Back(Front(cstack), Top.for, TRUE)
           /\ ci(v).root = FALSE =>
                 /\ Eff(v, Front(vm[v].calls), vm[v].alloc,
                        SubSeq(vm[v].etraps, 1, Len(vm[v].etraps) - ci(v).etraps), 0, 0)
                 /\ cstack' = AddTraps(-ci(v).etraps)
           /\ ci(v).gen # None
           /\ gen' = [gen EXCEPT ![ci(v).gen] =
                        [state |-> "suspended", etraps |-> Saved(vm[v], ci(v).etraps), root |-> ci(v).root]]
PROOF
<1>1. cstack # <<>> /\ Top.vm = v BY DEF OpYield, Running, Runs
<1>2. PICK m, tr : m = [vm[v] EXCEPT !.etraps = tr]
                   /\ tr = SubSeq(vm[v].etraps, 1, Len(vm[v].etraps) - ci(v).etraps) OBVIOUS
<1>3. DOMAIN vm[v] = VMFields BY DEF Shape, VMShape
<1>4. Is(m, vm[v], vm[v].calls, vm[v].alloc, tr, vm[v].nnative, vm[v].nmeta)
  BY <1>2, <1>3 DEF Is, VMFields
<1>5. ReturnFrom(v, m) BY <1>2 DEF OpYield
<1>6. ci(v).root = FALSE => cstack' = AddTraps(-ci(v).etraps) BY DEF OpYield
<1>7. /\ ci(v).gen # None
      /\ gen' = [gen EXCEPT ![ci(v).gen] =
                   [state |-> "suspended", etraps |-> Saved(vm[v], ci(v).etraps), root |-> ci(v).root]]
  BY DEF OpYield
<1> QED BY <1>1, <1>2, <1>4, <1>5, <1>6, <1>7, ReturnFromEff

LEMMA NativeReturnEff ==
    ASSUME Shape, NEW ok, NativeReturn(ok)
    PROVE  /\ Eff(Top.vm, Front(vm[Top.vm].calls), vm[Top.vm].alloc, vm[Top.vm].etraps, -1, -One(Top.for))
           /\ cstack' = Back(Front(cstack), Top.for, ok) /\ gen' = gen
           /\ cstack # <<>> /\ Top.kind = "native"
PROOF
<1>1. cstack # <<>> /\ Top.kind = "native" /\ gen' = gen BY DEF NativeReturn, Runs
<1>2. DOMAIN vm[Top.vm] = VMFields BY <1>1, TopType DEF VMShape
<1>3. PICK r : r = LeaveFrame(vm[Top.vm]) OBVIOUS
<1>4. Is(r, vm[Top.vm], Front(vm[Top.vm].calls), vm[Top.vm].alloc, vm[Top.vm].etraps,
         vm[Top.vm].nnative, vm[Top.vm].nmeta)
  BY <1>2, <1>3, IsLeft
<1>5. vm' = [vm EXCEPT ![Top.vm] = Counted(r, Top)] /\ cstack' = Back(Front(cstack), Top.for, ok)
  BY <1>3 DEF NativeReturn, Finish
<1> QED BY <1>1, <1>4, <1>5, FinishEff

LEMMA StartFailsEff ==
    ASSUME Shape, NEW v \in VMs, StartFails(v)
    PROVE  /\ Eff(v, vm[v].calls, vm[v].alloc, vm[v].etraps, -1, -One(Top.for))
           /\ cstack' = Back(Front(cstack), Top.for, FALSE) /\ gen' = gen
           /\ cstack # <<>> /\ Top.kind = "execute" /\ Top.mode = "startfail" /\ Top.vm = v
PROOF
<1>1. cstack # <<>> /\ Top.kind = "execute" /\ Top.mode = "startfail" /\ Top.vm = v /\ gen' = gen
  BY DEF StartFails, Runs
<1>2. DOMAIN vm[v] = VMFields BY DEF Shape, VMShape
<1>3. PICK r : r = vm[v] OBVIOUS
<1>4. Is(r, vm[v], vm[v].calls, vm[v].alloc, vm[v].etraps, vm[v].nnative, vm[v].nmeta)
  BY <1>2, <1>3, IsSelf
<1>5. vm' = [vm EXCEPT ![Top.vm] = Counted(r, Top)] /\ cstack' = Back(Front(cstack), Top.for, FALSE)
  BY <1>1, <1>3 DEF StartFails, Finish
<1> QED BY <1>1, <1>4, <1>5, FinishEff

LEMMA TailCallEff ==
    ASSUME Shape, TailCall
    PROVE  /\ Eff(Top.vm, [vm[Top.vm].calls EXCEPT ![Len(vm[Top.vm].calls)].code = TRUE],
                  vm[Top.vm].alloc, vm[Top.vm].etraps, -1, -One(Top.for))
           /\ cstack' = Back(Front(cstack), Top.for, TRUE) /\ gen' = gen
           /\ cstack # <<>> /\ Top.kind = "native"
PROOF
<1>1. cstack # <<>> /\ Top.kind = "native" /\ gen' = gen BY DEF TailCall, Runs
<1>2. DOMAIN vm[Top.vm] = VMFields BY <1>1, TopType DEF VMShape
<1>3. PICK n : n = Depth(Top.vm) OBVIOUS
<1>4. PICK r : r = [vm[Top.vm] EXCEPT !.calls[n].code = TRUE] OBVIOUS
<1>5. Is(r, vm[Top.vm], [vm[Top.vm].calls EXCEPT ![n].code = TRUE], vm[Top.vm].alloc, vm[Top.vm].etraps,
         vm[Top.vm].nnative, vm[Top.vm].nmeta)
  BY <1>2, <1>4 DEF Is, VMFields
<1>6. vm' = [vm EXCEPT ![Top.vm] = Counted(r, Top)] /\ cstack' = Back(Front(cstack), Top.for, TRUE)
  BY <1>3, <1>4 DEF TailCall, Finish
<1>7. n = Len(vm[Top.vm].calls) BY <1>3 DEF Depth
<1> QED BY <1>1, <1>5, <1>6, <1>7, FinishEff

\* Where an exception goes: no frame after the last stop has a trap or is a root.
Catches(v, at) ==
    /\ at \in 1 .. Len(vm[v].calls) /\ vm[v].calls[at].etraps > 0
    /\ \A i \in at + 1 .. Len(vm[v].calls) : vm[v].calls[i].etraps <= 0 /\ vm[v].calls[i].root = FALSE
LeavesAll(v, left) ==
    /\ left \in 0 .. Len(vm[v].calls)
    /\ \A i \in left + 2 .. Len(vm[v].calls) : vm[v].calls[i].root = FALSE
    /\ \A i \in left + 1 .. Len(vm[v].calls) : vm[v].calls[i].etraps <= 0
    /\ \/ left < Len(vm[v].calls) /\ vm[v].calls[left + 1].root = TRUE
       \/ left = 0 /\ \A i \in 1 .. Len(vm[v].calls) : vm[v].calls[i].root = FALSE

Caught(v, at) ==
    /\ Catches(v, at)
    /\ Eff(v, [SubSeq(vm[v].calls, 1, at) EXCEPT ![at].etraps = @ - 1], vm[v].alloc,
           Front(vm[v].etraps), 0, 0)
    /\ cstack' = [cstack EXCEPT ![Len(cstack)] = [Top EXCEPT !.traps = @ - 1, !.mode = "run"]]
    /\ gen' = Kill(gen, {vm[v].calls[i] : i \in at + 1 .. Len(vm[v].calls)})
Uncaught(v, left) ==
    /\ LeavesAll(v, left)
    /\ Eff(v, SubSeq(vm[v].calls, 1, left), vm[v].alloc, vm[v].etraps, -1, -One(Top.for))
    /\ cstack' = Back(Front(cstack), Top.for, FALSE)
    /\ gen' = Kill(gen, {vm[v].calls[i] : i \in left + 1 .. Len(vm[v].calls)})

LEMMA UnwindEff ==
    ASSUME Shape, NEW v \in VMs, Unwind(v)
    PROVE  /\ cstack # <<>> /\ Top.kind = "execute" /\ Top.vm = v /\ Top.mode = "unwind"
           /\ \E at \in Nat : Caught(v, at) \/ Uncaught(v, at)
PROOF
<1>1. cstack # <<>> /\ Top.kind = "execute" /\ Top.vm = v /\ Top.mode = "unwind"
  BY DEF Unwind, Runs
<1>2. /\ DOMAIN vm = VMs /\ DOMAIN vm[v] = VMFields /\ vm[v].calls \in Seq(FrameG) /\ cstack \in Seq(Act)
      /\ Top = cstack[Len(cstack)] /\ Top \in Act /\ Len(cstack) \in DOMAIN cstack
  BY <1>1, TopType DEF Shape, VMShape
<1>3. PICK c, n : c = vm[v].calls /\ n = Len(c) OBVIOUS
<1>4. n \in Nat /\ c \in Seq(FrameG) /\ \A i \in 1 .. n : c[i].etraps \in Int /\ c[i].root \in BOOLEAN
  <2>1. n \in Nat /\ c \in Seq(FrameG) BY <1>2, <1>3
  <2>2. ASSUME NEW i \in 1 .. n PROVE c[i].etraps \in Int /\ c[i].root \in BOOLEAN
    <3>1. c[i] \in FrameG BY <1>3, <2>1
    <3> QED BY <3>1 DEF FrameG
  <2> QED BY <2>1, <2>2
<1>5. PICK S : S = {0} \cup Stops(vm[v]) OBVIOUS
<1>6. \A i : i \in S <=> i = 0 \/ (i \in 1 .. n /\ (c[i].etraps > 0 \/ c[i].root))
  BY <1>3, <1>5 DEF Stops
<1>7. PICK at : at = Max(S) OBVIOUS
<1>8. at \in S /\ \A y \in S : y <= at
  <2>1. S # {} /\ \A x \in S : x \in Int /\ x <= n BY <1>4, <1>6
  <2> QED BY <1>4, <1>7, <2>1, Greatest
<1>9. at \in 0 .. n /\ \A i \in at + 1 .. n : c[i].etraps <= 0 /\ c[i].root = FALSE
  <2>1. at \in 0 .. n BY <1>4, <1>6, <1>8
  <2>2. ASSUME NEW i \in at + 1 .. n PROVE c[i].etraps <= 0 /\ c[i].root = FALSE
    <3>1. i \in 1 .. n /\ ~(i <= at) BY <1>4, <2>1
    <3>2. ~(c[i].etraps > 0 \/ c[i].root) BY <1>6, <1>8, <3>1
    <3>3. c[i].etraps \in Int /\ c[i].root \in BOOLEAN BY <1>4, <3>1
    <3> QED BY <3>2, <3>3
  <2> QED BY <2>1, <2>2
<1>10. PICK caught \in BOOLEAN : caught <=> at > 0 /\ c[at].etraps > 0 OBVIOUS
<1>11. PICK left : left = IF caught THEN at ELSE Max({0, at - 1}) OBVIOUS
<1>12. left = IF caught THEN at ELSE IF at = 0 THEN 0 ELSE at - 1
  <2>1. PICK T : T = {0, at - 1} OBVIOUS
  <2>2. Max(T) \in T /\ \A y \in T : y <= Max(T)
    <3>1. T # {} /\ at \in Int /\ \A x \in T : x \in Int /\ x <= at BY <1>9, <2>1
    <3> QED BY <3>1, Greatest
  <2>3. Max(T) = IF at = 0 THEN 0 ELSE at - 1 BY <1>9, <2>1, <2>2
  <2> QED BY <1>11, <2>1, <2>3
<1>13. left \in 0 .. n BY <1>4, <1>9, <1>12
<1>14. PICK out : out = [vm[v] EXCEPT !.calls = SubSeq(@, 1, left)] OBVIOUS
<1>15. Is(out, vm[v], SubSeq(c, 1, left), vm[v].alloc, vm[v].etraps, vm[v].nnative, vm[v].nmeta)
  BY <1>2, <1>3, <1>14 DEF Is, VMFields
<1>16. gen' = Kill(gen, {c[i] : i \in left + 1 .. n})
  BY <1>3, <1>5, <1>7, <1>10, <1>11 DEF Unwind, Depth
<1>17. CASE caught
  <2>1. PICK r : r = [out EXCEPT !.etraps = Front(@), !.calls[at].etraps = @ - 1] OBVIOUS
  <2>2. vm' = [vm EXCEPT ![v] = r]
        /\ cstack' = [cstack EXCEPT ![Len(cstack)].traps = @ - 1, ![Len(cstack)].mode = "run"]
    BY <1>3, <1>5, <1>7, <1>10, <1>11, <1>14, <1>17, <2>1 DEF Unwind
  <2>3. left = at BY <1>12, <1>17
  <2>4. Is(r, vm[v], [SubSeq(c, 1, at) EXCEPT ![at].etraps = @ - 1], vm[v].alloc, Front(vm[v].etraps),
           vm[v].nnative, vm[v].nmeta)
    BY <1>15, <2>1, <2>3 DEF Is, VMFields
  <2>5. Eff(v, [SubSeq(c, 1, at) EXCEPT ![at].etraps = @ - 1], vm[v].alloc, Front(vm[v].etraps), 0, 0)
    BY <2>2, <2>4, SetEff
  <2>6. cstack' = [cstack EXCEPT ![Len(cstack)] = [Top EXCEPT !.traps = @ - 1, !.mode = "run"]]
    BY <1>2, <2>2
  <2>7. Catches(v, at) BY <1>3, <1>9, <1>10, <1>17 DEF Catches
  <2>8. at \in Nat BY <1>9
  <2>9. Caught(v, at) BY <1>3, <1>16, <2>3, <2>5, <2>6, <2>7 DEF Caught
  <2> QED BY <1>1, <2>8, <2>9
<1>18. CASE ~caught
  <2>1. vm' = [vm EXCEPT ![Top.vm] = Counted(out, Top)] /\ cstack' = Back(Front(cstack), Top.for, FALSE)
    BY <1>3, <1>5, <1>7, <1>10, <1>11, <1>14, <1>18 DEF Unwind, Finish
  <2>2. Eff(v, SubSeq(c, 1, left), vm[v].alloc, vm[v].etraps, -1, -One(Top.for))
    BY <1>1, <1>15, <2>1, FinishEff
  <2>3. LeavesAll(v, left)
    <3>1. CASE at = 0
      <4>1. left = 0 BY <1>12, <1>18, <3>1
      <4>2. \A i \in 1 .. n : c[i].etraps <= 0 /\ c[i].root = FALSE BY <1>9, <3>1
      <4> QED BY <1>3, <1>4, <4>1, <4>2 DEF LeavesAll
    <3>2. CASE at # 0
      <4>1. left = at - 1 /\ at \in 1 .. n BY <1>9, <1>12, <1>18, <3>2
      <4>2. c[at].etraps <= 0 /\ c[at].root = TRUE
        BY <1>4, <1>6, <1>8, <1>10, <1>18, <4>1
      <4>3. \A i \in left + 1 .. n : c[i].etraps <= 0 /\ (i # left + 1 => c[i].root = FALSE)
        BY <1>4, <1>9, <4>1, <4>2
      <4> QED BY <1>3, <1>4, <4>1, <4>2, <4>3 DEF LeavesAll
    <3> QED BY <3>1, <3>2
  <2>4. left \in Nat BY <1>13
  <2>5. Uncaught(v, left) BY <1>3, <1>16, <2>1, <2>2, <2>3 DEF Uncaught
  <2> QED BY <1>1, <2>4, <2>5
<1> QED BY <1>10, <1>17, <1>18

\* Suspend and wakeup also set the fields _suspended...
Suspends(v) ==
    /\ Only(v) /\ DOMAIN vm'[v] = VMFields
    /\ vm'[v].calls = Front(vm[v].calls) /\ vm'[v].alloc = vm[v].alloc /\ vm'[v].etraps = vm[v].etraps
    /\ vm'[v].nnative = vm[v].nnative - 2 /\ vm'[v].nmeta = vm[v].nmeta
    /\ vm'[v].suspended = TRUE /\ vm'[v].straps = cstack[Len(cstack) - 1].traps
    /\ vm'[v].sroot = Last(Front(vm[v].calls)).root

LEMMA SuspendEff ==
    ASSUME Shape, NEW v \in VMs, Suspend(v)
    PROVE  /\ Suspends(v) /\ gen' = gen
           /\ cstack' = Back(Front(Front(cstack)), cstack[Len(cstack) - 1].for, TRUE)
           /\ cstack # <<>> /\ Top.vm = v /\ Top.fn = "suspend" /\ Top.for = "opcall"
           /\ vm[v].nnative = 2 /\ Top.kind = "native" /\ vm[v].suspended # TRUE
PROOF
<1>1. DOMAIN vm = VMs /\ DOMAIN vm[v] = VMFields BY DEF Shape, VMShape
<1>2. PICK m : m = LeaveFrame(vm[v]) OBVIOUS
<1>3. Is(m, vm[v], Front(vm[v].calls), vm[v].alloc, vm[v].etraps, vm[v].nnative, vm[v].nmeta)
  BY <1>1, <1>2, IsLeft
<1>4. PICK st, sr : st = cstack[Len(cstack) - 1].traps /\ sr = Last(m.calls).root OBVIOUS
<1>5. PICK q : q = [m EXCEPT !.nnative = @ - 2, !.suspended = TRUE, !.straps = st, !.sroot = sr] OBVIOUS
<1>6. /\ DOMAIN q = VMFields /\ q.calls = m.calls /\ q.alloc = m.alloc /\ q.etraps = m.etraps
      /\ q.nnative = m.nnative - 2 /\ q.nmeta = m.nmeta /\ q.suspended = TRUE /\ q.straps = st /\ q.sroot = sr
  BY <1>3, <1>5 DEF Is, VMFields
<1>7. vm' = [vm EXCEPT ![v] = q] BY <1>2, <1>4, <1>5 DEF Suspend
<1>8. Only(v) /\ vm'[v] = q BY <1>1, <1>7, VMSet
<1>9. Suspends(v) BY <1>3, <1>4, <1>6, <1>8 DEF Suspends, Is
<1>10. cstack' = Back(Front(Front(cstack)), cstack[Len(cstack) - 1].for, TRUE) BY DEF Suspend
<1>11. /\ gen' = gen /\ cstack # <<>> /\ Top.vm = v /\ Top.fn = "suspend" /\ Top.for = "opcall"
       /\ vm[v].nnative = 2 /\ Top.kind = "native" /\ vm[v].suspended # TRUE
  BY DEF Suspend, Runs, MaySuspend
<1> QED BY <1>9, <1>10, <1>11

Wakes(u) ==
    /\ Only(u) /\ DOMAIN vm'[u] = VMFields
    /\ vm'[u].calls = [vm[u].calls EXCEPT ![Len(vm[u].calls)].root = vm[u].sroot]
    /\ vm'[u].alloc = vm[u].alloc /\ vm'[u].etraps = vm[u].etraps
    /\ vm'[u].nnative = vm[u].nnative + 1 /\ vm'[u].nmeta = vm[u].nmeta
    /\ vm'[u].suspended = FALSE /\ vm'[u].straps = vm[u].straps /\ vm'[u].sroot = vm[u].sroot

LEMMA WakeupEff ==
    ASSUME Shape, NEW u \in VMs, NEW throw, ApiWakeup(u, throw)
    PROVE  /\ Wakes(u) /\ gen' = gen /\ HostRuns
           /\ \E root \in 1 .. Len(vm[u].calls) \cup {1}, mode \in {"run", "raise", "unwind"} :
                 /\ root = 1 \/ vm[u].calls[root].root
                 /\ \A i \in root + 1 .. Len(vm[u].calls) : vm[u].calls[i].root = FALSE
                 /\ mode = "raise" => NotifyAll \/ vm[u].straps = 0
                 /\ cstack' = Append(cstack, NewAct("execute", u, "host", root - 1, vm[u].straps, TRUE,
                                                    mode, "none"))
           /\ vm[u].suspended /\ vm[u].nnative + 1 <= MAX_NATIVE_CALLS
PROOF
<1>1. DOMAIN vm = VMs /\ DOMAIN vm[u] = VMFields /\ vm[u].calls \in Seq(FrameG) BY DEF Shape, VMShape
<1>2. PICK n, sr : n = Depth(u) /\ sr = vm[u].sroot OBVIOUS
<1>3. n = Len(vm[u].calls) /\ n \in Nat BY <1>1, <1>2 DEF Depth
<1>4. PICK q : q = [vm[u] EXCEPT !.nnative = @ + 1, !.suspended = FALSE, !.calls[n].root = sr] OBVIOUS
<1>5. /\ DOMAIN q = VMFields /\ q.calls = [vm[u].calls EXCEPT ![n].root = sr]
      /\ q.alloc = vm[u].alloc /\ q.etraps = vm[u].etraps /\ q.nnative = vm[u].nnative + 1
      /\ q.nmeta = vm[u].nmeta /\ q.suspended = FALSE /\ q.straps = vm[u].straps /\ q.sroot = vm[u].sroot
  BY <1>1, <1>4 DEF VMFields
<1>6. vm' = [vm EXCEPT ![u] = q] BY <1>1, <1>2, <1>4 DEF ApiWakeup
<1>7. Only(u) /\ vm'[u] = q BY <1>1, <1>6, VMSet
<1>8. Wakes(u) BY <1>2, <1>3, <1>5, <1>7 DEF Wakes
<1>9. PICK S : S = {1} \cup {i \in 1 .. n : vm[u].calls[i].root} OBVIOUS
<1>10. PICK root : root = Max(S) OBVIOUS
<1>11. root \in S /\ \A y \in S : y <= root
  <2>1. S # {} /\ n + 1 \in Int /\ \A x \in S : x \in Int /\ x <= n + 1 BY <1>3, <1>9
  <2> QED BY <1>10, <2>1, Greatest
<1>12. root \in 1 .. n \cup {1} /\ (root = 1 \/ vm[u].calls[root].root) BY <1>3, <1>9, <1>11
<1>13. ASSUME NEW i \in root + 1 .. n PROVE vm[u].calls[i].root = FALSE
  <2>1. i \in 1 .. n /\ i > root BY <1>3, <1>12
  <2>2. vm[u].calls[i] \in FrameG BY <1>1, <1>3, <2>1
  <2>3. i \notin S BY <1>3, <1>11, <1>12, <2>1
  <2>4. ~vm[u].calls[i].root BY <1>9, <2>1, <2>3
  <2> QED BY <2>2, <2>4 DEF FrameG
<1>14. PICK a : a = [Activation("execute", u, "host") EXCEPT
                       !.base = root - 1, !.traps = vm[u].straps, !.raise = TRUE] OBVIOUS
<1>15. a = NewAct("execute", u, "host", root - 1, vm[u].straps, TRUE, "run", "none")
  BY <1>14 DEF Activation, NewAct
<1>16. cstack' = Append(cstack, IF throw THEN [a EXCEPT !.mode = Thrown(a)] ELSE a)
  BY <1>2, <1>9, <1>10, <1>14 DEF ApiWakeup
<1>17. PICK mode : mode = IF throw THEN Thrown(a) ELSE "run" OBVIOUS
<1>18. PICK b : b = IF throw THEN [a EXCEPT !.mode = Thrown(a)] ELSE a OBVIOUS
<1>19. b = NewAct("execute", u, "host", root - 1, vm[u].straps, TRUE, mode, "none")
  BY <1>15, <1>17, <1>18 DEF NewAct
<1>20. mode \in {"run", "raise", "unwind"} BY <1>17 DEF Thrown
<1>21. mode = "raise" => NotifyAll \/ vm[u].straps = 0
  BY <1>15, <1>17 DEF Thrown, NewAct
<1>22. gen' = gen /\ HostRuns /\ vm[u].suspended /\ vm[u].nnative + 1 <= MAX_NATIVE_CALLS
  BY DEF ApiWakeup, CanNest
<1> QED BY <1>3, <1>8, <1>12, <1>13, <1>16, <1>18, <1>19, <1>20, <1>21, <1>22

-----------------------------------------------------------------------------
(* The invariant.                                                          *)

\* A metamethod, an error handler or a native function that an instruction
\* called has the Execute of that instruction below it.
Called ==
    \A i \in 1 .. Len(cstack) : cstack[i].for # "host" =>
        i > 1 /\ cstack[i - 1].vm = cstack[i].vm /\ cstack[i - 1].kind = "execute"

\* suspend() calls nothing; if an instruction called it, the frame of that is
\* below its own.
SuspendTop ==
    \A i \in 1 .. Len(cstack) : cstack[i].fn = "suspend" =>
        /\ i = Len(cstack)
        /\ cstack[i].for = "opcall" => Len(vm[cstack[i].vm].calls) > 1

ExecuteFn == \A i \in 1 .. Len(cstack) : cstack[i].kind = "execute" => cstack[i].fn = "none"

\* A frame that runs a generator is the only one, and its state says so.
GenRuns ==
    \A v \in VMs : \A i \in 1 .. Len(vm[v].calls) :
        vm[v].calls[i].gen # None => gen[vm[v].calls[i].gen].state = "running"
GenOnce ==
    \A v \in VMs : \A i \in 1 .. Len(vm[v].calls) : vm[v].calls[i].gen # None =>
        \A w \in VMs : \A j \in 1 .. Len(vm[w].calls) :
            vm[w].calls[j].gen = vm[v].calls[i].gen => v = w /\ i = j
GenFrames == GenRuns /\ GenOnce

StackInv == Called /\ SuspendTop /\ ExecuteFn
GInv == Shape /\ NativeCallsExact /\ StackInv /\ GenFrames

-----------------------------------------------------------------------------
(* Each part, by what a step does.                                         *)

LEMMA SameEff ==
    ASSUME Shape, NEW u \in VMs, vm' = vm
    PROVE  Eff(u, vm[u].calls, vm[u].alloc, vm[u].etraps, 0, 0)
PROOF
<1>1. DOMAIN vm = VMs /\ DOMAIN vm[u] = VMFields /\ vm[u].nnative \in Int /\ vm[u].nmeta \in Int
  BY DEF Shape, VMShape
<1> QED BY <1>1 DEF Eff, Is, Only

LEMMA EffShape ==
    ASSUME Shape, NEW u \in VMs, NEW calls \in Seq(FrameG), NEW alloc, NEW etraps, NEW dn \in Int, NEW dm \in Int,
           Eff(u, calls, alloc, etraps, dn, dm)
    PROVE  /\ DOMAIN vm' = VMs /\ \A v \in VMs : VMShape(vm'[v])
           /\ vm'[u].calls = calls /\ \A w \in VMs \ {u} : vm'[w] = vm[w]
PROOF
<1>1. VMShape(vm[u]) BY DEF Shape
<1>2. VMShape(vm'[u]) BY <1>1 DEF VMShape, Eff, Is
<1>3. DOMAIN vm' = VMs /\ vm'[u].calls = calls /\ \A w \in VMs \ {u} : vm'[w] = vm[w] BY DEF Eff, Is, Only
<1> QED BY <1>2, <1>3 DEF Shape

LEMMA CountKeep ==
    ASSUME Shape, NativeCallsExact, NEW u \in VMs, NEW calls, NEW alloc, NEW etraps,
           Eff(u, calls, alloc, etraps, 0, 0), Alike(cstack, cstack')
    PROVE  NativeCallsExact'
PROOF
<1>1. \A v \in VMs : vm[v].nnative = Num(cstack, v) /\ vm[v].nmeta = NumMeta(cstack, v)
  BY DEF NativeCallsExact, Num, NumMeta
<1>2. PICK s : s = cstack' OBVIOUS
<1>3. \A v \in VMs : Num(s, v) = Num(cstack, v) /\ NumMeta(s, v) = NumMeta(cstack, v)
  BY <1>2, NumAlike
<1>4. \A v \in VMs : vm'[v].nnative = vm[v].nnative /\ vm'[v].nmeta = vm[v].nmeta
  <2>1. vm[u].nnative \in Int /\ vm[u].nmeta \in Int BY DEF Shape, VMShape
  <2> QED BY <2>1 DEF Eff, Is, Only
<1>5. \A v \in VMs : vm'[v].nnative = Num(s, v) /\ vm'[v].nmeta = NumMeta(s, v)
  BY <1>1, <1>3, <1>4
<1> QED BY <1>2, <1>5 DEF NativeCallsExact, Num, NumMeta

LEMMA CountIs ==
    ASSUME NEW s, s = cstack', \A v \in VMs : vm'[v].nnative = Num(s, v) /\ vm'[v].nmeta = NumMeta(s, v)
    PROVE  NativeCallsExact'
BY DEF NativeCallsExact, Num, NumMeta

LEMMA CountPush ==
    ASSUME Shape, NativeCallsExact, NEW u \in VMs, NEW a \in Act, a.vm = u, Only(u),
           vm'[u].nnative = vm[u].nnative + 1, vm'[u].nmeta = vm[u].nmeta + One(a.for), cstack' = Append(cstack, a)
    PROVE  NativeCallsExact'
PROOF
<1>1. \A v \in VMs : vm[v].nnative = Num(cstack, v) /\ vm[v].nmeta = NumMeta(cstack, v)
  BY DEF NativeCallsExact, Num, NumMeta
<1>2. PICK s, o : s = cstack' /\ o = One(a.for) OBVIOUS
<1>3. \A v \in VMs : /\ Num(s, v) = Num(cstack, v) + (IF u = v THEN 1 ELSE 0)
                     /\ NumMeta(s, v) = NumMeta(cstack, v) + (IF u = v THEN o ELSE 0)
  BY <1>2, NumAppend, NumTypes DEF Shape, One
<1>4. \A v \in VMs : /\ vm'[v].nnative = vm[v].nnative + (IF u = v THEN 1 ELSE 0)
                     /\ vm'[v].nmeta = vm[v].nmeta + (IF u = v THEN o ELSE 0)
  <2>1. \A v \in VMs : vm[v].nnative \in Int /\ vm[v].nmeta \in Int BY DEF Shape, VMShape
  <2>2. o \in Int BY <1>2 DEF One
  <2>3. Only(u) /\ vm'[u].nnative = vm[u].nnative + 1 /\ vm'[u].nmeta = vm[u].nmeta + o
    BY <1>2
  <2>4. ASSUME NEW v \in VMs, u # v PROVE vm'[v] = vm[v] BY <2>3, <2>4 DEF Only
  <2>5. ASSUME NEW v \in VMs, u # v
        PROVE  vm'[v].nnative = vm[v].nnative + 0 /\ vm'[v].nmeta = vm[v].nmeta + 0
    BY <2>1, <2>4, <2>5
  <2>6. ASSUME NEW v \in VMs
        PROVE  /\ vm'[v].nnative = vm[v].nnative + (IF u = v THEN 1 ELSE 0)
               /\ vm'[v].nmeta = vm[v].nmeta + (IF u = v THEN o ELSE 0)
    <3>1. CASE u = v BY <2>3, <3>1
    <3>2. CASE u # v BY <2>5, <3>2
    <3> QED BY <3>1, <3>2
  <2> QED BY <2>6
<1>5. \A v \in VMs : vm'[v].nnative = Num(s, v) /\ vm'[v].nmeta = NumMeta(s, v)
  BY <1>1, <1>3, <1>4
<1> QED BY <1>2, <1>5, CountIs

LEMMA CountPop ==
    ASSUME Shape, NativeCallsExact, cstack # <<>>, NEW calls, NEW alloc, NEW etraps,
           Eff(Top.vm, calls, alloc, etraps, -1, -One(Top.for)), Alike(Front(cstack), cstack')
    PROVE  NativeCallsExact'
PROOF
<1>1. \A v \in VMs : vm[v].nnative = Num(cstack, v) /\ vm[v].nmeta = NumMeta(cstack, v)
  BY DEF NativeCallsExact, Num, NumMeta
<1>2. PICK s, f, u, o : s = cstack' /\ f = Front(cstack) /\ u = Top.vm /\ o = One(Top.for) OBVIOUS
<1>3. \A v \in VMs : Num(s, v) = Num(f, v) /\ NumMeta(s, v) = NumMeta(f, v)
  BY <1>2, NumAlike
<1>4. \A v \in VMs : /\ Num(f, v) = Num(cstack, v) - (IF u = v THEN 1 ELSE 0)
                     /\ NumMeta(f, v) = NumMeta(cstack, v) - (IF u = v THEN o ELSE 0)
  <2>1. ASSUME NEW v \in VMs
        PROVE  /\ Num(f, v) = Num(cstack, v) - (IF u = v THEN 1 ELSE 0)
               /\ NumMeta(f, v) = NumMeta(cstack, v) - (IF u = v THEN o ELSE 0)
    <3>1. Num(cstack, v) \in Nat /\ NumMeta(cstack, v) \in Nat BY NumTypes DEF Shape
    <3>2. /\ Num(f, v) = Num(cstack, v) - (IF u = v THEN 1 ELSE 0)
          /\ NumMeta(f, v) = NumMeta(cstack, v) - (IF u = v /\ Top.for = "meta" THEN 1 ELSE 0)
      BY <1>2, NumFront DEF Shape, Top
    <3> QED BY <1>2, <3>1, <3>2 DEF One
  <2> QED BY <2>1
<1>5. \A v \in VMs : /\ vm'[v].nnative = vm[v].nnative - (IF u = v THEN 1 ELSE 0)
                     /\ vm'[v].nmeta = vm[v].nmeta - (IF u = v THEN o ELSE 0)
  <2>1. \A v \in VMs : vm[v].nnative \in Int /\ vm[v].nmeta \in Int BY DEF Shape, VMShape
  <2>2. o \in Int BY <1>2 DEF One
  <2>3. /\ Only(u) /\ vm'[u].nnative = vm[u].nnative + -1 /\ vm'[u].nmeta = vm[u].nmeta + -o
    BY <1>2 DEF Eff, Is
  <2> QED BY <2>1, <2>2, <2>3 DEF Only
<1>6. \A v \in VMs : vm'[v].nnative = Num(s, v) /\ vm'[v].nmeta = NumMeta(s, v)
  BY <1>1, <1>3, <1>4, <1>5
<1> QED BY <1>2, <1>6 DEF NativeCallsExact, Num, NumMeta

LEMMA StackKeep ==
    ASSUME Shape, StackInv, cstack = <<>> \/ Top.fn # "suspend", Alike(cstack, cstack')
    PROVE  StackInv'
PROOF
<1>1. \A i \in 1 .. Len(cstack) : cstack[i].fn # "suspend"
  BY TopType DEF StackInv, SuspendTop
<1>2. /\ Len(cstack') = Len(cstack)
      /\ \A i \in 1 .. Len(cstack) : /\ cstack'[i].kind = cstack[i].kind /\ cstack'[i].vm = cstack[i].vm
                                     /\ cstack'[i].for = cstack[i].for /\ cstack'[i].fn = cstack[i].fn
  BY DEF Alike
<1>3. Called' BY <1>2 DEF StackInv, Called, Shape
<1>4. SuspendTop' BY <1>1, <1>2 DEF SuspendTop
<1>5. ExecuteFn' BY <1>2 DEF StackInv, ExecuteFn
<1> QED BY <1>3, <1>4, <1>5 DEF StackInv

LEMMA StackPush ==
    ASSUME Shape, StackInv, cstack = <<>> \/ Top.fn # "suspend", NEW a \in Act,
           a.for # "host" => cstack # <<>> /\ Top.vm = a.vm /\ Top.kind = "execute",
           a.fn = "suspend" /\ a.for = "opcall" => Len(vm'[a.vm].calls) > 1,
           a.kind = "execute" => a.fn = "none",
           cstack' = Append(cstack, a)
    PROVE  StackInv'
PROOF
<1>1. \A i \in 1 .. Len(cstack) : cstack[i].fn # "suspend"
  BY TopType DEF StackInv, SuspendTop
<1>2. PICK n : n = Len(cstack) OBVIOUS
<1>3. n \in Nat /\ Len(cstack') = n + 1 /\ cstack'[n + 1] = a /\ \A i \in 1 .. n : cstack'[i] = cstack[i]
  BY <1>2 DEF Shape
<1>4. Called'
  <2>1. ASSUME NEW i \in 1 .. n + 1, cstack'[i].for # "host"
        PROVE  i > 1 /\ cstack'[i - 1].vm = cstack'[i].vm /\ cstack'[i - 1].kind = "execute"
    <3>1. CASE i \in 1 .. n
      <4>1. i > 1 /\ cstack[i - 1].vm = cstack[i].vm /\ cstack[i - 1].kind = "execute"
        BY <1>2, <1>3, <2>1, <3>1 DEF StackInv, Called
      <4>2. i - 1 \in 1 .. n BY <1>3, <3>1, <4>1
      <4> QED BY <1>3, <3>1, <4>1, <4>2
    <3>2. CASE i = n + 1
      <4>1. cstack # <<>> /\ Top.vm = a.vm /\ Top.kind = "execute" BY <1>3, <2>1, <3>2
      <4>2. n \in 1 .. n /\ Top = cstack[n] BY <1>2, <4>1, TopType
      <4> QED BY <1>3, <3>2, <4>1, <4>2
    <3> QED BY <1>3, <3>1, <3>2
  <2> QED BY <1>3, <2>1 DEF Called
<1>5. SuspendTop'
  <2>1. ASSUME NEW i \in 1 .. n + 1, cstack'[i].fn = "suspend"
        PROVE  i = n + 1 /\ cstack'[i] = a
    BY <1>1, <1>2, <1>3, <2>1
  <2> QED BY <1>3, <2>1 DEF SuspendTop
<1>6. ExecuteFn' BY <1>2, <1>3 DEF StackInv, ExecuteFn
<1> QED BY <1>4, <1>5, <1>6 DEF StackInv

LEMMA StackPop ==
    ASSUME Shape, StackInv, cstack # <<>>, Alike(Front(cstack), cstack')
    PROVE  StackInv'
PROOF
<1>1. PICK n : n = Len(cstack) - 1 OBVIOUS
<1>2. /\ n \in Nat /\ n + 1 = Len(cstack) /\ Len(cstack') = n
      /\ \A i \in 1 .. n : /\ cstack'[i].kind = cstack[i].kind /\ cstack'[i].vm = cstack[i].vm
                           /\ cstack'[i].for = cstack[i].for /\ cstack'[i].fn = cstack[i].fn
  BY <1>1, TopType DEF Alike
<1>3. Called' BY <1>2 DEF StackInv, Called
<1>4. SuspendTop'
  <2>1. \A i \in 1 .. n : cstack[i].fn # "suspend" BY <1>2 DEF StackInv, SuspendTop
  <2> QED BY <1>2, <2>1 DEF SuspendTop
<1>5. ExecuteFn' BY <1>2 DEF StackInv, ExecuteFn
<1> QED BY <1>3, <1>4, <1>5 DEF StackInv

-----------------------------------------------------------------------------
(* Generators.                                                             *)

GenOK == DOMAIN gen = Gens /\ \A g \in Gens : GenShape(gen[g])

\* No frame of u runs a generator that it did not run.
Kept(u, calls) ==
    \A i \in 1 .. Len(calls) :
        \/ calls[i].gen = None
        \/ i \in 1 .. Len(vm[u].calls) /\ calls[i].gen = vm[u].calls[i].gen

\* A generator stops only if its frame is one of those left.
StopsLeft(u, n) ==
    \A g \in Gens : gen[g].state = "running" =>
        \/ gen'[g].state = "running"
        \/ \E i \in n + 1 .. Len(vm[u].calls) : vm[u].calls[i].gen = g

LEMMA GenFact ==
    ASSUME GenFrames, NEW v \in VMs, NEW i \in 1 .. Len(vm[v].calls), vm[v].calls[i].gen # None
    PROVE  gen[vm[v].calls[i].gen].state = "running"
BY DEF GenFrames, GenRuns

LEMMA GenUnique ==
    ASSUME GenFrames, NEW v \in VMs, NEW i \in 1 .. Len(vm[v].calls), vm[v].calls[i].gen # None,
           NEW w \in VMs, NEW j \in 1 .. Len(vm[w].calls), vm[w].calls[j].gen = vm[v].calls[i].gen
    PROVE  v = w /\ i = j
BY DEF GenFrames, GenOnce

LEMMA GenStep ==
    ASSUME Shape, GenFrames, NEW u \in VMs, NEW calls \in Seq(FrameG), Only(u), vm'[u].calls = calls,
           Kept(u, calls), StopsLeft(u, Len(calls))
    PROVE  GenFrames'
PROOF
<1> DEFINE Old(v, i) == vm[v].calls[i].gen
<1>1. ASSUME NEW v \in VMs, NEW i \in 1 .. Len(vm'[v].calls), vm'[v].calls[i].gen # None
      PROVE  /\ i \in 1 .. Len(vm[v].calls) /\ vm'[v].calls[i].gen = vm[v].calls[i].gen
             /\ vm[v].calls[i].gen \in Gens
  <2>1. i \in 1 .. Len(vm[v].calls) /\ vm'[v].calls[i].gen = vm[v].calls[i].gen
    BY <1>1 DEF Only, Kept
  <2>2. vm[v].calls \in Seq(FrameG) BY DEF Shape, VMShape
  <2>3. vm[v].calls[i] \in FrameG BY <2>1, <2>2
  <2> QED BY <1>1, <2>1, <2>3 DEF FrameG
<1>2. ASSUME NEW v \in VMs, NEW i \in 1 .. Len(vm'[v].calls), vm'[v].calls[i].gen # None
      PROVE  gen'[vm'[v].calls[i].gen].state = "running"
  <2>1. PICK g : g = vm[v].calls[i].gen OBVIOUS
  <2>2. g \in Gens /\ g = vm'[v].calls[i].gen /\ i \in 1 .. Len(vm[v].calls) /\ g # None
    BY <1>1, <1>2, <2>1
  <2>3. gen[g].state = "running" BY <2>1, <2>2, GenFact
  <2>4. CASE gen'[g].state = "running" BY <2>2, <2>4
  <2>5. CASE \E j \in Len(calls) + 1 .. Len(vm[u].calls) : vm[u].calls[j].gen = g
    <3>1. PICK j \in Len(calls) + 1 .. Len(vm[u].calls) : vm[u].calls[j].gen = g BY <2>5
    <3>2. Len(calls) \in Nat /\ Len(vm[u].calls) \in Nat BY DEF Shape, VMShape
    <3>3. j \in 1 .. Len(vm[u].calls) /\ j > Len(calls) BY <3>1, <3>2
    <3>4. vm[u].calls[j].gen = vm[v].calls[i].gen /\ vm[v].calls[i].gen # None /\ i \in 1 .. Len(vm[v].calls)
      BY <2>1, <2>2, <3>1
    <3>5. v = u /\ i = j BY <3>3, <3>4, GenUnique
    <3> QED BY <1>2, <3>2, <3>3, <3>5
  <2> QED BY <2>2, <2>3, <2>4, <2>5 DEF StopsLeft
<1>3. ASSUME NEW v \in VMs, NEW w \in VMs, NEW i \in 1 .. Len(vm'[v].calls),
             NEW j \in 1 .. Len(vm'[w].calls), vm'[v].calls[i].gen # None,
             vm'[w].calls[j].gen = vm'[v].calls[i].gen
      PROVE  v = w /\ i = j
  <2>1. i \in 1 .. Len(vm[v].calls) /\ vm'[v].calls[i].gen = vm[v].calls[i].gen BY <1>1, <1>3
  <2>2. j \in 1 .. Len(vm[w].calls) /\ vm'[w].calls[j].gen = vm[w].calls[j].gen BY <1>1, <1>3
  <2> QED BY <1>3, <2>1, <2>2, GenUnique
<1> QED BY <1>2, <1>3 DEF GenFrames, GenRuns, GenOnce

Started(g) == gen' = [gen EXCEPT ![g] = [state |-> "running", etraps |-> <<>>, root |-> FALSE]]

LEMMA GenResume ==
    ASSUME Shape, GenFrames, NEW u \in VMs, NEW f \in FrameG, NEW g \in Gens, Only(u),
           vm'[u].calls = Append(vm[u].calls, f), f.gen = g, gen[g].state = "suspended", Started(g)
    PROVE  GenFrames'
PROOF
<1>1. DOMAIN gen = Gens BY DEF Shape
<1>2. gen'[g].state = "running" /\ \A h \in Gens \ {g} : gen'[h] = gen[h] BY <1>1 DEF Started
<1>3. PICK n : n = Len(vm[u].calls) OBVIOUS
<1>4. n \in Nat /\ Len(vm'[u].calls) = n + 1 /\ vm'[u].calls[n + 1] = f
      /\ \A i \in 1 .. n : vm'[u].calls[i] = vm[u].calls[i]
  BY <1>3 DEF Shape, VMShape
<1>5. ASSUME NEW v \in VMs, NEW i \in 1 .. Len(vm'[v].calls)
      PROVE  \/ v = u /\ i = n + 1
             \/ i \in 1 .. Len(vm[v].calls) /\ vm'[v].calls[i] = vm[v].calls[i]
  <2>1. CASE v # u
    <3>1. vm'[v] = vm[v] BY <2>1 DEF Only
    <3> QED BY <3>1
  <2>2. CASE v = u
    <3>1. i = n + 1 \/ i \in 1 .. n BY <1>4, <2>2
    <3> QED BY <1>3, <1>4, <2>2, <3>1
  <2> QED BY <2>1, <2>2
<1>6. ASSUME NEW v \in VMs, NEW i \in 1 .. Len(vm[v].calls)
      PROVE  /\ vm[v].calls[i].gen # g
             /\ vm[v].calls[i].gen # None => vm[v].calls[i].gen \in Gens /\ gen[vm[v].calls[i].gen].state = "running"
  <2>1. vm[v].calls \in Seq(FrameG) BY DEF Shape, VMShape
  <2>2. vm[v].calls[i] \in FrameG BY <2>1
  <2>3. vm[v].calls[i].gen # None => vm[v].calls[i].gen \in Gens /\ gen[vm[v].calls[i].gen].state = "running"
    BY <2>2, GenFact DEF FrameG
  <2>4. g # None BY NoneAssumption
  <2> QED BY <2>3, <2>4
<1>7. ASSUME NEW v \in VMs, NEW i \in 1 .. Len(vm'[v].calls), vm'[v].calls[i].gen # None
      PROVE  gen'[vm'[v].calls[i].gen].state = "running"
  <2>1. CASE v = u /\ i = n + 1 BY <1>2, <1>4, <2>1
  <2>2. CASE i \in 1 .. Len(vm[v].calls) /\ vm'[v].calls[i] = vm[v].calls[i]
    BY <1>2, <1>6, <1>7, <2>2
  <2> QED BY <1>5, <2>1, <2>2
<1>8. ASSUME NEW v \in VMs, NEW w \in VMs, NEW i \in 1 .. Len(vm'[v].calls),
             NEW j \in 1 .. Len(vm'[w].calls), vm'[v].calls[i].gen # None,
             vm'[w].calls[j].gen = vm'[v].calls[i].gen
      PROVE  v = w /\ i = j
  <2>1. CASE v = u /\ i = n + 1
    <3>1. vm'[w].calls[j].gen = g BY <1>4, <1>8, <2>1
    <3>2. ~(j \in 1 .. Len(vm[w].calls) /\ vm'[w].calls[j] = vm[w].calls[j]) BY <1>6, <3>1
    <3>3. w = u /\ j = n + 1 BY <1>5, <3>2
    <3> QED BY <2>1, <3>3
  <2>2. CASE w = u /\ j = n + 1
    <3>1. vm'[v].calls[i].gen = g BY <1>4, <1>8, <2>2
    <3>2. ~(i \in 1 .. Len(vm[v].calls) /\ vm'[v].calls[i] = vm[v].calls[i]) BY <1>6, <3>1
    <3>3. v = u /\ i = n + 1 BY <1>5, <3>2
    <3> QED BY <2>2, <3>3
  <2>3. CASE /\ i \in 1 .. Len(vm[v].calls) /\ vm'[v].calls[i] = vm[v].calls[i]
             /\ j \in 1 .. Len(vm[w].calls) /\ vm'[w].calls[j] = vm[w].calls[j]
    BY <1>8, <2>3, GenUnique
  <2>4. \/ v = u /\ i = n + 1
        \/ i \in 1 .. Len(vm[v].calls) /\ vm'[v].calls[i] = vm[v].calls[i]
    BY <1>5
  <2>5. \/ w = u /\ j = n + 1
        \/ j \in 1 .. Len(vm[w].calls) /\ vm'[w].calls[j] = vm[w].calls[j]
    BY <1>5
  <2> QED BY <2>1, <2>2, <2>3, <2>4, <2>5
<1> QED BY <1>7, <1>8 DEF GenFrames, GenRuns, GenOnce

\* What a step does to the generators.
LEMMA GenSame ==
    ASSUME Shape, gen' = gen, NEW u, NEW n
    PROVE  GenOK' /\ StopsLeft(u, n)
BY DEF Shape, GenOK, StopsLeft

LEMMA GenBorn ==
    ASSUME Shape, NEW g \in Gens, gen[g].state = "none", gen' = [gen EXCEPT ![g].state = "suspended"],
           NEW u, NEW n
    PROVE  GenOK' /\ StopsLeft(u, n)
PROOF
<1>1. DOMAIN gen = Gens /\ \A h \in Gens : GenShape(gen[h]) BY DEF Shape
<1>2. PICK r : r = gen'[g] OBVIOUS
<1>3. /\ DOMAIN gen' = Gens /\ \A h \in Gens \ {g} : gen'[h] = gen[h]
      /\ r = [gen[g] EXCEPT !.state = "suspended"] BY <1>1, <1>2
<1>4. GenShape(r) BY <1>1, <1>3 DEF GenShape, GenStates
<1>5. GenOK' BY <1>1, <1>2, <1>3, <1>4 DEF GenOK
<1>6. ASSUME NEW h \in Gens, gen[h].state = "running" PROVE gen'[h].state = "running"
  <2>1. h # g BY <1>6
  <2> QED BY <1>3, <1>6, <2>1
<1> QED BY <1>5, <1>6 DEF StopsLeft

LEMMA GenSet ==
    ASSUME Shape, NEW g \in Gens, NEW r, GenShape(r), gen' = [gen EXCEPT ![g] = r]
    PROVE  GenOK' /\ gen'[g] = r /\ \A h \in Gens \ {g} : gen'[h] = gen[h]
PROOF
<1>1. DOMAIN gen = Gens /\ \A h \in Gens : GenShape(gen[h]) BY DEF Shape
<1> QED BY <1>1 DEF GenOK

LEMMA GenStarted ==
    ASSUME Shape, NEW g \in Gens, Started(g)
    PROVE  GenOK'
PROOF
<1>1. PICK r : r = [state |-> "running", etraps |-> <<>>, root |-> FALSE] OBVIOUS
<1>2. GenShape(r) BY <1>1 DEF GenShape, GenStates
<1> QED BY <1>1, <1>2, GenSet DEF Started

LEMMA GenKilled ==
    ASSUME Shape, NEW u \in VMs, NEW n \in 0 .. Len(vm[u].calls), NEW S,
           \A f \in S : \E i \in n + 1 .. Len(vm[u].calls) : f = vm[u].calls[i], gen' = Kill(gen, S)
    PROVE  GenOK' /\ StopsLeft(u, n)
PROOF
<1>1. DOMAIN gen = Gens /\ \A g \in Gens : GenShape(gen[g]) BY DEF Shape
<1>2. PICK d : d = [state |-> "dead", etraps |-> <<>>, root |-> FALSE] OBVIOUS
<1>3. GenShape(d) BY <1>2 DEF GenShape, GenStates
<1>4. ASSUME NEW g \in Gens
      PROVE  \/ gen'[g] = d /\ \E f \in S : f.gen = g
             \/ gen'[g] = gen[g]
  BY <1>2 DEF Kill
<1>5. DOMAIN gen' = Gens BY DEF Kill
<1>6. GenOK' BY <1>1, <1>3, <1>4, <1>5 DEF GenOK
<1>7. ASSUME NEW g \in Gens, gen[g].state = "running"
      PROVE  \/ gen'[g].state = "running"
             \/ \E i \in n + 1 .. Len(vm[u].calls) : vm[u].calls[i].gen = g
  BY <1>4, <1>7
<1> QED BY <1>6, <1>7 DEF StopsLeft

-----------------------------------------------------------------------------
(* Frames: what is entered, left and changed.                              *)

LEMMA EnterKept ==
    ASSUME Shape, NEW u \in VMs, NEW f \in FrameG, f.gen = None
    PROVE  Append(vm[u].calls, f) \in Seq(FrameG) /\ Kept(u, Append(vm[u].calls, f))
PROOF
<1>1. vm[u].calls \in Seq(FrameG) BY DEF Shape, VMShape
<1> QED BY <1>1 DEF Kept

LEMMA ChangeKept ==
    ASSUME Shape, NEW u \in VMs, NEW calls, DOMAIN calls = DOMAIN vm[u].calls,
           calls = [i \in DOMAIN vm[u].calls |-> calls[i]],
           \A i \in DOMAIN vm[u].calls : calls[i] \in FrameG /\ calls[i].gen = vm[u].calls[i].gen
    PROVE  calls \in Seq(FrameG) /\ Kept(u, calls) /\ Len(calls) = Len(vm[u].calls)
PROOF
<1>1. PICK c, n : c = vm[u].calls /\ n = Len(c) OBVIOUS
<1>2. c \in Seq(FrameG) /\ n \in Nat BY <1>1 DEF Shape, VMShape
<1>3. DOMAIN calls = 1 .. n /\ DOMAIN c = 1 .. n BY <1>1, <1>2
<1>4. Len(calls) = n BY <1>2, <1>3, LenOf
<1>5. calls \in [1 .. n -> FrameG] BY <1>1, <1>3
<1>6. PICK k \in Nat : calls \in [1 .. k -> FrameG] BY <1>2, <1>5
<1>7. calls \in Seq(FrameG) BY <1>6, SeqDef
<1> QED BY <1>1, <1>3, <1>4, <1>7 DEF Kept

LEMMA LeaveKept ==
    ASSUME Shape, NEW u \in VMs, NEW n \in 0 .. Len(vm[u].calls)
    PROVE  SubSeq(vm[u].calls, 1, n) \in Seq(FrameG) /\ Kept(u, SubSeq(vm[u].calls, 1, n))
           /\ Len(SubSeq(vm[u].calls, 1, n)) = n
PROOF
<1>1. PICK c, s : c = vm[u].calls /\ s = SubSeq(c, 1, n) OBVIOUS
<1>2. c \in Seq(FrameG) BY <1>1 DEF Shape, VMShape
<1>3. s \in Seq(FrameG) /\ Len(s) = n /\ \A i \in 1 .. n : s[i] = c[i] BY <1>1, <1>2, PrefixIs
<1> QED BY <1>1, <1>2, <1>3 DEF Kept

\* Front of an empty sequence is an empty sequence.
LEMMA FrontKept ==
    ASSUME Shape, NEW u \in VMs
    PROVE  /\ Front(vm[u].calls) \in Seq(FrameG) /\ Kept(u, Front(vm[u].calls))
           /\ Len(vm[u].calls) > 0 => Len(Front(vm[u].calls)) = Len(vm[u].calls) - 1
           /\ Len(vm[u].calls) = 0 => Len(Front(vm[u].calls)) = 0
PROOF
<1>1. PICK c : c = vm[u].calls OBVIOUS
<1>2. c \in Seq(FrameG) /\ Len(c) \in Nat BY <1>1 DEF Shape, VMShape
<1>3. CASE Len(c) > 0
  <2>1. Len(c) - 1 \in 0 .. Len(c) BY <1>2, <1>3
  <2> QED BY <1>1, <1>2, <1>3, <2>1, LeaveKept DEF Front
<1>4. CASE Len(c) = 0
  <2>1. Front(c) = <<>> BY <1>2, <1>4 DEF Front
  <2> QED BY <1>1, <1>4, <2>1 DEF Kept
<1> QED BY <1>1, <1>2, <1>3, <1>4

LEMMA FrameTypes ==
    /\ Frame \in FrameG /\ Frame.gen = None
    /\ NativeFrame \in FrameG /\ NativeFrame.gen = None
    /\ [Frame EXCEPT !.root = TRUE] \in FrameG /\ [Frame EXCEPT !.root = TRUE].gen = None
PROOF
<1>1. PICK f : f = Frame OBVIOUS
<1>2. f \in FrameG /\ f.gen = None BY <1>1 DEF Frame, FrameG
<1>3. PICK nf, r : nf = NativeFrame /\ r = [f EXCEPT !.root = TRUE] OBVIOUS
<1>4. nf \in FrameG /\ nf.gen = None BY <1>1, <1>2, <1>3 DEF NativeFrame, FrameG
<1>5. r \in FrameG /\ r.gen = None BY <1>2, <1>3 DEF FrameG
<1> QED BY <1>1, <1>2, <1>3, <1>4, <1>5

LEMMA NewActIn ==
    ASSUME NEW u \in VMs, NEW kind \in Kinds, NEW for \in Fors, NEW base \in Nat, NEW traps \in Int,
           NEW raise \in BOOLEAN, NEW mode \in Modes, NEW fn \in NativeFns \cup {"none"}, NEW a,
           a = NewAct(kind, u, for, base, traps, raise, mode, fn)
    PROVE  /\ a \in Act /\ a.vm = u /\ a.kind = kind /\ a.for = for /\ a.fn = fn
           /\ a.base = base /\ a.traps = traps /\ a.raise = raise /\ a.mode = mode
BY DEF NewAct, Act

-----------------------------------------------------------------------------
(* The invariant, by the kind of step.                                     *)

LEMMA KeepInv ==
    ASSUME GInv, NEW u \in VMs, NEW calls \in Seq(FrameG), NEW alloc, NEW etraps,
           Eff(u, calls, alloc, etraps, 0, 0), cstack' \in Seq(Act), Alike(cstack, cstack'),
           cstack = <<>> \/ Top.fn # "suspend", GenOK', GenFrames'
    PROVE  GInv'
PROOF
<1>1. Shape /\ NativeCallsExact /\ StackInv BY DEF GInv
<1>2. DOMAIN vm' = VMs /\ \A v \in VMs : VMShape(vm'[v]) BY <1>1, EffShape
<1>3. Shape' BY <1>2 DEF Shape, GenOK
<1>4. NativeCallsExact' BY <1>1, CountKeep
<1>5. StackInv' BY <1>1, StackKeep
<1> QED BY <1>3, <1>4, <1>5 DEF GInv

LEMMA PushInv ==
    ASSUME GInv, NEW u \in VMs, NEW calls \in Seq(FrameG), NEW alloc, NEW etraps, NEW a \in Act, a.vm = u,
           Eff(u, calls, alloc, etraps, 1, One(a.for)), cstack' = Append(cstack, a),
           cstack = <<>> \/ Top.fn # "suspend",
           a.for # "host" => cstack # <<>> /\ Top.vm = a.vm /\ Top.kind = "execute",
           a.fn = "suspend" /\ a.for = "opcall" => Len(calls) > 1,
           a.kind = "execute" => a.fn = "none", GenOK', GenFrames'
    PROVE  GInv'
PROOF
<1>1. Shape /\ NativeCallsExact /\ StackInv BY DEF GInv
<1>2. DOMAIN vm' = VMs /\ (\A v \in VMs : VMShape(vm'[v])) /\ vm'[u].calls = calls
  <2>1. One(a.for) \in Int BY DEF One
  <2> QED BY <1>1, <2>1, EffShape
<1>3. cstack' \in Seq(Act) BY <1>1 DEF Shape
<1>4. Shape' BY <1>2, <1>3 DEF Shape, GenOK
<1>5. NativeCallsExact' BY <1>1, CountPush DEF Eff, Is
<1>6. StackInv' BY <1>1, <1>2, StackPush
<1> QED BY <1>4, <1>5, <1>6 DEF GInv

LEMMA PopInv ==
    ASSUME GInv, cstack # <<>>, NEW calls \in Seq(FrameG), NEW alloc, NEW etraps,
           Eff(Top.vm, calls, alloc, etraps, -1, -One(Top.for)), NEW ok \in BOOLEAN,
           cstack' = Back(Front(cstack), Top.for, ok), GenOK', GenFrames'
    PROVE  GInv'
PROOF
<1>1. Shape /\ NativeCallsExact /\ StackInv BY DEF GInv
<1>2. Top.vm \in VMs /\ Top.for \in Fors /\ Front(cstack) \in Seq(Act) BY <1>1, TopType
<1>3. DOMAIN vm' = VMs /\ (\A v \in VMs : VMShape(vm'[v]))
  <2>1. PICK u : u = Top.vm OBVIOUS
  <2>2. PICK dm : dm = -One(Top.for) OBVIOUS
  <2>3. u \in VMs /\ dm \in Int BY <1>2, <2>1, <2>2 DEF One
  <2>4. Eff(u, calls, alloc, etraps, -1, dm) BY <2>1, <2>2
  <2> QED BY <1>1, <2>3, <2>4, EffShape
<1>4. cstack' \in Seq(Act) /\ Alike(Front(cstack), cstack')
  <2>1. PICK f : f = Front(cstack) OBVIOUS
  <2>2. cstack' = Back(f, Top.for, ok) BY <2>1
  <2>3. Back(f, Top.for, ok) \in Seq(Act) /\ Alike(f, Back(f, Top.for, ok)) BY <1>2, <2>1, BackTop
  <2> QED BY <2>1, <2>2, <2>3
<1>5. Shape' BY <1>3, <1>4 DEF Shape, GenOK
<1>6. NativeCallsExact' BY <1>1, <1>4, CountPop
<1>7. StackInv' BY <1>1, <1>4, StackPop
<1> QED BY <1>5, <1>6, <1>7 DEF GInv

-----------------------------------------------------------------------------
(* The invariant, by action.                                               *)

\* Whoever calls for this reason: the host, or an Execute of this VM.
MayCall(u, for) ==
    /\ cstack = <<>> \/ Top.fn # "suspend"
    /\ for # "host" => cstack # <<>> /\ Top.vm = u /\ Top.kind = "execute"

LEMMA CallNativeInv ==
    ASSUME GInv, NEW u \in VMs, NEW for \in Fors, NEW fn \in NativeFns, CallNative(u, for, fn),
           MayCall(u, for), for = "opcall" => Len(vm[u].calls) > 0
    PROVE  GInv'
PROOF
<1>1. Shape /\ GenFrames BY DEF GInv
<1>2. PICK a : a = NewAct("native", u, for, Len(vm[u].calls), 0, FALSE, "run", fn) OBVIOUS
<1>3. /\ Eff(u, Append(vm[u].calls, NativeFrame), Grown(vm[u]), vm[u].etraps, 1, One(for))
      /\ cstack' = Append(cstack, a) /\ gen' = gen
  BY <1>1, <1>2, CallNativeEff
<1>4. vm[u].calls \in Seq(FrameG) /\ Len(vm[u].calls) \in Nat BY <1>1 DEF Shape, VMShape
<1>5. a \in Act /\ a.vm = u /\ a.kind = "native" /\ a.for = for /\ a.fn = fn
  <2>1. "native" \in Kinds /\ "run" \in Modes /\ 0 \in Int /\ FALSE \in BOOLEAN /\ fn \in NativeFns \cup {"none"}
    BY DEF Kinds, Modes
  <2> QED BY <1>2, <1>4, <2>1 DEF NewAct, Act
<1>6. PICK calls : calls = Append(vm[u].calls, NativeFrame) OBVIOUS
<1>7. calls \in Seq(FrameG) /\ Kept(u, calls) BY <1>1, <1>6, FrameTypes, EnterKept
<1>8. Len(calls) = Len(vm[u].calls) + 1 BY <1>4, <1>6
<1>9. Only(u) /\ vm'[u].calls = calls BY <1>3, <1>6 DEF Eff, Is
<1>10. GenOK' /\ StopsLeft(u, Len(calls)) BY <1>1, <1>3, GenSame
<1>11. GenFrames' BY <1>1, <1>7, <1>9, <1>10, GenStep
<1>12. a.for # "host" => cstack # <<>> /\ Top.vm = a.vm /\ Top.kind = "execute" BY <1>5 DEF MayCall
<1>13. a.fn = "suspend" /\ a.for = "opcall" => Len(calls) > 1 BY <1>4, <1>5, <1>8
<1>14. Eff(u, calls, Grown(vm[u]), vm[u].etraps, 1, One(a.for)) BY <1>3, <1>5, <1>6
<1> QED BY <1>3, <1>5, <1>7, <1>10, <1>11, <1>12, <1>13, <1>14, PushInv DEF MayCall

LEMMA CallExecuteInv ==
    ASSUME GInv, NEW u \in VMs, NEW for \in Fors, NEW calls \in Seq(FrameG), Kept(u, calls), NEW alloc, NEW etraps,
           Eff(u, calls, alloc, etraps, 1, One(for)), MayCall(u, for),
           GenOK', StopsLeft(u, Len(calls)),
           NEW base \in Nat, NEW traps \in Int, NEW raise \in BOOLEAN, NEW mode \in Modes,
           cstack' = Append(cstack, NewAct("execute", u, for, base, traps, raise, mode, "none"))
    PROVE  GInv'
PROOF
<1>1. Shape /\ GenFrames BY DEF GInv
<1>2. PICK a : a = NewAct("execute", u, for, base, traps, raise, mode, "none") OBVIOUS
<1>3. cstack' = Append(cstack, a) BY <1>2
<1>4. a \in Act /\ a.vm = u /\ a.kind = "execute" /\ a.for = for /\ a.fn = "none"
  BY <1>2, NewActIn DEF Kinds
<1>5. Only(u) /\ vm'[u].calls = calls BY DEF Eff, Is
<1>6. GenFrames' BY <1>1, <1>5, GenStep
<1>7. a.for # "host" => cstack # <<>> /\ Top.vm = a.vm /\ Top.kind = "execute" BY <1>4 DEF MayCall
<1>8. Eff(u, calls, alloc, etraps, 1, One(a.for)) BY <1>4
<1> QED BY <1>3, <1>4, <1>6, <1>7, <1>8, PushInv DEF MayCall

\* The call has returned at once, or another change of a VM without a call.
LEMMA AtOnceInv ==
    ASSUME GInv, NEW u \in VMs, NEW for \in Fors, NEW ok \in BOOLEAN,
           NEW calls \in Seq(FrameG), Kept(u, calls), NEW alloc, NEW etraps,
           Eff(u, calls, alloc, etraps, 0, 0), cstack = <<>> \/ Top.fn # "suspend",
           GenOK', StopsLeft(u, Len(calls)), cstack' = Back(cstack, for, ok)
    PROVE  GInv'
PROOF
<1>1. Shape /\ GenFrames BY DEF GInv
<1>2. cstack \in Seq(Act) BY <1>1 DEF Shape
<1>3. cstack' \in Seq(Act) /\ Alike(cstack, cstack') BY <1>2, BackTop
<1>4. Only(u) /\ vm'[u].calls = calls BY DEF Eff, Is
<1>5. GenFrames' BY <1>1, <1>4, GenStep
<1> QED BY <1>3, <1>5, KeepInv

LEMMA SelfKept ==
    ASSUME Shape, NEW u \in VMs
    PROVE  vm[u].calls \in Seq(FrameG) /\ Kept(u, vm[u].calls) /\ Len(vm[u].calls) \in Nat
BY DEF Shape, VMShape, Kept

\* The last frame is made a root; there need not be one.
LEMMA RootKept ==
    ASSUME Shape, NEW u \in VMs, NEW root \in BOOLEAN, NEW calls,
           calls = [vm[u].calls EXCEPT ![Len(vm[u].calls)].root = root]
    PROVE  calls \in Seq(FrameG) /\ Kept(u, calls) /\ Len(calls) = Len(vm[u].calls)
PROOF
<1>1. PICK c, n : c = vm[u].calls /\ n = Len(vm[u].calls) OBVIOUS
<1>2. calls = [c EXCEPT ![n].root = root] BY <1>1
<1>3. c \in Seq(FrameG) BY <1>1, SelfKept
<1>4. DOMAIN calls = DOMAIN c /\ calls = [i \in DOMAIN c |-> calls[i]] BY <1>2, <1>3
<1>5. ASSUME NEW i \in DOMAIN c PROVE calls[i] \in FrameG /\ calls[i].gen = c[i].gen
  <2>1. c[i] \in FrameG BY <1>3
  <2>2. CASE i # n BY <1>2, <2>1, <2>2
  <2>3. CASE i = n
    <3>1. calls[i] = [c[i] EXCEPT !.root = root] BY <1>2, <2>3
    <3> QED BY <2>1, <3>1 DEF FrameG
  <2> QED BY <2>2, <2>3
<1>6. /\ DOMAIN calls = DOMAIN vm[u].calls /\ calls = [i \in DOMAIN vm[u].calls |-> calls[i]]
      /\ \A i \in DOMAIN vm[u].calls : calls[i] \in FrameG /\ calls[i].gen = vm[u].calls[i].gen
  BY <1>1, <1>4, <1>5
<1> QED BY <1>6, ChangeKept

LEMMA CallInv ==
    ASSUME GInv, NEW u \in VMs, NEW for \in Fors \ {"opcall"}, NEW raise \in BOOLEAN, Call(u, for, raise),
           MayCall(u, for)
    PROVE  GInv'
PROOF
<1>1. Shape /\ vm[u].calls \in Seq(FrameG) /\ Kept(u, vm[u].calls) /\ Len(vm[u].calls) \in Nat
  BY SelfKept DEF GInv
<1>2. CASE CallScript(u, for, raise)
  <2>1. PICK calls : calls = Append(vm[u].calls, [Frame EXCEPT !.root = TRUE]) OBVIOUS
  <2>2. calls \in Seq(FrameG) /\ Kept(u, calls) BY <1>1, <2>1, FrameTypes, EnterKept
  <2>3. /\ Eff(u, calls, Grown(vm[u]), vm[u].etraps, 1, One(for)) /\ gen' = gen
        /\ cstack' = Append(cstack, NewAct("execute", u, for, Len(vm[u].calls), 0, raise, "run", "none"))
    BY <1>1, <1>2, <2>1, CallScriptEff
  <2>4. GenOK' /\ StopsLeft(u, Len(calls)) BY <1>1, <2>3, GenSame
  <2>5. "run" \in Modes BY DEF Modes
  <2> QED BY <1>1, <2>2, <2>3, <2>4, <2>5, CallExecuteInv
<1>3. CASE CallBadly(u, for)
  <2>1. PICK mode : mode = IF Len(vm[u].calls) = 0 THEN "startraise" ELSE "startfail" OBVIOUS
  <2>2. /\ Eff(u, vm[u].calls, vm[u].alloc, vm[u].etraps, 1, One(for)) /\ gen' = gen
        /\ cstack' = Append(cstack, NewAct("execute", u, for, Len(vm[u].calls), 0, FALSE, mode, "none"))
    BY <1>1, <1>3, <2>1, CallBadlyEff
  <2>3. GenOK' /\ StopsLeft(u, Len(vm[u].calls)) BY <1>1, <2>2, GenSame
  <2>4. mode \in Modes /\ 0 \in Int /\ FALSE \in BOOLEAN BY <2>1 DEF Modes
  <2>5. Eff(u, vm[u].calls, vm[u].alloc, vm[u].etraps, 1, One(for)) BY <2>2
  <2>6. cstack' = Append(cstack, NewAct("execute", u, for, Len(vm[u].calls), 0, FALSE, mode, "none"))
    BY <2>2
  <2> QED BY <1>1, <2>3, <2>4, <2>5, <2>6, CallExecuteInv
<1>4. ASSUME NEW g \in Gens, CallGenerator(u, for, g) PROVE GInv'
  <2>1. /\ Eff(u, vm[u].calls, Grown(vm[u]), vm[u].etraps, 0, 0) /\ cstack' = Back(cstack, for, TRUE)
        /\ gen[g].state = "none" /\ gen' = [gen EXCEPT ![g].state = "suspended"]
    BY <1>1, <1>4, CallGeneratorEff
  <2>2. GenOK' /\ StopsLeft(u, Len(vm[u].calls)) BY <1>1, <2>1, GenBorn
  <2> QED BY <1>1, <2>1, <2>2, AtOnceInv DEF MayCall
<1>5. ASSUME NEW g \in Gens, CallGeneratorMoved(u, for, raise, g) PROVE GInv'
  <2>1. PICK calls : calls = [vm[u].calls EXCEPT ![Len(vm[u].calls)].root = TRUE] OBVIOUS
  <2>2. /\ Eff(u, calls, Grown(vm[u]), vm[u].etraps, 1, One(for))
        /\ cstack' = Append(cstack, NewAct("execute", u, for, Len(vm[u].calls), 0, raise, "run", "none"))
    BY <1>1, <1>5, <2>1, CallGeneratorMovedEff
  <2>3. gen[g].state = "none" /\ gen' = [gen EXCEPT ![g].state = "suspended"]
    BY <1>1, <1>5, CallGeneratorMovedEff
  <2>4. calls \in Seq(FrameG) /\ Kept(u, calls) BY <1>1, <2>1, RootKept
  <2>5. GenOK' /\ StopsLeft(u, Len(calls)) BY <1>1, <2>3, GenBorn
  <2>6. "run" \in Modes /\ 0 \in Int BY DEF Modes
  <2> QED BY <1>1, <2>2, <2>4, <2>5, <2>6, CallExecuteInv
<1>6. ASSUME NEW fn \in NativeFns, CallNative(u, for, fn) PROVE GInv'
  BY <1>6, CallNativeInv
<1>7. CASE CallRefused(for)
  <2>1. cstack' = Back(cstack, for, FALSE) /\ vm' = vm /\ gen' = gen BY <1>7 DEF CallRefused, AtOnce
  <2>2. Eff(u, vm[u].calls, vm[u].alloc, vm[u].etraps, 0, 0) BY <1>1, <2>1, SameEff
  <2>3. GenOK' /\ StopsLeft(u, Len(vm[u].calls)) BY <1>1, <2>1, GenSame
  <2> QED BY <1>1, <2>1, <2>2, <2>3, AtOnceInv DEF MayCall
<1>8. CASE CallOverflows(u, for)
  <2>1. PICK calls : calls = Append(vm[u].calls, NativeFrame) OBVIOUS
  <2>2. calls \in Seq(FrameG) /\ Kept(u, calls) BY <1>1, <2>1, FrameTypes, EnterKept
  <2>3. /\ Eff(u, calls, Grown(vm[u]), vm[u].etraps, 0, 0) /\ gen' = gen
        /\ cstack' = Back(cstack, for, FALSE)
    BY <1>1, <1>8, <2>1, CallOverflowsEff
  <2>4. GenOK' /\ StopsLeft(u, Len(calls)) BY <1>1, <2>3, GenSame
  <2> QED BY <1>1, <2>2, <2>3, <2>4, AtOnceInv DEF MayCall
<1> QED BY <1>2, <1>3, <1>4, <1>5, <1>6, <1>7, <1>8 DEF Call

\* A step of the Execute on top that calls nothing and does not return.
StaysOn == cstack' = cstack \/ Throw \/ \E n \in Int : cstack' = AddTraps(n)

LEMMA ExecuteTop ==
    ASSUME GInv, Runs("execute")
    PROVE  /\ Shape /\ cstack # <<>> /\ Top.kind = "execute" /\ Top.vm \in VMs /\ Top.fn = "none"
           /\ \A for : MayCall(Top.vm, for)
PROOF
<1>1. Shape /\ ExecuteFn /\ cstack # <<>> /\ Top.kind = "execute" BY DEF GInv, StackInv, Runs
<1>2. Len(cstack) \in 1 .. Len(cstack) /\ Top = cstack[Len(cstack)] /\ Top.vm \in VMs BY <1>1, TopType
<1>3. Top.fn = "none" BY <1>1, <1>2 DEF ExecuteFn
<1> QED BY <1>1, <1>2, <1>3 DEF MayCall

LEMMA StayInv ==
    ASSUME GInv, Runs("execute"), NEW u \in VMs, NEW calls \in Seq(FrameG), NEW alloc, NEW etraps,
           Eff(u, calls, alloc, etraps, 0, 0), StaysOn, GenOK', GenFrames'
    PROVE  GInv'
PROOF
<1>1. Shape /\ cstack # <<>> /\ Top.fn # "suspend" BY ExecuteTop
<1>2. cstack' \in Seq(Act) /\ Alike(cstack, cstack')
  <2>1. CASE cstack' = cstack BY <1>1, <2>1 DEF Shape, Alike
  <2>2. CASE Throw BY <1>1, <2>2, ThrowTop
  <2>3. ASSUME NEW n \in Int, cstack' = AddTraps(n) PROVE cstack' \in Seq(Act) /\ Alike(cstack, cstack')
    BY <1>1, <2>3, AddTrapsTop
  <2> QED BY <2>1, <2>2, <2>3 DEF StaysOn
<1> QED BY <1>1, <1>2, KeepInv

LEMMA StayKeptInv ==
    ASSUME GInv, Runs("execute"), NEW u \in VMs, NEW calls \in Seq(FrameG), Kept(u, calls), NEW alloc, NEW etraps,
           Eff(u, calls, alloc, etraps, 0, 0), StaysOn, GenOK', StopsLeft(u, Len(calls))
    PROVE  GInv'
PROOF
<1>1. Only(u) /\ vm'[u].calls = calls BY DEF Eff, Is
<1>2. GenFrames' BY <1>1, GenStep DEF GInv
<1> QED BY <1>2, StayInv

\* A change of one frame.
SetFrame(c, t, n, f) ==
    /\ t \in Seq(FrameG) /\ Len(t) = Len(c)
    /\ \A i \in 1 .. Len(c) : t[i] = IF i = n THEN f ELSE c[i]

LEMMA SetTraps ==
    ASSUME NEW c \in Seq(FrameG), NEW n \in 1 .. Len(c), NEW x \in Int, NEW t, t = [c EXCEPT ![n].etraps = x]
    PROVE  SetFrame(c, t, n, [code |-> c[n].code, root |-> c[n].root, gen |-> c[n].gen, etraps |-> x])
PROOF
<1>1. PICK f : f = [c[n] EXCEPT !.etraps = x] OBVIOUS
<1>2. c[n] \in FrameG OBVIOUS
<1>3. f \in FrameG /\ f = [code |-> c[n].code, root |-> c[n].root, gen |-> c[n].gen, etraps |-> x]
  BY <1>1, <1>2 DEF FrameG
<1>4. t = [c EXCEPT ![n] = f] BY <1>1
<1>5. t \in Seq(FrameG) /\ Len(t) = Len(c) /\ \A i \in 1 .. Len(c) : t[i] = IF i = n THEN f ELSE c[i]
  BY <1>3, <1>4, ExceptSeq
<1> QED BY <1>3, <1>5 DEF SetFrame

LEMMA SetIs ==
    ASSUME NEW c \in Seq(FrameG), NEW n \in 1 .. Len(c), NEW f \in FrameG, NEW t, t = [c EXCEPT ![n] = f]
    PROVE  SetFrame(c, t, n, f)
BY ExceptSeq DEF SetFrame

LEMMA SetCode ==
    ASSUME NEW c \in Seq(FrameG), NEW n \in 1 .. Len(c), NEW t, NEW yes, yes = TRUE, t = [c EXCEPT ![n].code = yes]
    PROVE  SetFrame(c, t, n, [code |-> TRUE, root |-> c[n].root, gen |-> c[n].gen, etraps |-> c[n].etraps])
PROOF
<1>1. PICK f : f = [c[n] EXCEPT !.code = yes] OBVIOUS
<1>2. c[n] \in FrameG OBVIOUS
<1>3. f \in FrameG /\ f = [code |-> TRUE, root |-> c[n].root, gen |-> c[n].gen, etraps |-> c[n].etraps]
  BY <1>1, <1>2 DEF FrameG
<1>4. t = [c EXCEPT ![n] = f] BY <1>1
<1>5. SetFrame(c, t, n, f) BY <1>3, <1>4, SetIs
<1> QED BY <1>3, <1>5

LEMMA SetKept ==
    ASSUME Shape, NEW u \in VMs, NEW k \in 0 .. Len(vm[u].calls), NEW c \in Seq(FrameG), Len(c) = k,
           \A i \in 1 .. k : c[i] = vm[u].calls[i], NEW n \in 1 .. k, NEW t, NEW f,
           SetFrame(c, t, n, f), f.gen = c[n].gen
    PROVE  t \in Seq(FrameG) /\ Kept(u, t) /\ Len(t) = k
PROOF
<1>1. t \in Seq(FrameG) /\ Len(t) = k BY DEF SetFrame
<1>2. Len(vm[u].calls) \in Nat BY SelfKept
<1>3. ASSUME NEW i \in 1 .. k
      PROVE  i \in 1 .. Len(vm[u].calls) /\ t[i].gen = vm[u].calls[i].gen
  <2>1. t[i] = IF i = n THEN f ELSE c[i] BY <1>3 DEF SetFrame
  <2>2. t[i].gen = c[i].gen BY <2>1
  <2> QED BY <1>2, <2>2
<1> QED BY <1>1, <1>3 DEF Kept

LEMMA RunningIs ==
    ASSUME GInv, NEW v \in VMs, Running(v)
    PROVE  /\ Shape /\ GenFrames /\ Runs("execute") /\ Top.vm = v /\ cstack # <<>>
           /\ Len(vm[v].calls) \in 1 .. Len(vm[v].calls) /\ vm[v].calls \in Seq(FrameG)
           /\ ci(v) = vm[v].calls[Len(vm[v].calls)] /\ ci(v) \in FrameG
           /\ \A for : MayCall(v, for)
PROOF
<1>1. Runs("execute") /\ Top.vm = v /\ cstack # <<>> /\ Len(vm[v].calls) > 0 BY DEF Running, Runs, Depth
<1>2. Shape /\ GenFrames BY DEF GInv
<1>3. vm[v].calls \in Seq(FrameG) /\ Len(vm[v].calls) \in Nat BY <1>2, SelfKept
<1>4. Len(vm[v].calls) \in 1 .. Len(vm[v].calls) BY <1>1, <1>3
<1>5. ci(v) = vm[v].calls[Len(vm[v].calls)] BY DEF ci, Depth
<1>6. ci(v) \in FrameG BY <1>3, <1>4, <1>5
<1> QED BY <1>1, <1>2, <1>3, <1>4, <1>5, <1>6, ExecuteTop

LEMMA ThrowInv ==
    ASSUME GInv, Runs("execute"), vm' = vm, gen' = gen, StaysOn
    PROVE  GInv'
PROOF
<1>1. PICK u : u = Top.vm OBVIOUS
<1>2. Shape /\ u \in VMs BY <1>1, ExecuteTop
<1>3. vm[u].calls \in Seq(FrameG) /\ Kept(u, vm[u].calls) BY <1>2, SelfKept
<1>4. Eff(u, vm[u].calls, vm[u].alloc, vm[u].etraps, 0, 0) BY <1>2, SameEff
<1>5. GenOK' /\ StopsLeft(u, Len(vm[u].calls)) BY <1>2, GenSame
<1> QED BY <1>2, <1>3, <1>4, <1>5, StayKeptInv

LEMMA EnterInv ==
    ASSUME GInv, Runs("execute"), NEW v \in VMs, NEW f \in FrameG, f.gen = None,
           vm' = [vm EXCEPT ![v] = EnterFrame(vm[v], f)], gen' = gen, StaysOn
    PROVE  GInv'
PROOF
<1>1. Shape BY DEF GInv
<1>2. PICK calls : calls = Append(vm[v].calls, f) OBVIOUS
<1>3. calls \in Seq(FrameG) /\ Kept(v, calls) BY <1>1, <1>2, EnterKept
<1>4. Eff(v, calls, Grown(vm[v]), vm[v].etraps, 0, 0) BY <1>1, <1>2, EnterEff
<1>5. GenOK' /\ StopsLeft(v, Len(calls)) BY <1>1, GenSame
<1> QED BY <1>3, <1>4, <1>5, StayKeptInv

LEMMA OpCallGeneratorInv ==
    ASSUME GInv, NEW v \in VMs, NEW g \in Gens, OpCallGenerator(v, g)
    PROVE  GInv'
PROOF
<1>1. Running(v) BY DEF OpCallGenerator
<1>2. Shape /\ Runs("execute") BY <1>1, RunningIs
<1>3. vm[v].calls \in Seq(FrameG) /\ Kept(v, vm[v].calls) BY <1>2, SelfKept
<1>4. Eff(v, vm[v].calls, Grown(vm[v]), vm[v].etraps, 0, 0) BY <1>2, GrowEff DEF OpCallGenerator
<1>5. GenOK' /\ StopsLeft(v, Len(vm[v].calls)) BY <1>2, GenBorn DEF OpCallGenerator
<1>6. StaysOn BY DEF StaysOn, OpCallGenerator
<1> QED BY <1>2, <1>3, <1>4, <1>5, <1>6, StayKeptInv

LEMMA OpPushTrapInv ==
    ASSUME GInv, NEW v \in VMs, OpPushTrap(v)
    PROVE  GInv'
PROOF
<1>1. Running(v) BY DEF OpPushTrap
<1>2. Shape /\ Runs("execute") BY <1>1, RunningIs
<1>3. PICK c, n, x : c = vm[v].calls /\ n = Len(c) /\ x = c[n].etraps + 1 OBVIOUS
<1>4. c \in Seq(FrameG) /\ n \in 1 .. Len(c) /\ n \in 0 .. Len(vm[v].calls) BY <1>1, <1>3, RunningIs
<1>5. x \in Int
  <2>1. c[n] \in FrameG BY <1>4
  <2> QED BY <1>3, <2>1 DEF FrameG
<1>6. PICK t : t = [c EXCEPT ![n].etraps = x] OBVIOUS
<1>7. t = [vm[v].calls EXCEPT ![Len(vm[v].calls)].etraps = @ + 1] BY <1>3, <1>4, <1>6
<1>8. SetFrame(c, t, n, [code |-> c[n].code, root |-> c[n].root, gen |-> c[n].gen, etraps |-> x])
  BY <1>4, <1>5, <1>6, SetTraps
<1>9. t \in Seq(FrameG) /\ Kept(v, t)
  BY <1>2, <1>3, <1>4, <1>8, SetKept
<1>10. PICK tr : tr = Append(vm[v].etraps, [at |-> Len(vm[v].calls), level |-> ci(v).etraps + 1]) OBVIOUS
<1>11. Eff(v, t, vm[v].alloc, tr, 0, 0) /\ cstack' = AddTraps(1) /\ gen' = gen
  BY <1>2, <1>7, <1>10, PushTrapEff
<1>12. StaysOn BY <1>11 DEF StaysOn
<1>13. GenOK' /\ StopsLeft(v, Len(t)) BY <1>2, <1>11, GenSame
<1> QED BY <1>2, <1>9, <1>11, <1>12, <1>13, StayKeptInv

LEMMA OpPopTrapInv ==
    ASSUME GInv, NEW v \in VMs, OpPopTrap(v)
    PROVE  GInv'
PROOF
<1>1. Running(v) BY DEF OpPopTrap
<1>2. Shape /\ Runs("execute") BY <1>1, RunningIs
<1>3. PICK c, n, x : c = vm[v].calls /\ n = Len(c) /\ x = c[n].etraps - 1 OBVIOUS
<1>4. c \in Seq(FrameG) /\ n \in 1 .. Len(c) /\ n \in 0 .. Len(vm[v].calls) BY <1>1, <1>3, RunningIs
<1>5. x \in Int
  <2>1. c[n] \in FrameG BY <1>4
  <2> QED BY <1>3, <2>1 DEF FrameG
<1>6. PICK t : t = [c EXCEPT ![n].etraps = x] OBVIOUS
<1>7. t = [vm[v].calls EXCEPT ![Len(vm[v].calls)].etraps = @ - 1] BY <1>3, <1>4, <1>6
<1>8. SetFrame(c, t, n, [code |-> c[n].code, root |-> c[n].root, gen |-> c[n].gen, etraps |-> x])
  BY <1>4, <1>5, <1>6, SetTraps
<1>9. t \in Seq(FrameG) /\ Kept(v, t)
  BY <1>2, <1>3, <1>4, <1>8, SetKept
<1>10. Eff(v, t, vm[v].alloc, Front(vm[v].etraps), 0, 0) /\ cstack' = AddTraps(-1) /\ gen' = gen
  BY <1>2, <1>7, PopTrapEff
<1>11. StaysOn BY <1>10 DEF StaysOn
<1>12. GenOK' /\ StopsLeft(v, Len(t)) BY <1>2, <1>10, GenSame
<1> QED BY <1>2, <1>9, <1>10, <1>11, <1>12, StayKeptInv

\* An Execute or a native function that returns, with some of the frames of its VM.
LEMMA BackInv ==
    ASSUME GInv, cstack # <<>>, NEW calls \in Seq(FrameG), Kept(Top.vm, calls), NEW alloc, NEW etraps,
           Eff(Top.vm, calls, alloc, etraps, -1, -One(Top.for)), NEW ok \in BOOLEAN,
           cstack' = Back(Front(cstack), Top.for, ok), GenOK', StopsLeft(Top.vm, Len(calls))
    PROVE  GInv'
PROOF
<1>1. Only(Top.vm) /\ vm'[Top.vm].calls = calls BY DEF Eff, Is
<1>2. Shape /\ GenFrames /\ Top.vm \in VMs BY TopType DEF GInv
<1>3. GenFrames' BY <1>1, <1>2, GenStep
<1> QED BY <1>3, PopInv

LEMMA NativeReturnInv ==
    ASSUME GInv, NEW ok \in BOOLEAN, NativeReturn(ok)
    PROVE  GInv'
PROOF
<1>1. Shape BY DEF GInv
<1>2. PICK u : u = Top.vm OBVIOUS
<1>3. /\ Eff(Top.vm, Front(vm[u].calls), vm[u].alloc, vm[u].etraps, -1, -One(Top.for))
      /\ cstack' = Back(Front(cstack), Top.for, ok) /\ gen' = gen /\ cstack # <<>>
  BY <1>1, <1>2, NativeReturnEff
<1>4. u \in VMs BY <1>1, <1>2, <1>3, TopType
<1>5. PICK calls : calls = Front(vm[u].calls) OBVIOUS
<1>6. calls \in Seq(FrameG) /\ Kept(Top.vm, calls) BY <1>1, <1>2, <1>4, <1>5, FrontKept
<1>7. GenOK' /\ StopsLeft(Top.vm, Len(calls)) BY <1>1, <1>3, GenSame
<1> QED BY <1>3, <1>5, <1>6, <1>7, BackInv

LEMMA StartFailsInv ==
    ASSUME GInv, NEW v \in VMs, StartFails(v)
    PROVE  GInv'
PROOF
<1>1. Shape BY DEF GInv
<1>2. /\ Eff(v, vm[v].calls, vm[v].alloc, vm[v].etraps, -1, -One(Top.for)) /\ Top.vm = v
      /\ cstack' = Back(Front(cstack), Top.for, FALSE) /\ gen' = gen /\ cstack # <<>>
  BY <1>1, StartFailsEff
<1>3. vm[v].calls \in Seq(FrameG) /\ Kept(v, vm[v].calls) BY <1>1, SelfKept
<1>4. GenOK' /\ StopsLeft(v, Len(vm[v].calls)) BY <1>1, <1>2, GenSame
<1> QED BY <1>2, <1>3, <1>4, BackInv

LEMMA TailCallInv ==
    ASSUME GInv, TailCall
    PROVE  GInv'
PROOF
<1>1. Shape BY DEF GInv
<1>2. PICK u, c, n : u = Top.vm /\ c = vm[u].calls /\ n = Len(c) OBVIOUS
<1>3. PICK calls : calls = [c EXCEPT ![n].code = TRUE] OBVIOUS
<1>4. /\ Eff(Top.vm, calls, vm[u].alloc, vm[u].etraps, -1, -One(Top.for))
      /\ cstack' = Back(Front(cstack), Top.for, TRUE) /\ gen' = gen /\ cstack # <<>>
  BY <1>1, <1>2, <1>3, TailCallEff
<1>5. u \in VMs BY <1>1, <1>2, <1>4, TopType
<1>6. c \in Seq(FrameG) BY <1>1, <1>2, <1>5, SelfKept
<1>7. DOMAIN calls = DOMAIN c /\ calls = [i \in DOMAIN c |-> calls[i]] BY <1>3, <1>6
<1>8. ASSUME NEW i \in DOMAIN c PROVE calls[i] \in FrameG /\ calls[i].gen = c[i].gen
  <2>1. c[i] \in FrameG BY <1>6
  <2>2. CASE i # n BY <1>3, <2>1, <2>2
  <2>3. CASE i = n
    <3>1. calls[i] = [c[i] EXCEPT !.code = TRUE] BY <1>3, <2>3
    <3> QED BY <2>1, <3>1 DEF FrameG
  <2> QED BY <2>2, <2>3
<1>9. calls \in Seq(FrameG) /\ Kept(Top.vm, calls) BY <1>1, <1>2, <1>5, <1>7, <1>8, ChangeKept
<1>10. GenOK' /\ StopsLeft(Top.vm, Len(calls)) BY <1>1, <1>4, GenSame
<1> QED BY <1>4, <1>9, <1>10, BackInv

LEMMA ReturnedInv ==
    ASSUME GInv, NEW v \in VMs, Running(v), NEW etraps, NEW n \in Int,
           ci(v).root = TRUE =>
             /\ Eff(v, Front(vm[v].calls), vm[v].alloc, etraps, -1, -One(Top.for))
             /\ cstack' = Back(Front(cstack), Top.for, TRUE),
           ci(v).root = FALSE =>
             /\ Eff(v, Front(vm[v].calls), vm[v].alloc, etraps, 0, 0)
             /\ cstack' = cstack \/ cstack' = AddTraps(n),
           GenOK', StopsLeft(v, Len(vm[v].calls) - 1)
    PROVE  GInv'
PROOF
<1>1. Shape /\ Runs("execute") /\ Top.vm = v /\ cstack # <<>> /\ ci(v) \in FrameG
      /\ Len(vm[v].calls) \in 1 .. Len(vm[v].calls) /\ vm[v].calls \in Seq(FrameG)
  BY RunningIs
<1>2. PICK calls : calls = Front(vm[v].calls) OBVIOUS
<1>3. calls \in Seq(FrameG) /\ Kept(v, calls) /\ Len(calls) = Len(vm[v].calls) - 1 BY <1>1, <1>2, FrontKept
<1>4. StopsLeft(v, Len(calls)) BY <1>3
<1>5. CASE ci(v).root = TRUE
  BY <1>1, <1>2, <1>3, <1>4, <1>5, BackInv
<1>6. CASE ci(v).root = FALSE
  <2>1. StaysOn BY <1>6 DEF StaysOn
  <2> QED BY <1>1, <1>2, <1>3, <1>4, <1>6, <2>1, StayKeptInv
<1>7. ci(v).root \in BOOLEAN BY <1>1 DEF FrameG
<1> QED BY <1>5, <1>6, <1>7

LEMMA OpReturnInv ==
    ASSUME GInv, NEW v \in VMs, OpReturn(v)
    PROVE  GInv'
PROOF
<1>1. Running(v) BY DEF OpReturn
<1>2. Shape /\ Len(vm[v].calls) \in 1 .. Len(vm[v].calls) /\ ci(v) = vm[v].calls[Len(vm[v].calls)]
      /\ vm[v].calls \in Seq(FrameG)
  BY <1>1, RunningIs
<1>3. /\ ci(v).root = TRUE =>
           /\ Eff(v, Front(vm[v].calls), vm[v].alloc, vm[v].etraps, -1, -One(Top.for))
           /\ cstack' = Back(Front(cstack), Top.for, TRUE)
      /\ ci(v).root = FALSE =>
           /\ Eff(v, Front(vm[v].calls), vm[v].alloc, vm[v].etraps, 0, 0)
           /\ cstack' = cstack
      /\ gen' = Kill(gen, {ci(v)})
  BY <1>2, OpReturnEff
<1>4. GenOK' /\ StopsLeft(v, Len(vm[v].calls) - 1)
  <2>1. PICK n, S : n = Len(vm[v].calls) - 1 /\ S = {ci(v)} OBVIOUS
  <2>2. n \in 0 .. Len(vm[v].calls) /\ n + 1 = Len(vm[v].calls) /\ gen' = Kill(gen, S) BY <1>2, <1>3, <2>1
  <2>3. \A f \in S : \E i \in n + 1 .. Len(vm[v].calls) : f = vm[v].calls[i] BY <1>2, <2>1, <2>2
  <2>4. Shape BY <1>2
  <2>5. GenOK' /\ StopsLeft(v, n) BY <2>2, <2>3, <2>4, GenKilled
  <2> QED BY <2>1, <2>5
<1>5. 0 \in Int OBVIOUS
<1> QED BY <1>1, <1>3, <1>4, <1>5, ReturnedInv

LEMMA OpYieldInv ==
    ASSUME GInv, NEW v \in VMs, OpYield(v)
    PROVE  GInv'
PROOF
<1>1. Running(v) BY DEF OpYield
<1>2. /\ Shape /\ Len(vm[v].calls) \in 1 .. Len(vm[v].calls) /\ ci(v) = vm[v].calls[Len(vm[v].calls)]
      /\ vm[v].calls \in Seq(FrameG) /\ ci(v) \in FrameG
  BY <1>1, RunningIs
<1>3. PICK tr, g, n : /\ tr = SubSeq(vm[v].etraps, 1, Len(vm[v].etraps) - ci(v).etraps)
                      /\ g = ci(v).gen /\ n = ci(v).etraps OBVIOUS
<1>4. PICK r : r = [state |-> "suspended", etraps |-> Saved(vm[v], n), root |-> ci(v).root] OBVIOUS
<1>5. /\ ci(v).root = TRUE =>
           /\ Eff(v, Front(vm[v].calls), vm[v].alloc, tr, -1, -One(Top.for))
           /\ cstack' = Back(Front(cstack), Top.for, TRUE)
      /\ ci(v).root = FALSE =>
           /\ Eff(v, Front(vm[v].calls), vm[v].alloc, tr, 0, 0)
           /\ cstack' = AddTraps(-n)
  BY <1>2, <1>3, OpYieldEff
<1>6. g # None /\ gen' = [gen EXCEPT ![g] = r] BY <1>2, <1>3, <1>4, OpYieldEff
<1>7. g \in Gens /\ n \in Int /\ ci(v).root \in BOOLEAN BY <1>2, <1>3, <1>6 DEF FrameG
<1>8. GenShape(r)
  <2>1. PICK sv : sv = Saved(vm[v], n) OBVIOUS
  <2>2. DOMAIN sv = 1 .. n BY <2>1 DEF Saved
  <2>3. Len(sv) = IF n > 0 THEN n ELSE 0 BY <1>7, <2>2, LenOf
  <2>4. Len(sv) \in Nat BY <1>7, <2>3
  <2> QED BY <1>4, <1>7, <2>1, <2>4 DEF GenShape, GenStates
<1>9. GenOK' /\ \A h \in Gens \ {g} : gen'[h] = gen[h] BY <1>2, <1>6, <1>7, <1>8, GenSet
<1>10. StopsLeft(v, Len(vm[v].calls) - 1)
  <2>1. PICK k : k = Len(vm[v].calls) OBVIOUS
  <2>2. k \in k - 1 + 1 .. Len(vm[v].calls) /\ vm[v].calls[k].gen = g BY <1>2, <1>3, <2>1
  <2> QED BY <1>9, <2>1, <2>2 DEF StopsLeft
<1>11. -n \in Int BY <1>7
<1> QED BY <1>1, <1>5, <1>9, <1>10, <1>11, ReturnedInv

LEMMA ResumedFrameIn ==
    ASSUME Shape, NEW g \in Gens, NEW root \in BOOLEAN
    PROVE  ResumedFrame(g, root) \in FrameG /\ ResumedFrame(g, root).gen = g
PROOF
<1>1. Len(gen[g].etraps) \in Nat BY DEF Shape, GenShape
<1> QED BY <1>1 DEF ResumedFrame, FrameG

LEMMA ResumeInv ==
    ASSUME GInv, Runs("execute"), NEW v \in VMs, NEW g \in Gens, Resume(v, g), StaysOn
    PROVE  GInv'
PROOF
<1>1. Shape /\ GenFrames BY DEF GInv
<1>2. gen[g].root \in BOOLEAN BY <1>1 DEF Shape, GenShape
<1>3. PICK f : f = ResumedFrame(g, gen[g].root) OBVIOUS
<1>4. f \in FrameG /\ f.gen = g BY <1>1, <1>2, <1>3, ResumedFrameIn
<1>5. PICK tr : tr = vm[v].etraps \o ResumedTraps(g, Len(vm[v].calls) + 1) OBVIOUS
<1>6. /\ Eff(v, Append(vm[v].calls, f), Grown(vm[v]), tr, 0, 0)
      /\ gen[g].state = "suspended" /\ Started(g)
  BY <1>1, <1>3, <1>5, ResumeEff DEF Started
<1>7. PICK calls : calls = Append(vm[v].calls, f) OBVIOUS
<1>8. calls \in Seq(FrameG) BY <1>1, <1>4, <1>7, SelfKept
<1>9. Only(v) /\ vm'[v].calls = calls BY <1>6, <1>7 DEF Eff, Is
<1>10. GenOK' BY <1>1, <1>6, GenStarted
<1>11. GenFrames' BY <1>1, <1>4, <1>6, <1>7, <1>9, GenResume
<1> QED BY <1>6, <1>7, <1>8, <1>10, <1>11, StayInv

LEMMA OpResumeInv ==
    ASSUME GInv, NEW v \in VMs, NEW g \in Gens, OpResume(v, g)
    PROVE  GInv'
PROOF
<1>1. Running(v) BY DEF OpResume
<1>2. Shape /\ Runs("execute") BY <1>1, RunningIs
<1>3. CASE Resume(v, g) /\ cstack' = AddTraps(Len(gen[g].etraps))
  <2>1. Len(gen[g].etraps) \in Int BY <1>2 DEF Shape, GenShape
  <2>2. StaysOn BY <1>3, <2>1 DEF StaysOn
  <2> QED BY <1>2, <1>3, <2>2, ResumeInv
<1>4. CASE ResumeRefused(g)
  <2>1. vm' = vm /\ gen' = gen /\ StaysOn BY <1>4 DEF ResumeRefused, StaysOn
  <2> QED BY <1>2, <2>1, ThrowInv
<1> QED BY <1>3, <1>4 DEF OpResume

LEMMA OpForeachInv ==
    ASSUME GInv, NEW v \in VMs, NEW g \in Gens, OpForeach(v, g)
    PROVE  GInv'
PROOF
<1>1. Running(v) BY DEF OpForeach
<1>2. Shape /\ Runs("execute") BY <1>1, RunningIs
<1>3. CASE Resume(v, g) /\ cstack' = cstack
  <2>1. StaysOn BY <1>3 DEF StaysOn
  <2> QED BY <1>2, <1>3, <2>1, ResumeInv
<1>4. CASE ResumeRefused(g)
  <2>1. vm' = vm /\ gen' = gen /\ StaysOn BY <1>4 DEF ResumeRefused, StaysOn
  <2> QED BY <1>2, <2>1, ThrowInv
<1>5. CASE vm' = [vm EXCEPT ![v] = EnterFrame(vm[v], NativeFrame)] /\ gen' = gen /\ cstack' = cstack
  <2>1. StaysOn BY <1>5 DEF StaysOn
  <2> QED BY <1>2, <1>5, <2>1, FrameTypes, EnterInv
<1> QED BY <1>3, <1>4, <1>5 DEF OpForeach

LEMMA ApiResumeInv ==
    ASSUME GInv, NEW u \in VMs, NEW g \in Gens, ApiResume(u, g)
    PROVE  GInv'
PROOF
<1>1. Shape /\ GenFrames BY DEF GInv
<1>2. PICK f, n : f = ResumedFrame(g, TRUE) /\ n = Len(gen[g].etraps) OBVIOUS
<1>3. f \in FrameG /\ f.gen = g BY <1>1, <1>2, ResumedFrameIn
<1>4. n \in Int BY <1>1, <1>2 DEF Shape, GenShape
<1>5. PICK tr, calls : tr = vm[u].etraps \o ResumedTraps(g, Len(vm[u].calls) + 1)
                       /\ calls = Append(vm[u].calls, f) OBVIOUS
<1>6. PICK a : a = NewAct("execute", u, "host", Len(vm[u].calls), n, TRUE, "run", "none") OBVIOUS
<1>7. Eff(u, calls, Grown(vm[u]), tr, 1, 0) /\ cstack' = Append(cstack, a)
  BY <1>1, <1>2, <1>5, <1>6, ApiResumeEff
<1>8. gen[g].state = "suspended" /\ Started(g) BY <1>1, ApiResumeEff DEF Started
<1>9. a \in Act /\ a.vm = u /\ a.for = "host" /\ a.fn = "none"
  <2>1. "execute" \in Kinds /\ "run" \in Modes /\ "host" \in Fors BY DEF Kinds, Modes, Fors
  <2>2. Len(vm[u].calls) \in Nat BY <1>1, SelfKept
  <2> QED BY <1>4, <1>6, <2>1, <2>2 DEF NewAct, Act
<1>10. calls \in Seq(FrameG) BY <1>1, <1>3, <1>5, SelfKept
<1>11. Only(u) /\ vm'[u].calls = calls BY <1>7 DEF Eff, Is
<1>12. GenOK' BY <1>1, <1>8, GenStarted
<1>13. GenFrames' BY <1>1, <1>3, <1>5, <1>8, <1>11, GenResume
<1>14. Eff(u, calls, Grown(vm[u]), tr, 1, One(a.for)) BY <1>7, <1>9 DEF One
<1>15. cstack = <<>> \/ Top.fn # "suspend" BY DEF ApiResume, HostRuns, Runs
<1> QED BY <1>7, <1>9, <1>10, <1>12, <1>13, <1>14, <1>15, PushInv

LEMMA UnwindInv ==
    ASSUME GInv, NEW v \in VMs, Unwind(v)
    PROVE  GInv'
PROOF
<1>1. Shape /\ GenFrames BY DEF GInv
<1>2. /\ cstack # <<>> /\ Top.kind = "execute" /\ Top.vm = v
      /\ \E at \in Nat : Caught(v, at) \/ Uncaught(v, at)
  BY <1>1, UnwindEff
<1>3. PICK c, n : c = vm[v].calls /\ n = Len(c) OBVIOUS
<1>4. c \in Seq(FrameG) /\ n \in Nat BY <1>1, <1>3, SelfKept
<1>5. ASSUME NEW k \in 0 .. n, gen' = Kill(gen, {c[i] : i \in k + 1 .. n}) PROVE GenOK' /\ StopsLeft(v, k)
  <2>1. PICK S : S = {c[i] : i \in k + 1 .. n} OBVIOUS
  <2>2. \A f \in S : \E i \in k + 1 .. Len(vm[v].calls) : f = vm[v].calls[i] BY <1>3, <2>1
  <2>3. gen' = Kill(gen, S) BY <1>5, <2>1
  <2> QED BY <1>1, <1>3, <2>2, <2>3, GenKilled
<1>6. ASSUME NEW at \in Nat, Caught(v, at) PROVE GInv'
  <2>1. at \in 1 .. n /\ at \in 0 .. n BY <1>3, <1>4, <1>6 DEF Caught, Catches
  <2>2. PICK s : s = SubSeq(c, 1, at) OBVIOUS
  <2>3. s \in Seq(FrameG) /\ Len(s) = at /\ (\A i \in 1 .. at : s[i] = c[i]) /\ at \in 1 .. Len(s)
    BY <1>3, <1>4, <2>1, <2>2, PrefixIs
  <2>4. PICK x \in Int : x = s[at].etraps - 1
    <3>1. s[at] \in FrameG BY <2>1, <2>3
    <3>2. s[at].etraps - 1 \in Int BY <3>1 DEF FrameG
    <3> QED BY <3>2
  <2>5. PICK t : t = [s EXCEPT ![at].etraps = x] OBVIOUS
  <2>6. t = [SubSeq(vm[v].calls, 1, at) EXCEPT ![at].etraps = @ - 1] BY <1>3, <2>2, <2>4, <2>5
  <2>7. SetFrame(s, t, at, [code |-> s[at].code, root |-> s[at].root, gen |-> s[at].gen, etraps |-> x])
    BY <2>1, <2>3, <2>4, <2>5, SetTraps
  <2>8. t \in Seq(FrameG) /\ Kept(v, t) /\ Len(t) = at BY <1>1, <1>3, <2>1, <2>3, <2>7, SetKept
  <2>9. Eff(v, t, vm[v].alloc, Front(vm[v].etraps), 0, 0) BY <1>6, <2>6 DEF Caught
  <2>10. gen' = Kill(gen, {c[i] : i \in at + 1 .. n}) BY <1>3, <1>6 DEF Caught
  <2>11. GenOK' /\ StopsLeft(v, Len(t)) BY <1>5, <2>1, <2>8, <2>10
  <2>12. GenFrames'
    <3>1. Only(v) /\ vm'[v].calls = t BY <2>9 DEF Eff, Is
    <3> QED BY <1>1, <2>8, <2>11, <3>1, GenStep
  <2>top. PICK a, k : a = Top /\ k = Len(cstack) OBVIOUS
  <2>13. PICK b : b = [a EXCEPT !.traps = @ - 1, !.mode = "run"] OBVIOUS
  <2>14. cstack' = [cstack EXCEPT ![k] = b] BY <1>6, <2>top, <2>13 DEF Caught
  <2>15. k \in 1 .. Len(cstack) /\ a = cstack[k] /\ a \in Act /\ cstack \in Seq(Act) /\ k = Len(cstack)
    BY <1>1, <1>2, <2>top, TopType DEF Shape
  <2>16. b \in Act /\ b.kind = cstack[k].kind /\ b.vm = cstack[k].vm /\ b.for = cstack[k].for
         /\ b.base = cstack[k].base /\ b.raise = cstack[k].raise /\ b.fn = cstack[k].fn
    <3>1. a \in Act /\ a.traps - 1 \in Int /\ "run" \in Modes BY <2>15 DEF Act, Modes
    <3>2. b \in Act /\ b.kind = a.kind /\ b.vm = a.vm /\ b.for = a.for /\ b.base = a.base
          /\ b.raise = a.raise /\ b.fn = a.fn
      BY <2>13, <3>1 DEF Act
    <3> QED BY <2>15, <3>2
  <2>17. cstack' \in Seq(Act) /\ Alike(cstack, cstack') BY <2>14, <2>15, <2>16 DEF Alike
  <2>18. Top.fn # "suspend"
    <3>1. Runs("execute") BY <1>2 DEF Runs
    <3> QED BY <3>1, ExecuteTop
  <2> QED BY <2>8, <2>9, <2>11, <2>12, <2>17, <2>18, KeepInv
<1>7. ASSUME NEW left \in Nat, Uncaught(v, left) PROVE GInv'
  <2>1. left \in 0 .. n BY <1>3, <1>7 DEF Uncaught, LeavesAll
  <2>2. PICK s : s = SubSeq(vm[v].calls, 1, left) OBVIOUS
  <2>3. s \in Seq(FrameG) /\ Kept(v, s) /\ Len(s) = left BY <1>1, <1>3, <2>1, <2>2, LeaveKept
  <2>4. /\ Eff(v, s, vm[v].alloc, vm[v].etraps, -1, -One(Top.for))
        /\ cstack' = Back(Front(cstack), Top.for, FALSE)
        /\ gen' = Kill(gen, {c[i] : i \in left + 1 .. n})
    BY <1>3, <1>7, <2>2 DEF Uncaught
  <2>5. GenOK' /\ StopsLeft(v, Len(s)) BY <1>5, <2>1, <2>3, <2>4
  <2> QED BY <1>2, <2>3, <2>4, <2>5, BackInv
<1> QED BY <1>2, <1>6, <1>7

LEMMA WakeupInv ==
    ASSUME GInv, NEW u \in VMs, NEW throw \in BOOLEAN, ApiWakeup(u, throw)
    PROVE  GInv'
PROOF
<1>1. Shape /\ GenFrames /\ NativeCallsExact /\ StackInv BY DEF GInv
<1>2. Wakes(u) /\ gen' = gen /\ HostRuns BY <1>1, WakeupEff
<1>3. PICK root \in 1 .. Len(vm[u].calls) \cup {1}, mode \in {"run", "raise", "unwind"} :
        /\ root = 1 \/ vm[u].calls[root].root
        /\ \A i \in root + 1 .. Len(vm[u].calls) : vm[u].calls[i].root = FALSE
        /\ mode = "raise" => NotifyAll \/ vm[u].straps = 0
        /\ cstack' = Append(cstack, NewAct("execute", u, "host", root - 1, vm[u].straps, TRUE, mode, "none"))
  BY <1>1, WakeupEff
<1>4. PICK a, base, traps : /\ a = NewAct("execute", u, "host", base, traps, TRUE, mode, "none")
                            /\ base = root - 1 /\ traps = vm[u].straps OBVIOUS
<1>5. cstack' = Append(cstack, a) BY <1>3, <1>4
<1>6. VMShape(vm[u]) /\ Len(vm[u].calls) \in Nat BY <1>1, SelfKept DEF Shape
<1>7. a \in Act /\ a.vm = u /\ a.for = "host" /\ a.fn = "none"
  <2>1. "execute" \in Kinds /\ mode \in Modes /\ "host" \in Fors BY DEF Kinds, Modes, Fors
  <2>2. base \in Nat /\ traps \in Int BY <1>3, <1>4, <1>6 DEF VMShape
  <2> QED BY <1>4, <2>1, <2>2 DEF NewAct, Act
<1>8. PICK calls : calls = [vm[u].calls EXCEPT ![Len(vm[u].calls)].root = vm[u].sroot] OBVIOUS
<1>9. calls \in Seq(FrameG) /\ Kept(u, calls) BY <1>1, <1>6, <1>8, RootKept DEF VMShape
<1>10. vm'[u].calls = calls /\ Only(u) BY <1>2, <1>8 DEF Wakes
<1>11. GenOK' /\ StopsLeft(u, Len(calls)) BY <1>1, <1>2, GenSame
<1>12. GenFrames' BY <1>1, <1>9, <1>10, <1>11, GenStep
<1>13. VMShape(vm'[u])
  <2>1. vm[u].nnative + 1 \in Int /\ vm[u].nmeta \in Int /\ vm[u].straps \in Int /\ vm[u].sroot \in BOOLEAN
    BY <1>6 DEF VMShape
  <2>2. /\ DOMAIN vm'[u] = VMFields /\ vm'[u].nnative = vm[u].nnative + 1 /\ vm'[u].nmeta = vm[u].nmeta
        /\ vm'[u].straps = vm[u].straps /\ vm'[u].sroot = vm[u].sroot
    BY <1>2 DEF Wakes
  <2>3. vm'[u].calls \in Seq(FrameG) BY <1>9, <1>10
  <2> QED BY <2>1, <2>2, <2>3 DEF VMShape
<1>14. DOMAIN vm' = VMs /\ \A v \in VMs : VMShape(vm'[v]) BY <1>1, <1>10, <1>13 DEF Only, Shape
<1>15. cstack' \in Seq(Act) BY <1>1, <1>5, <1>7 DEF Shape
<1>16. Shape' BY <1>11, <1>14, <1>15 DEF Shape, GenOK
<1>17. vm'[u].nnative = vm[u].nnative + 1 /\ vm'[u].nmeta = vm[u].nmeta + One(a.for)
  BY <1>2, <1>6, <1>7 DEF Wakes, One, VMShape
<1>18. NativeCallsExact' BY <1>1, <1>5, <1>7, <1>10, <1>17, CountPush
<1>19. cstack = <<>> \/ Top.fn # "suspend" BY <1>2 DEF HostRuns, Runs
<1>20. StackInv' BY <1>1, <1>5, <1>7, <1>19, StackPush
<1> QED BY <1>12, <1>16, <1>18, <1>20 DEF GInv

\* The Execute below suspend() was called by the host: under an instruction
\* there would be three of its VM.
LEMMA SuspendBelow ==
    ASSUME GInv, NEW v \in VMs, Suspend(v)
    PROVE  /\ Len(cstack) > 1 /\ cstack[Len(cstack) - 1].vm = v
           /\ cstack[Len(cstack) - 1].for = "host" /\ cstack[Len(cstack) - 1].kind = "execute"
PROOF
<1>1. Shape /\ Called /\ NativeCallsExact BY DEF GInv, StackInv
<1>2. cstack # <<>> /\ Top.vm = v /\ Top.for = "opcall" /\ vm[v].nnative = 2 BY <1>1, SuspendEff
<1>3. PICK n : n = Len(cstack) OBVIOUS
<1>4. n \in 1 .. Len(cstack) /\ Top = cstack[n] /\ cstack \in Seq(Act) BY <1>1, <1>2, <1>3, TopType DEF Shape
<1>5. n > 1 /\ cstack[n - 1].vm = v /\ cstack[n - 1].kind = "execute" BY <1>1, <1>2, <1>4 DEF Called
<1>6. ASSUME cstack[n - 1].for # "host" PROVE FALSE
  <2>1. n - 1 \in 1 .. Len(cstack) BY <1>3, <1>4, <1>5
  <2>2. n - 1 > 1 /\ cstack[n - 2].vm = v
    <3>1. n - 1 > 1 /\ cstack[n - 1 - 1].vm = v BY <1>1, <1>5, <1>6, <2>1 DEF Called
    <3>2. n - 1 - 1 = n - 2 BY <1>3, <1>4
    <3> QED BY <3>1, <3>2
  <2>3. PICK f : f = Front(cstack) OBVIOUS
  <2>4. f \in Seq(Act) /\ Len(f) = n - 1 /\ (\A i \in 1 .. n - 1 : f[i] = cstack[i]) /\ Last(cstack) = cstack[n]
    BY <1>2, <1>3, <1>4, <2>3, FrontIs
  <2>5. f # <<>> BY <1>4, <1>5, <2>4
  <2>6. PICK h : h = Front(f) OBVIOUS
  <2>7. /\ h \in Seq(Act) /\ Len(h) = n - 2 /\ (\A i \in 1 .. n - 2 : h[i] = f[i])
        /\ Last(f) = cstack[n - 1]
    <3>1. n \in Int /\ n - 1 \in 1 .. n - 1 BY <1>4, <1>5
    <3>2. /\ h \in Seq(Act) /\ Len(h) = Len(f) - 1 /\ (\A i \in 1 .. Len(f) - 1 : h[i] = f[i])
          /\ Last(f) = f[Len(f)]
      BY <2>4, <2>5, <2>6, FrontIs
    <3> QED BY <2>4, <3>1, <3>2
  <2>8. h # <<>> /\ Last(h) = cstack[n - 2]
    <3>1. h # <<>> BY <1>4, <2>2, <2>7
    <3>2. Len(h) \in 1 .. Len(h) /\ Last(h) = h[Len(h)] BY <2>7, <3>1, FrontIs
    <3>3. n - 2 \in 1 .. n - 2 /\ n - 2 \in 1 .. n - 1 BY <1>4, <2>2
    <3> QED BY <2>4, <2>7, <3>1, <3>2, <3>3
  <2>9. Num(cstack, v) \in Nat /\ Num(f, v) \in Nat /\ Num(h, v) \in Nat BY <1>4, <2>4, <2>7, NumTypes
  <2>10. Num(f, v) = Num(cstack, v) - 1 BY <1>2, <1>4, <2>3, <2>4, NumFront
  <2>11. Num(h, v) = Num(f, v) - 1 BY <1>5, <2>4, <2>5, <2>6, <2>7, NumFront
  <2>12. Front(h) \in Seq(Act) /\ Num(Front(h), v) = Num(h, v) - 1 BY <2>2, <2>7, <2>8, NumFront
  <2>13. PICK k : k = Front(h) OBVIOUS
  <2>14. Num(k, v) \in Nat /\ Num(k, v) = Num(h, v) - 1 BY <2>12, <2>13, NumTypes
  <2>15. Num(cstack, v) = 2 BY <1>1, <1>2 DEF NativeCallsExact, Num
  <2> QED BY <2>9, <2>10, <2>11, <2>14, <2>15
<1> QED BY <1>3, <1>5, <1>6

LEMMA SuspendInv ==
    ASSUME GInv, NEW v \in VMs, Suspend(v)
    PROVE  GInv'
PROOF
<1>1. Shape /\ GenFrames /\ NativeCallsExact /\ StackInv BY DEF GInv
<1>2. PICK n : n = Len(cstack) OBVIOUS
<1>3. /\ Suspends(v) /\ gen' = gen /\ cstack # <<>> /\ Top.vm = v /\ Top.fn = "suspend" /\ Top.for = "opcall"
      /\ cstack' = Back(Front(Front(cstack)), cstack[n - 1].for, TRUE)
  BY <1>1, <1>2, SuspendEff
<1>4. n > 1 /\ cstack[n - 1].vm = v /\ cstack[n - 1].for = "host" BY <1>2, SuspendBelow
<1>5. n \in 1 .. Len(cstack) /\ Top = cstack[n] /\ cstack \in Seq(Act) BY <1>1, <1>2, <1>3, TopType DEF Shape
<1>6. PICK f : f = Front(cstack) OBVIOUS
<1>7. f \in Seq(Act) /\ Len(f) = n - 1 /\ (\A i \in 1 .. n - 1 : f[i] = cstack[i])
  BY <1>2, <1>3, <1>5, <1>6, FrontIs
<1>8. PICK h : h = Front(f) OBVIOUS
<1>9. /\ f # <<>> /\ h \in Seq(Act) /\ Len(h) = n - 2 /\ (\A i \in 1 .. n - 2 : h[i] = cstack[i])
      /\ Last(f) = cstack[n - 1] /\ Last(cstack) = cstack[n]
  <2>1. f # <<>> BY <1>4, <1>5, <1>7
  <2>2. /\ h \in Seq(Act) /\ Len(h) = Len(f) - 1 /\ (\A i \in 1 .. Len(f) - 1 : h[i] = f[i])
        /\ Last(f) = f[Len(f)]
    BY <1>7, <1>8, <2>1, FrontIs
  <2>3. Last(cstack) = cstack[n] BY <1>2, <1>3, <1>5, FrontIs
  <2>4. n - 1 \in 1 .. n - 1 /\ n \in Int BY <1>2, <1>4, <1>5
  <2> QED BY <1>7, <2>1, <2>2, <2>3, <2>4
<1>10. cstack' \in Seq(Act) /\ Alike(h, cstack')
  <2>1. cstack' = Back(h, "host", TRUE) /\ "host" \in Fors BY <1>3, <1>4, <1>6, <1>8 DEF Fors
  <2>2. Back(h, "host", TRUE) \in Seq(Act) /\ Alike(h, Back(h, "host", TRUE)) BY <1>9, <2>1, BackTop
  <2> QED BY <2>1, <2>2
<1>11. Len(vm[v].calls) > 1 BY <1>1, <1>3, <1>5 DEF StackInv, SuspendTop
<1>12. PICK c : c = vm[v].calls OBVIOUS
<1>13. PICK calls : calls = Front(c) OBVIOUS
<1>14. c \in Seq(FrameG) /\ c # <<>> /\ Len(c) \in Nat BY <1>1, <1>11, <1>12, SelfKept
<1>15. calls \in Seq(FrameG) /\ Kept(v, calls) /\ Len(calls) > 0
  <2>1. Len(calls) = Len(c) - 1 BY <1>1, <1>11, <1>12, <1>13, FrontKept
  <2> QED BY <1>1, <1>11, <1>12, <1>13, <1>14, <2>1, FrontKept
<1>16. Last(calls).root \in BOOLEAN
  <2>1. calls # <<>> BY <1>15
  <2>2. Last(calls) \in FrameG BY <1>15, <2>1, FrontIs
  <2> QED BY <2>2 DEF FrameG
<1>17. Only(v) /\ vm'[v].calls = calls BY <1>3, <1>12, <1>13 DEF Suspends
<1>18. GenOK' /\ StopsLeft(v, Len(calls)) BY <1>1, <1>3, GenSame
<1>19. GenFrames' BY <1>1, <1>15, <1>17, <1>18, GenStep
<1>20. VMShape(vm'[v])
  <2>1. cstack[n - 1] \in Act BY <1>2, <1>4, <1>5
  <2>2. cstack[n - 1].traps \in Int BY <2>1 DEF Act
  <2>3. vm[v].nnative \in Int /\ vm[v].nmeta \in Int BY <1>1 DEF Shape, VMShape
  <2> QED BY <1>2, <1>3, <1>12, <1>13, <1>15, <1>16, <2>2, <2>3 DEF VMShape, Suspends
<1>21. DOMAIN vm' = VMs /\ \A u \in VMs : VMShape(vm'[u]) BY <1>1, <1>17, <1>20 DEF Only, Shape
<1>22. Shape' BY <1>10, <1>18, <1>21 DEF Shape, GenOK
<1>23. NativeCallsExact'
  <2>1. PICK s : s = cstack' OBVIOUS
  <2>2. ASSUME NEW u \in VMs PROVE vm'[u].nnative = Num(s, u) /\ vm'[u].nmeta = NumMeta(s, u)
    <3>1. vm[u].nnative = Num(cstack, u) /\ vm[u].nmeta = NumMeta(cstack, u)
      BY <1>1 DEF NativeCallsExact, Num, NumMeta
    <3>2. Num(cstack, u) \in Nat /\ NumMeta(cstack, u) \in Nat /\ Num(f, u) \in Nat /\ NumMeta(f, u) \in Nat
      BY <1>5, <1>7, NumTypes
    <3>3. Num(s, u) = Num(h, u) /\ NumMeta(s, u) = NumMeta(h, u) BY <1>10, <2>1, NumAlike
    <3>4. /\ Num(f, u) = Num(cstack, u) - (IF v = u THEN 1 ELSE 0)
          /\ NumMeta(f, u) = NumMeta(cstack, u) - 0
      <4>1. Last(cstack).vm = v /\ Last(cstack).for # "meta" BY <1>3, <1>5, <1>9
      <4>2. /\ Num(f, u) = Num(cstack, u) - (IF Last(cstack).vm = u THEN 1 ELSE 0)
            /\ NumMeta(f, u) = NumMeta(cstack, u) - (IF Last(cstack).vm = u /\ Last(cstack).for = "meta" THEN 1 ELSE 0)
        BY <1>3, <1>5, <1>6, NumFront
      <4> QED BY <4>1, <4>2
    <3>5. /\ Num(h, u) = Num(f, u) - (IF v = u THEN 1 ELSE 0)
          /\ NumMeta(h, u) = NumMeta(f, u) - 0
      <4>1. Last(f).vm = v /\ Last(f).for # "meta" BY <1>4, <1>9
      <4>2. /\ Num(h, u) = Num(f, u) - (IF Last(f).vm = u THEN 1 ELSE 0)
            /\ NumMeta(h, u) = NumMeta(f, u) - (IF Last(f).vm = u /\ Last(f).for = "meta" THEN 1 ELSE 0)
        BY <1>7, <1>8, <1>9, NumFront
      <4> QED BY <4>1, <4>2
    <3>6. CASE u = v
      <4>1. vm'[u].nnative = vm[u].nnative - 2 /\ vm'[u].nmeta = vm[u].nmeta BY <1>3, <3>6 DEF Suspends
      <4> QED BY <3>1, <3>2, <3>3, <3>4, <3>5, <3>6, <4>1
    <3>7. CASE u # v
      <4>1. vm'[u] = vm[u] BY <1>17, <3>7 DEF Only
      <4> QED BY <3>1, <3>2, <3>3, <3>4, <3>5, <3>7, <4>1
    <3> QED BY <3>6, <3>7
  <2> QED BY <2>1, <2>2, CountIs
<1>24. StackInv'
  <2>1. PICK k : k = n - 2 OBVIOUS
  <2>2. /\ k \in Nat /\ k < Len(cstack) /\ Len(cstack') = k
        /\ \A i \in 1 .. k : /\ cstack'[i].kind = cstack[i].kind /\ cstack'[i].vm = cstack[i].vm
                             /\ cstack'[i].for = cstack[i].for /\ cstack'[i].fn = cstack[i].fn
    BY <1>2, <1>4, <1>5, <1>9, <1>10, <2>1 DEF Alike
  <2>3. Len(cstack) \in Nat BY <1>5
  <2>4. Called' BY <1>1, <2>2, <2>3 DEF StackInv, Called
  <2>5. \A i \in 1 .. k : cstack[i].fn # "suspend" BY <1>1, <2>2, <2>3 DEF StackInv, SuspendTop
  <2>6. SuspendTop' BY <2>2, <2>5 DEF SuspendTop
  <2>7. ExecuteFn' BY <1>1, <2>2, <2>3 DEF StackInv, ExecuteFn
  <2> QED BY <2>4, <2>6, <2>7 DEF StackInv
<1> QED BY <1>19, <1>22, <1>23, <1>24 DEF GInv

LEMMA InitInv ==
    ASSUME Init
    PROVE  GInv
PROOF
<1>1. cstack = <<>> /\ DOMAIN vm = VMs /\ DOMAIN gen = Gens BY DEF Init
<1>2. ASSUME NEW v \in VMs
      PROVE  VMShape(vm[v]) /\ vm[v].calls = <<>> /\ vm[v].nnative = 0 /\ vm[v].nmeta = 0
  <2>1. PICK m : m = vm[v] OBVIOUS
  <2>2. m = [calls |-> <<>>, alloc |-> InitialCalls, etraps |-> <<>>, nnative |-> 0, nmeta |-> 0,
             suspended |-> FALSE, straps |-> -1, sroot |-> FALSE]
    BY <2>1 DEF Init
  <2>3. <<>> \in Seq(FrameG) OBVIOUS
  <2>4. /\ DOMAIN m = VMFields /\ m.calls = <<>> /\ m.nnative = 0 /\ m.nmeta = 0 /\ m.straps = -1
        /\ m.sroot = FALSE
    BY <2>2 DEF VMFields
  <2>5. m.calls \in Seq(FrameG) /\ m.nnative \in Int /\ m.nmeta \in Int /\ m.straps \in Int
    BY <2>3, <2>4
  <2>6. VMShape(m) BY <2>4, <2>5 DEF VMShape
  <2> QED BY <2>1, <2>4, <2>6
<1>3. ASSUME NEW g \in Gens PROVE GenShape(gen[g])
  BY DEF Init, GenShape, GenStates
<1>4. Shape BY <1>1, <1>2, <1>3 DEF Shape
<1>5. NativeCallsExact
  <2>1. ASSUME NEW v \in VMs
        PROVE  /\ {i \in 1 .. Len(cstack) : cstack[i].vm = v} = {}
               /\ {i \in 1 .. Len(cstack) : cstack[i].vm = v /\ cstack[i].for = "meta"} = {}
    BY <1>1
  <2>2. Cardinality({}) = 0 BY FS_EmptySet
  <2> QED BY <1>2, <2>1, <2>2 DEF NativeCallsExact
<1>6. StackInv BY <1>1 DEF StackInv, Called, SuspendTop, ExecuteFn
<1>7. GenFrames BY <1>2 DEF GenFrames, GenRuns, GenOnce
<1> QED BY <1>4, <1>5, <1>6, <1>7 DEF GInv

LEMMA InstructionInv ==
    ASSUME GInv, NEW v \in VMs, Instruction(v)
    PROVE  GInv'
PROOF
<1>1. ASSUME Running(v) PROVE Shape /\ Runs("execute") /\ \A for : MayCall(v, for) BY <1>1, RunningIs
<1>2. CASE OpThrow(v)
  <2>1. Running(v) /\ vm' = vm /\ gen' = gen /\ StaysOn BY <1>2 DEF OpThrow, StaysOn
  <2> QED BY <1>1, <2>1, ThrowInv
<1>3. CASE OpCall(v)
  <2>1. Running(v) /\ vm' = [vm EXCEPT ![v] = EnterFrame(vm[v], Frame)] /\ gen' = gen /\ StaysOn
    BY <1>3 DEF OpCall, StaysOn
  <2> QED BY <1>1, <2>1, FrameTypes, EnterInv
<1>4. CASE OpCallOverflows(v)
  <2>1. Running(v) /\ vm' = [vm EXCEPT ![v] = EnterFrame(vm[v], NativeFrame)] /\ gen' = gen /\ StaysOn
    BY <1>4 DEF OpCallOverflows, StaysOn
  <2> QED BY <1>1, <2>1, FrameTypes, EnterInv
<1>5. CASE OpMeta(v)
  <2>1. Running(v) /\ Call(v, "meta", FALSE) BY <1>5 DEF OpMeta
  <2>2. "meta" \in Fors \ {"opcall"} /\ FALSE \in BOOLEAN BY DEF Fors
  <2> QED BY <1>1, <2>1, <2>2, CallInv
<1>6. CASE OpPushTrap(v) BY <1>6, OpPushTrapInv
<1>7. CASE OpPopTrap(v) BY <1>7, OpPopTrapInv
<1>8. CASE OpReturn(v) BY <1>8, OpReturnInv
<1>9. CASE OpYield(v) BY <1>9, OpYieldInv
<1>10. ASSUME NEW g \in Gens, OpCallGenerator(v, g) \/ OpResume(v, g) \/ OpForeach(v, g) PROVE GInv'
  BY <1>10, OpCallGeneratorInv, OpResumeInv, OpForeachInv
<1>11. ASSUME NEW fn \in NativeFns, OpCallNative(v, fn) PROVE GInv'
  <2>1. Running(v) /\ CallNative(v, "opcall", fn) BY <1>11 DEF OpCallNative
  <2>2. "opcall" \in Fors BY DEF Fors
  <2>3. Len(vm[v].calls) > 0 BY <2>1 DEF Running, Depth
  <2> QED BY <1>1, <2>1, <2>2, <2>3, CallNativeInv
<1> QED BY <1>2, <1>3, <1>4, <1>5, <1>6, <1>7, <1>8, <1>9, <1>10, <1>11 DEF Instruction

LEMMA ExceptionInv ==
    ASSUME GInv, NEW v \in VMs, Exception(v)
    PROVE  GInv'
PROOF
<1>1. CASE ErrorHandler(v)
  <2>1. Runs("execute") /\ Top.vm = v /\ Call(v, "handler", FALSE) BY <1>1 DEF ErrorHandler
  <2>2. "handler" \in Fors \ {"opcall"} /\ FALSE \in BOOLEAN BY DEF Fors
  <2>3. MayCall(v, "handler") BY <2>1, ExecuteTop
  <2> QED BY <2>1, <2>2, <2>3, CallInv
<1>2. CASE Unwind(v) BY <1>2, UnwindInv
<1>3. CASE StartFails(v) BY <1>3, StartFailsInv
<1> QED BY <1>1, <1>2, <1>3 DEF Exception

LEMMA NativeInv ==
    ASSUME GInv, Native
    PROVE  GInv'
PROOF
<1>1. ASSUME NEW ok \in BOOLEAN, OtherReturn(ok) PROVE GInv'
  BY <1>1, NativeReturnInv DEF OtherReturn
<1>2. CASE TailCall BY <1>2, TailCallInv
<1>3. CASE ClosureCall
  <2>1. cstack # <<>> /\ Top.fn = "call" /\ Call(Top.vm, "host", TRUE) BY <1>3 DEF ClosureCall, Runs
  <2>2. PICK u : u = Top.vm OBVIOUS
  <2>3. u \in VMs BY <2>1, <2>2, TopType DEF GInv
  <2>4. "host" \in Fors \ {"opcall"} /\ TRUE \in BOOLEAN BY DEF Fors
  <2>5. MayCall(u, "host") BY <2>1 DEF MayCall
  <2> QED BY <2>1, <2>2, <2>3, <2>4, <2>5, CallInv
<1>4. CASE ClosureCallReturn
  <2>1. PICK ok \in BOOLEAN : ok = (Top.mode = "done") OBVIOUS
  <2>2. NativeReturn(ok) BY <1>4, <2>1 DEF ClosureCallReturn
  <2> QED BY <2>2, NativeReturnInv
<1>5. ASSUME NEW v \in VMs, Suspend(v) PROVE GInv' BY <1>5, SuspendInv
<1>6. ASSUME NEW v \in VMs, SuspendReturn(v) PROVE GInv'
  <2>1. NativeReturn(FALSE) \/ NativeReturn(TRUE) BY <1>6 DEF SuspendReturn
  <2> QED BY <2>1, NativeReturnInv
<1> QED BY <1>1, <1>2, <1>3, <1>4, <1>5, <1>6 DEF Native

LEMMA ApiInv ==
    ASSUME GInv, NEW u \in VMs, Api(u)
    PROVE  GInv'
PROOF
<1>1. ASSUME NEW b \in BOOLEAN, ApiCall(u, b) PROVE GInv'
  <2>1. Call(u, "host", b) /\ HostRuns BY <1>1 DEF ApiCall
  <2>2. "host" \in Fors \ {"opcall"} BY DEF Fors
  <2>3. MayCall(u, "host") BY <2>1 DEF HostRuns, Runs, MayCall
  <2> QED BY <2>1, <2>2, <2>3, CallInv
<1>2. ASSUME NEW b \in BOOLEAN, ApiWakeup(u, b) PROVE GInv' BY <1>2, WakeupInv
<1>3. ASSUME NEW g \in Gens, ApiResume(u, g) PROVE GInv' BY <1>3, ApiResumeInv
<1> QED BY <1>1, <1>2, <1>3 DEF Api

LEMMA NextInv ==
    ASSUME GInv, [Next]_vars
    PROVE  GInv'
PROOF
<1>1. CASE Next BY <1>1, InstructionInv, ExceptionInv, NativeInv, ApiInv DEF Next
<1>2. CASE UNCHANGED vars
  <2>1. vm' = vm /\ gen' = gen /\ cstack' = cstack BY <1>2 DEF vars
  <2>2. Shape' BY <2>1 DEF GInv, Shape, VMShape, GenShape
  <2>3. NativeCallsExact' BY <2>1 DEF GInv, NativeCallsExact
  <2>4. StackInv' BY <2>1 DEF GInv, StackInv, Called, SuspendTop, ExecuteFn
  <2>5. GenFrames' BY <2>1 DEF GInv, GenFrames, GenRuns, GenOnce
  <2> QED BY <2>2, <2>3, <2>4, <2>5 DEF GInv
<1> QED BY <1>1, <1>2

\* The shapes of the state, the counters, what may lie below what on the C++
\* stack, and the frames of generators, together, are an invariant.
THEOREM CallsInvariant == Spec => []GInv
PROOF
<1>1. Init => GInv BY InitInv
<1>2. GInv /\ [Next]_vars => GInv' BY NextInv
<1> QED BY <1>1, <1>2, PTL DEF Spec

\* _nnativecalls and _nmetamethodscall of every VM are exact, whatever programs,
\* the host and realloc do.
THEOREM CountersExact == Spec => []NativeCallsExact
PROOF
<1>1. GInv => NativeCallsExact BY DEF GInv
<1> QED BY <1>1, CallsInvariant, PTL

\* No generator ever runs in two frames, or in any while its state is not
\* running, whatever programs, the host and realloc do.
THEOREM GeneratorsRunOnce == Spec => []GeneratorFrames
PROOF
<1>1. ASSUME GInv PROVE GeneratorFrames
  <2>1. ASSUME NEW g \in Gens PROVE Cardinality(FramesOf(g)) <= IF gen[g].state = "running" THEN 1 ELSE 0
    <3>1. PICK F : F = FramesOf(g) OBVIOUS
    <3>2. g # None BY NoneAssumption
    <3>3. ASSUME NEW x \in F
          PROVE  /\ x = <<x[1], x[2]>> /\ x[1] \in VMs /\ x[2] \in 1 .. Len(vm[x[1]].calls)
                 /\ vm[x[1]].calls[x[2]].gen = g
      <4>1. /\ x = <<x[1], x[2]>> /\ x[1] \in VMs /\ x[2] \in 1 .. MaxFrames
            /\ x[2] <= Len(vm[x[1]].calls) /\ vm[x[1]].calls[x[2]].gen = g
        BY <3>1 DEF FramesOf, Depth
      <4>2. Len(vm[x[1]].calls) \in Nat BY <1>1, <4>1, SelfKept DEF GInv
      <4>3. x[2] \in 1 .. Len(vm[x[1]].calls) BY <4>1, <4>2, BoundsAssumption
      <4> QED BY <4>1, <4>3
    <3>4. CASE F = {}
      <4>1. Cardinality(F) = 0 BY <3>4, FS_EmptySet
      <4> QED BY <3>1, <4>1
    <3>5. CASE F # {}
      <4>1. PICK x : x \in F BY <3>5
      <4>2. gen[g].state = "running" BY <1>1, <3>2, <3>3, <4>1, GenFact DEF GInv
      <4>3. ASSUME NEW y \in F PROVE y = x
        <5>1. PICK v, i, w, j : v = x[1] /\ i = x[2] /\ w = y[1] /\ j = y[2] OBVIOUS
        <5>2. GenFrames BY <1>1 DEF GInv
        <5>3. v \in VMs /\ i \in 1 .. Len(vm[v].calls) /\ vm[v].calls[i].gen = g BY <3>3, <4>1, <5>1
        <5>4. w \in VMs /\ j \in 1 .. Len(vm[w].calls) /\ vm[w].calls[j].gen = g BY <3>3, <4>3, <5>1
        <5>5. vm[v].calls[i].gen # None /\ vm[w].calls[j].gen = vm[v].calls[i].gen BY <3>2, <5>3, <5>4
        <5>6. v = w /\ i = j BY <5>2, <5>3, <5>4, <5>5, GenUnique
        <5>7. x = <<x[1], x[2]>> /\ y = <<y[1], y[2]>> BY <3>3, <4>1, <4>3
        <5> QED BY <5>1, <5>6, <5>7
      <4>4. F = {x} BY <4>1, <4>3
      <4>5. Cardinality(F) = 1 BY <4>4, FS_Singleton
      <4> QED BY <3>1, <4>2, <4>5
    <3> QED BY <3>4, <3>5
  <2> QED BY <2>1 DEF GeneratorFrames
<1> QED BY <1>1, CallsInvariant, PTL
=============================================================================
