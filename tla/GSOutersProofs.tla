--------------------------- MODULE GSOutersProofs ---------------------------
(***************************************************************************)
(* The list of open outers is in order, for any number of virtual          *)
(* machines, variables, closures and generators and any bounds: calls,     *)
(* returns, exceptions, generators, stacks that move and threads that are  *)
(* freed leave in it only outers of registers that belong to a call, last  *)
(* register first, and each at the index where it is to be relocated to.   *)
(*                                                                         *)
(* What a call leaves behind is closed from its base on.  That is enough   *)
(* because a frame begins within the one below it, or right after it, so   *)
(* that what remains lies below the end of the caller; and because blocks, *)
(* catch blocks and generators never have more locals than a frame has     *)
(* registers.                                                              *)
(***************************************************************************)
EXTENDS GSOuters, SequenceTheorems, WellFoundedInduction, TLAPS

\* A block of a frame, and a frame.
BlockT == [start : 0 .. FrameSize, try : BOOLEAN]
FrameFields == {"base", "nlocals", "blocks", "closure", "gen"}
FrameOk(f) ==
    /\ DOMAIN f = FrameFields
    /\ f.base \in Nat /\ f.nlocals \in 0 .. FrameSize /\ f.blocks \in Seq(BlockT)

\* The frames of a VM: one begins within the one below it, or right after it.
FramesOk(fs) ==
    /\ \E S : fs \in Seq(S)
    /\ \A k \in 1 .. Len(fs) : FrameOk(fs[k])
    /\ fs # <<>> => fs[1].base = 0
    /\ \A k \in 2 .. Len(fs) : fs[k].base <= fs[k - 1].base + FrameSize

\* An open outer of m, of a register below top.
OpenT == [ptr : [vm : VMs, at : {0, 1}, reg : Nat], idx : Nat, value : {None}]
Opened(x, m, top) == x \in OpenT /\ x.ptr.vm = m /\ x.ptr.reg = x.idx /\ x.idx < top

\* The list os of the open outers of m.
Listed(outs, os, m, top) ==
    /\ os \in Seq(Outers)
    /\ \A k \in 1 .. Len(os) : Opened(outs[os[k]], m, top)
    /\ \A j, k \in 1 .. Len(os) : j < k => outs[os[j]].idx > outs[os[k]].idx

\* The outers s leave those in the lists of the other VMs alone.
Apart(s, m) ==
    /\ {"outs", "opens"} \subseteq DOMAIN s /\ DOMAIN s.outs = Outers
    /\ \A n \in VMs \ {m} : \A k \in 1 .. Len(opens[n]) : s.outs[opens[n][k]] = outer[opens[n][k]]

Shape ==
    /\ DOMAIN mem = VMs /\ DOMAIN frames = VMs /\ DOMAIN opens = VMs
    /\ DOMAIN outer = Outers /\ DOMAIN gen = Gens
    /\ \A m \in VMs : mem[m].at \in {0, 1}

OInv ==
    /\ Shape
    /\ \A m \in VMs : FramesOk(frames[m]) /\ Listed(outer, opens[m], m, FrameTop(frames[m]))
    /\ \A g \in Gens : gen[g] # None => FrameOk(gen[g].frame)

-----------------------------------------------------------------------------
(* Numbers and sequences.                                                  *)

LEMMA Least ==
    ASSUME NEW T, T \subseteq Nat, T # {}
    PROVE  \E x \in T : \A y \in T : x <= y
PROOF
<1>1. PICK R : R = {ss \in Nat \X Nat : ss[1] < ss[2]} OBVIOUS
<1>2. IsWellFoundedOn(OpToRel(<, Nat), Nat) BY NatLessThanWellFounded
<1>3. IsWellFoundedOn(R, Nat) BY <1>1, <1>2 DEF OpToRel
<1>4. PICK x \in T : \A y \in T : ~(<<y, x>> \in R) BY <1>3, WFMin
<1>5. ASSUME NEW y \in T PROVE x <= y
  <2>1. x \in Nat /\ y \in Nat OBVIOUS
  <2>2. <<y, x>> \notin R BY <1>4
  <2>3. <<y, x>> \in Nat \X Nat /\ <<y, x>>[1] = y /\ <<y, x>>[2] = x BY <2>1
  <2>4. ~(y < x) BY <1>1, <2>2, <2>3
  <2> QED BY <2>1, <2>4
<1> QED BY <1>5

LEMMA MinIs ==
    ASSUME NEW S, S \subseteq Nat, S # {}
    PROVE  Min(S) \in S /\ \A y \in S : Min(S) <= y
PROOF
<1>1. \E x \in S : \A y \in S : x =< y BY Least
<1> QED BY <1>1 DEF Min

LEMMA MaxIs ==
    ASSUME NEW S, NEW n \in Nat, S \subseteq 1 .. n, S # {}
    PROVE  Max(S) \in S
PROOF
<1>1. PICK T : T = {k \in Nat : n - k \in S} OBVIOUS
<1>2. T \subseteq Nat /\ T # {}
  <2>1. PICK x \in S : TRUE OBVIOUS
  <2>2. n - x \in Nat /\ n - (n - x) = x BY <2>1
  <2> QED BY <1>1, <2>1, <2>2
<1>3. PICK k \in T : \A l \in T : k <= l BY <1>2, Least
<1>4. k \in Nat /\ n - k \in S BY <1>1, <1>3
<1>5. ASSUME NEW y \in S PROVE n - k >= y
  <2>1. y \in Nat /\ n - y \in Nat /\ n - (n - y) = y OBVIOUS
  <2>2. n - y \in T BY <1>1, <2>1
  <2>3. k <= n - y BY <1>3, <2>2
  <2> QED BY <1>4, <2>1, <2>3
<1>6. \E x \in S : \A y \in S : x >= y BY <1>4, <1>5
<1> QED BY <1>6 DEF Max

LEMMA SliceIs ==
    ASSUME NEW S, NEW s \in Seq(S), NEW i \in 1 .. Len(s) + 1, NEW n \in 0 .. Len(s), i <= n + 1
    PROVE  /\ SubSeq(s, i, n) \in Seq(S) /\ Len(SubSeq(s, i, n)) = n - i + 1
           /\ \A j \in 1 .. n - i + 1 : SubSeq(s, i, n)[j] = s[i + j - 1]
PROOF
<1>1. i \in Int /\ n \in Int /\ \A j \in i .. n : s[j] \in S OBVIOUS
<1>2. /\ SubSeq(s, i, n) \in Seq(S)
      /\ Len(SubSeq(s, i, n)) = IF i <= n THEN n - i + 1 ELSE 0
      /\ \A j \in 1 .. n - i + 1 : SubSeq(s, i, n)[j] = s[i + j - 1]
  BY <1>1, SubSeqProperties
<1> QED BY <1>1, <1>2

LEMMA FrontIs ==
    ASSUME NEW S, NEW s \in Seq(S), s # <<>>
    PROVE  /\ Front(s) \in Seq(S) /\ Len(Front(s)) = Len(s) - 1
           /\ \A i \in 1 .. Len(s) - 1 : Front(s)[i] = s[i]
           /\ Len(s) \in 1 .. Len(s) /\ Last(s) = s[Len(s)]
PROOF
<1>1. PICK n : n = Len(s) - 1 OBVIOUS
<1>2. n \in 0 .. Len(s) /\ 1 \in 1 .. Len(s) + 1 /\ 1 <= n + 1 /\ n - 1 + 1 = n
      /\ \A i \in 1 .. n : 1 + i - 1 = i
  BY <1>1
<1>3. /\ SubSeq(s, 1, n) \in Seq(S) /\ Len(SubSeq(s, 1, n)) = n
      /\ \A i \in 1 .. n : SubSeq(s, 1, n)[i] = s[i]
  BY <1>2, SliceIs
<1> QED BY <1>1, <1>3 DEF Front, Last

LEMMA InsertIs ==
    ASSUME NEW S, NEW s \in Seq(S), NEW x \in S, NEW k \in 1 .. Len(s) + 1
    PROVE  /\ InsertAt(s, k, x) \in Seq(S) /\ Len(InsertAt(s, k, x)) = Len(s) + 1
           /\ \A i \in 1 .. k - 1 : InsertAt(s, k, x)[i] = s[i]
           /\ InsertAt(s, k, x)[k] = x
           /\ \A i \in k + 1 .. Len(s) + 1 : InsertAt(s, k, x)[i] = s[i - 1]
PROOF
<1>0. PICK n \in 0 .. Len(s) : k = n + 1
  <2>1. k - 1 \in 0 .. Len(s) /\ k = (k - 1) + 1 OBVIOUS
  <2> QED BY <2>1
<1>1. PICK a, b : a = SubSeq(s, 1, n) /\ b = SubSeq(s, n + 1, Len(s)) OBVIOUS
<1>2. PICK l : l = Len(s) OBVIOUS
<1>3. l \in Nat /\ n \in 0 .. l BY <1>2
<1>4. a \in Seq(S) /\ Len(a) = n /\ \A i \in 1 .. n : a[i] = s[i]
  <2>1. 1 \in 1 .. Len(s) + 1 /\ 1 <= n + 1 /\ n - 1 + 1 = n /\ \A i \in 1 .. n : 1 + i - 1 = i BY <1>2, <1>3
  <2> QED BY <1>1, <2>1, SliceIs
<1>5. b \in Seq(S) /\ Len(b) = l - n /\ \A i \in 1 .. l - n : b[i] = s[n + i]
  <2>1. PICK i : i = n + 1 OBVIOUS
  <2>2. i \in 1 .. Len(s) + 1 /\ l \in 0 .. Len(s) /\ i <= l + 1 /\ l - i + 1 = l - n
        /\ \A j \in 1 .. l - n : i + j - 1 = n + j
    BY <1>2, <1>3, <2>1
  <2>3. /\ SubSeq(s, i, l) \in Seq(S) /\ Len(SubSeq(s, i, l)) = l - n
        /\ \A j \in 1 .. l - n : SubSeq(s, i, l)[j] = s[i + j - 1]
    BY <2>2, SliceIs
  <2> QED BY <1>1, <1>2, <2>1, <2>2, <2>3
<1>6. PICK c : c = a \o <<x>> OBVIOUS
<1>7. <<x>> \in Seq(S) /\ Len(<<x>>) = 1 /\ <<x>>[1] = x OBVIOUS
<1>8. c \in Seq(S) /\ Len(c) = n + 1 /\ (\A i \in 1 .. n : c[i] = a[i]) /\ c[n + 1] = x
  <2>1. PICK e : e = <<x>> OBVIOUS
  <2>2. /\ c \in Seq(S) /\ Len(c) = Len(a) + Len(e)
        /\ \A i \in 1 .. Len(a) + Len(e) : c[i] = IF i <= Len(a) THEN a[i] ELSE e[i - Len(a)]
    BY <1>4, <1>6, <1>7, <2>1, ConcatProperties
  <2> QED BY <1>3, <1>4, <1>7, <2>1, <2>2
<1>9. PICK d : d = c \o b OBVIOUS
<1>10. d = InsertAt(s, k, x)
  <2>1. k - 1 = n BY <1>0, <1>3
  <2> QED BY <1>0, <1>1, <1>6, <1>9, <2>1 DEF InsertAt
<1>11. /\ d \in Seq(S) /\ Len(d) = Len(c) + Len(b)
       /\ \A i \in 1 .. Len(c) + Len(b) : d[i] = IF i <= Len(c) THEN c[i] ELSE b[i - Len(c)]
  BY <1>5, <1>8, <1>9, ConcatProperties
<1>12. Len(d) = l + 1 /\ \A i \in 1 .. n + 1 : d[i] = c[i] BY <1>3, <1>5, <1>8, <1>11
<1>13. \A i \in n + 2 .. l + 1 : d[i] = b[i - (n + 1)] BY <1>3, <1>5, <1>8, <1>11
<1>14. \A i \in n + 2 .. l + 1 : d[i] = s[i - 1]
  <2> TAKE i \in n + 2 .. l + 1
  <2>1. i - (n + 1) \in 1 .. l - n /\ n + (i - (n + 1)) = i - 1 BY <1>3
  <2> QED BY <1>5, <1>13, <2>1
<1>15. \A i \in 1 .. n : d[i] = s[i] BY <1>3, <1>4, <1>8, <1>12
<1>16. d[n + 1] = x BY <1>3, <1>8, <1>12
<1>17. k - 1 = n /\ k + 1 = n + 2 BY <1>0
<1> QED BY <1>0, <1>2, <1>10, <1>11, <1>12, <1>14, <1>15, <1>16, <1>17

-----------------------------------------------------------------------------
(* The lists.                                                              *)

\* Above cuts the list where the registers below i begin.
LEMMA AboveIs ==
    ASSUME NEW outs, NEW os, NEW m, NEW top, Listed(outs, os, m, top), NEW i \in Int
    PROVE  /\ Above(outs, os, i) \in 0 .. Len(os)
           /\ \A k \in 1 .. Len(os) : IF k <= Above(outs, os, i) THEN outs[os[k]].idx >= i
                                      ELSE outs[os[k]].idx < i
PROOF
<1>1. PICK l : l = Len(os) OBVIOUS
<1>2. l \in Nat BY <1>1 DEF Listed
<1>3. \A k \in 1 .. l : outs[os[k]].idx \in Nat /\ outs[os[k]].ptr.reg = outs[os[k]].idx
  BY <1>1 DEF Listed, Opened, OpenT
<1>4. PICK S : S = {n \in 0 .. l : n = l \/ outs[os[n + 1]].ptr.reg < i} OBVIOUS
<1>5. S \subseteq Nat /\ l \in S BY <1>2, <1>4
<1>6. PICK n : n = Above(outs, os, i) OBVIOUS
<1>7. n = Min(S) BY <1>1, <1>4, <1>6 DEF Above
<1>8. n \in S /\ \A y \in S : n <= y BY <1>5, <1>7, MinIs
<1>9. n \in 0 .. l BY <1>4, <1>8
<1>10. ASSUME NEW k \in 1 .. l, k <= n PROVE outs[os[k]].idx >= i
  <2>1. PICK j : j = k - 1 OBVIOUS
  <2>2. j \in 0 .. l /\ j + 1 = k /\ ~(n <= j) /\ j # l BY <1>2, <1>9, <1>10, <2>1
  <2>3. j \notin S BY <1>8, <2>2
  <2>4. ~(outs[os[k]].ptr.reg < i) BY <1>4, <2>2, <2>3
  <2> QED BY <1>3, <2>4
<1>11. ASSUME NEW k \in 1 .. l, ~(k <= n) PROVE outs[os[k]].idx < i
  <2>1. n # l /\ n + 1 \in 1 .. l /\ n + 1 <= k BY <1>2, <1>9, <1>11
  <2>2. outs[os[n + 1]].idx < i BY <1>3, <1>4, <1>8, <2>1
  <2>3. CASE k = n + 1 BY <2>2, <2>3
  <2>4. CASE n + 1 < k
    <3>1. outs[os[n + 1]].idx > outs[os[k]].idx BY <1>1, <2>1, <2>4 DEF Listed
    <3> QED BY <1>3, <2>1, <2>2, <3>1
  <2> QED BY <1>9, <2>1, <2>3, <2>4
<1> QED BY <1>1, <1>6, <1>9, <1>10, <1>11

\* A list stays one when its end is cut off and the outers in it stay as they are.
LEMMA ListedSame ==
    ASSUME NEW outs, NEW new, NEW os, NEW m, NEW top, Listed(outs, os, m, top),
           \A k \in 1 .. Len(os) : new[os[k]] = outs[os[k]]
    PROVE  Listed(new, os, m, top)
PROOF BY DEF Listed

LEMMA ListedHigher ==
    ASSUME NEW outs, NEW os, NEW m, NEW top \in Int, Listed(outs, os, m, top), NEW new \in Int, top <= new
    PROVE  Listed(outs, os, m, new)
PROOF
<1>1. ASSUME NEW x, Opened(x, m, top) PROVE Opened(x, m, new)
  <2>1. x.idx \in Nat BY <1>1 DEF Opened, OpenT
  <2> QED BY <1>1, <2>1 DEF Opened
<1> QED BY <1>1 DEF Listed

\* No outer is twice in a list.
LEMMA ListedOnce ==
    ASSUME NEW outs, NEW os, NEW m, NEW top, Listed(outs, os, m, top),
           NEW j \in 1 .. Len(os), NEW k \in 1 .. Len(os), os[j] = os[k]
    PROVE  j = k
PROOF
<1>1. Len(os) \in Nat BY DEF Listed
<1>2. outs[os[j]].idx \in Nat BY DEF Listed, Opened, OpenT
<1>3. CASE j < k
  <2>1. outs[os[j]].idx > outs[os[k]].idx BY <1>3 DEF Listed
  <2> QED BY <1>2, <2>1
<1>4. CASE k < j
  <2>1. outs[os[k]].idx > outs[os[j]].idx BY <1>4 DEF Listed
  <2> QED BY <1>2, <2>1
<1> QED BY <1>1, <1>3, <1>4

LEMMA OpenedIsSome ==
    ASSUME NEW x, NEW m, NEW top, Opened(x, m, top)
    PROVE  x # None
PROOF
<1>1. x \in [ptr : [vm : VMs, at : Nat, reg : Nat], idx : Nat, value : {None}]
  BY DEF Opened, OpenT
<1> QED BY <1>1, NoneAssumption

\* A new outer that goes where Above points keeps the list in order.
LEMMA InsertListed ==
    ASSUME NEW outs, DOMAIN outs = Outers, NEW os, NEW m, NEW top \in Int, Listed(outs, os, m, top),
           NEW new \in Outers, \A k \in 1 .. Len(os) : os[k] # new,
           NEW x, Opened(x, m, top), NEW n \in 0 .. Len(os),
           \A k \in 1 .. Len(os) : IF k <= n THEN outs[os[k]].idx > x.idx ELSE outs[os[k]].idx < x.idx
    PROVE  Listed([outs EXCEPT ![new] = x], InsertAt(os, n + 1, new), m, top)
PROOF
<1>1. PICK l : l = Len(os) OBVIOUS
<1>2. os \in Seq(Outers) /\ l \in Nat /\ n \in 0 .. l BY <1>1 DEF Listed
<1>3. PICK ns : ns = InsertAt(os, n + 1, new) OBVIOUS
<1>4. /\ ns \in Seq(Outers) /\ Len(ns) = l + 1
      /\ \A k \in 1 .. n : ns[k] = os[k]
      /\ ns[n + 1] = new
      /\ \A k \in n + 2 .. l + 1 : ns[k] = os[k - 1]
  <2>1. PICK k : k = n + 1 OBVIOUS
  <2>2. k \in 1 .. Len(os) + 1 /\ k - 1 = n /\ k + 1 = n + 2 /\ os \in Seq(Outers) BY <1>1, <1>2, <2>1
  <2>3. /\ InsertAt(os, k, new) \in Seq(Outers) /\ Len(InsertAt(os, k, new)) = Len(os) + 1
        /\ \A i \in 1 .. k - 1 : InsertAt(os, k, new)[i] = os[i]
        /\ InsertAt(os, k, new)[k] = new
        /\ \A i \in k + 1 .. Len(os) + 1 : InsertAt(os, k, new)[i] = os[i - 1]
    BY <2>2, InsertIs, SMTT(60)
  <2> QED BY <1>1, <1>3, <2>1, <2>2, <2>3
<1>5. PICK o2 : o2 = [outs EXCEPT ![new] = x] OBVIOUS
<1>6. o2[new] = x /\ \A k \in 1 .. l : o2[os[k]] = outs[os[k]] BY <1>1, <1>2, <1>5
<1>7. \A k \in 1 .. l : Opened(outs[os[k]], m, top) BY <1>1 DEF Listed
<1>8. x.idx \in Nat /\ \A k \in 1 .. l : outs[os[k]].idx \in Nat BY <1>7 DEF Opened, OpenT
<1>9. \A k \in 1 .. l + 1 : k \in 1 .. n \/ k = n + 1 \/ k \in n + 2 .. l + 1 BY <1>2
<1>10. ASSUME NEW k \in 1 .. l + 1 PROVE Opened(o2[ns[k]], m, top)
  <2>1. CASE k \in 1 .. n
    <3>1. k \in 1 .. l BY <1>2, <2>1
    <3> QED BY <1>4, <1>6, <1>7, <2>1, <3>1
  <2>2. CASE k = n + 1 BY <1>4, <1>6, <2>2
  <2>3. CASE k \in n + 2 .. l + 1
    <3>1. k - 1 \in 1 .. l BY <1>2, <2>3
    <3> QED BY <1>4, <1>6, <1>7, <2>3, <3>1
  <2> QED BY <1>9, <2>1, <2>2, <2>3
<1>11. ASSUME NEW j \in 1 .. l, NEW k \in 1 .. l, j < k PROVE outs[os[j]].idx > outs[os[k]].idx
  BY <1>1, <1>11 DEF Listed
<1>12. ASSUME NEW j \in 1 .. l + 1, NEW k \in 1 .. l + 1, j < k PROVE o2[ns[j]].idx > o2[ns[k]].idx
  <2>1. CASE j \in 1 .. n /\ k \in 1 .. n
    <3>1. j \in 1 .. l /\ k \in 1 .. l BY <1>2, <2>1
    <3>2. outs[os[j]].idx > outs[os[k]].idx BY <1>11, <1>12, <3>1
    <3> QED BY <1>4, <1>6, <2>1, <3>1, <3>2
  <2>2. CASE j \in 1 .. n /\ k = n + 1
    <3>1. j \in 1 .. l /\ j <= n BY <1>2, <2>2
    <3>2. outs[os[j]].idx > x.idx BY <1>1, <3>1
    <3> QED BY <1>4, <1>6, <2>2, <3>1, <3>2
  <2>3. CASE j \in 1 .. n /\ k \in n + 2 .. l + 1
    <3>1. PICK i : i = k - 1 OBVIOUS
    <3>2. j \in 1 .. l /\ i \in 1 .. l /\ j < i BY <1>2, <2>3, <3>1
    <3>3. outs[os[j]].idx > outs[os[i]].idx BY <1>11, <3>2
    <3> QED BY <1>4, <1>6, <2>3, <3>1, <3>2, <3>3
  <2>4. CASE j = n + 1 /\ k \in n + 2 .. l + 1
    <3>1. PICK i : i = k - 1 OBVIOUS
    <3>2. i \in 1 .. l /\ ~(i <= n) BY <1>2, <2>4, <3>1
    <3>3. outs[os[i]].idx < x.idx BY <1>1, <3>2
    <3>4. x.idx > outs[os[i]].idx BY <1>8, <3>2, <3>3
    <3> QED BY <1>4, <1>6, <2>4, <3>1, <3>2, <3>4
  <2>5. CASE j \in n + 2 .. l + 1 /\ k \in n + 2 .. l + 1
    <3>1. PICK h, i : h = j - 1 /\ i = k - 1 OBVIOUS
    <3>2. h \in 1 .. l /\ i \in 1 .. l /\ h < i BY <1>2, <1>12, <2>5, <3>1
    <3>3. outs[os[h]].idx > outs[os[i]].idx BY <1>11, <3>2
    <3> QED BY <1>4, <1>6, <2>5, <3>1, <3>2, <3>3
  <2>6. \/ j \in 1 .. n /\ (k \in 1 .. n \/ k = n + 1 \/ k \in n + 2 .. l + 1)
        \/ j = n + 1 /\ k \in n + 2 .. l + 1
        \/ j \in n + 2 .. l + 1 /\ k \in n + 2 .. l + 1
    BY <1>2, <1>12
  <2> QED BY <2>1, <2>2, <2>3, <2>4, <2>5, <2>6
<1>13. Listed(o2, ns, m, top) BY <1>4, <1>10, <1>12 DEF Listed
<1> QED BY <1>3, <1>5, <1>13

LEMMA FindOuterOk ==
    ASSUME OInv, NEW m \in VMs, NEW s, NEW top \in Int,
           Listed(s.outs, s.opens, m, top), Apart(s, m),
           NEW i \in Nat, i < top, NEW new \in Outers, s.outs[new] = None
    PROVE  LET t == FindOuter(s, m, i, new)
           IN  /\ Listed(t.outs, t.opens, m, top) /\ Apart(t, m)
               /\ \A o \in Outers \ {new} : t.outs[o] = s.outs[o]
PROOF
<1>1. PICK outs, os : outs = s.outs /\ os = s.opens OBVIOUS
<1>2. PICK l : l = Len(os) OBVIOUS
<1>3. Listed(outs, os, m, top) BY <1>1
<1>4. os \in Seq(Outers) /\ l \in Nat BY <1>2, <1>3 DEF Listed
<1>5. \A k \in 1 .. l : Opened(outs[os[k]], m, top) BY <1>2, <1>3 DEF Listed
<1>6. PICK n : n = Place(s, i) OBVIOUS
<1>7. n \in 0 .. l /\ \A k \in 1 .. l : IF k <= n THEN outs[os[k]].idx >= i + 1 ELSE outs[os[k]].idx < i + 1
  <2>1. PICK i1 : i1 = i + 1 OBVIOUS
  <2>2. i1 \in Int BY <2>1
  <2>3. n = Above(outs, os, i1) BY <1>1, <1>6, <2>1 DEF Place
  <2> QED BY <1>2, <1>3, <2>1, <2>2, <2>3, AboveIs
<1>8. \A k \in 1 .. l : outs[os[k]].idx \in Nat /\ outs[os[k]].ptr.reg = outs[os[k]].idx
  BY <1>5 DEF Opened, OpenT
<1>9. {"outs", "opens"} \subseteq DOMAIN s /\ DOMAIN outs = Outers
      /\ \A v \in VMs \ {m} : \A k \in 1 .. Len(opens[v]) : outs[opens[v][k]] = outer[opens[v][k]]
  BY <1>1 DEF Apart
<1>10. PICK t : t = FindOuter(s, m, i, new) OBVIOUS
<1>11. CASE n < l /\ outs[os[n + 1]].ptr.reg = i
  <2>1. PICK w : w = os[n + 1] OBVIOUS
  <2>2. t = [s EXCEPT !.found = Append(@, w)]
    BY <1>1, <1>2, <1>6, <1>10, <1>11, <2>1 DEF FindOuter
  <2>3. t.outs = outs /\ t.opens = os /\ {"outs", "opens"} \subseteq DOMAIN t BY <1>1, <1>9, <2>2
  <2>4. Listed(t.outs, t.opens, m, top) BY <1>3, <2>3
  <2>5. Apart(t, m) BY <1>9, <2>3 DEF Apart
  <2>6. \A o \in Outers \ {new} : t.outs[o] = s.outs[o] BY <1>1, <2>3
  <2> QED BY <1>10, <2>4, <2>5, <2>6
<1>12. CASE ~(n < l /\ outs[os[n + 1]].ptr.reg = i)
  <2>1. PICK at : at = mem[m].at OBVIOUS
  <2>2. PICK x : x = [ptr |-> [vm |-> m, at |-> at, reg |-> i], idx |-> i, value |-> None] OBVIOUS
  <2>3. at \in {0, 1} BY <2>1 DEF OInv, Shape
  <2>4. Opened(x, m, top) /\ x.idx = i BY <2>2, <2>3 DEF Opened, OpenT
  <2>5. \A k \in 1 .. l : os[k] # new
    <3> TAKE k \in 1 .. l
    <3>1. outs[os[k]] # None BY <1>5, OpenedIsSome
    <3> QED BY <1>1, <3>1
  <2>6. ASSUME NEW k \in 1 .. l PROVE IF k <= n THEN outs[os[k]].idx > i ELSE outs[os[k]].idx < i
    <3>1. CASE k <= n BY <1>7, <1>8, <3>1
    <3>2. CASE ~(k <= n)
      <4>1. n < l /\ n + 1 \in 1 .. l /\ ~(n + 1 <= n) /\ (k = n + 1 \/ n + 1 < k) BY <1>4, <1>7, <3>2
      <4>2. outs[os[n + 1]].idx < i
        <5>1. outs[os[n + 1]].idx \in Nat /\ outs[os[n + 1]].ptr.reg = outs[os[n + 1]].idx BY <1>8, <4>1
        <5>2. outs[os[n + 1]].idx < i + 1 BY <1>7, <4>1
        <5>3. outs[os[n + 1]].idx # i BY <1>12, <4>1, <5>1
        <5> QED BY <5>1, <5>2, <5>3
      <4>3. CASE k = n + 1 BY <3>2, <4>2, <4>3
      <4>4. CASE n + 1 < k
        <5>1. outs[os[n + 1]].idx > outs[os[k]].idx BY <1>2, <1>3, <4>1, <4>4 DEF Listed
        <5> QED BY <1>8, <3>2, <4>1, <4>2, <5>1
      <4> QED BY <4>1, <4>3, <4>4
    <3> QED BY <3>1, <3>2
  <2>7. PICK o2, ns : o2 = [outs EXCEPT ![new] = x] /\ ns = InsertAt(os, n + 1, new) OBVIOUS
  <2>8. Listed(o2, ns, m, top) BY <1>2, <1>3, <1>7, <1>9, <2>4, <2>5, <2>6, <2>7, InsertListed
  <2>9. t.outs = o2 /\ t.opens = ns /\ {"outs", "opens"} \subseteq DOMAIN t
    <3>1. t = [outs |-> o2, opens |-> ns, found |-> Append(s.found, new)]
      BY <1>1, <1>2, <1>6, <1>10, <1>12, <2>1, <2>2, <2>7 DEF FindOuter
    <3> QED BY <3>1
  <2>10. ASSUME NEW v \in VMs \ {m}, NEW k \in 1 .. Len(opens[v])
         PROVE  o2[opens[v][k]] = outer[opens[v][k]]
    <3>1. PICK o : o = opens[v][k] OBVIOUS
    <3>2. Listed(outer, opens[v], v, FrameTop(frames[v])) BY DEF OInv
    <3>3. Opened(outer[o], v, FrameTop(frames[v])) BY <3>1, <3>2 DEF Listed
    <3>4. outer[o] # None BY <3>3, OpenedIsSome
    <3>5. outs[o] = outer[o] BY <1>9, <3>1
    <3>6. o # new BY <1>1, <3>4, <3>5
    <3>7. o \in Outers BY <3>1, <3>2 DEF Listed
    <3> QED BY <1>9, <2>7, <3>1, <3>5, <3>6, <3>7
  <2>11. DOMAIN o2 = Outers /\ \A o \in Outers \ {new} : o2[o] = outs[o] BY <1>9, <2>7
  <2>12. Apart(t, m) BY <2>9, <2>10, <2>11 DEF Apart
  <2> QED BY <1>1, <1>10, <2>8, <2>9, <2>11, <2>12
<1> QED BY <1>11, <1>12

LEMMA RangeIs ==
    ASSUME NEW S, NEW s \in Seq(S), NEW o
    PROVE  o \in Range(s) <=> \E k \in 1 .. Len(s) : s[k] = o
PROOF
<1>1. DOMAIN s = 1 .. Len(s) OBVIOUS
<1> QED BY <1>1 DEF Range

\* The lists of two VMs have no outer in common.
LEMMA ListsDisjoint ==
    ASSUME NEW outs, NEW os, NEW m, NEW top, Listed(outs, os, m, top),
           NEW ps, NEW v, NEW end, Listed(outer, ps, v, end), v # m,
           NEW k \in 1 .. Len(ps), outs[ps[k]] = outer[ps[k]]
    PROVE  \A j \in 1 .. Len(os) : os[j] # ps[k]
PROOF
<1>1. SUFFICES ASSUME NEW j \in 1 .. Len(os), os[j] = ps[k] PROVE FALSE OBVIOUS
<1>2. outs[os[j]].ptr.vm = m BY DEF Listed, Opened
<1>3. outer[ps[k]].ptr.vm = v BY DEF Listed, Opened
<1> QED BY <1>1, <1>2, <1>3

LEMMA CloseOk ==
    ASSUME OInv, NEW m \in VMs, NEW i \in Int
    PROVE  LET s == CloseOuters(m, i)
           IN  /\ \A top \in Int : i <= top => Listed(s.outs, s.opens, m, top)
               /\ Apart(s, m)
               /\ \A k \in 1 .. Len(s.opens) : s.outs[s.opens[k]] = outer[s.opens[k]]
               /\ DOMAIN s = {"outs", "opens"}
PROOF
<1>1. PICK os, end : os = opens[m] /\ end = FrameTop(frames[m]) OBVIOUS
<1>2. PICK n : n = Above(outer, os, i) OBVIOUS
<1>3. PICK l : l = Len(os) OBVIOUS
<1>4. Listed(outer, os, m, end) BY <1>1 DEF OInv
<1>5. os \in Seq(Outers) /\ l \in Nat BY <1>3, <1>4 DEF Listed
<1>6. n \in 0 .. l /\ \A k \in 1 .. l : IF k <= n THEN outer[os[k]].idx >= i ELSE outer[os[k]].idx < i
  BY <1>2, <1>3, <1>4, AboveIs
<1>7. PICK s : s = CloseOuters(m, i) OBVIOUS
<1>8. PICK cut, ns : cut = SubSeq(os, 1, n) /\ ns = SubSeq(os, n + 1, l) OBVIOUS
<1>9. /\ s.outs = [o \in Outers |-> IF o \in Range(cut)
                                    THEN [outer[o] EXCEPT !.value = Deref(o), !.ptr = None] ELSE outer[o]]
      /\ s.opens = ns /\ DOMAIN s = {"outs", "opens"}
  BY <1>1, <1>2, <1>3, <1>7, <1>8 DEF CloseOuters
<1>10. cut \in Seq(Outers) /\ Len(cut) = n /\ \A k \in 1 .. n : cut[k] = os[k]
  <2>1. 1 \in 1 .. Len(os) + 1 /\ n \in 0 .. Len(os) /\ 1 <= n + 1 /\ n - 1 + 1 = n
        /\ \A k \in 1 .. n : 1 + k - 1 = k
    BY <1>3, <1>6
  <2>2. /\ SubSeq(os, 1, n) \in Seq(Outers) /\ Len(SubSeq(os, 1, n)) = n - 1 + 1
        /\ \A k \in 1 .. n - 1 + 1 : SubSeq(os, 1, n)[k] = os[1 + k - 1]
    BY <1>5, <2>1, SliceIs
  <2> QED BY <1>8, <2>1, <2>2
<1>11. ns \in Seq(Outers) /\ Len(ns) = l - n /\ \A k \in 1 .. l - n : ns[k] = os[n + k]
  <2>1. PICK j : j = n + 1 OBVIOUS
  <2>2. j \in 1 .. Len(os) + 1 /\ l \in 0 .. Len(os) /\ j <= l + 1 /\ l - j + 1 = l - n
        /\ \A k \in 1 .. l - n : j + k - 1 = n + k
    BY <1>3, <1>5, <1>6, <2>1
  <2>3. /\ SubSeq(os, j, l) \in Seq(Outers) /\ Len(SubSeq(os, j, l)) = l - j + 1
        /\ \A k \in 1 .. l - j + 1 : SubSeq(os, j, l)[k] = os[j + k - 1]
    BY <1>5, <2>2, SliceIs
  <2> QED BY <1>8, <2>1, <2>2, <2>3
<1>12. ASSUME NEW k \in 1 .. l - n PROVE ns[k] \in Outers /\ s.outs[ns[k]] = outer[ns[k]]
  <2>1. PICK o : o = ns[k] OBVIOUS
  <2>2. n + k \in 1 .. l /\ o = os[n + k] /\ o \in Outers BY <1>3, <1>5, <1>6, <1>11, <1>12, <2>1
  <2>3. o \notin Range(cut)
    <3>1. SUFFICES ASSUME o \in Range(cut) PROVE FALSE OBVIOUS
    <3>2. PICK j \in 1 .. n : cut[j] = o BY <1>10, <3>1, RangeIs
    <3>3. j \in 1 .. l /\ os[j] = os[n + k] /\ j # n + k BY <1>5, <1>6, <1>10, <1>12, <2>2, <3>2
    <3> QED BY <1>3, <1>4, <2>2, <3>3, ListedOnce
  <2> QED BY <1>9, <2>1, <2>2, <2>3
<1>13. ASSUME NEW top \in Int, i <= top PROVE Listed(s.outs, s.opens, m, top)
  <2>1. ASSUME NEW k \in 1 .. l - n PROVE Opened(s.outs[ns[k]], m, top) /\ outer[ns[k]].idx \in Nat
    <3>1. n + k \in 1 .. l /\ ~(n + k <= n) /\ ns[k] = os[n + k] BY <1>5, <1>6, <1>11, <2>1
    <3>2. outer[os[n + k]].idx < i BY <1>6, <3>1
    <3>3. Opened(outer[os[n + k]], m, end) BY <1>3, <1>4, <3>1 DEF Listed
    <3>4. outer[os[n + k]].idx \in Nat BY <3>3 DEF Opened, OpenT
    <3>5. outer[os[n + k]].idx < top BY <1>13, <3>2, <3>4
    <3>6. Opened(outer[os[n + k]], m, top) BY <3>3, <3>5 DEF Opened
    <3> QED BY <1>12, <2>1, <3>1, <3>4, <3>6
  <2>2. ASSUME NEW j \in 1 .. l - n, NEW k \in 1 .. l - n, j < k
        PROVE  s.outs[ns[j]].idx > s.outs[ns[k]].idx
    <3>1. PICK a, b : a = n + j /\ b = n + k OBVIOUS
    <3>2. a \in 1 .. l /\ b \in 1 .. l /\ a < b BY <1>5, <1>6, <2>2, <3>1
    <3>3. outer[os[a]].idx > outer[os[b]].idx BY <1>3, <1>4, <3>2 DEF Listed
    <3>4. s.outs[ns[j]] = outer[os[a]] /\ s.outs[ns[k]] = outer[os[b]] BY <1>11, <1>12, <3>1
    <3> QED BY <3>3, <3>4
  <2>3. Listed(s.outs, ns, m, top) BY <1>11, <2>1, <2>2 DEF Listed
  <2> QED BY <1>9, <2>3
<1>14. Apart(s, m)
  <2>1. ASSUME NEW v \in VMs \ {m}, NEW k \in 1 .. Len(opens[v])
        PROVE  s.outs[opens[v][k]] = outer[opens[v][k]]
    <3>1. PICK ps, o : ps = opens[v] /\ o = ps[k] OBVIOUS
    <3>2. Listed(outer, ps, v, FrameTop(frames[v])) BY <3>1 DEF OInv
    <3>3. o \in Outers BY <3>1, <3>2 DEF Listed
    <3>4. \A j \in 1 .. l : os[j] # o BY <1>3, <1>4, <3>1, <3>2, ListsDisjoint
    <3>5. \A j \in 1 .. n : j \in 1 .. l BY <1>5, <1>6
    <3>6. o \notin Range(cut) BY <1>10, <3>4, <3>5, RangeIs
    <3> QED BY <1>9, <3>1, <3>3, <3>6
  <2>2. DOMAIN s.outs = Outers BY <1>9
  <2> QED BY <1>9, <2>1, <2>2 DEF Apart
<1>15. \A k \in 1 .. Len(s.opens) : s.outs[s.opens[k]] = outer[s.opens[k]] BY <1>9, <1>11, <1>12
<1> QED BY <1>7, <1>9, <1>13, <1>14, <1>15

LEMMA RelocateOk ==
    ASSUME OInv, NEW m \in VMs, NEW s, NEW top \in Int,
           Listed(s.outs, s.opens, m, top), Apart(s, m), NEW at \in {0, 1}
    PROVE  LET t == [s EXCEPT !.outs = RelocateOuters(@, m, s.opens, at)]
           IN  Listed(t.outs, t.opens, m, top) /\ Apart(t, m)
PROOF
<1>1. PICK outs, os : outs = s.outs /\ os = s.opens OBVIOUS
<1>2. PICK l : l = Len(os) OBVIOUS
<1>3. Listed(outs, os, m, top) BY <1>1
<1>4. os \in Seq(Outers) /\ l \in Nat BY <1>2, <1>3 DEF Listed
<1>5. PICK new : new = RelocateOuters(outs, m, os, at) OBVIOUS
<1>6. PICK t : t = [s EXCEPT !.outs = RelocateOuters(@, m, s.opens, at)] OBVIOUS
<1>7. t.outs = new /\ t.opens = os /\ {"outs", "opens"} \subseteq DOMAIN t BY <1>1, <1>5, <1>6 DEF Apart
<1>8. DOMAIN new = Outers /\ \A o \in Outers :
        new[o] = IF o \in Range(os) THEN [outs[o] EXCEPT !.ptr.at = at, !.ptr.reg = outs[o].idx] ELSE outs[o]
  BY <1>5 DEF RelocateOuters
<1>9. ASSUME NEW k \in 1 .. l
      PROVE  Opened(new[os[k]], m, top) /\ new[os[k]].idx = outs[os[k]].idx
  <2>1. PICK o, x, y : o = os[k] /\ x = outs[o] /\ y = new[o] OBVIOUS
  <2>2. o \in Outers /\ o \in Range(os) BY <1>2, <1>4, <2>1, RangeIs
  <2>3. y = [x EXCEPT !.ptr.at = at, !.ptr.reg = x.idx] BY <1>8, <2>1, <2>2
  <2>4. Opened(x, m, top) BY <1>2, <1>3, <2>1 DEF Listed
  <2>5. y \in OpenT /\ y.ptr.vm = m /\ y.ptr.reg = x.idx /\ y.idx = x.idx BY <2>3, <2>4 DEF Opened, OpenT
  <2>6. Opened(y, m, top) BY <2>4, <2>5 DEF Opened
  <2> QED BY <2>1, <2>5, <2>6
<1>10. Listed(new, os, m, top)
  <2>1. \A j, k \in 1 .. l : j < k => outs[os[j]].idx > outs[os[k]].idx BY <1>2, <1>3 DEF Listed
  <2> QED BY <1>2, <1>4, <1>9, <2>1 DEF Listed
<1>11. ASSUME NEW v \in VMs \ {m}, NEW k \in 1 .. Len(opens[v])
       PROVE  new[opens[v][k]] = outer[opens[v][k]]
  <2>1. PICK ps, o : ps = opens[v] /\ o = ps[k] OBVIOUS
  <2>2. Listed(outer, ps, v, FrameTop(frames[v])) BY <2>1 DEF OInv
  <2>3. o \in Outers BY <2>1, <2>2 DEF Listed
  <2>4. outs[o] = outer[o] BY <1>1, <2>1 DEF Apart
  <2>5. \A j \in 1 .. l : os[j] # o BY <1>2, <1>3, <2>1, <2>2, <2>4, ListsDisjoint
  <2>6. o \notin Range(os) BY <1>2, <1>4, <2>5, RangeIs
  <2> QED BY <1>8, <2>1, <2>3, <2>4, <2>6
<1>12. Apart(t, m) BY <1>7, <1>8, <1>11 DEF Apart
<1> QED BY <1>6, <1>7, <1>10, <1>12

-----------------------------------------------------------------------------
(* The frames of a VM.                                                     *)

LEMMA PrefixOk ==
    ASSUME NEW fs, FramesOk(fs), NEW n \in 0 .. Len(fs)
    PROVE  /\ FramesOk(SubSeq(fs, 1, n)) /\ Len(SubSeq(fs, 1, n)) = n
           /\ FrameTop(SubSeq(fs, 1, n)) \in Nat
           /\ n > 0 => FrameTop(SubSeq(fs, 1, n)) = fs[n].base + FrameSize
           /\ n < Len(fs) => FrameOk(fs[n + 1]) /\ fs[n + 1].base <= FrameTop(SubSeq(fs, 1, n))
PROOF
<1>1. PICK S : fs \in Seq(S) BY DEF FramesOk
<1>2. PICK ps, l : ps = SubSeq(fs, 1, n) /\ l = Len(fs) OBVIOUS
<1>3. l \in Nat /\ n \in 0 .. l BY <1>1, <1>2
<1>4. ps \in Seq(S) /\ Len(ps) = n /\ \A k \in 1 .. n : ps[k] = fs[k]
  <2>1. 1 \in 1 .. Len(fs) + 1 /\ 1 <= n + 1 /\ n - 1 + 1 = n /\ \A k \in 1 .. n : 1 + k - 1 = k
    BY <1>2, <1>3
  <2>2. /\ SubSeq(fs, 1, n) \in Seq(S) /\ Len(SubSeq(fs, 1, n)) = n - 1 + 1
        /\ \A k \in 1 .. n - 1 + 1 : SubSeq(fs, 1, n)[k] = fs[1 + k - 1]
    BY <1>1, <2>1, SliceIs
  <2> QED BY <1>2, <2>1, <2>2
<1>5. /\ \A k \in 1 .. l : FrameOk(fs[k])
      /\ fs # <<>> => fs[1].base = 0
      /\ \A k \in 2 .. l : fs[k].base <= fs[k - 1].base + FrameSize
  BY <1>2 DEF FramesOk
<1>6. ps = <<>> <=> n = 0 BY <1>3, <1>4
<1>7. n > 0 => FrameTop(ps) = fs[n].base + FrameSize BY <1>3, <1>4, <1>6 DEF FrameTop, Last
<1>8. n = 0 => FrameTop(ps) = 0 BY <1>6 DEF FrameTop
<1>9. FrameTop(ps) \in Nat
  <2>1. n > 0 => fs[n].base \in Nat BY <1>3, <1>5 DEF FrameOk
  <2> QED BY <1>3, <1>7, <1>8, <2>1, BoundsAssumption
<1>10. FramesOk(ps)
  <2>1. \A k \in 1 .. n : k \in 1 .. l BY <1>3
  <2>2. \A k \in 2 .. n : k \in 2 .. l /\ k \in 1 .. n /\ k - 1 \in 1 .. n BY <1>3
  <2>3. ps # <<>> => 1 \in 1 .. n /\ fs # <<>> BY <1>1, <1>2, <1>3, <1>6
  <2> QED BY <1>4, <1>5, <2>1, <2>2, <2>3 DEF FramesOk
<1>11. ASSUME n < l PROVE FrameOk(fs[n + 1]) /\ fs[n + 1].base <= FrameTop(ps)
  <2>1. FrameOk(fs[n + 1])
    <3>1. n + 1 \in 1 .. l BY <1>3, <1>11
    <3> QED BY <1>5, <3>1
  <2>2. CASE n = 0
    <3>1. fs # <<>> BY <1>1, <1>2, <1>3, <1>11
    <3>2. fs[n + 1].base = 0 BY <1>5, <2>2, <3>1
    <3> QED BY <1>8, <2>1, <2>2, <3>2
  <2>3. CASE n > 0
    <3>1. PICK k : k = n + 1 OBVIOUS
    <3>2. k \in 2 .. l /\ k - 1 = n BY <1>3, <1>11, <2>3, <3>1
    <3>3. fs[k].base <= fs[n].base + FrameSize BY <1>5, <3>2
    <3> QED BY <1>7, <2>1, <2>3, <3>1, <3>3
  <2> QED BY <1>3, <2>2, <2>3
<1> QED BY <1>2, <1>4, <1>7, <1>9, <1>10, <1>11

LEMMA AppendOk ==
    ASSUME NEW fs, FramesOk(fs), NEW f, FrameOk(f), f.base <= FrameTop(fs)
    PROVE  /\ FramesOk(Append(fs, f)) /\ FrameTop(Append(fs, f)) = f.base + FrameSize
           /\ f.base + FrameSize \in Nat
           /\ Last(Append(fs, f)) = f /\ Append(fs, f) # <<>>
PROOF
<1>1. PICK S0 : fs \in Seq(S0) BY DEF FramesOk
<1>2. PICK S : S = S0 \cup {f} OBVIOUS
<1>3. fs \in Seq(S) /\ f \in S
  <2>1. S0 \subseteq S BY <1>2
  <2>2. fs \in Seq(S) BY <1>1, <2>1, SeqMonotonic
  <2> QED BY <1>2, <2>2
<1>4. PICK l, gs : l = Len(fs) /\ gs = Append(fs, f) OBVIOUS
<1>5. /\ gs \in Seq(S) /\ Len(gs) = l + 1 /\ l \in Nat
      /\ \A k \in 1 .. l : gs[k] = fs[k]
      /\ gs[l + 1] = f
  BY <1>3, <1>4, AppendProperties
<1>6. Last(gs) = f /\ gs # <<>> BY <1>5 DEF Last
<1>7. FrameTop(gs) = f.base + FrameSize BY <1>6 DEF FrameTop
<1>8. f.base \in Nat /\ f.base + FrameSize \in Nat BY BoundsAssumption DEF FrameOk
<1>9. /\ \A k \in 1 .. l : FrameOk(fs[k])
      /\ fs # <<>> => fs[1].base = 0
      /\ \A k \in 2 .. l : fs[k].base <= fs[k - 1].base + FrameSize
  BY <1>4 DEF FramesOk
<1>10. \A k \in 1 .. l + 1 : k \in 1 .. l \/ k = l + 1 BY <1>5
<1>11. \A k \in 1 .. l + 1 : FrameOk(gs[k]) BY <1>5, <1>9, <1>10
<1>12. fs = <<>> <=> l = 0 BY <1>1, <1>4
<1>13. gs[1].base = 0
  <2>1. CASE l = 0
    <3>1. f.base <= 0 BY <1>12, <2>1 DEF FrameTop
    <3> QED BY <1>5, <1>8, <2>1, <3>1
  <2>2. CASE l > 0 BY <1>5, <1>9, <1>12, <2>2
  <2> QED BY <1>5, <2>1, <2>2
<1>14. ASSUME NEW k \in 2 .. l + 1 PROVE gs[k].base <= gs[k - 1].base + FrameSize
  <2>1. CASE k = l + 1
    <3>1. l \in 1 .. l /\ fs # <<>> /\ k - 1 = l BY <1>5, <1>12, <2>1
    <3>2. FrameTop(fs) = fs[l].base + FrameSize BY <1>4, <3>1 DEF FrameTop, Last
    <3> QED BY <1>5, <2>1, <3>1, <3>2
  <2>2. CASE k # l + 1
    <3>1. k \in 2 .. l /\ k \in 1 .. l /\ k - 1 \in 1 .. l BY <1>5, <2>2
    <3> QED BY <1>5, <1>9, <3>1
  <2> QED BY <2>1, <2>2
<1>15. FramesOk(gs)
  <2>1. \E S1 : gs \in Seq(S1) BY <1>5
  <2> QED BY <1>5, <1>11, <1>13, <1>14, <2>1 DEF FramesOk
<1> QED BY <1>4, <1>6, <1>7, <1>8, <1>15

\* The frame that runs, and those below it.
LEMMA RunningIs ==
    ASSUME OInv, NEW m \in VMs, Running(m)
    PROVE  /\ FrameOk(Frame(m)) /\ FrameTop(frames[m]) = Frame(m).base + FrameSize
           /\ FramesOk(Front(frames[m])) /\ FrameTop(Front(frames[m])) \in Nat
           /\ Frame(m).base <= FrameTop(Front(frames[m]))
           /\ Len(frames[m]) - 1 \in 0 .. Len(frames[m])
           /\ Front(frames[m]) = SubSeq(frames[m], 1, Len(frames[m]) - 1)
           /\ Len(Front(frames[m])) = Len(frames[m]) - 1
           /\ frames[m][Len(frames[m])] = Frame(m)
           /\ FramesOk(frames[m])
PROOF
<1>1. PICK fs, l : fs = frames[m] /\ l = Len(frames[m]) OBVIOUS
<1>2. FramesOk(fs) /\ fs # <<>> BY <1>1 DEF OInv, Running
<1>3. PICK S : fs \in Seq(S) BY <1>2 DEF FramesOk
<1>4. PICK n : n = l - 1 OBVIOUS
<1>5. l \in Nat /\ n \in 0 .. Len(fs) /\ n < Len(fs) /\ n + 1 = l BY <1>1, <1>2, <1>3, <1>4
<1>6. /\ FramesOk(SubSeq(fs, 1, n)) /\ Len(SubSeq(fs, 1, n)) = n
      /\ FrameTop(SubSeq(fs, 1, n)) \in Nat
      /\ FrameOk(fs[n + 1]) /\ fs[n + 1].base <= FrameTop(SubSeq(fs, 1, n))
  BY <1>2, <1>5, PrefixOk
<1>7. Frame(m) = fs[l] /\ Front(fs) = SubSeq(fs, 1, n) BY <1>1, <1>4 DEF Frame, Last, Front
<1>8. FrameTop(fs) = fs[l].base + FrameSize BY <1>1, <1>2 DEF FrameTop, Last
<1> QED BY <1>1, <1>2, <1>4, <1>5, <1>6, <1>7, <1>8

-----------------------------------------------------------------------------
(* What a step leaves behind.                                              *)

MemKept == DOMAIN mem' = VMs /\ \A v \in VMs : mem'[v].at \in {0, 1}
GensOk == DOMAIN gen' = Gens /\ \A g \in Gens : gen'[g] # None => FrameOk(gen'[g].frame)

LEMMA SettleInv ==
    ASSUME OInv, NEW m \in VMs, NEW regs, NEW fs, NEW s, Settle(m, regs, fs, s),
           FramesOk(fs), Listed(s.outs, s.opens, m, FrameTop(fs)), Apart(s, m), MemKept, GensOk
    PROVE  OInv'
PROOF
<1>1. PICK outs, os : outs = s.outs /\ os = s.opens OBVIOUS
<1>2. PICK held : held = Range(os) \cup (UNION {Range(opens[n]) : n \in VMs \ {m}}) \cup {e.outer : e \in Entries}
  OBVIOUS
<1>3. /\ frames' = [frames EXCEPT ![m] = fs] /\ opens' = [opens EXCEPT ![m] = os]
      /\ outer' = [o \in Outers |-> IF o \in held THEN outs[o] ELSE None]
  BY <1>1, <1>2 DEF Settle
<1>4. Shape' BY <1>3 DEF OInv, Shape, MemKept, GensOk
<1>5. os \in Seq(Outers) /\ Listed(outs, os, m, FrameTop(fs)) BY <1>1 DEF Listed
<1>6. frames'[m] = fs /\ opens'[m] = os BY <1>3 DEF OInv, Shape
<1>7. Listed(outer', os, m, FrameTop(fs))
  <2>1. ASSUME NEW k \in 1 .. Len(os) PROVE outer'[os[k]] = outs[os[k]]
    <3>1. os[k] \in Range(os) /\ os[k] \in Outers BY <1>5, RangeIs
    <3> QED BY <1>2, <1>3, <3>1
  <2> QED BY <1>5, <2>1, ListedSame
<1>8. ASSUME NEW v \in VMs, v # m PROVE FramesOk(frames'[v]) /\ Listed(outer', opens'[v], v, FrameTop(frames'[v]))
  <2>1. frames'[v] = frames[v] /\ opens'[v] = opens[v] BY <1>3, <1>8 DEF OInv, Shape
  <2>2. FramesOk(frames[v]) /\ Listed(outer, opens[v], v, FrameTop(frames[v])) BY DEF OInv
  <2>3. ASSUME NEW k \in 1 .. Len(opens[v]) PROVE outer'[opens[v][k]] = outer[opens[v][k]]
    <3>1. PICK o : o = opens[v][k] OBVIOUS
    <3>2. opens[v] \in Seq(Outers) BY <2>2 DEF Listed
    <3>3. o \in Range(opens[v]) /\ o \in Outers BY <3>1, <3>2, RangeIs
    <3>4. o \in held BY <1>2, <1>8, <3>3
    <3>5. outs[o] = outer[o] BY <1>1, <1>8, <3>1 DEF Apart
    <3> QED BY <1>3, <3>1, <3>3, <3>4, <3>5
  <2>4. Listed(outer', opens[v], v, FrameTop(frames[v])) BY <2>2, <2>3, ListedSame
  <2> QED BY <2>1, <2>2, <2>4
<1>9. FramesOk(frames'[m]) /\ Listed(outer', opens'[m], m, FrameTop(frames'[m])) BY <1>6, <1>7
<1> QED BY <1>4, <1>8, <1>9 DEF OInv, GensOk

LEMMA OpenOk ==
    ASSUME OInv, NEW m \in VMs, NEW top \in Int, FrameTop(frames[m]) <= top
    PROVE  Listed(Open(m).outs, Open(m).opens, m, top) /\ Apart(Open(m), m)
PROOF
<1>1. PICK s : s = Open(m) OBVIOUS
<1>2. s.outs = outer /\ s.opens = opens[m] /\ {"outs", "opens"} \subseteq DOMAIN s BY <1>1 DEF Open
<1>3. FramesOk(frames[m]) /\ Listed(outer, opens[m], m, FrameTop(frames[m])) BY DEF OInv
<1>4. FrameTop(frames[m]) \in Int
  <2>1. CASE Running(m)
    <3>1. FrameOk(Frame(m)) /\ FrameTop(frames[m]) = Frame(m).base + FrameSize BY <2>1, RunningIs
    <3>2. Frame(m).base \in Nat BY <3>1 DEF FrameOk
    <3> QED BY <3>1, <3>2, BoundsAssumption
  <2>2. CASE ~Running(m) BY <2>2 DEF Running, FrameTop
  <2> QED BY <2>1, <2>2
<1>5. Listed(s.outs, s.opens, m, top) BY <1>2, <1>3, <1>4, ListedHigher
<1>6. Apart(s, m)
  <2>1. DOMAIN s.outs = Outers BY <1>2 DEF OInv, Shape
  <2> QED BY <1>2, <2>1 DEF Apart
<1> QED BY <1>1, <1>5, <1>6

LEMMA EnterInv ==
    ASSUME OInv, NEW m \in VMs, NEW regs, NEW fs, NEW s, EnterFrame(m, regs, fs, s),
           FramesOk(fs), Listed(s.outs, s.opens, m, FrameTop(fs)), FrameTop(fs) \in Int, Apart(s, m), GensOk
    PROVE  OInv'
PROOF
<1>1. PICK base : base = Last(fs).base OBVIOUS
<1>2. PICK t : t = Relocated(m, base, s) OBVIOUS
<1>3. mem' = Grown(m, base) /\ Settle(m, regs, fs, t) BY <1>1, <1>2 DEF EnterFrame
<1>4. mem[m].at \in {0, 1} BY DEF OInv, Shape
<1>5. MemKept
  <2>1. CASE Grows(m, base)
    <3>1. PICK r : r = [at |-> 1 - mem[m].at, size |-> base + FrameSize + 4 * MIN_STACK_OVERHEAD] OBVIOUS
    <3>2. mem' = [mem EXCEPT ![m] = r] BY <1>3, <2>1, <3>1 DEF Grown
    <3>3. r.at \in {0, 1} BY <1>4, <3>1
    <3> QED BY <3>2, <3>3 DEF MemKept, OInv, Shape
  <2>2. CASE ~Grows(m, base) BY <1>3, <2>2 DEF Grown, MemKept, OInv, Shape
  <2> QED BY <2>1, <2>2
<1>6. Listed(t.outs, t.opens, m, FrameTop(fs)) /\ Apart(t, m)
  <2>1. CASE Grows(m, base)
    <3>1. PICK at, top : at = 1 - mem[m].at /\ top = FrameTop(fs) OBVIOUS
    <3>2. t = [s EXCEPT !.outs = RelocateOuters(@, m, s.opens, at)] BY <1>2, <2>1, <3>1 DEF Relocated
    <3>3. at \in {0, 1} /\ top \in Int BY <1>4, <3>1
    <3> QED BY <3>1, <3>2, <3>3, RelocateOk
  <2>2. CASE ~Grows(m, base) BY <1>2, <2>2 DEF Relocated
  <2> QED BY <2>1, <2>2
<1> QED BY <1>3, <1>5, <1>6, SettleInv

\* Frames are left: what they had is closed.
LEMMA LeaveInv ==
    ASSUME OInv, NEW m \in VMs, NEW n \in 0 .. Len(frames[m]), n < Len(frames[m]),
           NEW fs, fs = SubSeq(frames[m], 1, n), LeaveFrames(m, fs), MemKept, GensOk
    PROVE  OInv'
PROOF
<1>1. FramesOk(frames[m]) BY DEF OInv
<1>2. PICK i : i = frames[m][n + 1].base OBVIOUS
<1>3. /\ FramesOk(fs) /\ Len(fs) = n /\ FrameTop(fs) \in Nat
      /\ FrameOk(frames[m][n + 1]) /\ i <= FrameTop(fs)
  BY <1>1, <1>2, PrefixOk
<1>4. i \in Int /\ FrameTop(fs) \in Int BY <1>2, <1>3 DEF FrameOk
<1>5. PICK s : s = CloseOuters(m, i) OBVIOUS
<1>6. Listed(s.outs, s.opens, m, FrameTop(fs)) /\ Apart(s, m) BY <1>3, <1>4, <1>5, CloseOk
<1>7. Settle(m, stack[m], fs, s) BY <1>2, <1>3, <1>5 DEF LeaveFrames
<1> QED BY <1>3, <1>6, <1>7, SettleInv

-----------------------------------------------------------------------------
(* The free variables of a new closure, one after the other.               *)

NoneFound(m) == [outs |-> outer, opens |-> opens[m], found |-> <<>>]
NextFound(s, m, src, new, i) ==
    IF src[i].kind = "local" THEN FindOuter(s, m, Local(m, src[i].n), new[i])
    ELSE [s EXCEPT !.found = Append(@, closure[Frame(m).closure][src[i].n].outer)]

\* f is what FindOuters computes, step by step.
AreFound(f, m, src, new, k) ==
    f = [i \in 0..k |->
            IF i = 0 THEN [outs |-> outer, opens |-> opens[m], found |-> <<>>]
            ELSE IF src[i].kind = "local" THEN FindOuter(f[i - 1], m, Local(m, src[i].n), new[i])
            ELSE [f[i - 1] EXCEPT !.found = Append(@, closure[Frame(m).closure][src[i].n].outer)]]

LEMMA FoundExist ==
    ASSUME NEW m, NEW src, NEW new, NEW k \in Nat
    PROVE  \E f : AreFound(f, m, src, new, k)
PROOF
<1> DEFINE Are(f, n) == /\ DOMAIN f = 0 .. n /\ f = [i \in 0 .. n |-> f[i]] /\ f[0] = NoneFound(m)
                        /\ \A i \in 1 .. n : f[i] = NextFound(f[i - 1], m, src, new, i)
           Bad == {n \in Nat : ~ \E f : Are(f, n)}
<1>1. Bad = {}
  <2> SUFFICES ASSUME Bad # {} PROVE FALSE OBVIOUS
  <2>1. PICK n \in Bad : \A j \in Bad : n <= j BY Least
  <2>2. CASE n = 0
    <3>1. PICK f : f = [i \in 0 .. 0 |-> NoneFound(m)] OBVIOUS
    <3>2. DOMAIN f = 0 .. 0 /\ f = [i \in 0 .. 0 |-> f[i]] /\ f[0] = NoneFound(m) BY <3>1
    <3>3. Are(f, 0) BY <3>2
    <3> QED BY <2>1, <2>2, <3>3
  <2>3. CASE n > 0
    <3>1. PICK j : j = n - 1 OBVIOUS
    <3>2. j \in Nat /\ j \notin Bad /\ n = j + 1 BY <2>1, <2>3, <3>1
    <3>3. PICK f : Are(f, j) BY <3>2
    <3>4. PICK x : x = NextFound(f[j], m, src, new, n) OBVIOUS
    <3>5. PICK g : g = [i \in 0 .. n |-> IF i = n THEN x ELSE f[i]] OBVIOUS
    <3>6. g[n] = NextFound(g[n - 1], m, src, new, n) BY <3>2, <3>4, <3>5
    <3>7. \A i \in 1 .. j : g[i] = f[i] /\ g[i - 1] = f[i - 1] BY <3>2, <3>5
    <3>8. \A i \in 1 .. j : g[i] = NextFound(g[i - 1], m, src, new, i) BY <3>3, <3>7
    <3>9. \A i \in 1 .. n : g[i] = NextFound(g[i - 1], m, src, new, i) BY <3>2, <3>6, <3>8
    <3>10. DOMAIN g = 0 .. n /\ g = [i \in 0 .. n |-> g[i]] /\ g[0] = NoneFound(m) BY <3>2, <3>3, <3>5
    <3>11. Are(g, n) BY <3>9, <3>10
    <3> QED BY <2>1, <3>11
  <2> QED BY <2>1, <2>2, <2>3
<1>2. PICK f : Are(f, k) BY <1>1
<1>3. ASSUME NEW i \in 0 .. k
      PROVE  f[i] = IF i = 0 THEN [outs |-> outer, opens |-> opens[m], found |-> <<>>]
                    ELSE IF src[i].kind = "local" THEN FindOuter(f[i - 1], m, Local(m, src[i].n), new[i])
                    ELSE [f[i - 1] EXCEPT !.found = Append(@, closure[Frame(m).closure][src[i].n].outer)]
  <2>1. CASE i = 0 BY <1>2, <2>1 DEF NoneFound
  <2>2. CASE i \in 1 .. k
    <3>1. f[i] = NextFound(f[i - 1], m, src, new, i) BY <1>2, <2>2
    <3>2. i # 0 BY <2>2
    <3> QED BY <3>1, <3>2 DEF NextFound
  <2>3. i = 0 \/ i \in 1 .. k OBVIOUS
  <2> QED BY <2>1, <2>2, <2>3
<1>4. AreFound(f, m, src, new, k) BY <1>2, <1>3 DEF AreFound
<1> QED BY <1>4

\* The outers f, found for one source after the other, stay in order.
FoundOk(f, m, src, new, k) ==
    /\ FindOuters(m, src, new) = f[k] /\ f[0] = NoneFound(m)
    /\ \A i \in 1 .. k : f[i] = NextFound(f[i - 1], m, src, new, i)
    /\ \A i \in 0 .. k : /\ Listed(f[i].outs, f[i].opens, m, FrameTop(frames[m])) /\ Apart(f[i], m)
                        /\ \A o \in Outers : (\A j \in 1 .. i : new[j] # o) => f[i].outs[o] = outer[o]

LEMMA FoundAll ==
    ASSUME OInv, NEW m \in VMs, Running(m), NEW k \in Nat,
           NEW src \in [1..k -> Sources(m)], NEW new \in [1..k -> {o \in Outers : outer[o] = None}],
           IsInjective(new)
    PROVE  \E f : FoundOk(f, m, src, new, k)
PROOF
<1>1. PICK fr : fr = Frame(m) OBVIOUS
<1>2. PICK top : top = FrameTop(frames[m]) OBVIOUS
<1>3. fr.base \in Nat /\ fr.nlocals \in 0 .. FrameSize /\ top = fr.base + FrameSize /\ top \in Int
  <2>1. FrameOk(fr) /\ top = fr.base + FrameSize BY <1>1, <1>2, RunningIs
  <2> QED BY <2>1, BoundsAssumption DEF FrameOk
<1>4. PICK f : f = CHOOSE ff : AreFound(ff, m, src, new, k) OBVIOUS
<1>5. AreFound(f, m, src, new, k) BY <1>4, FoundExist
<1>6. Len(src) = k OBVIOUS
<1>7. FindOuters(m, src, new) = f[k] BY <1>4, <1>6 DEF FindOuters, AreFound
<1>8. f[0] = NoneFound(m) /\ \A i \in 1 .. k : f[i] = NextFound(f[i - 1], m, src, new, i)
  <2>1. f[0] = NoneFound(m) BY <1>5 DEF AreFound, NoneFound
  <2>2. ASSUME NEW i \in 1 .. k PROVE f[i] = NextFound(f[i - 1], m, src, new, i)
    <3>1. i \in 0 .. k /\ i # 0 OBVIOUS
    <3>2. f[i] = IF src[i].kind = "local" THEN FindOuter(f[i - 1], m, Local(m, src[i].n), new[i])
                 ELSE [f[i - 1] EXCEPT !.found = Append(@, closure[Frame(m).closure][src[i].n].outer)]
      BY <1>5, <3>1 DEF AreFound
    <3> QED BY <3>2 DEF NextFound
  <2> QED BY <2>1, <2>2
<1> DEFINE Ok(i) == /\ Listed(f[i].outs, f[i].opens, m, top) /\ Apart(f[i], m)
                    /\ \A o \in Outers : (\A j \in 1 .. i : new[j] # o) => f[i].outs[o] = outer[o]
<1>9. Ok(0)
  <2>1. FrameTop(frames[m]) <= top BY <1>2, <1>3
  <2>2. Listed(Open(m).outs, Open(m).opens, m, top) /\ Apart(Open(m), m) BY <1>3, <2>1, OpenOk
  <2>3. PICK s : s = f[0] OBVIOUS
  <2>4. s.outs = outer /\ s.opens = opens[m] /\ {"outs", "opens"} \subseteq DOMAIN s
    BY <1>8, <2>3 DEF NoneFound
  <2>5. Open(m).outs = outer /\ Open(m).opens = opens[m] BY DEF Open
  <2>6. Apart(s, m) BY <2>2, <2>4, <2>5 DEF Apart
  <2> QED BY <2>2, <2>3, <2>4, <2>5, <2>6
<1>10. ASSUME NEW i \in 1 .. k, Ok(i - 1) PROVE Ok(i)
  <2>1. PICK s, t : s = f[i - 1] /\ t = f[i] OBVIOUS
  <2>2. PICK x : x = src[i] OBVIOUS
  <2>3. t = NextFound(s, m, src, new, i) BY <1>8, <2>1
  <2>4. Listed(s.outs, s.opens, m, top) /\ Apart(s, m) BY <1>10, <2>1
  <2>5. CASE x.kind = "local"
    <3>1. PICK r, o : r = Local(m, x.n) /\ o = new[i] OBVIOUS
    <3>2. t = FindOuter(s, m, r, o) BY <2>2, <2>3, <2>5, <3>1 DEF NextFound
    <3>3. o \in Outers /\ outer[o] = None BY <3>1
    <3>4. \A j \in 1 .. i - 1 : new[j] # o
      <4> TAKE j \in 1 .. i - 1
      <4>1. j \in 1 .. k /\ j # i OBVIOUS
      <4>2. DOMAIN new = 1 .. k OBVIOUS
      <4> QED BY <3>1, <4>1, <4>2 DEF IsInjective
    <3>5. s.outs[o] = None BY <1>10, <2>1, <3>3, <3>4
    <3>6. x \in [kind : {"local"}, n : 0..(fr.nlocals - 1)]
      <4>1. x \in Sources(m) BY <2>2
      <4> QED BY <1>1, <2>5, <4>1 DEF Sources
    <3>7. r = fr.base + x.n /\ x.n \in 0 .. fr.nlocals - 1 BY <1>1, <3>1, <3>6 DEF Local
    <3>8. r \in Nat /\ r < top
      <4>1. PICK b, n, q : b = fr.base /\ n = fr.nlocals /\ q = x.n OBVIOUS
      <4>2. b \in Nat /\ n \in 0 .. FrameSize /\ q \in 0 .. n - 1 /\ r = b + q /\ top = b + FrameSize
        BY <1>3, <3>7, <4>1
      <4> QED BY <4>2, BoundsAssumption
    <3>9. /\ Listed(t.outs, t.opens, m, top) /\ Apart(t, m)
          /\ \A p \in Outers \ {o} : t.outs[p] = s.outs[p]
      BY <1>3, <2>4, <3>2, <3>3, <3>5, <3>8, FindOuterOk
    <3>10. ASSUME NEW p \in Outers, \A j \in 1 .. i : new[j] # p PROVE t.outs[p] = outer[p]
      <4>1. p # o /\ \A j \in 1 .. i - 1 : new[j] # p
        <5>1. i \in 1 .. i /\ \A j \in 1 .. i - 1 : j \in 1 .. i OBVIOUS
        <5> QED BY <3>1, <3>10, <5>1
      <4> QED BY <1>10, <2>1, <3>9, <4>1
    <3> QED BY <2>1, <3>9, <3>10
  <2>6. CASE x.kind # "local"
    <3>1. PICK z : z = closure[Frame(m).closure][src[i].n].outer OBVIOUS
    <3>2. t = [s EXCEPT !.found = Append(@, z)] BY <2>2, <2>3, <2>6, <3>1 DEF NextFound
    <3>3. t.outs = s.outs /\ t.opens = s.opens /\ {"outs", "opens"} \subseteq DOMAIN t
      BY <2>4, <3>2 DEF Apart
    <3>4. Apart(t, m) BY <2>4, <3>3 DEF Apart
    <3>5. ASSUME NEW p \in Outers, \A j \in 1 .. i : new[j] # p PROVE t.outs[p] = outer[p]
      <4>1. \A j \in 1 .. i - 1 : j \in 1 .. i OBVIOUS
      <4> QED BY <1>10, <2>1, <3>3, <3>5, <4>1
    <3> QED BY <2>1, <2>4, <3>3, <3>4, <3>5
  <2> QED BY <2>5, <2>6
<1>11. \A i \in 0 .. k : Ok(i)
  <2> DEFINE Bad == {i \in 0 .. k : ~Ok(i)}
  <2> HIDE DEF Ok
  <2> SUFFICES ASSUME Bad # {} PROVE FALSE OBVIOUS
  <2>1. Bad \subseteq Nat OBVIOUS
  <2>2. PICK i \in Bad : \A j \in Bad : i <= j BY <2>1, Least
  <2>3. i # 0 BY <1>9, <2>2
  <2>4. i - 1 \in 0 .. k /\ i \in 1 .. k /\ ~(i <= i - 1) BY <2>2, <2>3
  <2>5. Ok(i - 1) BY <2>2, <2>4
  <2>6. Ok(i) BY <1>10, <2>4, <2>5
  <2> QED BY <2>2, <2>6
<1>12. FoundOk(f, m, src, new, k) BY <1>2, <1>7, <1>8, <1>11 DEF FoundOk
<1> QED BY <1>12

LEMMA FindOutersOk ==
    ASSUME OInv, NEW m \in VMs, Running(m), NEW k \in Nat,
           NEW src \in [1..k -> Sources(m)], NEW new \in [1..k -> {o \in Outers : outer[o] = None}],
           IsInjective(new)
    PROVE  LET s == FindOuters(m, src, new)
           IN  Listed(s.outs, s.opens, m, FrameTop(frames[m])) /\ Apart(s, m)
PROOF
<1>1. PICK f : FoundOk(f, m, src, new, k) BY FoundAll
<1>2. k \in 0 .. k OBVIOUS
<1> QED BY <1>1, <1>2 DEF FoundOk

-----------------------------------------------------------------------------
(* The steps.                                                              *)

LEMMA KeptOk ==
    ASSUME OInv
    PROVE  (mem' = mem => MemKept) /\ (gen' = gen => GensOk)
PROOF BY DEF OInv, Shape, MemKept, GensOk

LEMMA TopIs ==
    ASSUME OInv, NEW m \in VMs
    PROVE  FrameTop(frames[m]) \in Nat /\ FramesOk(frames[m])
PROOF
<1>1. FramesOk(frames[m]) BY DEF OInv
<1>2. CASE Running(m)
  <2>1. FrameOk(Frame(m)) /\ FrameTop(frames[m]) = Frame(m).base + FrameSize BY <1>2, RunningIs
  <2>2. Frame(m).base \in Nat BY <2>1 DEF FrameOk
  <2> QED BY <1>1, <2>1, <2>2, BoundsAssumption
<1>3. CASE ~Running(m) BY <1>1, <1>3 DEF Running, FrameTop
<1> QED BY <1>2, <1>3

\* The frame that runs changes, but for its base.
LEMMA SameBaseInv ==
    ASSUME OInv, NEW m \in VMs, Running(m), NEW f, FrameOk(f), f.base = Frame(m).base, NEW regs, NEW s,
           Settle(m, regs, WithFrame(m, f), s), Listed(s.outs, s.opens, m, FrameTop(frames[m])), Apart(s, m),
           MemKept, GensOk
    PROVE  OInv'
PROOF
<1>1. PICK fs, gs : fs = Front(frames[m]) /\ gs = Append(Front(frames[m]), f) OBVIOUS
<1>2. FramesOk(fs) /\ f.base <= FrameTop(fs) /\ FrameTop(frames[m]) = f.base + FrameSize
  BY <1>1, RunningIs
<1>3. FramesOk(gs) /\ FrameTop(gs) = f.base + FrameSize BY <1>1, <1>2, AppendOk
<1>4. Settle(m, regs, gs, s) BY <1>1 DEF WithFrame
<1> QED BY <1>2, <1>3, <1>4, SettleInv

LEMMA NewFrameOk ==
    ASSUME NEW base \in Nat, NEW c, NEW g
    PROVE  FrameOk(NewFrame(base, 1, c, g)) /\ NewFrame(base, 1, c, g).base = base
PROOF
<1>1. PICK f : f = NewFrame(base, 1, c, g) OBVIOUS
<1>2. f.base = base /\ f.nlocals = 1 /\ f.blocks = <<>> /\ DOMAIN f = FrameFields
  BY <1>1 DEF NewFrame, FrameFields
<1>3. 1 \in 0 .. FrameSize BY BoundsAssumption
<1>4. <<>> \in Seq(BlockT) OBVIOUS
<1> QED BY <1>1, <1>2, <1>3, <1>4 DEF FrameOk

\* Where a callee begins: in the frame of the caller, or right after it.
LEMMA CalleeBaseIs ==
    ASSUME OInv, NEW m \in VMs
    PROVE  /\ CalleeBase(m) \in Nat /\ CalleeBase(m) <= FrameTop(frames[m])
           /\ FrameTop(frames[m]) <= CalleeBase(m) + FrameSize
PROOF
<1>1. CASE Running(m)
  <2>1. PICK f : f = Frame(m) OBVIOUS
  <2>2. FrameOk(f) /\ FrameTop(frames[m]) = f.base + FrameSize BY <1>1, <2>1, RunningIs
  <2>3. PICK b, n : b = f.base /\ n = f.nlocals OBVIOUS
  <2>4. b \in Nat /\ n \in 0 .. FrameSize BY <2>2, <2>3 DEF FrameOk
  <2>5. CalleeBase(m) = b + n BY <1>1, <2>1, <2>3 DEF CalleeBase, Local
  <2>6. FrameTop(frames[m]) = b + FrameSize BY <2>2, <2>3
  <2> QED BY <2>4, <2>5, <2>6, BoundsAssumption
<1>2. CASE ~Running(m)
  <2>1. CalleeBase(m) = 0 /\ FrameTop(frames[m]) = 0 BY <1>2 DEF CalleeBase, Running, FrameTop
  <2> QED BY <2>1, BoundsAssumption
<1> QED BY <1>1, <1>2

LEMMA CallInv ==
    ASSUME OInv, NEW m \in VMs, NEW c, NEW v, Call(m, c, v)
    PROVE  OInv'
PROOF
<1>1. PICK base, regs : base = CalleeBase(m) /\ regs = Passed(m, CalleeBase(m), <<v>>) OBVIOUS
<1>2. PICK f : f = NewFrame(base, 1, c, None) OBVIOUS
<1>3. PICK gs : gs = Append(frames[m], f) OBVIOUS
<1>4. EnterFrame(m, regs, gs, Open(m)) /\ gen' = gen BY <1>1, <1>2, <1>3 DEF Call
<1>5. base \in Nat /\ base <= FrameTop(frames[m]) /\ FrameTop(frames[m]) <= base + FrameSize
  BY <1>1, CalleeBaseIs
<1>6. FrameOk(f) /\ f.base = base BY <1>2, <1>5, NewFrameOk
<1>7. FramesOk(frames[m]) BY TopIs
<1>8. FramesOk(gs) /\ FrameTop(gs) = base + FrameSize /\ base + FrameSize \in Nat
  BY <1>3, <1>5, <1>6, <1>7, AppendOk
<1>9. PICK top : top = FrameTop(gs) OBVIOUS
<1>10. top \in Int /\ FrameTop(frames[m]) <= top BY <1>5, <1>8, <1>9
<1>11. Listed(Open(m).outs, Open(m).opens, m, top) /\ Apart(Open(m), m) BY <1>10, OpenOk
<1>12. GensOk BY <1>4, KeptOk
<1> QED BY <1>4, <1>8, <1>9, <1>10, <1>11, <1>12, EnterInv

LEMMA TailCallInv ==
    ASSUME OInv, NEW m \in VMs, NEW c, NEW v, TailCall(m, c, v)
    PROVE  OInv'
PROOF
<1>1. PICK old : old = Frame(m) OBVIOUS
<1>2. PICK base, regs : base = old.base /\ regs = Passed(m, old.base, <<v>>) OBVIOUS
<1>3. PICK f : f = NewFrame(base, 1, c, old.gen) OBVIOUS
<1>4. PICK gs, s : gs = Append(Front(frames[m]), f) /\ s = CloseOuters(m, base) OBVIOUS
<1>5. Running(m) /\ EnterFrame(m, regs, gs, s) /\ gen' = gen
  BY <1>1, <1>2, <1>3, <1>4 DEF TailCall
<1>6. FrameOk(old) /\ FramesOk(Front(frames[m])) /\ base <= FrameTop(Front(frames[m]))
  BY <1>1, <1>2, <1>5, RunningIs
<1>7. base \in Nat BY <1>2, <1>6 DEF FrameOk
<1>8. FrameOk(f) /\ f.base = base BY <1>3, <1>7, NewFrameOk
<1>9. FramesOk(gs) /\ FrameTop(gs) = base + FrameSize /\ base + FrameSize \in Nat
  BY <1>4, <1>6, <1>8, AppendOk
<1>10. PICK top : top = FrameTop(gs) OBVIOUS
<1>11. top \in Int /\ base \in Int /\ base <= top BY <1>7, <1>9, <1>10, BoundsAssumption
<1>12. Listed(s.outs, s.opens, m, top) /\ Apart(s, m) BY <1>4, <1>11, CloseOk
<1>13. GensOk BY <1>5, KeptOk
<1> QED BY <1>5, <1>9, <1>10, <1>11, <1>12, <1>13, EnterInv

LEMMA ReturnInv ==
    ASSUME OInv, NEW m \in VMs, Return(m)
    PROVE  OInv'
PROOF
<1>1. Running(m) /\ LeaveFrames(m, Front(frames[m])) /\ mem' = mem /\ gen' = gen BY DEF Return
<1>2. PICK n : n = Len(frames[m]) - 1 OBVIOUS
<1>3. n \in 0 .. Len(frames[m]) /\ Front(frames[m]) = SubSeq(frames[m], 1, n) BY <1>1, <1>2, RunningIs
<1>4. n < Len(frames[m])
  <2>1. FramesOk(frames[m]) BY DEF OInv
  <2>2. \E S : frames[m] \in Seq(S) BY <2>1 DEF FramesOk
  <2> QED BY <1>2, <2>2
<1>5. MemKept /\ GensOk BY <1>1, KeptOk
<1> QED BY <1>1, <1>3, <1>4, <1>5, LeaveInv

LEMMA ThrowOutInv ==
    ASSUME OInv, NEW m \in VMs, ThrowOut(m)
    PROVE  OInv'
PROOF
<1>1. Running(m) /\ LeaveFrames(m, <<>>) /\ mem' = mem /\ gen' = gen BY DEF ThrowOut
<1>2. PICK S : frames[m] \in Seq(S)
  <2>1. FramesOk(frames[m]) BY DEF OInv
  <2> QED BY <2>1 DEF FramesOk
<1>3. SubSeq(frames[m], 1, 0) = <<>>
  <2>1. PICK fs : fs = SubSeq(frames[m], 1, 0) OBVIOUS
  <2>2. 1 \in 1 .. Len(frames[m]) + 1 /\ 0 \in 0 .. Len(frames[m]) /\ 1 <= 0 + 1 /\ 0 - 1 + 1 = 0 BY <1>2
  <2>3. fs \in Seq(S) /\ Len(fs) = 0 BY <1>2, <2>1, <2>2, SliceIs
  <2> QED BY <2>1, <2>3
<1>4. 0 \in 0 .. Len(frames[m]) /\ 0 < Len(frames[m]) BY <1>1, <1>2 DEF Running
<1>5. MemKept /\ GensOk BY <1>1, KeptOk
<1>6. PICK n, fs : n = 0 /\ fs = <<>> OBVIOUS
<1>7. n \in 0 .. Len(frames[m]) /\ n < Len(frames[m]) /\ fs = SubSeq(frames[m], 1, n) /\ LeaveFrames(m, fs)
  BY <1>1, <1>3, <1>4, <1>6
<1> QED BY <1>5, <1>7, LeaveInv

\* An exception is caught: the frames above are left, the one that catches goes on.
LEMMA CatchInv ==
    ASSUME OInv, NEW m \in VMs, Catch(m)
    PROVE  OInv'
PROOF
<1>1. PICK fs, l : fs = frames[m] /\ l = Len(frames[m]) OBVIOUS
<1>2. FramesOk(fs) BY <1>1 DEF OInv
<1>3. PICK S : fs \in Seq(S) BY <1>2 DEF FramesOk
<1>4. l \in Nat /\ DOMAIN fs = 1 .. l BY <1>1, <1>3
<1>5. PICK k : k = Max(Catchers(m)) OBVIOUS
<1>6. k \in 1 .. l /\ Tries(fs[k]) # {}
  <2>1. Catchers(m) # {} BY DEF Catch
  <2>2. Catchers(m) \subseteq 1 .. l BY <1>1, <1>4 DEF Catchers
  <2>3. k \in Catchers(m) BY <1>4, <1>5, <2>1, <2>2, MaxIs
  <2> QED BY <1>1, <1>4, <2>3 DEF Catchers
<1>7. PICK f : f = fs[k] OBVIOUS
<1>8. FrameOk(f) BY <1>1, <1>2, <1>6, <1>7 DEF FramesOk
<1>9. PICK n : n = Max(Tries(f)) OBVIOUS
<1>10. PICK bs : bs = f.blocks OBVIOUS
<1>11. bs \in Seq(BlockT) /\ n \in 1 .. Len(bs)
  <2>1. bs \in Seq(BlockT) BY <1>8, <1>10 DEF FrameOk
  <2>2. DOMAIN bs = 1 .. Len(bs) /\ Len(bs) \in Nat BY <2>1
  <2>3. Tries(f) \subseteq 1 .. Len(bs) BY <1>10, <2>2 DEF Tries
  <2>4. n \in Tries(f) BY <1>6, <1>7, <1>9, <2>2, <2>3, MaxIs
  <2> QED BY <2>1, <2>3, <2>4
<1>12. PICK start : start = bs[n].start OBVIOUS
<1>13. start \in 0 .. FrameSize
  <2>1. bs[n] \in BlockT BY <1>11
  <2> QED BY <1>12, <2>1 DEF BlockT
<1>14. PICK no : no = FALSE OBVIOUS
<1>15. PICK nbs : nbs = Append(SubSeq(bs, 1, n - 1), [start |-> start, try |-> no]) OBVIOUS
<1>16. PICK n1 : n1 = start + 1 OBVIOUS
<1>17. PICK caught : caught = [f EXCEPT !.nlocals = n1, !.blocks = nbs] OBVIOUS
<1>18. PICK j, gs : j = k - 1 /\ gs = Append(SubSeq(fs, 1, k - 1), caught) OBVIOUS
<1>19. PICK s : s = IF k < l THEN CloseOuters(m, fs[k + 1].base) ELSE Open(m) OBVIOUS
<1>20. /\ start < FrameSize /\ mem' = mem /\ gen' = gen
       /\ \E v \in Unused : Settle(m, [stack[m] EXCEPT ![f.base + start] = v], gs, s)
  <2>1. caught = [f EXCEPT !.nlocals = start + 1,
                           !.blocks = Append(SubSeq(@, 1, n - 1), [start |-> start, try |-> FALSE])]
    BY <1>10, <1>14, <1>15, <1>16, <1>17
  <2> QED BY <1>1, <1>5, <1>7, <1>9, <1>10, <1>12, <1>18, <1>19, <2>1 DEF Catch
<1>21. nbs \in Seq(BlockT)
  <2>1. PICK b : b = [start |-> start, try |-> no] OBVIOUS
  <2>2. b \in BlockT BY <1>13, <1>14, <2>1 DEF BlockT
  <2>3. PICK i : i = n - 1 OBVIOUS
  <2>4. i \in 0 .. Len(bs) /\ 1 \in 1 .. Len(bs) + 1 /\ 1 <= i + 1 BY <1>11, <2>3
  <2>5. SubSeq(bs, 1, i) \in Seq(BlockT) BY <1>11, <2>4, SliceIs
  <2> QED BY <1>15, <2>1, <2>2, <2>3, <2>5, AppendProperties
<1>22. FrameOk(caught) /\ caught.base = f.base
  <2>1. n1 \in 0 .. FrameSize BY <1>13, <1>16, <1>20, BoundsAssumption
  <2>2. DOMAIN f = FrameFields BY <1>8 DEF FrameOk
  <2>3. /\ DOMAIN caught = FrameFields /\ caught.base = f.base
        /\ caught.nlocals = n1 /\ caught.blocks = nbs
    BY <1>17, <2>2 DEF FrameFields
  <2> QED BY <1>8, <1>21, <2>1, <2>3 DEF FrameOk
<1>23. j \in 0 .. Len(fs) /\ j < Len(fs) /\ j + 1 = k BY <1>1, <1>4, <1>6, <1>18
<1>24. FramesOk(SubSeq(fs, 1, j)) /\ f.base <= FrameTop(SubSeq(fs, 1, j))
  BY <1>2, <1>7, <1>23, PrefixOk
<1>25. FramesOk(gs) /\ FrameTop(gs) = f.base + FrameSize /\ f.base + FrameSize \in Nat
  BY <1>18, <1>22, <1>24, AppendOk
<1>26. PICK top : top = FrameTop(gs) OBVIOUS
<1>27. Listed(s.outs, s.opens, m, top) /\ Apart(s, m)
  <2>1. CASE k < l
    <3>1. PICK i : i = fs[k + 1].base OBVIOUS
    <3>2. k \in 0 .. Len(fs) /\ k > 0 /\ k < Len(fs) BY <1>1, <1>4, <1>6, <2>1
    <3>3. /\ FrameTop(SubSeq(fs, 1, k)) = fs[k].base + FrameSize
          /\ FrameOk(fs[k + 1]) /\ i <= FrameTop(SubSeq(fs, 1, k))
      BY <1>2, <3>1, <3>2, PrefixOk
    <3>4. i \in Int /\ i <= top /\ top \in Int BY <1>7, <1>25, <1>26, <3>1, <3>3 DEF FrameOk
    <3>5. s = CloseOuters(m, i) BY <1>19, <2>1, <3>1
    <3> QED BY <3>4, <3>5, CloseOk
  <2>2. CASE ~(k < l)
    <3>1. k = l /\ s = Open(m) BY <1>4, <1>6, <1>19, <2>2
    <3>2. fs # <<>> BY <1>1, <1>3, <1>6
    <3>3. FrameTop(fs) = f.base + FrameSize BY <1>1, <1>7, <3>1, <3>2 DEF FrameTop, Last
    <3>4. top \in Int /\ FrameTop(frames[m]) <= top BY <1>1, <1>25, <1>26, <3>3
    <3> QED BY <3>1, <3>4, OpenOk
  <2> QED BY <2>1, <2>2
<1>28. MemKept /\ GensOk BY <1>20, KeptOk
<1>29. PICK regs : Settle(m, regs, gs, s) BY <1>20
<1> QED BY <1>25, <1>26, <1>27, <1>28, <1>29, SettleInv

LEMMA DeclareInv ==
    ASSUME OInv, NEW m \in VMs, NEW blocks \in Seq(BlockT), DeclareIn(m, blocks)
    PROVE  OInv'
PROOF
<1>1. PICK old : old = Frame(m) OBVIOUS
<1>2. PICK n1 : n1 = old.nlocals + 1 OBVIOUS
<1>3. PICK f : f = [old EXCEPT !.nlocals = n1, !.blocks = blocks] OBVIOUS
<1>4. /\ Running(m) /\ old.nlocals < FrameSize /\ mem' = mem /\ gen' = gen
      /\ \E regs : Settle(m, regs, WithFrame(m, f), Open(m))
  BY <1>1, <1>2, <1>3 DEF DeclareIn
<1>5. FrameOk(old) BY <1>1, <1>4, RunningIs
<1>6. FrameOk(f) /\ f.base = old.base
  <2>1. n1 \in 0 .. FrameSize BY <1>2, <1>4, <1>5, BoundsAssumption DEF FrameOk
  <2>2. DOMAIN old = FrameFields BY <1>5 DEF FrameOk
  <2>3. /\ DOMAIN f = FrameFields /\ f.base = old.base /\ f.nlocals = n1 /\ f.blocks = blocks
    BY <1>3, <2>2 DEF FrameFields
  <2> QED BY <1>5, <2>1, <2>3 DEF FrameOk
<1>7. PICK top : top = FrameTop(frames[m]) OBVIOUS
<1>8. top \in Int /\ FrameTop(frames[m]) <= top BY <1>7, TopIs
<1>9. Listed(Open(m).outs, Open(m).opens, m, top) /\ Apart(Open(m), m) BY <1>8, OpenOk
<1>10. MemKept /\ GensOk BY <1>4, KeptOk
<1> QED BY <1>1, <1>4, <1>6, <1>7, <1>9, <1>10, SameBaseInv

LEMMA BeginBlockInv ==
    ASSUME OInv, NEW m \in VMs, NEW try \in BOOLEAN, BeginBlock(m, try)
    PROVE  OInv'
PROOF
<1>1. PICK b : b = [start |-> Frame(m).nlocals, try |-> try] OBVIOUS
<1>2. DeclareIn(m, Append(Frame(m).blocks, b)) BY <1>1 DEF BeginBlock
<1>3. FrameOk(Frame(m))
  <2>1. Running(m) BY <1>2 DEF DeclareIn
  <2> QED BY <2>1, RunningIs
<1>4. b \in BlockT BY <1>1, <1>3 DEF FrameOk, BlockT
<1>5. Append(Frame(m).blocks, b) \in Seq(BlockT) BY <1>3, <1>4, AppendProperties DEF FrameOk
<1> QED BY <1>2, <1>5, DeclareInv

LEMMA LeaveBlockInv ==
    ASSUME OInv, NEW m \in VMs, Running(m), NEW n \in 0 .. Len(Frame(m).blocks),
           n < Len(Frame(m).blocks), LeaveBlock(m, n)
    PROVE  OInv'
PROOF
<1>1. PICK old : old = Frame(m) OBVIOUS
<1>2. PICK bs : bs = old.blocks OBVIOUS
<1>3. FrameOk(old) BY <1>1, RunningIs
<1>4. bs \in Seq(BlockT) /\ n \in 0 .. Len(bs) /\ n < Len(bs) BY <1>1, <1>2, <1>3 DEF FrameOk
<1>5. PICK start, nbs : start = bs[n + 1].start /\ nbs = SubSeq(bs, 1, n) OBVIOUS
<1>6. PICK f : f = [old EXCEPT !.blocks = nbs, !.nlocals = start] OBVIOUS
<1>7. mem' = mem /\ gen' = gen /\ \E s \in ClosedBlock(m) : Settle(m, stack[m], WithFrame(m, f), s)
  BY <1>1, <1>2, <1>5, <1>6 DEF LeaveBlock
<1>8. bs[n + 1] \in BlockT
  <2>1. n + 1 \in 1 .. Len(bs) BY <1>4
  <2> QED BY <1>4, <2>1
<1>9. start \in 0 .. FrameSize BY <1>5, <1>8 DEF BlockT
<1>10. nbs \in Seq(BlockT)
  <2>1. 1 \in 1 .. Len(bs) + 1 /\ 1 <= n + 1 BY <1>4
  <2> QED BY <1>4, <1>5, <2>1, SliceIs
<1>11. FrameOk(f) /\ f.base = old.base
  <2>1. DOMAIN old = FrameFields BY <1>3 DEF FrameOk
  <2>2. /\ DOMAIN f = FrameFields /\ f.base = old.base /\ f.nlocals = start /\ f.blocks = nbs
    BY <1>6, <2>1 DEF FrameFields
  <2> QED BY <1>3, <1>9, <1>10, <2>2 DEF FrameOk
<1>12. PICK s \in ClosedBlock(m) : Settle(m, stack[m], WithFrame(m, f), s) BY <1>7
<1>13. PICK top : top = FrameTop(frames[m]) OBVIOUS
<1>14. top \in Int /\ FrameTop(frames[m]) <= top /\ top = old.base + FrameSize BY <1>1, <1>13, TopIs, RunningIs
<1>15. Listed(s.outs, s.opens, m, top) /\ Apart(s, m)
  <2>1. PICK i : i = Local(m, Last(bs).start) OBVIOUS
  <2>2. s = CloseOuters(m, i) \/ s = Open(m) BY <1>1, <1>2, <1>12, <2>1 DEF ClosedBlock
  <2>3. CASE s = CloseOuters(m, i)
    <3>1. Last(bs) \in BlockT BY <1>4 DEF Last
    <3>2. PICK b, st : b = old.base /\ st = Last(bs).start OBVIOUS
    <3>3. b \in Nat /\ st \in 0 .. FrameSize BY <1>3, <3>1, <3>2 DEF FrameOk, BlockT
    <3>4. i = b + st /\ top = b + FrameSize BY <1>1, <1>14, <2>1, <3>2 DEF Local
    <3>5. i \in Int /\ i <= top BY <3>3, <3>4, BoundsAssumption
    <3> QED BY <1>14, <2>3, <3>5, CloseOk
  <2>4. CASE s = Open(m) BY <1>14, <2>4, OpenOk
  <2> QED BY <2>2, <2>3, <2>4
<1>16. MemKept /\ GensOk BY <1>7, KeptOk
<1> QED BY <1>1, <1>11, <1>12, <1>13, <1>15, <1>16, SameBaseInv

LEMMA EndBlockInv ==
    ASSUME OInv, NEW m \in VMs, EndBlock(m) \/ Break(m)
    PROVE  OInv'
PROOF
<1>1. Running(m) BY DEF EndBlock, Break
<1>2. Frame(m).blocks \in Seq(BlockT) BY <1>1, RunningIs DEF FrameOk
<1>3. PICK n : n \in 0 .. Len(Frame(m).blocks) /\ n < Len(Frame(m).blocks) /\ LeaveBlock(m, n)
  <2>1. CASE EndBlock(m)
    <3>1. PICK n : n = Len(Frame(m).blocks) - 1 OBVIOUS
    <3>2. Frame(m).blocks # <<>> /\ LeaveBlock(m, n) BY <2>1, <3>1 DEF EndBlock
    <3>3. n \in 0 .. Len(Frame(m).blocks) /\ n < Len(Frame(m).blocks) BY <1>2, <3>1, <3>2
    <3> QED BY <3>2, <3>3
  <2>2. CASE Break(m)
    <3>1. PICK n \in 0..(Len(Frame(m).blocks) - 2) : LeaveBlock(m, n) BY <2>2 DEF Break
    <3>2. n \in 0 .. Len(Frame(m).blocks) /\ n < Len(Frame(m).blocks) BY <1>2
    <3> QED BY <3>1, <3>2
  <2> QED BY <2>1, <2>2
<1> QED BY <1>1, <1>3, LeaveBlockInv

LEMMA MakeClosureInv ==
    ASSUME OInv, NEW m \in VMs, NEW c, MakeClosure(m, c)
    PROVE  OInv'
PROOF
<1>1. Running(m) /\ mem' = mem /\ gen' = gen BY DEF MakeClosure
<1>2. PICK k \in 1..MaxCaptures :
        \E src \in [1..k -> Sources(m)], new \in [1..k -> {o \in Outers : outer[o] = None}] :
           IsInjective(new) /\ Settle(m, stack[m], frames[m], FindOuters(m, src, new))
  BY DEF MakeClosure
<1>3. PICK src \in [1..k -> Sources(m)], new \in [1..k -> {o \in Outers : outer[o] = None}] :
        IsInjective(new) /\ Settle(m, stack[m], frames[m], FindOuters(m, src, new))
  BY <1>2
<1>4. k \in Nat BY BoundsAssumption
<1>5. PICK s, fs : s = FindOuters(m, src, new) /\ fs = frames[m] OBVIOUS
<1>6. Listed(s.outs, s.opens, m, FrameTop(fs)) /\ Apart(s, m) BY <1>1, <1>3, <1>4, <1>5, FindOutersOk
<1>7. FramesOk(fs) BY <1>5, TopIs
<1>8. Settle(m, stack[m], fs, s) BY <1>3, <1>5
<1>9. MemKept /\ GensOk BY <1>1, KeptOk
<1> QED BY <1>6, <1>7, <1>8, <1>9, SettleInv

LEMMA YieldInv ==
    ASSUME OInv, NEW m \in VMs, Yield(m)
    PROVE  OInv'
PROOF
<1>1. PICK f : f = Frame(m) OBVIOUS
<1>2. PICK z, r : z = 0 /\ r = [i \in 1..f.nlocals |-> stack[m][f.base + i - 1]] OBVIOUS
<1>3. PICK h : h = [f EXCEPT !.gen = None, !.base = z] OBVIOUS
<1>4. PICK x : x = [frame |-> h, regs |-> r] OBVIOUS
<1>5. /\ Running(m) /\ LeaveFrames(m, Front(frames[m])) /\ mem' = mem
      /\ gen' = [gen EXCEPT ![f.gen] = x]
  BY <1>1, <1>2, <1>3, <1>4 DEF Yield
<1>6. FrameOk(f) BY <1>1, <1>5, RunningIs
<1>7. FrameOk(h)
  <2>1. DOMAIN f = FrameFields BY <1>6 DEF FrameOk
  <2>2. /\ DOMAIN h = FrameFields /\ h.base = z /\ h.nlocals = f.nlocals /\ h.blocks = f.blocks
    BY <1>3, <2>1 DEF FrameFields
  <2> QED BY <1>2, <1>6, <2>2 DEF FrameOk
<1>8. GensOk
  <2>1. x.frame = h BY <1>4
  <2>2. DOMAIN gen' = Gens /\ \A g \in Gens : gen'[g] = IF g = f.gen THEN x ELSE gen[g]
    BY <1>5 DEF OInv, Shape
  <2>3. \A g \in Gens : gen[g] # None => FrameOk(gen[g].frame) BY DEF OInv
  <2> QED BY <1>7, <2>1, <2>2, <2>3 DEF GensOk
<1>9. PICK n : n = Len(frames[m]) - 1 OBVIOUS
<1>10. n \in 0 .. Len(frames[m]) /\ Front(frames[m]) = SubSeq(frames[m], 1, n) BY <1>5, <1>9, RunningIs
<1>11. n < Len(frames[m])
  <2>1. FramesOk(frames[m]) BY DEF OInv
  <2>2. \E S : frames[m] \in Seq(S) BY <2>1 DEF FramesOk
  <2> QED BY <1>9, <2>2
<1>12. MemKept BY <1>5, KeptOk
<1> QED BY <1>5, <1>8, <1>10, <1>11, <1>12, LeaveInv

LEMMA ResumeInv ==
    ASSUME OInv, NEW m \in VMs, NEW g \in Gens, Resume(m, g)
    PROVE  OInv'
PROOF
<1>1. PICK base : base = FrameTop(frames[m]) OBVIOUS
<1>2. PICK old, regs : old = gen[g].frame /\ regs = Passed(m, base, gen[g].regs) OBVIOUS
<1>3. PICK f : f = [old EXCEPT !.base = base, !.gen = g] OBVIOUS
<1>4. PICK gs : gs = Append(frames[m], f) OBVIOUS
<1>5. /\ gen[g] # None /\ gen' = [gen EXCEPT ![g] = None]
      /\ EnterFrame(m, regs, gs, Open(m))
  BY <1>1, <1>2, <1>3, <1>4 DEF Resume
<1>6. base \in Nat /\ FramesOk(frames[m]) BY <1>1, TopIs
<1>7. FrameOk(f) /\ f.base = base
  <2>1. FrameOk(old) BY <1>2, <1>5 DEF OInv
  <2>2. DOMAIN old = FrameFields BY <2>1 DEF FrameOk
  <2>3. /\ DOMAIN f = FrameFields /\ f.base = base /\ f.nlocals = old.nlocals /\ f.blocks = old.blocks
    BY <1>3, <2>2 DEF FrameFields
  <2> QED BY <1>6, <2>1, <2>3 DEF FrameOk
<1>8. f.base <= FrameTop(frames[m]) BY <1>1, <1>6, <1>7
<1>9. FramesOk(gs) /\ FrameTop(gs) = base + FrameSize /\ base + FrameSize \in Nat
  BY <1>4, <1>6, <1>7, <1>8, AppendOk
<1>10. PICK top : top = FrameTop(gs) OBVIOUS
<1>11. top \in Int /\ FrameTop(frames[m]) <= top BY <1>1, <1>6, <1>9, <1>10, BoundsAssumption
<1>12. Listed(Open(m).outs, Open(m).opens, m, top) /\ Apart(Open(m), m) BY <1>11, OpenOk
<1>13. GensOk
  <2>1. DOMAIN gen' = Gens /\ \A h \in Gens : gen'[h] = IF h = g THEN None ELSE gen[h]
    BY <1>5 DEF OInv, Shape
  <2>2. \A h \in Gens : gen[h] # None => FrameOk(gen[h].frame) BY DEF OInv
  <2> QED BY <2>1, <2>2 DEF GensOk
<1> QED BY <1>5, <1>9, <1>10, <1>11, <1>12, <1>13, EnterInv

\* A generator function is entered and left at once: what lies at its registers
\* is closed, and the stack may have moved.
LEMMA MakeGeneratorInv ==
    ASSUME OInv, NEW m \in VMs, NEW c, NEW g \in Gens, NEW v, MakeGenerator(m, c, g, v)
    PROVE  OInv'
PROOF
<1>1. PICK base : base = CalleeBase(m) OBVIOUS
<1>2. PICK fs, end : fs = frames[m] /\ end = FrameTop(frames[m]) OBVIOUS
<1>3. PICK s : s = CloseOuters(m, base) OBVIOUS
<1>4. PICK emptied : emptied = [o \in Outers |-> IF s.outs[o] # outer[o] THEN [s.outs[o] EXCEPT !.value = None]
                                                 ELSE outer[o]]
  OBVIOUS
<1>5. PICK t : t = [s EXCEPT !.outs = emptied] OBVIOUS
<1>6. PICK z : z = 0 OBVIOUS
<1>7. PICK f : f = NewFrame(z, 1, c, None) OBVIOUS
<1>8. PICK x : x = [frame |-> f, regs |-> <<v>>] OBVIOUS
<1>9. /\ gen' = [gen EXCEPT ![g] = x] /\ mem' = Grown(m, base)
      /\ Settle(m, stack[m], fs, Relocated(m, base, t))
  BY <1>1, <1>2, <1>3, <1>4, <1>5, <1>6, <1>7, <1>8 DEF MakeGenerator
<1>10. base \in Nat /\ base <= end /\ end \in Nat /\ FramesOk(fs)
  BY <1>1, <1>2, CalleeBaseIs, TopIs
<1>11. /\ Listed(s.outs, s.opens, m, end) /\ Apart(s, m)
       /\ \A k \in 1 .. Len(s.opens) : s.outs[s.opens[k]] = outer[s.opens[k]]
       /\ DOMAIN s = {"outs", "opens"}
  <2>1. base \in Int /\ end \in Int BY <1>10
  <2> QED BY <1>3, <1>10, <2>1, CloseOk
<1>12. t.outs = emptied /\ t.opens = s.opens /\ {"outs", "opens"} \subseteq DOMAIN t BY <1>5, <1>11
<1>13. \A o \in Outers : s.outs[o] = outer[o] => emptied[o] = outer[o] BY <1>4
<1>14. Listed(t.outs, t.opens, m, end)
  <2>1. s.opens \in Seq(Outers) BY <1>11 DEF Listed
  <2>2. \A k \in 1 .. Len(s.opens) : s.opens[k] \in Outers BY <2>1
  <2>3. \A k \in 1 .. Len(s.opens) : emptied[s.opens[k]] = s.outs[s.opens[k]] BY <1>11, <1>13, <2>2
  <2>4. Listed(emptied, s.opens, m, end) BY <1>11, <2>3, ListedSame
  <2> QED BY <1>12, <2>4
<1>15. Apart(t, m)
  <2>1. ASSUME NEW w \in VMs \ {m}, NEW k \in 1 .. Len(opens[w])
        PROVE  emptied[opens[w][k]] = outer[opens[w][k]]
    <3>1. Listed(outer, opens[w], w, FrameTop(frames[w])) BY DEF OInv
    <3>2. opens[w][k] \in Outers BY <3>1 DEF Listed
    <3>3. s.outs[opens[w][k]] = outer[opens[w][k]] BY <1>11 DEF Apart
    <3> QED BY <1>13, <3>2, <3>3
  <2>2. DOMAIN emptied = Outers BY <1>4
  <2> QED BY <1>12, <2>1, <2>2 DEF Apart
<1>16. mem[m].at \in {0, 1} BY DEF OInv, Shape
<1>17. PICK u : u = Relocated(m, base, t) OBVIOUS
<1>18. MemKept /\ Listed(u.outs, u.opens, m, end) /\ Apart(u, m)
  <2>1. CASE Grows(m, base)
    <3>1. PICK at : at = 1 - mem[m].at OBVIOUS
    <3>2. PICK r : r = [at |-> at, size |-> base + FrameSize + 4 * MIN_STACK_OVERHEAD] OBVIOUS
    <3>3. mem' = [mem EXCEPT ![m] = r] BY <1>9, <2>1, <3>1, <3>2 DEF Grown
    <3>4. at \in {0, 1} /\ end \in Int BY <1>10, <1>16, <3>1
    <3>5. MemKept
      <4>1. r.at \in {0, 1} BY <3>2, <3>4
      <4> QED BY <3>3, <4>1 DEF MemKept, OInv, Shape
    <3>6. u = [t EXCEPT !.outs = RelocateOuters(@, m, t.opens, at)] BY <1>17, <2>1, <3>1 DEF Relocated
    <3>7. Listed(u.outs, u.opens, m, end) /\ Apart(u, m) BY <1>14, <1>15, <3>4, <3>6, RelocateOk
    <3> QED BY <3>5, <3>7
  <2>2. CASE ~Grows(m, base)
    <3>1. mem' = mem BY <1>9, <2>2 DEF Grown
    <3>2. u = t BY <1>17, <2>2 DEF Relocated
    <3> QED BY <1>14, <1>15, <3>1, <3>2, KeptOk
  <2> QED BY <2>1, <2>2
<1>19. GensOk
  <2>1. FrameOk(f) /\ x.frame = f BY <1>6, <1>7, <1>8, NewFrameOk
  <2>2. DOMAIN gen' = Gens /\ \A h \in Gens : gen'[h] = IF h = g THEN x ELSE gen[h]
    BY <1>9 DEF OInv, Shape
  <2>3. \A h \in Gens : gen[h] # None => FrameOk(gen[h].frame) BY DEF OInv
  <2> QED BY <2>1, <2>2, <2>3 DEF GensOk
<1> QED BY <1>2, <1>9, <1>10, <1>17, <1>18, <1>19, SettleInv

LEMMA FinalizeInv ==
    ASSUME OInv, NEW m \in VMs, Finalize(m)
    PROVE  OInv'
PROOF
<1>1. PICK r : r = [at |-> 0, size |-> InitialSize] OBVIOUS
<1>2. PICK z, fs : z = 0 /\ fs = <<>> OBVIOUS
<1>3. PICK s : s = CloseOuters(m, z) OBVIOUS
<1>4. Settle(m, stack[m], fs, s) /\ mem' = [mem EXCEPT ![m] = r] /\ gen' = gen
  BY <1>1, <1>2, <1>3 DEF Finalize
<1>5. PICK top : top = FrameTop(fs) OBVIOUS
<1>6. FramesOk(fs)
  <2>1. fs \in Seq({}) /\ Len(fs) = 0 BY <1>2
  <2>2. \E S : fs \in Seq(S) BY <2>1
  <2> QED BY <1>2, <2>1, <2>2 DEF FramesOk
<1>7. top = 0 BY <1>2, <1>5 DEF FrameTop
<1>8. z \in Int /\ top \in Int /\ z <= top BY <1>2, <1>7
<1>9. Listed(s.outs, s.opens, m, top) /\ Apart(s, m) BY <1>3, <1>8, CloseOk
<1>10. MemKept
  <2>1. r.at \in {0, 1} BY <1>1
  <2> QED BY <1>4, <2>1 DEF MemKept, OInv, Shape
<1>11. GensOk BY <1>4, KeptOk
<1> QED BY <1>4, <1>5, <1>6, <1>9, <1>10, <1>11, SettleInv

\* A step that does neither call nor open or close leaves the lists alone.
LEMMA QuietInv ==
    ASSUME OInv, frames' = frames, opens' = opens, mem' = mem, GensOk, DOMAIN outer' = Outers,
           \A m \in VMs : \A k \in 1 .. Len(opens[m]) : outer'[opens[m][k]] = outer[opens[m][k]]
    PROVE  OInv'
PROOF
<1>1. Shape' BY DEF OInv, Shape, GensOk
<1>2. ASSUME NEW m \in VMs PROVE FramesOk(frames'[m]) /\ Listed(outer', opens'[m], m, FrameTop(frames'[m]))
  <2>1. FramesOk(frames[m]) /\ Listed(outer, opens[m], m, FrameTop(frames[m])) BY DEF OInv
  <2>2. Listed(outer', opens[m], m, FrameTop(frames[m])) BY <2>1, ListedSame
  <2> QED BY <2>1, <2>2
<1> QED BY <1>1, <1>2 DEF OInv, GensOk

LEMMA DropClosureInv ==
    ASSUME OInv, NEW c, DropClosure(c)
    PROVE  OInv'
PROOF
<1>1. frames' = frames /\ opens' = opens /\ mem' = mem /\ gen' = gen BY DEF DropClosure
<1>2. PICK held : held = {o \in Outers : \/ \E m \in VMs : o \in Range(opens[m])
                                         \/ \E e \in Entries' : e.outer = o}
  OBVIOUS
<1>3. outer' = [o \in Outers |-> IF o \in held THEN outer[o] ELSE None]
  <2>1. \A o \in Outers : o \in held <=> \/ \E m \in VMs : o \in Range(opens[m])
                                         \/ \E e \in Entries' : e.outer = o
    BY <1>2
  <2> QED BY <2>1 DEF DropClosure
<1>4. ASSUME NEW m \in VMs, NEW k \in 1 .. Len(opens[m]) PROVE outer'[opens[m][k]] = outer[opens[m][k]]
  <2>1. Listed(outer, opens[m], m, FrameTop(frames[m])) BY DEF OInv
  <2>2. opens[m] \in Seq(Outers) BY <2>1 DEF Listed
  <2>3. opens[m][k] \in Outers /\ opens[m][k] \in Range(opens[m]) BY <2>2, RangeIs
  <2>4. opens[m][k] \in held BY <1>2, <2>3
  <2> QED BY <1>3, <2>3, <2>4
<1>5. GensOk BY <1>1, KeptOk
<1>6. DOMAIN outer' = Outers BY <1>3
<1> QED BY <1>1, <1>4, <1>5, <1>6, QuietInv

LEMMA DropGeneratorInv ==
    ASSUME OInv, NEW g \in Gens, DropGenerator(g)
    PROVE  OInv'
PROOF
<1>1. frames' = frames /\ opens' = opens /\ mem' = mem /\ outer' = outer /\ gen' = [gen EXCEPT ![g] = None]
  BY DEF DropGenerator
<1>2. GensOk
  <2>1. DOMAIN gen' = Gens /\ \A h \in Gens : gen'[h] = IF h = g THEN None ELSE gen[h]
    BY <1>1 DEF OInv, Shape
  <2>2. \A h \in Gens : gen[h] # None => FrameOk(gen[h].frame) BY DEF OInv
  <2> QED BY <2>1, <2>2 DEF GensOk
<1>3. DOMAIN outer' = Outers BY <1>1 DEF OInv, Shape
<1> QED BY <1>1, <1>2, <1>3, QuietInv

-----------------------------------------------------------------------------
(* The theorems.                                                           *)

LEMMA StepInv ==
    ASSUME OInv, [Next]_vars
    PROVE  OInv'
PROOF
<1>1. CASE UNCHANGED vars
  <2>1. frames' = frames /\ opens' = opens /\ mem' = mem /\ outer' = outer /\ gen' = gen
    BY <1>1 DEF vars
  <2>2. GensOk /\ DOMAIN outer' = Outers BY <2>1, KeptOk DEF OInv, Shape
  <2> QED BY <2>1, <2>2, QuietInv
<1>2. ASSUME NEW m \in VMs, NEW c, NEW v, Call(m, c, v) PROVE OInv' BY <1>2, CallInv
<1>3. ASSUME NEW m \in VMs, NEW c, NEW v, TailCall(m, c, v) PROVE OInv' BY <1>3, TailCallInv
<1>4. ASSUME NEW m \in VMs, NEW c, NEW v, NEW g \in Gens, MakeGenerator(m, c, g, v) PROVE OInv'
  BY <1>4, MakeGeneratorInv
<1>5. ASSUME NEW m \in VMs, Return(m) PROVE OInv' BY <1>5, ReturnInv
<1>6. ASSUME NEW m \in VMs, ThrowOut(m) PROVE OInv' BY <1>6, ThrowOutInv
<1>7. ASSUME NEW m \in VMs, Catch(m) PROVE OInv' BY <1>7, CatchInv
<1>8. ASSUME NEW m \in VMs, Declare(m) PROVE OInv'
  <2>1. DeclareIn(m, Frame(m).blocks) BY <1>8 DEF Declare
  <2>2. Running(m) BY <2>1 DEF DeclareIn
  <2>3. Frame(m).blocks \in Seq(BlockT) BY <2>2, RunningIs DEF FrameOk
  <2> QED BY <2>1, <2>3, DeclareInv
<1>9. ASSUME NEW m \in VMs, EndBlock(m) \/ Break(m) PROVE OInv' BY <1>9, EndBlockInv
<1>10. ASSUME NEW m \in VMs, NEW try \in BOOLEAN, BeginBlock(m, try) PROVE OInv' BY <1>10, BeginBlockInv
<1>11. ASSUME NEW m \in VMs, NEW c, MakeClosure(m, c) PROVE OInv' BY <1>11, MakeClosureInv
<1>12. ASSUME NEW m \in VMs, Yield(m) PROVE OInv' BY <1>12, YieldInv
<1>13. ASSUME NEW m \in VMs, NEW g \in Gens, Resume(m, g) PROVE OInv' BY <1>13, ResumeInv
<1>14. ASSUME NEW m \in VMs, Finalize(m) PROVE OInv' BY <1>14, FinalizeInv
<1>15. ASSUME NEW c, NEW d, CloneClosure(c, d) PROVE OInv'
  <2>1. frames' = frames /\ opens' = opens /\ mem' = mem /\ outer' = outer /\ gen' = gen
    BY <1>15 DEF CloneClosure
  <2>2. GensOk /\ DOMAIN outer' = Outers BY <2>1, KeptOk DEF OInv, Shape
  <2> QED BY <2>1, <2>2, QuietInv
<1>16. ASSUME NEW c, DropClosure(c) PROVE OInv' BY <1>16, DropClosureInv
<1>17. ASSUME NEW g \in Gens, DropGenerator(g) PROVE OInv' BY <1>17, DropGeneratorInv
<1> QED BY <1>1, <1>2, <1>3, <1>4, <1>5, <1>6, <1>7, <1>8, <1>9, <1>10, <1>11, <1>12, <1>13, <1>14,
            <1>15, <1>16, <1>17 DEF Next

LEMMA InitInv == Init => OInv
PROOF
<1>1. SUFFICES ASSUME Init PROVE OInv OBVIOUS
<1>2. Shape
  <2>1. PICK r : r = [at |-> 0, size |-> InitialSize] OBVIOUS
  <2>2. mem = [m \in VMs |-> r] /\ r.at = 0 BY <1>1, <2>1 DEF Init
  <2> QED BY <1>1, <2>2 DEF Init, Shape
<1>3. ASSUME NEW m \in VMs PROVE FramesOk(frames[m]) /\ Listed(outer, opens[m], m, FrameTop(frames[m]))
  <2>1. PICK e : e = <<>> OBVIOUS
  <2>2. frames[m] = e /\ opens[m] = e BY <1>1, <2>1 DEF Init
  <2>3. e \in Seq({}) /\ e \in Seq(Outers) /\ Len(e) = 0 BY <2>1
  <2>4. \E S : e \in Seq(S) BY <2>3
  <2>5. FramesOk(e) BY <2>1, <2>3, <2>4 DEF FramesOk
  <2>6. Listed(outer, e, m, FrameTop(e)) BY <2>3 DEF Listed
  <2> QED BY <2>2, <2>5, <2>6
<1>4. \A g \in Gens : gen[g] = None BY <1>1 DEF Init
<1> QED BY <1>2, <1>3, <1>4 DEF OInv

\* The inductive invariant: the lists are in order, and frames lie in or right after
\* those that called them.
THEOREM OutersInvariant == Spec => []OInv
PROOF
<1>1. OInv /\ [Next]_vars => OInv' BY StepInv
<1> QED BY <1>1, InitInv, PTL DEF Spec

\* The open outers of a VM are one for a register, last register first, at the index
\* they are to be relocated to, and none is of a register that belongs to no call:
\* what FindOuter, CloseOuters and RelocateOuters rely on.
THEOREM OutersStaySorted == Spec => []OpenOutersSorted
PROOF
<1>1. OInv => OpenOutersSorted
  <2>1. SUFFICES ASSUME OInv PROVE OpenOutersSorted OBVIOUS
  <2>2. ASSUME NEW m \in VMs
        PROVE  /\ \A j, k \in DOMAIN opens[m] :
                     j < k => outer[opens[m][j]].ptr.reg > outer[opens[m][k]].ptr.reg
               /\ \A o \in Range(opens[m]) : /\ outer[o].ptr.vm = m
                                             /\ outer[o].ptr.reg = outer[o].idx
                                             /\ outer[o].idx < FrameTop(frames[m])
    <3>1. PICK os, top : os = opens[m] /\ top = FrameTop(frames[m]) OBVIOUS
    <3>2. Listed(outer, os, m, top) BY <2>1, <3>1 DEF OInv
    <3>3. os \in Seq(Outers) /\ DOMAIN os = 1 .. Len(os) BY <3>2 DEF Listed
    <3>4. \A k \in 1 .. Len(os) : /\ outer[os[k]].ptr.vm = m /\ outer[os[k]].ptr.reg = outer[os[k]].idx
                                  /\ outer[os[k]].idx < top
      BY <3>2 DEF Listed, Opened
    <3>5. \A j, k \in 1 .. Len(os) : j < k => outer[os[j]].idx > outer[os[k]].idx BY <3>2 DEF Listed
    <3>6. \A j, k \in DOMAIN os : j < k => outer[os[j]].ptr.reg > outer[os[k]].ptr.reg
      BY <3>3, <3>4, <3>5
    <3>7. \A o \in Range(os) : \E k \in 1 .. Len(os) : os[k] = o BY <3>3, RangeIs
    <3> QED BY <3>1, <3>4, <3>6, <3>7
  <2> QED BY <2>2 DEF OpenOutersSorted
<1> QED BY <1>1, OutersInvariant, PTL

-----------------------------------------------------------------------------
(***************************************************************************)
(* Closures reach the variables that they mean, for any number of virtual  *)
(* machines, variables, closures and generators and any bounds.            *)
(*                                                                         *)
(* The argument is about where a variable is.  Calls lie one after the     *)
(* other on the stack, so that no register is a local of two of them and a *)
(* variable is in one place only.  An outer has its variable either as its *)
(* value, when no local has it any more, or in the local that it points    *)
(* at, and then it is in the list of open outers.  A step of calls, blocks *)
(* or locals cuts the locals of a VM at some register: below it they and   *)
(* the outers at them stay, or move with the stack, and from it on outers  *)
(* take the value with them before the local goes.  What Moves says of a   *)
(* step is that, and every step is shown to be one; those that only make   *)
(* or free closures are apart.                                             *)
(***************************************************************************)

(* The invariant.                                                          *)

\* Blocks begin in order, within the locals, and the closure that runs is alive.
BlocksOk(f) ==
    /\ \A j, k \in DOMAIN f.blocks : j <= k => f.blocks[j].start <= f.blocks[k].start
    /\ \A j \in DOMAIN f.blocks : f.blocks[j].start <= f.nlocals
Runs(f, clos) == f.closure # None => f.closure \in Closures /\ clos[f.closure] # None

\* The frames fs fit in the registers, and the locals of one lie before the next.
Nested(fs) ==
    /\ Len(fs) <= MaxFrames
    /\ \A k \in 1 .. Len(fs) : fs[k].base <= (k - 1) * FrameSize /\ BlocksOk(fs[k])
    /\ \A j, k \in 1 .. Len(fs) : j < k => fs[j].base + fs[j].nlocals <= fs[k].base

Locals(m) == LocalRegs(frames[m])
Suspended == {g \in Gens : gen[g] # None}

\* Locals and suspended generators hold variables, each in one place, and those that
\* a suspended generator took with it are lost to closures.
StackOk ==
    /\ DOMAIN stack = VMs /\ \A m \in VMs : DOMAIN stack[m] = Registers
    /\ \A m \in VMs : \A i \in Locals(m) : stack[m][i] \in Vars
    /\ \A m, n \in VMs : \A i \in Locals(m), j \in Locals(n) : stack[m][i] = stack[n][j] => m = n /\ i = j
GenOk(x) == BlocksOk(x.frame) /\ x.regs \in Seq(Vars) /\ Len(x.regs) = x.frame.nlocals
SavedOk ==
    /\ \A g \in Suspended : GenOk(gen[g])
    /\ \A g, h \in Suspended : \A i \in 1 .. Len(gen[g].regs), j \in 1 .. Len(gen[h].regs) :
          gen[g].regs[i] = gen[h].regs[j] => g = h /\ i = j
    /\ \A g \in Suspended : \A i \in 1 .. Len(gen[g].regs) : \A m \in VMs : \A j \in Locals(m) :
          stack[m][j] # gen[g].regs[i]
    /\ \A g \in Suspended : \A i \in 1 .. Len(gen[g].regs) : gen[g].regs[i] \in Captured => gen[g].regs[i] \in loose

\* Closures that run are alive.
ClosuresOk ==
    /\ DOMAIN closure = Closures
    /\ \A e \in Entries : e.outer \in Outers /\ e.var \in Vars
    /\ \A m \in VMs : \A k \in 1 .. Len(frames[m]) : Runs(frames[m][k], closure)
    /\ \A g \in Suspended : Runs(gen[g].frame, closure)

\* An outer has the variable v: as its value, or in the local that it points at.
HasValue(o, v) ==
    /\ outer[o].ptr = None /\ outer[o].value = v
    /\ \A m \in VMs : \A i \in Locals(m) : stack[m][i] # v
PointsAt(o, m, v) ==
    /\ \E k \in 1 .. Len(opens[m]) : opens[m][k] = o
    /\ outer[o].idx \in Locals(m) /\ stack[m][outer[o].idx] = v
Reaches(o, v) == outer[o] # None /\ (HasValue(o, v) \/ \E m \in VMs : PointsAt(o, m, v))

VInv ==
    /\ \A m \in VMs : Nested(frames[m])
    /\ \A m \in VMs : \A k \in 1 .. Len(opens[m]) : outer[opens[m][k]].ptr.at = mem[m].at
    /\ StackOk /\ SavedOk /\ ClosuresOk
    /\ \A e \in Entries : e.var \notin loose => Reaches(e.outer, e.var)

\* A local of the frame f, and one of the frames fs.
InFrame(i, f) == i \in f.base .. (f.base + f.nlocals - 1)

\* The locals of fs end by register b.
EndsBy(fs, b) == \A k \in 1 .. Len(fs) : fs[k].base + fs[k].nlocals <= b

LEMMA LocalIs ==
    ASSUME NEW fs, FramesOk(fs), NEW i
    PROVE  i \in LocalRegs(fs) <=> \E k \in 1 .. Len(fs) : InFrame(i, fs[k])
PROOF
<1>1. PICK S : fs \in Seq(S) BY DEF FramesOk
<1>2. DOMAIN fs = 1 .. Len(fs) BY <1>1
<1>3. i \in LocalRegs(fs) <=> \E f \in Range(fs) : InFrame(i, f) BY DEF LocalRegs, InFrame
<1>4. Range(fs) = {fs[k] : k \in 1 .. Len(fs)} BY <1>2 DEF Range
<1> QED BY <1>3, <1>4

LEMMA FrameIs ==
    ASSUME NEW f, FrameOk(f)
    PROVE  /\ f.base \in Nat /\ f.nlocals \in Nat /\ f.nlocals <= FrameSize /\ FrameSize \in Nat
           /\ f.blocks \in Seq(BlockT)
BY BoundsAssumption DEF FrameOk

\* Frame after frame, each as large as the next begins after it.
LEMMA ProductMono ==
    ASSUME NEW k \in Nat, NEW n \in Nat, NEW F \in Nat, k <= n
    PROVE  k * F <= n * F
PROOF
<1>1. PICK d : d = n - k OBVIOUS
<1>2. d \in Nat /\ n = k + d BY <1>1
<1>3. n * F = k * F + d * F BY <1>2
<1>4. d * F \in Nat /\ k * F \in Nat BY <1>2
<1> QED BY <1>3, <1>4

LEMMA LocalsAre ==
    ASSUME NEW fs, FramesOk(fs), Nested(fs), NEW i \in LocalRegs(fs)
    PROVE  i \in Registers /\ i \in Nat /\ i < FrameTop(fs)
PROOF
<1>1. PICK S : fs \in Seq(S) BY DEF FramesOk
<1>2. PICK k \in 1 .. Len(fs) : InFrame(i, fs[k]) BY LocalIs
<1>3. PICK l, b, n : l = Len(fs) /\ b = fs[k].base /\ n = fs[k].nlocals OBVIOUS
<1>4. FrameOk(fs[k]) BY DEF FramesOk
<1>5. b \in Nat /\ n \in Nat /\ n <= FrameSize /\ FrameSize \in Nat BY <1>3, <1>4, FrameIs
<1>6. i \in Nat /\ b <= i /\ i < b + n BY <1>2, <1>3, <1>5 DEF InFrame
<1>7. l \in Nat /\ k \in 1 .. l /\ l <= MaxFrames /\ MaxFrames \in Nat
  BY <1>1, <1>3, BoundsAssumption DEF Nested
<1>8. i \in Registers
  <2>1. PICK j : j = k - 1 OBVIOUS
  <2>2. j \in Nat /\ k = j + 1 BY <1>7, <2>1
  <2>3. b <= j * FrameSize BY <1>3, <1>7, <2>1 DEF Nested
  <2>4. k * FrameSize = j * FrameSize + FrameSize /\ j * FrameSize \in Nat BY <1>5, <2>2
  <2>5. k * FrameSize <= MaxFrames * FrameSize BY <1>5, <1>7, ProductMono
  <2>6. PICK x, y, z : x = j * FrameSize /\ y = k * FrameSize /\ z = MaxFrames * FrameSize OBVIOUS
  <2>7. z \in Nat BY <1>5, <1>7, <2>6
  <2>8. x \in Nat /\ y = x + FrameSize /\ y <= z /\ b <= x BY <2>3, <2>4, <2>5, <2>6
  <2>9. i <= z - 1 BY <1>5, <1>6, <2>7, <2>8
  <2> QED BY <1>6, <2>6, <2>7, <2>9 DEF Registers
<1>9. i < FrameTop(fs)
  <2>1. fs # <<>> /\ l \in 1 .. l BY <1>1, <1>3, <1>7
  <2>2. FrameTop(fs) = fs[l].base + FrameSize BY <1>3, <2>1 DEF FrameTop, Last
  <2>3. FrameOk(fs[l]) BY <1>3, <2>1 DEF FramesOk
  <2>4. PICK c : c = fs[l].base OBVIOUS
  <2>5. c \in Nat BY <2>3, <2>4, FrameIs
  <2>6. CASE k = l BY <1>3, <1>5, <1>6, <2>2, <2>4, <2>5, <2>6
  <2>7. CASE k < l
    <3>1. b + n <= c BY <1>3, <1>7, <2>1, <2>4, <2>7 DEF Nested
    <3> QED BY <1>5, <1>6, <2>2, <2>4, <2>5, <3>1
  <2> QED BY <1>7, <2>6, <2>7
<1> QED BY <1>6, <1>8, <1>9

\* The first n frames ps of fs.
Prefixed(fs, n, ps) ==
    /\ Nested(ps) /\ EndsBy(ps, fs[n + 1].base)
    /\ \A i \in LocalRegs(ps) : i \in LocalRegs(fs) /\ i < fs[n + 1].base
    /\ \A i \in LocalRegs(fs) : i < fs[n + 1].base => i \in LocalRegs(ps)
    /\ \A k \in 1 .. Len(ps) : k \in 1 .. Len(fs) /\ ps[k] = fs[k]

\* Frames that are left take their locals with them, which lie above all others.
LEMMA PrefixNested ==
    ASSUME NEW fs, FramesOk(fs), Nested(fs), NEW n \in 0 .. Len(fs), n < Len(fs),
           NEW ps, ps = SubSeq(fs, 1, n)
    PROVE  Prefixed(fs, n, ps)
PROOF
<1>1. PICK S : fs \in Seq(S) BY DEF FramesOk
<1>2. PICK l : l = Len(fs) OBVIOUS
<1>3. l \in Nat /\ n \in 0 .. l /\ n < l /\ n + 1 \in 1 .. l BY <1>1, <1>2
<1>4. FramesOk(ps) /\ Len(ps) = n BY PrefixOk
<1>5. \A k \in 1 .. n : ps[k] = fs[k]
  <2>1. 1 \in 1 .. Len(fs) + 1 /\ 1 <= n + 1 /\ n - 1 + 1 = n /\ \A k \in 1 .. n : 1 + k - 1 = k
    BY <1>2, <1>3
  <2>2. \A k \in 1 .. n - 1 + 1 : SubSeq(fs, 1, n)[k] = fs[1 + k - 1] BY <1>1, <2>1, SliceIs
  <2> QED BY <2>1, <2>2
<1>6. \A k \in 1 .. n : k \in 1 .. l /\ k < n + 1 BY <1>3
<1>7. EndsBy(ps, fs[n + 1].base)
  <2>1. \A k \in 1 .. n : fs[k].base + fs[k].nlocals <= fs[n + 1].base BY <1>2, <1>3, <1>6 DEF Nested
  <2> QED BY <1>4, <1>5, <2>1 DEF EndsBy
<1>8. Nested(ps)
  <2>1. n <= MaxFrames
    <3>1. l <= MaxFrames /\ MaxFrames \in Nat BY <1>2, BoundsAssumption DEF Nested
    <3> QED BY <1>3, <3>1
  <2>2. \A k \in 1 .. n : fs[k].base <= (k - 1) * FrameSize /\ BlocksOk(fs[k]) BY <1>2, <1>6 DEF Nested
  <2>3. \A j, k \in 1 .. n : j < k => fs[j].base + fs[j].nlocals <= fs[k].base BY <1>2, <1>6 DEF Nested
  <2>4. \A k \in 1 .. n : ps[k].base <= (k - 1) * FrameSize /\ BlocksOk(ps[k]) BY <1>5, <2>2
  <2> QED BY <1>4, <1>5, <2>1, <2>3, <2>4 DEF Nested
<1>9. \A k \in 1 .. l : FrameOk(fs[k]) BY <1>2 DEF FramesOk
<1>10. ASSUME NEW i \in LocalRegs(ps) PROVE i \in LocalRegs(fs) /\ i < fs[n + 1].base
  <2>1. PICK k \in 1 .. n : InFrame(i, fs[k]) BY <1>4, <1>5, LocalIs
  <2>2. i \in LocalRegs(fs) BY <1>2, <1>6, <2>1, LocalIs
  <2>3. fs[k].base + fs[k].nlocals <= fs[n + 1].base BY <1>4, <1>5, <1>7 DEF EndsBy
  <2>4. FrameOk(fs[k]) /\ FrameOk(fs[n + 1]) BY <1>3, <1>6, <1>9
  <2>5. PICK b, c, d : b = fs[k].base /\ c = fs[k].nlocals /\ d = fs[n + 1].base OBVIOUS
  <2>6. b \in Nat /\ c \in Nat /\ d \in Nat BY <2>4, <2>5, FrameIs
  <2>7. i \in b .. b + c - 1 /\ b + c <= d BY <2>1, <2>3, <2>5 DEF InFrame
  <2>8. i < d BY ONLY <2>6, <2>7
  <2> QED BY <2>2, <2>5, <2>8
<1>11. ASSUME NEW i \in LocalRegs(fs), i < fs[n + 1].base PROVE i \in LocalRegs(ps)
  <2>1. PICK k \in 1 .. l : InFrame(i, fs[k]) BY <1>2, LocalIs
  <2>2. k <= n
    <3>1. SUFFICES ASSUME n + 1 <= k PROVE FALSE BY <1>3
    <3>2. FrameOk(fs[k]) /\ FrameOk(fs[n + 1]) BY <1>3, <1>9
    <3>3. PICK b, c, d, e : b = fs[k].base /\ c = fs[k].nlocals /\ d = fs[n + 1].base /\ e = fs[n + 1].nlocals
      OBVIOUS
    <3>4. b \in Nat /\ c \in Nat /\ d \in Nat /\ e \in Nat BY <3>2, <3>3, FrameIs
    <3>5. i \in b .. b + c - 1 /\ i < d BY <1>11, <2>1, <3>3 DEF InFrame
    <3>6. k = n + 1 \/ n + 1 < k BY <1>3, <3>1
    <3>7. CASE k = n + 1 BY <3>3, <3>4, <3>5, <3>7
    <3>8. CASE n + 1 < k
      <4>1. d + e <= b BY <1>2, <1>3, <3>3, <3>8 DEF Nested
      <4> QED BY <3>4, <3>5, <4>1
    <3> QED BY <3>6, <3>7, <3>8
  <2>3. k \in 1 .. n BY <1>3, <2>2
  <2> QED BY <1>4, <1>5, <2>1, <2>3, LocalIs
<1>12. \A k \in 1 .. Len(ps) : k \in 1 .. Len(fs) /\ ps[k] = fs[k] BY <1>2, <1>4, <1>5, <1>6
<1> QED BY <1>7, <1>8, <1>10, <1>11, <1>12 DEF Prefixed

\* The frames gs are fs and then f.
Appended(fs, f, gs) ==
    /\ Nested(gs)
    /\ \A i : i \in LocalRegs(gs) <=> i \in LocalRegs(fs) \/ InFrame(i, f)
    /\ \A k \in 1 .. Len(gs) : gs[k] = f \/ \E j \in 1 .. Len(fs) : gs[k] = fs[j]

\* A frame that begins after the locals of all others.
LEMMA AppendNested ==
    ASSUME NEW fs, FramesOk(fs), Nested(fs), NEW f, FrameOk(f), BlocksOk(f), Len(fs) < MaxFrames,
           f.base <= FrameTop(fs), EndsBy(fs, f.base), NEW gs, gs = Append(fs, f)
    PROVE  Appended(fs, f, gs)
PROOF
<1>1. PICK S0 : fs \in Seq(S0) BY DEF FramesOk
<1>2. PICK l : l = Len(fs) OBVIOUS
<1>3. /\ Len(gs) = l + 1 /\ l \in Nat
      /\ \A k \in 1 .. l : gs[k] = fs[k]
      /\ gs[l + 1] = f
  <2>1. PICK S : S = S0 \cup {f} OBVIOUS
  <2>2. fs \in Seq(S) /\ f \in S
    <3>1. S0 \subseteq S BY <2>1
    <3> QED BY <1>1, <2>1, <3>1, SeqMonotonic
  <2> QED BY <1>2, <2>2, AppendProperties
<1>4. \A k \in 1 .. l + 1 : k \in 1 .. l \/ k = l + 1 BY <1>3
<1>5. FramesOk(gs) BY AppendOk
<1>6. f.base <= l * FrameSize
  <2>1. CASE l = 0
    <3>1. fs = <<>>
      <4>1. fs = <<>> <=> l = 0 BY ONLY <1>1, <1>2
      <4> QED BY <2>1, <4>1
    <3>2. f.base <= 0 BY <3>1 DEF FrameTop
    <3>3. l * FrameSize = 0 BY <2>1, BoundsAssumption
    <3> QED BY <3>2, <3>3
  <2>2. CASE l > 0
    <3>1. fs # <<>> /\ l \in 1 .. l BY <1>1, <1>2, <1>3, <2>2
    <3>2. FrameTop(fs) = fs[l].base + FrameSize BY <1>2, <3>1 DEF FrameTop, Last
    <3>3. PICK j : j = l - 1 OBVIOUS
    <3>4. fs[l].base <= j * FrameSize BY <1>2, <3>1, <3>3 DEF Nested
    <3>5. j \in Nat /\ l = j + 1 BY <1>3, <2>2, <3>3
    <3>6. l * FrameSize = j * FrameSize + FrameSize /\ j * FrameSize \in Nat BY <3>5, BoundsAssumption
    <3>7. FrameOk(fs[l]) BY <1>2, <3>1 DEF FramesOk
    <3>8. PICK x, y, b, c : x = j * FrameSize /\ y = l * FrameSize /\ b = fs[l].base /\ c = f.base OBVIOUS
    <3>9. x \in Nat /\ y = x + FrameSize /\ b <= x /\ c <= b + FrameSize BY <3>2, <3>4, <3>6, <3>8
    <3>10. b \in Nat /\ c \in Nat /\ FrameSize \in Nat BY <3>7, <3>8, FrameIs
    <3>11. c <= y BY <3>9, <3>10
    <3> QED BY <3>8, <3>11
  <2> QED BY <1>3, <2>1, <2>2
<1>7. Nested(gs)
  <2>1. l + 1 <= MaxFrames BY <1>2, <1>3, BoundsAssumption
  <2>2. ASSUME NEW k \in 1 .. l + 1 PROVE gs[k].base <= (k - 1) * FrameSize /\ BlocksOk(gs[k])
    <3>1. CASE k = l + 1
      <4>1. k - 1 = l BY <1>3, <3>1
      <4> QED BY <1>3, <1>6, <3>1, <4>1
    <3>2. CASE k \in 1 .. l BY <1>2, <1>3, <3>2 DEF Nested
    <3> QED BY <1>4, <3>1, <3>2
  <2>3. ASSUME NEW j \in 1 .. l + 1, NEW k \in 1 .. l + 1, j < k
        PROVE  gs[j].base + gs[j].nlocals <= gs[k].base
    <3>1. j \in 1 .. l BY <1>3, <2>3
    <3>2. CASE k = l + 1 BY <1>2, <1>3, <3>1, <3>2 DEF EndsBy
    <3>3. CASE k \in 1 .. l BY <1>2, <1>3, <2>3, <3>1, <3>3 DEF Nested
    <3> QED BY <1>4, <3>2, <3>3
  <2> QED BY <1>3, <2>1, <2>2, <2>3 DEF Nested
<1>8. ASSUME NEW i PROVE i \in LocalRegs(gs) <=> i \in LocalRegs(fs) \/ InFrame(i, f)
  <2>1. i \in LocalRegs(gs) <=> \E k \in 1 .. l + 1 : InFrame(i, gs[k]) BY <1>3, <1>5, LocalIs
  <2>2. i \in LocalRegs(fs) <=> \E k \in 1 .. l : InFrame(i, fs[k]) BY <1>2, LocalIs
  <2>3. l + 1 \in 1 .. l + 1 /\ \A k \in 1 .. l : k \in 1 .. l + 1 BY <1>3
  <2> QED BY <1>3, <1>4, <2>1, <2>2, <2>3
<1> QED BY <1>2, <1>3, <1>4, <1>7, <1>8 DEF Appended

\* Where the next frame begins.
LEMMA EndsAt ==
    ASSUME OInv, VInv, NEW m \in VMs
    PROVE  EndsBy(frames[m], CalleeBase(m)) /\ EndsBy(frames[m], FrameTop(frames[m]))
PROOF
<1>1. PICK fs, l : fs = frames[m] /\ l = Len(fs) OBVIOUS
<1>2. FramesOk(fs) /\ Nested(fs) BY <1>1 DEF OInv, VInv
<1>3. PICK S : fs \in Seq(S) BY <1>2 DEF FramesOk
<1>4. l \in Nat BY <1>1, <1>3
<1>5. ASSUME l = 0 PROVE EndsBy(fs, CalleeBase(m)) /\ EndsBy(fs, FrameTop(fs))
  <2>1. 1 .. Len(fs) = {} BY <1>1, <1>5
  <2> QED BY <2>1 DEF EndsBy
<1>6. CASE l > 0
  <2>1. l \in 1 .. l /\ fs # <<>> BY <1>1, <1>3, <1>4, <1>6
  <2>2. PICK b, n : b = fs[l].base /\ n = fs[l].nlocals OBVIOUS
  <2>3. FrameTop(fs) = b + FrameSize /\ CalleeBase(m) = b + n
    BY <1>1, <2>1, <2>2 DEF FrameTop, CalleeBase, Running, Frame, Local, Last
  <2>4. \A k \in 1 .. l : FrameOk(fs[k]) BY <1>1, <1>2 DEF FramesOk
  <2>5. b \in Nat /\ n \in Nat /\ n <= FrameSize /\ FrameSize \in Nat BY <2>1, <2>2, <2>4, FrameIs
  <2>6. ASSUME NEW k \in 1 .. l PROVE fs[k].base + fs[k].nlocals <= b + n
    <3>1. CASE k = l BY <2>2, <2>5, <3>1
    <3>2. CASE k < l
      <4>1. PICK x, y : x = fs[k].base /\ y = fs[k].nlocals OBVIOUS
      <4>2. x + y <= b BY <1>1, <1>2, <2>1, <2>2, <3>2, <4>1 DEF Nested
      <4>3. x \in Nat /\ y \in Nat BY <2>4, <4>1, FrameIs
      <4> QED BY <2>5, <4>1, <4>2, <4>3
    <3> QED BY <1>4, <3>1, <3>2
  <2>7. ASSUME NEW k \in 1 .. l PROVE fs[k].base + fs[k].nlocals <= b + FrameSize
    <3>1. PICK x, y : x = fs[k].base /\ y = fs[k].nlocals OBVIOUS
    <3>2. x + y <= b + n BY <2>6, <3>1
    <3>3. x \in Nat /\ y \in Nat BY <2>4, <3>1, FrameIs
    <3> QED BY <2>5, <3>1, <3>2, <3>3
  <2> QED BY <1>1, <2>3, <2>6, <2>7 DEF EndsBy
<1> QED BY <1>1, <1>4, <1>5, <1>6

\* A variable that is unused is nowhere.
LEMMA UnusedIs ==
    ASSUME OInv, VInv, NEW v \in Unused
    PROVE  /\ v \in Vars
           /\ \A m \in VMs : \A i \in Locals(m) : stack[m][i] # v
           /\ \A g \in Suspended : \A i \in 1 .. Len(gen[g].regs) : gen[g].regs[i] # v
           /\ v \notin Captured
PROOF
<1>1. /\ v \in Vars /\ v \notin Captured
      /\ \A m \in VMs : v \notin Range(stack[m])
      /\ \A g \in Suspended : v \notin Range(gen[g].regs)
  <2> DEFINE A == UNION {Range(stack[m]) : m \in VMs}
             B == UNION {Range(gen[g].regs) : g \in {h \in Gens : gen[h] # None}}
             C == {outer[o].value : o \in {p \in Outers : outer[p] # None}}
  <2>1. Unused = Vars \ (A \cup B \cup C \cup Captured) BY DEF Unused
  <2> HIDE DEF C
  <2>2. v \in Vars \ (A \cup B \cup C \cup Captured) BY <2>1
  <2>3. v \in Vars /\ v \notin A /\ v \notin B /\ v \notin Captured BY <2>2
  <2>4. \A m \in VMs : v \notin Range(stack[m]) BY <2>3
  <2>5. ASSUME NEW g \in Suspended PROVE v \notin Range(gen[g].regs)
    <3>1. g \in {h \in Gens : gen[h] # None} BY DEF Suspended
    <3>2. \A x \in Range(gen[g].regs) : x \in B BY <3>1
    <3> QED BY <2>3, <3>2
  <2> QED BY ONLY <2>3, <2>4, <2>5
<1>2. ASSUME NEW m \in VMs, NEW i \in Locals(m) PROVE stack[m][i] # v
  <2>1. FramesOk(frames[m]) /\ Nested(frames[m]) BY DEF OInv, VInv
  <2>2. i \in Registers BY <2>1, LocalsAre DEF Locals
  <2>3. DOMAIN stack[m] = Registers BY DEF VInv, StackOk
  <2> QED BY <1>1, <2>2, <2>3 DEF Range
<1>3. ASSUME NEW g \in Suspended, NEW i \in 1 .. Len(gen[g].regs) PROVE gen[g].regs[i] # v
  <2>1. gen[g].regs \in Seq(Vars) BY DEF VInv, SavedOk, GenOk
  <2>2. gen[g].regs[i] \in Range(gen[g].regs) BY <2>1, RangeIs
  <2> QED BY <1>1, <2>2
<1> QED BY <1>1, <1>2, <1>3

\* What Settle leaves of a VM, of the others, and of what closures hold.
Settled(m, regs, fs, s) ==
    /\ frames'[m] = fs /\ opens'[m] = s.opens
    /\ \A i \in LocalRegs(fs) : stack'[m][i] = regs[i]
    /\ \A n \in VMs \ {m} : frames'[n] = frames[n] /\ opens'[n] = opens[n] /\ stack'[n] = stack[n]
    /\ DOMAIN stack' = VMs /\ \A n \in VMs : DOMAIN stack'[n] = Registers
    /\ \A k \in 1 .. Len(s.opens) : outer'[s.opens[k]] = s.outs[s.opens[k]]
    /\ \A n \in VMs \ {m} : \A k \in 1 .. Len(opens[n]) : outer'[opens[n][k]] = s.outs[opens[n][k]]
    /\ \A e \in Entries : e.outer \in Outers => outer'[e.outer] = s.outs[e.outer]

LEMMA SettleAll ==
    ASSUME OInv, VInv, NEW m \in VMs, NEW regs, NEW fs, FramesOk(fs), Nested(fs), NEW s,
           Settle(m, regs, fs, s), s.opens \in Seq(Outers)
    PROVE  Settled(m, regs, fs, s)
PROOF
<1>1. PICK used, held :
        /\ used = LocalRegs(fs) \cup {s.outs[o].ptr.reg : o \in Range(s.opens)}
        /\ held = Range(s.opens) \cup (UNION {Range(opens[n]) : n \in VMs \ {m}}) \cup {e.outer : e \in Entries}
  OBVIOUS
<1>2. PICK ns : ns = [i \in Registers |-> IF i \in used THEN regs[i] ELSE None] OBVIOUS
<1>3. /\ stack' = [stack EXCEPT ![m] = ns] /\ frames' = [frames EXCEPT ![m] = fs]
      /\ opens' = [opens EXCEPT ![m] = s.opens]
      /\ outer' = [o \in Outers |-> IF o \in held THEN s.outs[o] ELSE None]
  BY <1>1, <1>2 DEF Settle
<1>4. /\ DOMAIN frames = VMs /\ DOMAIN opens = VMs
      /\ DOMAIN stack = VMs /\ \A n \in VMs : DOMAIN stack[n] = Registers
  BY DEF OInv, Shape, VInv, StackOk
<1>5. /\ frames'[m] = fs /\ opens'[m] = s.opens /\ stack'[m] = ns
      /\ \A n \in VMs \ {m} : /\ frames'[n] = frames[n] /\ opens'[n] = opens[n]
                              /\ stack'[n] = stack[n]
  BY ONLY <1>3, <1>4, m \in VMs
<1>6. \A i \in LocalRegs(fs) : stack'[m][i] = regs[i]
  <2>1. \A i \in LocalRegs(fs) : i \in Registers /\ i \in used BY <1>1, LocalsAre
  <2> QED BY <1>2, <1>5, <2>1
<1>7. DOMAIN stack' = VMs /\ \A n \in VMs : DOMAIN stack'[n] = Registers
  <2>1. DOMAIN stack' = VMs BY <1>3, <1>4
  <2>2. DOMAIN ns = Registers BY <1>2
  <2> QED BY <1>4, <1>5, <2>1, <2>2
<1>8. \A o \in Outers : o \in held => outer'[o] = s.outs[o] BY <1>3
<1>9. ASSUME NEW k \in 1 .. Len(s.opens) PROVE outer'[s.opens[k]] = s.outs[s.opens[k]]
  <2>1. s.opens[k] \in Range(s.opens) /\ s.opens[k] \in Outers BY RangeIs
  <2> QED BY <1>1, <1>8, <2>1
<1>10. ASSUME NEW n \in VMs \ {m}, NEW k \in 1 .. Len(opens[n])
       PROVE outer'[opens[n][k]] = s.outs[opens[n][k]]
  <2>1. Listed(outer, opens[n], n, FrameTop(frames[n])) BY DEF OInv
  <2>2. opens[n] \in Seq(Outers) BY <2>1 DEF Listed
  <2>3. opens[n][k] \in Range(opens[n]) /\ opens[n][k] \in Outers BY <2>2, RangeIs
  <2> QED BY <1>1, <1>8, <2>3
<1>11. \A e \in Entries : e.outer \in Outers => outer'[e.outer] = s.outs[e.outer] BY <1>1, <1>8
<1> QED BY <1>5, <1>6, <1>7, <1>9, <1>10, <1>11 DEF Settled

\* The outers t of m: those of registers below i are as open as before, and point
\* into the registers where they are now; those of locals from i on got a value.
Keeps(t, m, i) ==
    \A k \in 1 .. Len(opens[m]) : outer[opens[m][k]].idx < i =>
       /\ \E j \in 1 .. Len(t.opens) : t.opens[j] = opens[m][k]
       /\ t.outs[opens[m][k]].idx = outer[opens[m][k]].idx
Closes(t, m, i) ==
    \A k \in 1 .. Len(opens[m]) : outer[opens[m][k]].idx >= i /\ outer[opens[m][k]].idx \in Locals(m) =>
       LET o == opens[m][k]
       IN  t.outs[o] # None /\ t.outs[o].ptr = None /\ t.outs[o].value = stack[m][outer[o].idx]
Others(t, m) ==
    \A o \in Outers : outer[o] # None /\ (\A k \in 1 .. Len(opens[m]) : opens[m][k] # o) => t.outs[o] = outer[o]
PointHere(t, m) == \A k \in 1 .. Len(t.opens) : t.outs[t.opens[k]].ptr.at = mem'[m].at

Cuts(t, m, i) == Keeps(t, m, i) /\ Closes(t, m, i) /\ Others(t, m) /\ PointHere(t, m)

\* The registers regs, with locals L: those that were locals, below i, or new variables.
Takes(m, regs, L, i, New) ==
    \A r \in L : \/ r \in Locals(m) /\ r < i /\ regs[r] = stack[m][r]
                 \/ regs[r] \in New

\* The variable v stays in its register, if that is below i.
Stays(m, regs, L, i, v) ==
    \A r \in Locals(m) : r < i /\ stack[m][r] = v => r \in L /\ regs[r] = v

\* An outer that reaches a variable does so after the step.
LEMMA ReachKept ==
    ASSUME OInv, OInv', VInv, NEW m \in VMs, NEW regs, NEW fs, FramesOk(fs), Nested(fs), NEW t,
           Settle(m, regs, fs, t), t.opens \in Seq(Outers), NEW i \in Int, Cuts(t, m, i),
           NEW New, Takes(m, regs, LocalRegs(fs), i, New),
           NEW e \in Entries, Reaches(e.outer, e.var), e.var \notin New,
           Stays(m, regs, LocalRegs(fs), i, e.var)
    PROVE  Reaches(e.outer, e.var)'
PROOF
<1>1. PICK o, v : o = e.outer /\ v = e.var OBVIOUS
<1>2. o \in Outers /\ outer[o] # None BY <1>1 DEF VInv, ClosuresOk, Reaches
<1>3. outer'[o] = t.outs[o]
  <2>1. Settled(m, regs, fs, t) BY SettleAll
  <2> QED BY <1>1, <1>2, <2>1 DEF Settled
<1>4. /\ frames'[m] = fs /\ opens'[m] = t.opens
      /\ \A r \in LocalRegs(fs) : stack'[m][r] = regs[r]
      /\ \A n \in VMs \ {m} : /\ frames'[n] = frames[n] /\ opens'[n] = opens[n]
                              /\ stack'[n] = stack[n]
  <2>1. Settled(m, regs, fs, t) BY SettleAll
  <2> QED BY <2>1 DEF Settled
<1>5. /\ Locals(m)' = LocalRegs(fs) /\ \A n \in VMs \ {m} : Locals(n)' = Locals(n)
  BY <1>4 DEF Locals
\* No local has v unless one had it before, below i.
<1>6. ASSUME NEW r \in LocalRegs(fs), stack'[m][r] = v PROVE r \in Locals(m) /\ r < i /\ stack[m][r] = v
  <2>1. regs[r] = v /\ v \notin New BY <1>1, <1>4, <1>6
  <2> QED BY <2>1 DEF Takes
<1>7. CASE HasValue(o, v)
  <2>1. \A n \in VMs : \A k \in 1 .. Len(opens[n]) : opens[n][k] # o
    <3>1. SUFFICES ASSUME NEW n \in VMs, NEW k \in 1 .. Len(opens[n]), opens[n][k] = o PROVE FALSE OBVIOUS
    <3>2. Listed(outer, opens[n], n, FrameTop(frames[n])) BY DEF OInv
    <3>3. Opened(outer[o], n, FrameTop(frames[n])) BY <3>1, <3>2 DEF Listed
    <3>4. outer[o].ptr \in [vm : VMs, at : Nat, reg : Nat] BY <3>3 DEF Opened, OpenT
    <3>5. outer[o].ptr = None BY <1>7 DEF HasValue
    <3> QED BY <3>4, <3>5, NoneAssumption
  <2>2. outer'[o] = outer[o] BY <1>2, <1>3, <2>1 DEF Cuts, Others
  <2>3. \A r \in LocalRegs(fs) : stack'[m][r] # v BY <1>6, <1>7 DEF HasValue
  <2>4. \A n \in VMs \ {m} : \A r \in Locals(n) : stack'[n][r] # v BY <1>4, <1>7 DEF HasValue
  <2>5. \A n \in VMs : \A r \in Locals(n)' : stack'[n][r] # v BY <1>5, <2>3, <2>4
  <2>6. HasValue(o, v)' BY <1>7, <2>2, <2>5 DEF HasValue
  <2> QED BY <1>1, <1>2, <2>2, <2>6 DEF Reaches
<1>8. ASSUME NEW n \in VMs, PointsAt(o, n, v) PROVE Reaches(e.outer, e.var)'
  <2>1. PICK k \in 1 .. Len(opens[n]) : opens[n][k] = o BY <1>8 DEF PointsAt
  <2>2. PICK r : r = outer[o].idx OBVIOUS
  <2>3. r \in Locals(n) /\ stack[n][r] = v BY <1>8, <2>2 DEF PointsAt
  <2>4. \A p \in VMs : \A q \in Locals(p) : stack[p][q] = v => p = n /\ q = r
    BY <2>3 DEF VInv, StackOk
  <2>5. Listed(outer, opens[n], n, FrameTop(frames[n])) BY DEF OInv
  <2>6. CASE n # m
    <3>1. \A j \in 1 .. Len(opens[m]) : opens[m][j] # o
      <4>1. Listed(outer, opens[m], m, FrameTop(frames[m])) BY DEF OInv
      <4> QED BY <2>1, <2>5, <2>6, <4>1, ListsDisjoint
    <3>2. outer'[o] = outer[o] BY <1>2, <1>3, <3>1 DEF Cuts, Others
    <3>3. PointsAt(o, n, v)' BY <1>4, <1>5, <2>1, <2>2, <2>3, <2>6, <3>2 DEF PointsAt
    <3> QED BY <1>1, <1>2, <3>2, <3>3 DEF Reaches
  <2>7. CASE n = m /\ r < i
    <3>1. (\E j \in 1 .. Len(t.opens) : t.opens[j] = o) /\ t.outs[o].idx = r
      BY <2>1, <2>2, <2>7 DEF Cuts, Keeps
    <3>2. r \in LocalRegs(fs) /\ regs[r] = v BY <1>1, <2>3, <2>7 DEF Stays
    <3>3. stack'[m][r] = v BY <1>4, <3>2
    <3>4. PointsAt(o, m, v)' BY <1>3, <1>4, <1>5, <3>1, <3>2, <3>3 DEF PointsAt
    <3>5. outer'[o] # None
      <4>1. PICK j \in 1 .. Len(opens'[m]) : opens'[m][j] = o BY <1>4, <3>1
      <4>2. Listed(outer', opens'[m], m, FrameTop(frames'[m])) BY DEF OInv
      <4>3. Opened(outer'[o], m, FrameTop(frames'[m])) BY <4>1, <4>2 DEF Listed
      <4> QED BY <4>3, OpenedIsSome
    <3> QED BY <1>1, <3>4, <3>5 DEF Reaches
  <2>8. CASE n = m /\ ~(r < i)
    <3>1. r \in Int
      <4>1. Opened(outer[o], n, FrameTop(frames[n])) BY <2>1, <2>5 DEF Listed
      <4> QED BY <2>2, <4>1 DEF Opened, OpenT
    <3>2. t.outs[o] # None /\ t.outs[o].ptr = None /\ t.outs[o].value = stack[m][r]
      BY <2>1, <2>2, <2>3, <2>8, <3>1 DEF Cuts, Closes
    <3>3. \A q \in LocalRegs(fs) : stack'[m][q] # v BY <1>6, <2>4, <2>8
    <3>4. \A p \in VMs \ {m} : \A q \in Locals(p) : stack'[p][q] # v BY <1>4, <2>4, <2>8
    <3>5. \A p \in VMs : \A q \in Locals(p)' : stack'[p][q] # v BY <1>5, <3>3, <3>4
    <3>6. HasValue(o, v)' BY <1>3, <2>3, <2>8, <3>2, <3>5 DEF HasValue
    <3> QED BY <1>1, <1>3, <3>2, <3>6 DEF Reaches
  <2> QED BY <2>6, <2>7, <2>8
<1> QED BY <1>1, <1>7, <1>8 DEF Reaches

\* The same before the stack may move; what is open then was open before.
CutsHere(s, m, i) ==
    /\ {"outs", "opens"} \subseteq DOMAIN s /\ DOMAIN s.outs = Outers /\ s.opens \in Seq(Outers)
    /\ Keeps(s, m, i) /\ Closes(s, m, i) /\ Others(s, m)
    /\ \A k \in 1 .. Len(s.opens) :
          /\ s.outs[s.opens[k]] = outer[s.opens[k]]
          /\ \E j \in 1 .. Len(opens[m]) : opens[m][j] = s.opens[k] /\ outer[opens[m][j]].idx < i

\* An outer that is open here.
LEMMA OpenIs ==
    ASSUME OInv, VInv, NEW m \in VMs, NEW k \in 1 .. Len(opens[m])
    PROVE  /\ opens[m][k] \in Outers /\ outer[opens[m][k]] \in OpenT
           /\ outer[opens[m][k]].ptr.vm = m /\ outer[opens[m][k]].ptr.at = mem[m].at
           /\ outer[opens[m][k]].ptr.reg = outer[opens[m][k]].idx
           /\ outer[opens[m][k]].idx < FrameTop(frames[m])
PROOF
<1>1. Listed(outer, opens[m], m, FrameTop(frames[m])) BY DEF OInv
<1>2. opens[m] \in Seq(Outers) /\ Opened(outer[opens[m][k]], m, FrameTop(frames[m]))
  BY <1>1 DEF Listed
<1>3. outer[opens[m][k]].ptr.at = mem[m].at BY DEF VInv
<1> QED BY <1>2, <1>3 DEF Opened

LEMMA CutsOpen ==
    ASSUME OInv, VInv, NEW m \in VMs, NEW top, top = FrameTop(frames[m])
    PROVE  CutsHere(Open(m), m, top)
PROOF
<1>1. PICK s : s = Open(m) OBVIOUS
<1>2. s.outs = outer /\ s.opens = opens[m] /\ {"outs", "opens"} \subseteq DOMAIN s BY <1>1 DEF Open
<1>3. Listed(outer, opens[m], m, top) BY DEF OInv
<1>4. opens[m] \in Seq(Outers) /\ DOMAIN outer = Outers BY <1>3 DEF Listed, OInv, Shape
<1>5. top \in Nat BY TopIs
<1>6. \A k \in 1 .. Len(opens[m]) : outer[opens[m][k]].idx \in Nat /\ outer[opens[m][k]].idx < top
  BY <1>3 DEF Listed, Opened, OpenT
<1>7. Keeps(s, m, top) /\ Others(s, m) BY <1>2 DEF Keeps, Others
<1>8. Closes(s, m, top) BY <1>5, <1>6 DEF Closes
<1> QED BY <1>1, <1>2, <1>4, <1>6, <1>7, <1>8 DEF CutsHere

LEMMA CutsClosed ==
    ASSUME OInv, VInv, NEW m \in VMs, NEW i \in Int
    PROVE  CutsHere(CloseOuters(m, i), m, i)
PROOF
<1>1. PICK os, end : os = opens[m] /\ end = FrameTop(frames[m]) OBVIOUS
<1>2. PICK n : n = Above(outer, os, i) OBVIOUS
<1>3. PICK l : l = Len(os) OBVIOUS
<1>4. Listed(outer, os, m, end) BY <1>1 DEF OInv
<1>5. os \in Seq(Outers) /\ l \in Nat BY <1>3, <1>4 DEF Listed
<1>6. n \in 0 .. l /\ \A k \in 1 .. l : IF k <= n THEN outer[os[k]].idx >= i ELSE outer[os[k]].idx < i
  BY <1>2, <1>3, <1>4, AboveIs
<1>7. PICK s : s = CloseOuters(m, i) OBVIOUS
<1>8. PICK cut, ns : cut = SubSeq(os, 1, n) /\ ns = SubSeq(os, n + 1, l) OBVIOUS
<1>9. /\ s.outs = [o \in Outers |-> IF o \in Range(cut)
                                    THEN [outer[o] EXCEPT !.value = Deref(o), !.ptr = None] ELSE outer[o]]
      /\ s.opens = ns /\ {"outs", "opens"} \subseteq DOMAIN s
  BY <1>1, <1>2, <1>3, <1>7, <1>8 DEF CloseOuters
<1>10. cut \in Seq(Outers) /\ Len(cut) = n /\ \A k \in 1 .. n : cut[k] = os[k]
  <2>1. 1 \in 1 .. Len(os) + 1 /\ n \in 0 .. Len(os) /\ 1 <= n + 1 /\ n - 1 + 1 = n
        /\ \A k \in 1 .. n : 1 + k - 1 = k
    BY <1>3, <1>6
  <2>2. /\ SubSeq(os, 1, n) \in Seq(Outers) /\ Len(SubSeq(os, 1, n)) = n - 1 + 1
        /\ \A k \in 1 .. n - 1 + 1 : SubSeq(os, 1, n)[k] = os[1 + k - 1]
    BY <1>5, <2>1, SliceIs
  <2> QED BY <1>8, <2>1, <2>2
<1>11. ns \in Seq(Outers) /\ Len(ns) = l - n /\ \A k \in 1 .. l - n : ns[k] = os[n + k]
  <2>1. PICK j : j = n + 1 OBVIOUS
  <2>2. j \in 1 .. Len(os) + 1 /\ l \in 0 .. Len(os) /\ j <= l + 1 /\ l - j + 1 = l - n
        /\ \A k \in 1 .. l - n : j + k - 1 = n + k
    BY <1>3, <1>5, <1>6, <2>1
  <2>3. /\ SubSeq(os, j, l) \in Seq(Outers) /\ Len(SubSeq(os, j, l)) = l - j + 1
        /\ \A k \in 1 .. l - j + 1 : SubSeq(os, j, l)[k] = os[j + k - 1]
    BY <1>5, <2>2, SliceIs
  <2> QED BY <1>8, <2>1, <2>2, <2>3
<1>12. ASSUME NEW k \in 1 .. l
       PROVE  /\ os[k] \in Outers /\ outer[os[k]] \in OpenT /\ outer[os[k]].idx \in Nat
              /\ os[k] \in Range(cut) <=> outer[os[k]].idx >= i
  <2>1. os[k] \in Outers /\ Opened(outer[os[k]], m, end) BY <1>3, <1>4, <1>5 DEF Listed
  <2>2. outer[os[k]] \in OpenT /\ outer[os[k]].idx \in Nat BY <2>1 DEF Opened, OpenT
  <2>3. os[k] \in Range(cut) <=> k <= n
    <3>1. ASSUME os[k] \in Range(cut) PROVE k <= n
      <4>1. PICK j \in 1 .. n : cut[j] = os[k] BY <1>10, <3>1, RangeIs
      <4>2. j \in 1 .. l /\ os[j] = os[k] BY <1>5, <1>6, <1>10, <4>1
      <4>3. j = k BY <1>3, <1>4, <4>2, ListedOnce
      <4> QED BY <1>6, <4>3
    <3>2. ASSUME k <= n PROVE os[k] \in Range(cut)
      <4>1. k \in 1 .. n /\ cut[k] = os[k] BY <1>6, <1>10, <3>2
      <4> QED BY <1>10, <4>1, RangeIs
    <3> QED BY <3>1, <3>2
  <2>4. k <= n <=> outer[os[k]].idx >= i BY <1>6, <2>2
  <2> QED BY <2>1, <2>2, <2>3, <2>4
<1>13. ASSUME NEW k \in 1 .. l, outer[os[k]].idx < i PROVE s.outs[os[k]] = outer[os[k]]
  <2>1. os[k] \in Outers /\ os[k] \notin Range(cut) BY <1>12, <1>13
  <2> QED BY <1>9, <2>1
<1>14. Keeps(s, m, i)
  <2>1. ASSUME NEW k \in 1 .. l, outer[os[k]].idx < i PROVE \E j \in 1 .. l - n : ns[j] = os[k]
    <3>1. ~(k <= n) BY <1>6, <1>12, <2>1
    <3>2. PICK j : j = k - n OBVIOUS
    <3>3. j \in 1 .. l - n /\ n + j = k BY <1>5, <1>6, <3>1, <3>2
    <3> QED BY <1>11, <3>3
  <2> QED BY <1>1, <1>3, <1>9, <1>11, <1>13, <2>1 DEF Keeps
<1>15. Others(s, m)
  <2>1. ASSUME NEW o \in Outers, \A k \in 1 .. l : os[k] # o PROVE s.outs[o] = outer[o]
    <3>1. \A j \in 1 .. n : j \in 1 .. l BY <1>5, <1>6
    <3>2. o \notin Range(cut) BY <1>10, <2>1, <3>1, RangeIs
    <3> QED BY <1>9, <3>2
  <2> QED BY <1>1, <1>3, <2>1 DEF Others
<1>16. Closes(s, m, i)
  <2>1. ASSUME NEW k \in 1 .. l, outer[os[k]].idx >= i, outer[os[k]].idx \in Locals(m)
        PROVE  /\ s.outs[os[k]] # None /\ s.outs[os[k]].ptr = None
               /\ s.outs[os[k]].value = stack[m][outer[os[k]].idx]
    <3>1. PICK o, x : o = os[k] /\ x = outer[o] OBVIOUS
    <3>2. /\ o \in Outers /\ x \in OpenT /\ x.ptr.vm = m /\ x.ptr.at = mem[m].at /\ x.ptr.reg = x.idx
      BY <1>1, <1>3, <2>1, <3>1, OpenIs
    <3>3. o \in Range(cut) BY <1>12, <2>1, <3>1
    <3>4. x.ptr # None
      <4>1. x.ptr \in [vm : VMs, at : Nat, reg : Nat] BY <3>2 DEF OpenT
      <4> QED BY <4>1, NoneAssumption
    <3>5. Deref(o) = stack[m][x.idx] BY <3>1, <3>2, <3>4 DEF Deref
    <3>6. PICK v : v = stack[m][x.idx] OBVIOUS
    <3>7. v \in Vars BY <2>1, <3>1, <3>6 DEF VInv, StackOk
    <3>8. s.outs[o] = [x EXCEPT !.value = v, !.ptr = None]
      <4>1. s.outs[o] = [outer[o] EXCEPT !.value = Deref(o), !.ptr = None] BY <1>9, <3>2, <3>3
      <4>2. Deref(o) = v /\ outer[o] = x BY <3>1, <3>5, <3>6
      <4> QED BY ONLY <4>1, <4>2
    <3>9. PICK y : y = s.outs[o] OBVIOUS
    <3>10. y \in [ptr : {None}, idx : Nat, value : Vars] /\ y.ptr = None /\ y.value = v
      BY <3>2, <3>7, <3>8, <3>9 DEF OpenT
    <3>11. y # None BY <3>10, NoneAssumption
    <3> QED BY <3>1, <3>6, <3>9, <3>10, <3>11
  <2> QED BY <1>1, <1>3, <2>1 DEF Closes
<1>17. ASSUME NEW k \in 1 .. l - n
       PROVE  /\ s.outs[ns[k]] = outer[ns[k]]
              /\ \E j \in 1 .. l : os[j] = ns[k] /\ outer[os[j]].idx < i
  <2>1. PICK j : j = n + k OBVIOUS
  <2>2. j \in 1 .. l /\ ~(j <= n) /\ ns[k] = os[j] BY <1>5, <1>6, <1>11, <2>1
  <2>3. outer[os[j]].idx < i BY <1>6, <2>2
  <2> QED BY <1>13, <2>2, <2>3
<1>18. DOMAIN s.outs = Outers BY <1>9
<1>19. {"outs", "opens"} \subseteq DOMAIN s /\ s.opens \in Seq(Outers) BY <1>9, <1>11
<1>20. \A k \in 1 .. Len(s.opens) :
         /\ s.outs[s.opens[k]] = outer[s.opens[k]]
         /\ \E j \in 1 .. Len(opens[m]) : opens[m][j] = s.opens[k] /\ outer[opens[m][j]].idx < i
  <2>1. s.opens = ns BY <1>9
  <2>2. 1 .. Len(ns) = 1 .. l - n /\ 1 .. Len(opens[m]) = 1 .. l /\ opens[m] = os BY <1>1, <1>3, <1>11
  <2>3. \A k \in 1 .. Len(ns) : /\ s.outs[ns[k]] = outer[ns[k]]
                               /\ \E j \in 1 .. Len(opens[m]) : opens[m][j] = ns[k] /\ outer[opens[m][j]].idx < i
    BY ONLY <1>17, <2>2
  <2> QED BY ONLY <2>1, <2>3
<1>21. CutsHere(s, m, i) BY <1>14, <1>15, <1>16, <1>18, <1>19, <1>20 DEF CutsHere
<1> QED BY <1>7, <1>21

\* Where the stack stays.
LEMMA CutsStay ==
    ASSUME OInv, VInv, NEW m \in VMs, NEW i, NEW s, CutsHere(s, m, i), mem' = mem
    PROVE  Cuts(s, m, i)
PROOF
<1>1. ASSUME NEW k \in 1 .. Len(s.opens) PROVE s.outs[s.opens[k]].ptr.at = mem'[m].at
  <2>1. PICK j \in 1 .. Len(opens[m]) : opens[m][j] = s.opens[k] BY DEF CutsHere
  <2>2. outer[opens[m][j]].ptr.at = mem[m].at BY OpenIs
  <2> QED BY <2>1, <2>2 DEF CutsHere
<1> QED BY <1>1 DEF Cuts, CutsHere, PointHere

\* Where it may move.
LEMMA CutsMoved ==
    ASSUME OInv, VInv, NEW m \in VMs, NEW i \in Int, NEW s, CutsHere(s, m, i),
           NEW base, NEW t, t = Relocated(m, base, s), mem' = Grown(m, base)
    PROVE  /\ Cuts(t, m, i) /\ t.opens = s.opens /\ \A n \in VMs \ {m} : mem'[n] = mem[n]
PROOF
<1>1. CASE ~Grows(m, base)
  <2>1. t = s /\ mem' = mem BY <1>1 DEF Relocated, Grown
  <2> QED BY <2>1, CutsStay
<1>2. CASE Grows(m, base)
  <2>1. PICK at : at = 1 - mem[m].at OBVIOUS
  <2>2. PICK x : x = [at |-> at, size |-> base + FrameSize + 4 * MIN_STACK_OVERHEAD] OBVIOUS
  <2>3. mem' = [mem EXCEPT ![m] = x] BY <1>2, <2>1, <2>2 DEF Grown
  <2>4. mem'[m].at = at /\ \A n \in VMs \ {m} : mem'[n] = mem[n] BY <2>2, <2>3 DEF OInv, Shape
  <2>5. t = [s EXCEPT !.outs = RelocateOuters(@, m, s.opens, at)] BY <1>2, <2>1 DEF Relocated
  <2>6. PICK new : new = RelocateOuters(s.outs, m, s.opens, at) OBVIOUS
  <2>7. t.outs = new /\ t.opens = s.opens BY <2>5, <2>6 DEF CutsHere
  <2>8. \A o \in Outers : new[o] = IF o \in Range(s.opens)
                                   THEN [s.outs[o] EXCEPT !.ptr.at = at, !.ptr.reg = s.outs[o].idx]
                                   ELSE s.outs[o]
    BY <2>6 DEF RelocateOuters
  <2>9. ASSUME NEW k \in 1 .. Len(s.opens)
        PROVE  /\ new[s.opens[k]].ptr.at = at /\ new[s.opens[k]].idx = outer[s.opens[k]].idx
               /\ outer[s.opens[k]].idx < i
               /\ \E j \in 1 .. Len(opens[m]) : opens[m][j] = s.opens[k]
    <3>1. PICK o, y : o = s.opens[k] /\ y = outer[o] OBVIOUS
    <3>2. PICK j \in 1 .. Len(opens[m]) : opens[m][j] = o /\ y.idx < i BY <3>1 DEF CutsHere
    <3>3. o \in Outers /\ y \in OpenT BY <3>1, <3>2, OpenIs
    <3>4. s.outs[o] = y /\ o \in Range(s.opens) BY <3>1, RangeIs DEF CutsHere
    <3>5. PICK z : z = new[o] OBVIOUS
    <3>6. PICK d : d = y.idx OBVIOUS
    <3>7. z = [y EXCEPT !.ptr.at = at, !.ptr.reg = d] BY <2>8, <3>3, <3>4, <3>5, <3>6
    <3>8. z.ptr.at = at /\ z.idx = d
      <4>1. /\ {"ptr", "idx"} \subseteq DOMAIN y /\ {"at", "reg"} \subseteq DOMAIN y.ptr BY <3>3 DEF OpenT
      <4>2. PICK p : p = [y.ptr EXCEPT !.at = at] OBVIOUS
      <4>3. PICK q : q = [p EXCEPT !.reg = d] OBVIOUS
      <4>4. p.at = at /\ {"at", "reg"} \subseteq DOMAIN p BY <4>1, <4>2
      <4>5. q.at = at BY <4>3, <4>4
      <4>6. z = [y EXCEPT !.ptr = q] BY <3>7, <4>1, <4>2, <4>3
      <4> QED BY <3>6, <4>1, <4>5, <4>6
    <3> QED BY <3>1, <3>2, <3>5, <3>6, <3>8
  <2>10. PointHere(t, m) BY <2>4, <2>7, <2>9 DEF PointHere
  <2>11. Keeps(t, m, i)
    <3>1. ASSUME NEW k \in 1 .. Len(opens[m]), outer[opens[m][k]].idx < i
          PROVE  /\ \E j \in 1 .. Len(t.opens) : t.opens[j] = opens[m][k]
                 /\ t.outs[opens[m][k]].idx = outer[opens[m][k]].idx
      <4>1. PICK j \in 1 .. Len(s.opens) : s.opens[j] = opens[m][k] BY <3>1 DEF CutsHere, Keeps
      <4> QED BY <2>7, <2>9, <4>1, SMTT(30)
    <3> QED BY <3>1 DEF Keeps
  <2>12. \A o \in Outers : (\A k \in 1 .. Len(s.opens) : s.opens[k] # o) => new[o] = s.outs[o]
    <3>1. s.opens \in Seq(Outers) BY DEF CutsHere
    <3>2. ASSUME NEW o \in Outers, \A k \in 1 .. Len(s.opens) : s.opens[k] # o PROVE new[o] = s.outs[o]
      <4>1. o \notin Range(s.opens) BY <3>1, <3>2, RangeIs
      <4> QED BY <2>8, <4>1
    <3> QED BY <3>2
  <2>13. Others(t, m)
    <3>1. ASSUME NEW o \in Outers, outer[o] # None, \A k \in 1 .. Len(opens[m]) : opens[m][k] # o
          PROVE  t.outs[o] = outer[o]
      <4>1. \A k \in 1 .. Len(s.opens) : s.opens[k] # o BY <2>9, <3>1
      <4>2. s.outs[o] = outer[o] BY <3>1 DEF CutsHere, Others
      <4> QED BY <2>7, <2>12, <4>1, <4>2
    <3> QED BY <3>1 DEF Others
  <2>14. Closes(t, m, i)
    <3>1. ASSUME NEW k \in 1 .. Len(opens[m]), outer[opens[m][k]].idx >= i, outer[opens[m][k]].idx \in Locals(m)
          PROVE  /\ t.outs[opens[m][k]] # None /\ t.outs[opens[m][k]].ptr = None
                 /\ t.outs[opens[m][k]].value = stack[m][outer[opens[m][k]].idx]
      <4>1. PICK o : o = opens[m][k] OBVIOUS
      <4>2. o \in Outers /\ outer[o].idx \in Nat BY <4>1, OpenIs DEF OpenT
      <4>3. \A j \in 1 .. Len(s.opens) : s.opens[j] # o BY <2>9, <3>1, <4>1, <4>2
      <4>4. t.outs[o] = s.outs[o] BY <2>7, <2>12, <4>2, <4>3
      <4>5. s.outs[o] # None /\ s.outs[o].ptr = None /\ s.outs[o].value = stack[m][outer[o].idx]
        BY <3>1, <4>1 DEF CutsHere, Closes
      <4> QED BY <4>1, <4>4, <4>5
    <3> QED BY <3>1 DEF Closes
  <2> QED BY <2>4, <2>7, <2>10, <2>11, <2>13, <2>14 DEF Cuts
<1> QED BY <1>1, <1>2

\* The variables New come into registers of m, from where no local has them.
Fresh(regs, L, New) ==
    /\ New \subseteq Vars
    /\ \A n \in VMs : \A j \in Locals(n) : stack[n][j] \notin New
    /\ \A i, j \in L : regs[i] \in New /\ regs[i] = regs[j] => i = j

\* A variable below i stays, or closures lose it when they have it.
Leaves(m, regs, L, i) ==
    \A r \in Locals(m) : r < i => (r \in L /\ regs[r] = stack[m][r]) \/ (stack[m][r] \in Captured => stack[m][r] \in loose')

\* A step that is one of calls, blocks and locals of m, and makes no closure.
Moves(m, regs, fs, t, i, New) ==
    /\ FramesOk(fs) /\ Nested(fs) /\ \A k \in 1 .. Len(fs) : Runs(fs[k], closure)
    /\ Settle(m, regs, fs, t) /\ t.opens \in Seq(Outers) /\ Cuts(t, m, i)
    /\ Takes(m, regs, LocalRegs(fs), i, New) /\ Fresh(regs, LocalRegs(fs), New) /\ Leaves(m, regs, LocalRegs(fs), i)
    /\ \A v \in New : v \in Captured => v \in loose'
    /\ \A n \in VMs \ {m} : mem'[n] = mem[n]
    /\ closure' = closure /\ loose \subseteq loose'

\* What a local has after the step, it had before, or is new.
Was(m, regs, fs, New, n, i) ==
    \/ i \in Locals(n) /\ stack'[n][i] = stack[n][i]
    \/ n = m /\ i \in LocalRegs(fs) /\ stack'[n][i] = regs[i] /\ regs[i] \in New

LEMMA MovesWas ==
    ASSUME OInv, VInv, NEW m \in VMs, NEW regs, NEW fs, NEW t, NEW b \in Int, NEW New,
           Moves(m, regs, fs, t, b, New), NEW n \in VMs, NEW i \in Locals(n)'
    PROVE  Was(m, regs, fs, New, n, i)
PROOF
<1>1. Settled(m, regs, fs, t) BY SettleAll DEF Moves
<1>2. /\ frames'[m] = fs /\ \A r \in LocalRegs(fs) : stack'[m][r] = regs[r]
      /\ \A p \in VMs \ {m} : frames'[p] = frames[p] /\ stack'[p] = stack[p]
  BY <1>1 DEF Settled
<1>3. CASE n = m
  <2>1. i \in LocalRegs(fs) BY <1>2, <1>3 DEF Locals
  <2>2. stack'[n][i] = regs[i] BY <1>2, <1>3, <2>1
  <2>3. Takes(m, regs, LocalRegs(fs), b, New) BY DEF Moves
  <2> QED BY <1>3, <2>1, <2>2, <2>3 DEF Takes, Was
<1>4. CASE n # m
  <2>1. frames'[n] = frames[n] /\ stack'[n] = stack[n] BY <1>2, <1>4
  <2>2. i \in Locals(n) BY <2>1 DEF Locals
  <2> QED BY <2>1, <2>2 DEF Was
<1> QED BY <1>3, <1>4

LEMMA MovesStack ==
    ASSUME OInv, VInv, NEW m \in VMs, NEW regs, NEW fs, NEW t, NEW b \in Int, NEW New,
           Moves(m, regs, fs, t, b, New)
    PROVE  StackOk'
PROOF
<1>1. Settled(m, regs, fs, t) BY SettleAll DEF Moves
<1>2. DOMAIN stack' = VMs /\ \A n \in VMs : DOMAIN stack'[n] = Registers BY <1>1 DEF Settled
<1>3. \A n \in VMs : \A i \in Locals(n)' : Was(m, regs, fs, New, n, i) BY MovesWas
<1>4. Fresh(regs, LocalRegs(fs), New) BY DEF Moves
<1>5. StackOk BY DEF VInv
<1>6. ASSUME NEW n \in VMs, NEW i \in Locals(n)' PROVE stack'[n][i] \in Vars
  <2>1. Was(m, regs, fs, New, n, i) BY <1>3
  <2> QED BY <1>4, <1>5, <2>1 DEF Was, Fresh, StackOk
<1>7. ASSUME NEW n \in VMs, NEW p \in VMs, NEW i \in Locals(n)', NEW j \in Locals(p)',
             stack'[n][i] = stack'[p][j]
      PROVE  n = p /\ i = j
  <2>1. Was(m, regs, fs, New, n, i) /\ Was(m, regs, fs, New, p, j) BY <1>3
  <2> QED BY <1>4, <1>5, <1>7, <2>1 DEF Was, Fresh, StackOk
<1> QED BY <1>2, <1>6, <1>7 DEF StackOk

\* Suspended generators keep what they have.
LEMMA MovesSaved ==
    ASSUME OInv, VInv, NEW m \in VMs, NEW regs, NEW fs, NEW t, NEW b \in Int, NEW New,
           Moves(m, regs, fs, t, b, New), \A g \in Gens : gen'[g] = gen[g] \/ gen'[g] = None,
           \A g \in Suspended : gen'[g] = gen[g] => \A i \in 1 .. Len(gen[g].regs) : gen[g].regs[i] \notin New
    PROVE  SavedOk' /\ \A g \in Suspended' : Runs(gen'[g].frame, closure)
PROOF
<1>1. \A g \in Suspended' : g \in Suspended /\ gen'[g] = gen[g] BY DEF Suspended
<1>2. SavedOk /\ ClosuresOk BY DEF VInv
<1>3. closure' = closure /\ loose \subseteq loose' BY DEF Moves
<1>4. Captured' = Captured BY <1>3 DEF Captured, Entries
<1>5. ASSUME NEW g \in Suspended', NEW i \in 1 .. Len(gen'[g].regs), NEW n \in VMs, NEW j \in Locals(n)'
      PROVE  stack'[n][j] # gen'[g].regs[i]
  <2>1. Was(m, regs, fs, New, n, j) BY MovesWas
  <2>2. g \in Suspended /\ gen'[g] = gen[g] /\ i \in 1 .. Len(gen[g].regs) BY <1>1
  <2>3. gen[g].regs[i] \notin New BY <2>2
  <2>4. \A p \in VMs : \A q \in Locals(p) : stack[p][q] # gen[g].regs[i] BY <1>2, <2>2 DEF SavedOk
  <2> QED BY <2>1, <2>2, <2>3, <2>4 DEF Was
<1>6. \A g \in Suspended' : GenOk(gen'[g]) BY <1>1, <1>2 DEF SavedOk
<1>7. \A g, h \in Suspended' : \A i \in 1 .. Len(gen'[g].regs), j \in 1 .. Len(gen'[h].regs) :
          gen'[g].regs[i] = gen'[h].regs[j] => g = h /\ i = j
  BY <1>1, <1>2, SMTT(30) DEF SavedOk
<1>8. \A g \in Suspended' : \A i \in 1 .. Len(gen'[g].regs) :
         gen'[g].regs[i] \in Captured' => gen'[g].regs[i] \in loose'
  BY <1>1, <1>2, <1>3, <1>4 DEF SavedOk
<1>9. SavedOk' BY <1>5, <1>6, <1>7, <1>8 DEF SavedOk
<1>10. \A g \in Suspended' : Runs(gen'[g].frame, closure) BY <1>1, <1>2 DEF ClosuresOk
<1> QED BY <1>9, <1>10

\* The invariant after such a step.
LEMMA MovesInv ==
    ASSUME OInv, OInv', VInv, NEW m \in VMs, NEW regs, NEW fs, NEW t, NEW b \in Int, NEW New,
           Moves(m, regs, fs, t, b, New), SavedOk', \A g \in Suspended' : Runs(gen'[g].frame, closure)
    PROVE  VInv'
PROOF
<1>1. Settled(m, regs, fs, t) BY SettleAll DEF Moves
<1>2. /\ frames'[m] = fs /\ opens'[m] = t.opens
      /\ \A n \in VMs \ {m} : frames'[n] = frames[n] /\ opens'[n] = opens[n] /\ stack'[n] = stack[n]
      /\ \A k \in 1 .. Len(t.opens) : outer'[t.opens[k]] = t.outs[t.opens[k]]
      /\ \A n \in VMs \ {m} : \A k \in 1 .. Len(opens[n]) : outer'[opens[n][k]] = t.outs[opens[n][k]]
  BY <1>1 DEF Settled
<1>3. closure' = closure /\ loose \subseteq loose' /\ \A n \in VMs \ {m} : mem'[n] = mem[n] BY DEF Moves
<1>4. Entries' = Entries /\ Captured' = Captured BY <1>3 DEF Captured, Entries
<1>5. StackOk' BY MovesStack
<1>6. ASSUME NEW n \in VMs PROVE Nested(frames'[n]) /\ \A k \in 1 .. Len(frames'[n]) : Runs(frames'[n][k], closure)
  <2>1. CASE n = m BY <1>2, <2>1 DEF Moves
  <2>2. CASE n # m
    <3>1. frames'[n] = frames[n] BY <1>2, <2>2
    <3> QED BY <3>1 DEF VInv, ClosuresOk
  <2> QED BY <2>1, <2>2
<1>7. ClosuresOk' BY <1>3, <1>4, <1>6 DEF ClosuresOk, VInv
<1>8. ASSUME NEW n \in VMs, NEW k \in 1 .. Len(opens'[n]) PROVE outer'[opens'[n][k]].ptr.at = mem'[n].at
  <2>1. CASE n = m
    <3>1. opens'[m] = t.opens /\ k \in 1 .. Len(t.opens) BY <1>2, <2>1
    <3>2. t.outs[t.opens[k]].ptr.at = mem'[m].at BY <3>1 DEF Moves, Cuts, PointHere
    <3> QED BY <1>2, <2>1, <3>1, <3>2
  <2>2. CASE n # m
    <3>1. opens'[n] = opens[n] /\ k \in 1 .. Len(opens[n]) /\ mem'[n] = mem[n] BY <1>2, <1>3, <2>2
    <3>2. outer'[opens[n][k]] = t.outs[opens[n][k]] BY <1>2, <2>2, <3>1
    <3>3. Listed(outer, opens[n], n, FrameTop(frames[n])) /\ Listed(outer, opens[m], m, FrameTop(frames[m]))
      BY DEF OInv
    <3>4. opens[n][k] \in Outers /\ outer[opens[n][k]] # None /\ outer[opens[n][k]].ptr.at = mem[n].at
      <4>1. Opened(outer[opens[n][k]], n, FrameTop(frames[n])) BY <3>1, <3>3 DEF Listed
      <4> QED BY <3>1, <4>1, OpenIs, OpenedIsSome
    <3>5. \A j \in 1 .. Len(opens[m]) : opens[m][j] # opens[n][k] BY <2>2, <3>1, <3>3, ListsDisjoint
    <3>6. t.outs[opens[n][k]] = outer[opens[n][k]] BY <3>4, <3>5 DEF Moves, Cuts, Others
    <3> QED BY <3>1, <3>2, <3>4, <3>6
  <2> QED BY <2>1, <2>2
<1>9. ASSUME NEW e \in Entries, e.var \notin loose' PROVE Reaches(e.outer, e.var)'
  <2>1. e.var \notin loose /\ e.var \in Captured BY <1>3, <1>9 DEF Captured
  <2>2. Reaches(e.outer, e.var) BY <2>1 DEF VInv
  <2>3. e.var \notin New BY <1>9, <2>1 DEF Moves
  <2>4. Stays(m, regs, LocalRegs(fs), b, e.var) BY <1>9, <2>1 DEF Moves, Leaves, Stays
  <2> QED BY <2>2, <2>3, <2>4, ReachKept DEF Moves
<1> QED BY <1>4, <1>5, <1>6, <1>7, <1>8, <1>9 DEF VInv

\* The frames ps of m have its locals below i.
Below(m, ps, i) ==
    /\ FramesOk(ps) /\ Nested(ps) /\ Len(ps) < MaxFrames /\ \A k \in 1 .. Len(ps) : Runs(ps[k], closure)
    /\ \A r \in LocalRegs(ps) : r \in Locals(m) /\ r < i

\* The frame f can come after ps.
Follows(ps, f) ==
    FrameOk(f) /\ BlocksOk(f) /\ Runs(f, closure) /\ f.base <= FrameTop(ps) /\ EndsBy(ps, f.base)

\* Different variables that no local has.
Given(args) ==
    /\ args \in Seq(Vars) /\ \A j, k \in 1 .. Len(args) : args[j] = args[k] => j = k
    /\ \A n \in VMs : \A j \in Locals(n) : \A k \in 1 .. Len(args) : stack[n][j] # args[k]
    /\ \A k \in 1 .. Len(args) : args[k] \in Captured => args[k] \in loose'

\* The frames ps of m that go on, and the registers of the frame f after them.
Joins(m, ps, f, regs, i, New) ==
    /\ Below(m, ps, i) /\ Follows(ps, f)
    /\ \A r \in LocalRegs(ps) : regs[r] = stack[m][r]
    /\ \A r \in Registers : InFrame(r, f) => (r \in Locals(m) /\ r < i /\ regs[r] = stack[m][r]) \/ regs[r] \in New
    /\ \A r, q \in Registers : InFrame(r, f) /\ InFrame(q, f) /\ regs[r] \in New /\ regs[r] = regs[q] => r = q
    /\ \A r \in Locals(m) : r < i => \/ r \in LocalRegs(ps)
                                     \/ InFrame(r, f) /\ regs[r] = stack[m][r]
                                     \/ stack[m][r] \in Captured => stack[m][r] \in loose'
    /\ New \subseteq Vars /\ \A n \in VMs : \A j \in Locals(n) : stack[n][j] \notin New
    /\ \A v \in New : v \in Captured => v \in loose'

LEMMA JoinsMoves ==
    ASSUME OInv, VInv, NEW m \in VMs, NEW ps, NEW f, NEW regs, NEW i \in Int, NEW New, Joins(m, ps, f, regs, i, New),
           NEW fs, fs = Append(ps, f), NEW t, Settle(m, regs, fs, t), t.opens \in Seq(Outers), Cuts(t, m, i),
           \A n \in VMs \ {m} : mem'[n] = mem[n], closure' = closure, loose \subseteq loose'
    PROVE  Moves(m, regs, fs, t, i, New)
PROOF
<1>1. /\ FramesOk(ps) /\ Nested(ps) /\ Len(ps) < MaxFrames /\ FrameOk(f) /\ BlocksOk(f)
      /\ f.base <= FrameTop(ps) /\ EndsBy(ps, f.base)
  BY DEF Joins, Below, Follows
<1>2. FramesOk(fs) BY <1>1, AppendOk
<1>3. /\ Nested(fs)
      /\ \A r : r \in LocalRegs(fs) <=> r \in LocalRegs(ps) \/ InFrame(r, f)
      /\ \A k \in 1 .. Len(fs) : fs[k] = f \/ \E j \in 1 .. Len(ps) : fs[k] = ps[j]
  <2>2. Appended(ps, f, fs) BY <1>1, AppendNested
  <2> QED BY <2>2 DEF Appended
<1>4. \A k \in 1 .. Len(fs) : Runs(fs[k], closure) BY <1>3 DEF Joins, Below, Follows
<1>5. \A r \in LocalRegs(fs) : r \in Registers BY <1>2, <1>3, LocalsAre
<1>6. Takes(m, regs, LocalRegs(fs), i, New) BY <1>3, <1>5 DEF Joins, Below, Takes
<1>7. Leaves(m, regs, LocalRegs(fs), i) BY <1>3 DEF Joins, Leaves
<1>8. Fresh(regs, LocalRegs(fs), New)
  <2>1. ASSUME NEW r \in LocalRegs(fs), NEW q \in LocalRegs(fs), regs[r] \in New, regs[r] = regs[q] PROVE r = q
    <3>1. \A x \in LocalRegs(ps) : regs[x] \notin New BY DEF Joins, Below
    <3>2. InFrame(r, f) /\ InFrame(q, f) BY <1>3, <2>1, <3>1
    <3> QED BY <1>5, <2>1, <3>2 DEF Joins
  <2> QED BY <2>1 DEF Joins, Fresh
<1> QED BY <1>2, <1>3, <1>4, <1>6, <1>7, <1>8 DEF Moves, Joins

\* The frames of m.
LEMMA OwnFrames ==
    ASSUME OInv, VInv, NEW m \in VMs, NEW fs, fs = frames[m]
    PROVE  /\ FramesOk(fs) /\ Nested(fs) /\ \A k \in 1 .. Len(fs) : Runs(fs[k], closure)
           /\ \A r \in LocalRegs(fs) : r \in Locals(m) /\ r \in Registers /\ r \in Nat /\ r < FrameTop(fs)
PROOF
<1>1. FramesOk(fs) /\ Nested(fs) BY DEF OInv, VInv
<1>2. \A r \in LocalRegs(fs) : r \in Registers /\ r \in Nat /\ r < FrameTop(fs) BY <1>1, LocalsAre
<1> QED BY <1>1, <1>2 DEF VInv, ClosuresOk, Locals

\* The registers of arguments.
LEMMA PassedIs ==
    ASSUME NEW m \in VMs, NEW base \in Nat, NEW S, NEW args \in Seq(S), NEW i \in Registers, NEW n, n = Len(args)
    PROVE  /\ i < base => Passed(m, base, args)[i] = stack[m][i]
           /\ i >= base /\ i < base + n => i - base + 1 \in 1 .. n /\ Passed(m, base, args)[i] = args[i - base + 1]
PROOF
<1>1. DOMAIN args = 1 .. n /\ n \in Nat OBVIOUS
<1>2. i \in Int
  <2>1. i \in 0 .. MaxFrames * FrameSize - 1 BY DEF Registers
  <2> QED BY ONLY <2>1
<1>3. Passed(m, base, args)[i] = IF i - base + 1 \in DOMAIN args THEN args[i - base + 1] ELSE stack[m][i]
  BY DEF Passed
<1>4. i < base => ~(i - base + 1 \in 1 .. n) BY <1>1, <1>2
<1>5. i >= base /\ i < base + n => i - base + 1 \in 1 .. n BY <1>1, <1>2
<1> QED BY <1>1, <1>3, <1>4, <1>5

\* A frame is entered with the variables args, after the frames ps.
LEMMA EnterJoins ==
    ASSUME OInv, VInv, NEW m \in VMs, NEW i \in Int, NEW ps, Below(m, ps, i),
           \A r \in Locals(m) : r < i => r \in LocalRegs(ps), NEW f, Follows(ps, f),
           NEW args, Given(args), Len(args) = f.nlocals, NEW regs, regs = Passed(m, f.base, args),
           NEW New, New = {args[k] : k \in 1 .. Len(args)}
    PROVE  Joins(m, ps, f, regs, i, New)
PROOF
<1>1. PICK b, l : b = f.base /\ l = Len(args) OBVIOUS
<1>2. New = {args[k] : k \in 1 .. l} /\ regs = Passed(m, b, args) BY <1>1
<1>3. b \in Nat /\ l \in Nat BY <1>1, FrameIs DEF Follows
<1>10. FramesOk(ps) /\ Nested(ps) /\ args \in Seq(Vars) BY DEF Below, Given
<1>4. \A r \in Registers : r \in Int
  <2>1. Registers = 0 .. MaxFrames * FrameSize - 1 BY DEF Registers
  <2> QED BY ONLY <2>1
<1>5. ASSUME NEW r \in LocalRegs(ps) PROVE r \in Registers /\ regs[r] = stack[m][r]
  <2>1. r \in Registers BY <1>10, LocalsAre
  <2>2. PICK k \in 1 .. Len(ps) : InFrame(r, ps[k]) BY <1>10, LocalIs
  <2>3. ps[k].base + ps[k].nlocals <= b BY <1>1 DEF EndsBy, Follows
  <2>4. ps[k].base \in Nat /\ ps[k].nlocals \in Nat BY <1>10, FrameIs DEF FramesOk
  <2>5. r < b
    <3>1. PICK x, y : x = ps[k].base /\ y = ps[k].nlocals OBVIOUS
    <3>2. r \in x .. x + y - 1 BY <2>2, <3>1 DEF InFrame
    <3> QED BY <1>3, <2>3, <2>4, <3>1, <3>2
  <2> QED BY <1>2, <1>3, <1>10, <2>1, <2>5, PassedIs, SMTT(30)
<1>6. ASSUME NEW r \in Registers, InFrame(r, f)
      PROVE  r - b + 1 \in 1 .. l /\ regs[r] = args[r - b + 1] /\ regs[r] \in New
  <2>1. r \in b .. b + l - 1 BY <1>1, <1>6 DEF InFrame
  <2>2. r >= b /\ r < b + l BY <1>3, <2>1
  <2>3. r - b + 1 \in 1 .. l /\ regs[r] = args[r - b + 1] BY <1>1, <1>2, <1>3, <1>10, <2>2, PassedIs
  <2> QED BY <1>2, <2>3
<1>7. ASSUME NEW r \in Registers, NEW q \in Registers, InFrame(r, f), InFrame(q, f), regs[r] = regs[q]
      PROVE  r = q
  <2>1. PICK x, y : x = r - b + 1 /\ y = q - b + 1 OBVIOUS
  <2>2. x \in 1 .. l /\ y \in 1 .. l /\ regs[r] = args[x] /\ regs[q] = args[y] BY <1>6, <1>7, <2>1
  <2>3. x = y BY <1>1, <1>7, <2>2 DEF Given
  <2> QED BY <1>3, <1>4, <2>1, <2>3
<1>8. New \subseteq Vars /\ (\A n \in VMs : \A j \in Locals(n) : stack[n][j] \notin New)
      /\ \A v \in New : v \in Captured => v \in loose'
  BY <1>1, <1>2, <1>10 DEF Given
<1> QED BY <1>1, <1>5, <1>6, <1>7, <1>8 DEF Joins

LEMMA MovesEnd ==
    ASSUME OInv, OInv', VInv, NEW m \in VMs, NEW regs, NEW fs, NEW t, NEW b \in Int, NEW New,
           Moves(m, regs, fs, t, b, New), \A g \in Gens : gen'[g] = gen[g] \/ gen'[g] = None,
           \A g \in Suspended : gen'[g] = gen[g] => \A i \in 1 .. Len(gen[g].regs) : gen[g].regs[i] \notin New
    PROVE  VInv'
BY MovesSaved, MovesInv

LEMMA EnterMoves ==
    ASSUME OInv, VInv, NEW m \in VMs, NEW ps, NEW f, NEW regs, NEW i \in Int, NEW New,
           Joins(m, ps, f, regs, i, New), NEW s, CutsHere(s, m, i), EnterFrame(m, regs, Append(ps, f), s),
           closure' = closure, loose \subseteq loose'
    PROVE  \E t : Moves(m, regs, Append(ps, f), t, i, New)
PROOF
<1>1. PICK fs, b : fs = Append(ps, f) /\ b = f.base OBVIOUS
<1>2. PICK t : t = Relocated(m, b, s) OBVIOUS
<1>3. Last(fs) = f BY <1>1, AppendOk DEF Joins, Below, Follows
<1>4. mem' = Grown(m, b) /\ Settle(m, regs, fs, t) BY <1>1, <1>2, <1>3 DEF EnterFrame
<1>5. Cuts(t, m, i) /\ t.opens = s.opens /\ \A n \in VMs \ {m} : mem'[n] = mem[n]
  BY <1>2, <1>4, CutsMoved
<1>6. t.opens \in Seq(Outers) BY <1>5 DEF CutsHere
<1>7. Moves(m, regs, fs, t, i, New) BY <1>1, <1>4, <1>5, <1>6, JoinsMoves
<1> QED BY <1>1, <1>7

LEMMA NewFrameIs ==
    ASSUME NEW base \in Nat, NEW c \in Callees, NEW g, NEW f, f = NewFrame(base, 1, c, g)
    PROVE  FrameOk(f) /\ BlocksOk(f) /\ Runs(f, closure) /\ f.base = base /\ f.nlocals = 1
PROOF
<1>1. FrameOk(f) /\ f.base = base BY NewFrameOk
<1>2. f.nlocals = 1 /\ f.blocks = <<>> /\ f.closure = c BY DEF NewFrame
<1>3. BlocksOk(f) BY <1>2 DEF BlocksOk
<1>4. Runs(f, closure) BY <1>2 DEF Runs, Callees
<1> QED BY <1>1, <1>2, <1>3, <1>4

LEMMA OneNew ==
    ASSUME OInv, VInv, NEW v \in Unused, NEW args, args = <<v>>
    PROVE  /\ Given(args) /\ Len(args) = 1 /\ {args[k] : k \in 1 .. Len(args)} = {v}
           /\ \A g \in Suspended : \A i \in 1 .. Len(gen[g].regs) : gen[g].regs[i] \notin {v}
PROOF
<1>1. /\ v \in Vars /\ v \notin Captured /\ \A m \in VMs : \A i \in Locals(m) : stack[m][i] # v
      /\ \A g \in Suspended : \A i \in 1 .. Len(gen[g].regs) : gen[g].regs[i] # v
  BY UnusedIs
<1>2. args \in Seq(Vars) /\ Len(args) = 1 /\ args[1] = v BY <1>1
<1>3. 1 .. Len(args) = {1} BY <1>2
<1> QED BY <1>1, <1>2, <1>3 DEF Given

LEMMA CallReach ==
    ASSUME OInv, OInv', VInv, NEW m \in VMs, NEW c \in Callees, NEW v \in Unused, Call(m, c, v)
    PROVE  VInv'
PROOF
<1>1. PICK base, args : base = CalleeBase(m) /\ args = <<v>> OBVIOUS
<1>2. PICK f : f = NewFrame(base, 1, c, None) OBVIOUS
<1>3. PICK ps, top : ps = frames[m] /\ top = FrameTop(frames[m]) OBVIOUS
<1>4. /\ EnterFrame(m, Passed(m, base, args), Append(ps, f), Open(m)) /\ Len(ps) < MaxFrames
      /\ gen' = gen /\ closure' = closure /\ loose' = loose
  BY <1>1, <1>2, <1>3 DEF Call
<1>5. base \in Nat /\ base <= top /\ top \in Int BY <1>1, <1>3, CalleeBaseIs, TopIs
<1>6. FrameOk(f) /\ BlocksOk(f) /\ Runs(f, closure) /\ f.base = base /\ f.nlocals = 1
  BY <1>2, <1>5, NewFrameIs
<1>7. Follows(ps, f)
  <2>1. EndsBy(ps, base) BY <1>1, <1>3, EndsAt
  <2> QED BY <1>3, <1>5, <1>6, <2>1 DEF Follows
<1>8. Below(m, ps, top) BY <1>3, <1>4, OwnFrames DEF Below
<1>9. \A r \in Locals(m) : r < top => r \in LocalRegs(ps) BY <1>3 DEF Locals
<1>10. /\ Given(args) /\ Len(args) = 1 /\ {args[k] : k \in 1 .. Len(args)} = {v}
       /\ \A g \in Suspended : \A i \in 1 .. Len(gen[g].regs) : gen[g].regs[i] \notin {v}
  BY <1>1, OneNew
<1>11. PICK regs, New : regs = Passed(m, f.base, args) /\ New = {args[k] : k \in 1 .. Len(args)} OBVIOUS
<1>12. Joins(m, ps, f, regs, top, New) BY <1>5, <1>6, <1>7, <1>8, <1>9, <1>10, <1>11, EnterJoins
<1>13. CutsHere(Open(m), m, top) BY <1>3, CutsOpen
<1>14. EnterFrame(m, regs, Append(ps, f), Open(m)) BY <1>4, <1>6, <1>11
<1>15. \E t : Moves(m, regs, Append(ps, f), t, top, New) BY <1>4, <1>5, <1>12, <1>13, <1>14, EnterMoves
<1> QED BY <1>4, <1>5, <1>10, <1>11, <1>15, MovesEnd

\* The frames ps that go on when those after the first n, from register i on, are left.
Remain(m, n, ps, i) ==
    /\ Below(m, ps, i) /\ Len(ps) = n /\ i \in Nat /\ i <= FrameTop(ps) /\ EndsBy(ps, i)
    /\ FrameOk(frames[m][n + 1]) /\ n + 1 \in 1 .. Len(frames[m])
    /\ \A r \in Locals(m) : r < i => r \in LocalRegs(ps)
    /\ \A k \in 1 .. n : k \in 1 .. Len(frames[m]) /\ ps[k] = frames[m][k]

LEMMA PrefixBelow ==
    ASSUME OInv, VInv, NEW m \in VMs, NEW n \in 0 .. Len(frames[m]), n < Len(frames[m])
    PROVE  Remain(m, n, SubSeq(frames[m], 1, n), frames[m][n + 1].base)
PROOF
<1>0. PICK ps, i : ps = SubSeq(frames[m], 1, n) /\ i = frames[m][n + 1].base OBVIOUS
<1>1. PICK fs : fs = frames[m] OBVIOUS
<1>2. FramesOk(fs) /\ Nested(fs) /\ (\A k \in 1 .. Len(fs) : Runs(fs[k], closure)) /\ Locals(m) = LocalRegs(fs)
  BY <1>1, OwnFrames DEF Locals
<1>3. PICK S : fs \in Seq(S) BY <1>2 DEF FramesOk
<1>4. Len(fs) \in Nat /\ n + 1 \in 1 .. Len(fs) BY <1>1, <1>3
<1>5. FramesOk(ps) /\ Len(ps) = n /\ FrameOk(fs[n + 1]) /\ i <= FrameTop(ps)
  BY <1>0, <1>1, <1>2, PrefixOk
<1>6. /\ Nested(ps) /\ EndsBy(ps, i)
      /\ \A r \in LocalRegs(ps) : r \in LocalRegs(fs) /\ r < i
      /\ \A r \in LocalRegs(fs) : r < i => r \in LocalRegs(ps)
      /\ \A k \in 1 .. Len(ps) : k \in 1 .. Len(fs) /\ ps[k] = fs[k]
  <2>1. Prefixed(fs, n, ps) BY <1>0, <1>1, <1>2, PrefixNested
  <2> QED BY <1>0, <1>1, <2>1 DEF Prefixed
<1>7. n < MaxFrames
  <2>1. Len(fs) <= MaxFrames /\ MaxFrames \in Nat BY <1>2, BoundsAssumption DEF Nested
  <2> QED BY <1>1, <1>4, <2>1
<1>8. Below(m, ps, i) BY <1>2, <1>5, <1>6, <1>7 DEF Below
<1>9. i \in Nat BY <1>0, <1>1, <1>5, FrameIs
<1>10. Remain(m, n, ps, i) BY <1>1, <1>2, <1>4, <1>5, <1>6, <1>8, <1>9 DEF Remain
<1> QED BY <1>0, <1>10

\* The last frame of a VM.
LEMMA LastFrame ==
    ASSUME OInv, NEW m \in VMs, Running(m)
    PROVE  \E n \in 0 .. Len(frames[m]) :
              /\ n < Len(frames[m]) /\ n = Len(frames[m]) - 1 /\ n + 1 = Len(frames[m])
              /\ Front(frames[m]) = SubSeq(frames[m], 1, n) /\ frames[m][n + 1] = Frame(m)
PROOF
<1>1. PICK n, l : n = Len(frames[m]) - 1 /\ l = Len(frames[m]) OBVIOUS
<1>2. /\ n \in 0 .. l /\ Front(frames[m]) = SubSeq(frames[m], 1, n) /\ frames[m][l] = Frame(m)
      /\ FramesOk(frames[m])
  BY <1>1, RunningIs
<1>3. PICK S : frames[m] \in Seq(S) BY <1>2 DEF FramesOk
<1>4. l \in Nat /\ n < l /\ n + 1 = l BY <1>1, <1>3
<1> QED BY <1>1, <1>2, <1>4

LEMMA TailCallReach ==
    ASSUME OInv, OInv', VInv, NEW m \in VMs, NEW c \in Callees, NEW v \in Unused, TailCall(m, c, v)
    PROVE  VInv'
PROOF
<1>1. PICK old, args : old = Frame(m) /\ args = <<v>> OBVIOUS
<1>2. PICK base, g : base = old.base /\ g = old.gen OBVIOUS
<1>3. PICK f : f = NewFrame(base, 1, c, g) OBVIOUS
<1>4. PICK ps : ps = Front(frames[m]) OBVIOUS
<1>5. /\ Running(m) /\ EnterFrame(m, Passed(m, base, args), Append(ps, f), CloseOuters(m, base))
      /\ gen' = gen /\ closure' = closure /\ loose' = loose
  BY <1>1, <1>2, <1>3, <1>4 DEF TailCall
<1>6. PICK n \in 0 .. Len(frames[m]) :
        n < Len(frames[m]) /\ ps = SubSeq(frames[m], 1, n) /\ frames[m][n + 1] = old
  BY <1>1, <1>4, <1>5, LastFrame
<1>7. /\ Below(m, ps, base) /\ base \in Nat /\ base <= FrameTop(ps) /\ EndsBy(ps, base)
      /\ \A r \in Locals(m) : r < base => r \in LocalRegs(ps)
  <2>1. Remain(m, n, SubSeq(frames[m], 1, n), frames[m][n + 1].base) BY <1>6, PrefixBelow
  <2>2. Remain(m, n, ps, base) BY <1>2, <1>6, <2>1
  <2> QED BY <2>2 DEF Remain
<1>8. FrameOk(f) /\ BlocksOk(f) /\ Runs(f, closure) /\ f.base = base /\ f.nlocals = 1
  BY <1>3, <1>7, NewFrameIs
<1>9. Follows(ps, f) BY <1>7, <1>8 DEF Follows
<1>10. /\ Given(args) /\ Len(args) = 1 /\ {args[k] : k \in 1 .. Len(args)} = {v}
       /\ \A h \in Suspended : \A i \in 1 .. Len(gen[h].regs) : gen[h].regs[i] \notin {v}
  BY <1>1, OneNew
<1>11. base \in Int BY <1>7
<1>12. PICK regs, New : regs = Passed(m, f.base, args) /\ New = {args[k] : k \in 1 .. Len(args)} OBVIOUS
<1>13. Joins(m, ps, f, regs, base, New) BY <1>7, <1>8, <1>9, <1>10, <1>11, <1>12, EnterJoins
<1>14. CutsHere(CloseOuters(m, base), m, base) BY <1>11, CutsClosed
<1>15. EnterFrame(m, regs, Append(ps, f), CloseOuters(m, base)) BY <1>5, <1>8, <1>12
<1>16. \E t : Moves(m, regs, Append(ps, f), t, base, New) BY <1>5, <1>11, <1>13, <1>14, <1>15, EnterMoves
<1> QED BY <1>5, <1>10, <1>11, <1>12, <1>16, MovesEnd

\* Registers of m that are locals are left, and no variable comes.
LEMMA DropMoves ==
    ASSUME OInv, VInv, NEW m \in VMs, NEW regs, regs = stack[m], NEW fs, FramesOk(fs), Nested(fs),
           \A k \in 1 .. Len(fs) : Runs(fs[k], closure), NEW i \in Int,
           \A r \in LocalRegs(fs) : r \in Locals(m) /\ r < i, \A r \in Locals(m) : r < i => r \in LocalRegs(fs),
           NEW s, Settle(m, regs, fs, s), s.opens \in Seq(Outers), Cuts(s, m, i),
           \A n \in VMs \ {m} : mem'[n] = mem[n], closure' = closure, loose \subseteq loose'
    PROVE  Moves(m, regs, fs, s, i, {})
PROOF
<1>1. Takes(m, regs, LocalRegs(fs), i, {}) BY DEF Takes
<1>2. Fresh(regs, LocalRegs(fs), {}) BY DEF Fresh
<1>3. Leaves(m, regs, LocalRegs(fs), i) BY DEF Leaves
<1> QED BY <1>1, <1>2, <1>3 DEF Moves

\* The frames after the first n are left.
LEMMA LeaveMoves ==
    ASSUME OInv, VInv, NEW m \in VMs, NEW n \in 0 .. Len(frames[m]), n < Len(frames[m]),
           NEW fs, fs = SubSeq(frames[m], 1, n), LeaveFrames(m, fs), mem' = mem, closure' = closure, loose \subseteq loose'
    PROVE  \E i \in Int : \E s : Moves(m, stack[m], fs, s, i, {})
PROOF
<1>1. PICK i : i = frames[m][n + 1].base OBVIOUS
<1>2. PICK s : s = CloseOuters(m, i) OBVIOUS
<1>3. /\ Below(m, fs, i) /\ Len(fs) = n /\ i \in Nat /\ \A r \in Locals(m) : r < i => r \in LocalRegs(fs)
  <2>1. Remain(m, n, SubSeq(frames[m], 1, n), frames[m][n + 1].base) BY PrefixBelow
  <2> QED BY <1>1, <2>1 DEF Remain
<1>4. i \in Int BY <1>3
<1>5. Settle(m, stack[m], fs, s) BY <1>1, <1>2, <1>3 DEF LeaveFrames
<1>6. CutsHere(s, m, i) BY <1>2, <1>4, CutsClosed
<1>7. Cuts(s, m, i) BY <1>6, CutsStay
<1>8. /\ FramesOk(fs) /\ Nested(fs) /\ \A k \in 1 .. Len(fs) : Runs(fs[k], closure)
      /\ \A r \in LocalRegs(fs) : r \in Locals(m) /\ r < i
  BY <1>3 DEF Below
<1>9. s.opens \in Seq(Outers) BY <1>6 DEF CutsHere
<1>10. Moves(m, stack[m], fs, s, i, {}) BY <1>3, <1>4, <1>5, <1>7, <1>8, <1>9, DropMoves
<1> QED BY <1>4, <1>10

LEMMA ReturnReach ==
    ASSUME OInv, OInv', VInv, NEW m \in VMs, Return(m)
    PROVE  VInv'
PROOF
<1>1. PICK fs : fs = Front(frames[m]) OBVIOUS
<1>2. Running(m) /\ LeaveFrames(m, fs) /\ mem' = mem /\ gen' = gen /\ closure' = closure /\ loose' = loose
  BY <1>1 DEF Return
<1>3. PICK n \in 0 .. Len(frames[m]) : n < Len(frames[m]) /\ fs = SubSeq(frames[m], 1, n)
  BY <1>1, <1>2, LastFrame
<1>4. \E i \in Int : \E s : Moves(m, stack[m], fs, s, i, {}) BY <1>2, <1>3, LeaveMoves
<1> QED BY <1>2, <1>4, MovesEnd

LEMMA EmptyFrames ==
    ASSUME NEW fs, fs = <<>>
    PROVE  /\ FramesOk(fs) /\ Nested(fs) /\ LocalRegs(fs) = {} /\ Len(fs) = 0
           /\ \A k \in 1 .. Len(fs) : Runs(fs[k], closure)
PROOF
<1>1. fs \in Seq({}) /\ Len(fs) = 0 /\ 1 .. Len(fs) = {} OBVIOUS
<1>2. \E S : fs \in Seq(S) BY <1>1
<1>3. FramesOk(fs) BY <1>1, <1>2 DEF FramesOk
<1>4. Nested(fs) BY <1>1, BoundsAssumption DEF Nested
<1>5. \A i : i \notin LocalRegs(fs) BY <1>1, <1>3, LocalIs
<1> QED BY <1>1, <1>3, <1>4, <1>5

LEMMA ThrowOutReach ==
    ASSUME OInv, OInv', VInv, NEW m \in VMs, ThrowOut(m)
    PROVE  VInv'
PROOF
<1>1. PICK fs : fs = <<>> OBVIOUS
<1>2. Running(m) /\ LeaveFrames(m, fs) /\ mem' = mem /\ gen' = gen /\ closure' = closure /\ loose' = loose
  BY <1>1 DEF ThrowOut
<1>3. PICK S : frames[m] \in Seq(S) BY OwnFrames DEF FramesOk
<1>4. PICK n : n = 0 OBVIOUS
<1>5. n \in 0 .. Len(frames[m]) /\ n < Len(frames[m]) BY <1>2, <1>3, <1>4 DEF Running
<1>6. fs = SubSeq(frames[m], 1, n)
  <2>1. PICK ps : ps = SubSeq(frames[m], 1, n) OBVIOUS
  <2>2. 1 \in 1 .. Len(frames[m]) + 1 /\ 1 <= n + 1 /\ n - 1 + 1 = 0 BY <1>3, <1>4
  <2>3. ps \in Seq(S) /\ Len(ps) = n - 1 + 1 BY <1>3, <1>5, <2>1, <2>2, SliceIs
  <2>4. Len(ps) = 0 BY <2>2, <2>3
  <2>5. ps = <<>> BY ONLY <2>3, <2>4
  <2> QED BY <1>1, <2>1, <2>5
<1>7. \E i \in Int : \E s : Moves(m, stack[m], fs, s, i, {}) BY <1>2, <1>5, <1>6, LeaveMoves
<1> QED BY <1>2, <1>7, MovesEnd

LEMMA FinalizeReach ==
    ASSUME OInv, OInv', VInv, NEW m \in VMs, Finalize(m)
    PROVE  VInv'
PROOF
<1>1. PICK i, fs : i = 0 /\ fs = <<>> OBVIOUS
<1>2. PICK s, x : s = CloseOuters(m, i) /\ x = [at |-> 0, size |-> InitialSize] OBVIOUS
<1>3. /\ Settle(m, stack[m], fs, s) /\ mem' = [mem EXCEPT ![m] = x]
      /\ gen' = gen /\ closure' = closure /\ loose' = loose
  BY <1>1, <1>2 DEF Finalize
<1>4. i \in Int /\ CutsHere(s, m, i) BY <1>1, <1>2, CutsClosed
<1>5. \A k \in 1 .. Len(s.opens) : FALSE
  <2>1. SUFFICES ASSUME NEW k \in 1 .. Len(s.opens) PROVE FALSE OBVIOUS
  <2>2. PICK j \in 1 .. Len(opens[m]) : outer[opens[m][j]].idx < i BY <1>4 DEF CutsHere
  <2>3. outer[opens[m][j]].idx \in Nat BY OpenIs DEF OpenT
  <2> QED BY <1>1, <2>2, <2>3
<1>6. Cuts(s, m, i) /\ s.opens \in Seq(Outers) BY <1>4, <1>5 DEF CutsHere, Cuts, PointHere
<1>7. /\ FramesOk(fs) /\ Nested(fs) /\ LocalRegs(fs) = {} /\ \A k \in 1 .. Len(fs) : Runs(fs[k], closure)
  BY <1>1, EmptyFrames
<1>8. ASSUME NEW r \in Locals(m) PROVE ~(r < i)
  <2>1. PICK gs : gs = frames[m] OBVIOUS
  <2>2. r \in LocalRegs(gs) BY <2>1 DEF Locals
  <2>3. r \in Nat BY <2>1, <2>2, OwnFrames
  <2> QED BY <1>1, <2>3
<1>9. \A n \in VMs \ {m} : mem'[n] = mem[n] BY <1>3 DEF OInv, Shape
<1>10. Moves(m, stack[m], fs, s, i, {}) BY <1>3, <1>4, <1>6, <1>7, <1>8, <1>9, DropMoves
<1> QED BY <1>3, <1>4, <1>10, MovesEnd

LEMMA ResumeReach ==
    ASSUME OInv, OInv', VInv, NEW m \in VMs, NEW g \in Gens, Resume(m, g)
    PROVE  VInv'
PROOF
<1>1. PICK base, ps : base = FrameTop(frames[m]) /\ ps = frames[m] OBVIOUS
<1>2. PICK old, args : old = gen[g].frame /\ args = gen[g].regs OBVIOUS
<1>3. PICK f : f = [old EXCEPT !.base = base, !.gen = g] OBVIOUS
<1>4. /\ gen[g] # None /\ gen' = [gen EXCEPT ![g] = None] /\ Len(ps) < MaxFrames
      /\ EnterFrame(m, Passed(m, base, args), Append(ps, f), Open(m)) /\ closure' = closure /\ loose' = loose
  BY <1>1, <1>2, <1>3 DEF Resume
<1>5. base \in Nat /\ base \in Int BY <1>1, TopIs
<1>6. g \in Suspended BY <1>4 DEF Suspended
<1>7. FrameOk(f) /\ f.base = base /\ f.nlocals = old.nlocals /\ BlocksOk(f) /\ Runs(f, closure)
  <2>1. FrameOk(old) BY <1>2, <1>4 DEF OInv
  <2>2. DOMAIN old = FrameFields BY <2>1 DEF FrameOk
  <2>3. /\ DOMAIN f = FrameFields /\ f.base = base /\ f.nlocals = old.nlocals /\ f.blocks = old.blocks
        /\ f.closure = old.closure
    BY <1>3, <2>2 DEF FrameFields
  <2>4. BlocksOk(old) /\ Runs(old, closure) BY <1>2, <1>6 DEF VInv, SavedOk, GenOk, ClosuresOk
  <2> QED BY <1>5, <2>1, <2>3, <2>4 DEF FrameOk, BlocksOk, Runs
<1>8. Below(m, ps, base) BY <1>1, <1>4, OwnFrames DEF Below
<1>9. Follows(ps, f)
  <2>1. EndsBy(ps, base) BY <1>1, EndsAt
  <2> QED BY <1>1, <1>5, <1>7, <2>1 DEF Follows
<1>10. \A r \in Locals(m) : r < base => r \in LocalRegs(ps) BY <1>1 DEF Locals
<1>11. Given(args) /\ Len(args) = f.nlocals
  <2>1. SavedOk BY DEF VInv
  <2>2. args \in Seq(Vars) /\ Len(args) = old.nlocals BY <1>2, <1>6, <2>1 DEF SavedOk, GenOk
  <2>3. \A j, k \in 1 .. Len(args) : args[j] = args[k] => j = k BY <1>2, <1>6, <2>1 DEF SavedOk
  <2>4. \A n \in VMs : \A j \in Locals(n) : \A k \in 1 .. Len(args) : stack[n][j] # args[k]
    BY <1>2, <1>6, <2>1 DEF SavedOk
  <2>5. \A k \in 1 .. Len(args) : args[k] \in Captured => args[k] \in loose'
    BY <1>2, <1>4, <1>6, <2>1 DEF SavedOk
  <2> QED BY <1>7, <2>2, <2>3, <2>4, <2>5 DEF Given
<1>12. PICK regs, New : regs = Passed(m, f.base, args) /\ New = {args[k] : k \in 1 .. Len(args)} OBVIOUS
<1>13. Joins(m, ps, f, regs, base, New) BY <1>5, <1>8, <1>9, <1>10, <1>11, <1>12, EnterJoins
<1>14. CutsHere(Open(m), m, base) BY <1>1, CutsOpen
<1>15. EnterFrame(m, regs, Append(ps, f), Open(m)) BY <1>4, <1>7, <1>12
<1>16. \E t : Moves(m, regs, Append(ps, f), t, base, New) BY <1>4, <1>5, <1>13, <1>14, <1>15, EnterMoves
<1>17. \A h \in Gens : gen'[h] = IF h = g THEN None ELSE gen[h] BY <1>4 DEF OInv, Shape
<1>18. \A h \in Suspended : gen'[h] = gen[h] => \A i \in 1 .. Len(gen[h].regs) : gen[h].regs[i] \notin New
  <2>1. SUFFICES ASSUME NEW h \in Suspended, gen'[h] = gen[h], NEW i \in 1 .. Len(gen[h].regs),
                        gen[h].regs[i] \in New
                 PROVE FALSE
    OBVIOUS
  <2>2. h # g BY <1>4, <1>17, <2>1
  <2>3. PICK k \in 1 .. Len(args) : args[k] = gen[h].regs[i] BY <1>12, <2>1
  <2>4. SavedOk BY DEF VInv
  <2> QED BY <1>2, <1>6, <2>2, <2>3, <2>4 DEF SavedOk
<1> QED BY <1>5, <1>16, <1>17, <1>18, MovesEnd

\* Locals of m below i: those of the frames ps, and of the frame old; the latter goes
\* on with its first p locals, and closures lose the others.
Part(m, ps, old, p, i) ==
    /\ \A r \in Locals(m) : r < i => r \in LocalRegs(ps) \/ InFrame(r, old)
    /\ \A r \in Registers : InFrame(r, old) /\ r < old.base + p => r \in Locals(m) /\ r < i
    /\ \A r \in Locals(m) : InFrame(r, old) /\ r < i /\ r >= old.base + p =>
          (stack[m][r] \in Captured => stack[m][r] \in loose')

\* The registers of the frame f, with p locals that stay and perhaps a new one.
Puts(m, f, p, regs, New) ==
    /\ \A r \in Registers : r < f.base + p => regs[r] = stack[m][r]
    /\ \/ New = {} /\ f.nlocals = p
       \/ \E v \in Unused : New = {v} /\ f.nlocals = p + 1 /\ \A r \in Registers : r = f.base + p => regs[r] = v

LEMMA PartJoins ==
    ASSUME OInv, VInv, NEW m \in VMs, NEW i \in Int, NEW ps, Below(m, ps, i), NEW f, Follows(ps, f),
           NEW old, FrameOk(old), old.base = f.base, NEW p \in Nat, p <= old.nlocals, Part(m, ps, old, p, i),
           NEW regs, NEW New, Puts(m, f, p, regs, New)
    PROVE  Joins(m, ps, f, regs, i, New)
PROOF
<1>1. PICK b, n, l : b = f.base /\ n = old.nlocals /\ l = f.nlocals OBVIOUS
<1>2. b \in Nat /\ n \in Nat /\ p <= n /\ l \in Nat /\ (l = p \/ l = p + 1)
  BY <1>1, FrameIs DEF Follows, Puts
<1>3. \A r \in Registers : r \in Int
  <2>1. Registers = 0 .. MaxFrames * FrameSize - 1 BY DEF Registers
  <2> QED BY ONLY <2>1
<1>4. FramesOk(ps) /\ Nested(ps) /\ EndsBy(ps, b) BY <1>1 DEF Below, Follows
<1>5. ASSUME NEW r \in LocalRegs(ps) PROVE r \in Registers /\ r < b
  <2>1. r \in Registers BY <1>4, LocalsAre
  <2>2. PICK k \in 1 .. Len(ps) : InFrame(r, ps[k]) BY <1>4, LocalIs
  <2>3. ps[k].base + ps[k].nlocals <= b BY <1>4 DEF EndsBy
  <2>4. ps[k].base \in Nat /\ ps[k].nlocals \in Nat BY <1>4, FrameIs DEF FramesOk
  <2>5. PICK x, y : x = ps[k].base /\ y = ps[k].nlocals OBVIOUS
  <2>6. r \in x .. x + y - 1 BY <2>2, <2>5 DEF InFrame
  <2> QED BY <1>2, <2>1, <2>3, <2>4, <2>5, <2>6
<1>6. \A r \in Registers : r < b + p => regs[r] = stack[m][r] BY <1>1 DEF Puts
<1>7. \A r \in LocalRegs(ps) : regs[r] = stack[m][r]
  <2>1. \A r \in LocalRegs(ps) : r \in Registers /\ r < b + p BY <1>2, <1>3, <1>5
  <2> QED BY <1>6, <2>1
<1>8. ASSUME NEW r \in Registers, InFrame(r, f)
      PROVE  (r \in Locals(m) /\ r < i /\ regs[r] = stack[m][r]) \/ (r = b + p /\ l = p + 1)
  <2>1. r \in b .. b + l - 1 BY <1>1, <1>8 DEF InFrame
  <2>2. CASE r < b + p
    <3>1. r \in b .. b + n - 1 BY <1>2, <1>3, <2>1, <2>2
    <3>2. InFrame(r, old) BY <1>1, <3>1 DEF InFrame
    <3>3. r \in Locals(m) /\ r < i BY <1>1, <2>2, <3>2 DEF Part
    <3> QED BY <1>6, <2>2, <3>3
  <2>3. CASE ~(r < b + p) BY <1>2, <1>3, <2>1, <2>3
  <2> QED BY <2>2, <2>3
<1>9. ASSUME NEW r \in Locals(m), r < i
      PROVE  \/ r \in LocalRegs(ps)
             \/ InFrame(r, f) /\ regs[r] = stack[m][r]
             \/ stack[m][r] \in Captured => stack[m][r] \in loose'
  <2>1. r \in Registers
    <3>1. PICK fs : fs = frames[m] OBVIOUS
    <3> QED BY <3>1, OwnFrames DEF Locals
  <2>2. r \in LocalRegs(ps) \/ InFrame(r, old) BY <1>9 DEF Part
  <2>3. CASE InFrame(r, old) /\ r < b + p
    <3>1. r \in b .. b + n - 1 BY <1>1, <2>3 DEF InFrame
    <3>2. r \in b .. b + l - 1 BY <1>2, <1>3, <2>1, <2>3, <3>1
    <3> QED BY <1>1, <1>6, <2>1, <2>3, <3>2 DEF InFrame
  <2>4. CASE InFrame(r, old) /\ ~(r < b + p)
    <3>1. r >= old.base + p BY <1>1, <1>2, <1>3, <2>1, <2>4
    <3> QED BY <1>9, <2>4, <3>1 DEF Part
  <2> QED BY <2>2, <2>3, <2>4
<1>10. CASE New = {} /\ l = p
  <2>1. \A r \in Registers : InFrame(r, f) => r \in Locals(m) /\ r < i /\ regs[r] = stack[m][r]
    <3>1. ~(l = p + 1) BY <1>2, <1>10
    <3> QED BY <1>8, <3>1
  <2> QED BY <1>7, <1>9, <1>10, <2>1 DEF Joins
<1>11. CASE \E v \in Unused : New = {v} /\ \A r \in Registers : r = b + p => regs[r] = v
  <2>1. PICK v \in Unused : New = {v} /\ \A r \in Registers : r = b + p => regs[r] = v BY <1>11
  <2>2. v \in Vars /\ v \notin Captured /\ \A w \in VMs : \A j \in Locals(w) : stack[w][j] # v BY UnusedIs
  <2>3. \A r \in Registers : InFrame(r, f) => (r \in Locals(m) /\ r < i /\ regs[r] = stack[m][r]) \/ regs[r] \in New
    BY <1>8, <2>1
  <2>4. ASSUME NEW r \in Registers, NEW q \in Registers, InFrame(r, f), InFrame(q, f), regs[r] \in New, regs[r] = regs[q]
        PROVE  r = q
    <3>1. regs[r] = v /\ regs[q] = v BY <2>1, <2>4
    <3>2. r = b + p /\ q = b + p BY <1>8, <2>2, <2>4, <3>1
    <3> QED BY <3>2
  <2> QED BY <1>7, <1>9, <2>1, <2>2, <2>3, <2>4 DEF Joins
<1> QED BY <1>1, <1>10, <1>11 DEF Puts

\* The frames ps and the frame old have the locals of m below i.
UpTo(m, ps, old, i) ==
    /\ i \in Int /\ Below(m, ps, i) /\ old.base <= i
    /\ \A r \in Locals(m) : r < i => r \in LocalRegs(ps) \/ InFrame(r, old)
    /\ \A r \in Registers : InFrame(r, old) => r \in Locals(m) /\ r < i

\* Where the frame after the first n ends.
LEMMA LocalsUpTo ==
    ASSUME OInv, VInv, NEW m \in VMs, NEW n \in 0 .. Len(frames[m]), n < Len(frames[m]),
           NEW ps, ps = SubSeq(frames[m], 1, n), NEW old, old = frames[m][n + 1], NEW i,
           i = IF n + 1 < Len(frames[m]) THEN frames[m][n + 2].base ELSE FrameTop(frames[m])
    PROVE  UpTo(m, ps, old, i)
PROOF
<1>1. PICK fs, l : fs = frames[m] /\ l = Len(frames[m]) OBVIOUS
<1>2. FramesOk(fs) /\ Nested(fs) /\ Locals(m) = LocalRegs(fs)
      /\ \A r \in LocalRegs(fs) : r \in Nat /\ r < FrameTop(fs)
  BY <1>1, OwnFrames DEF Locals
<1>3. PICK S : fs \in Seq(S) BY <1>2 DEF FramesOk
<1>4. l \in Nat /\ n \in 0 .. l /\ n + 1 \in 1 .. l BY <1>1, <1>3
<1>5. \A k \in 1 .. l : FrameOk(fs[k]) BY <1>1, <1>2 DEF FramesOk
<1>6. PICK b, c : b = old.base /\ c = old.nlocals OBVIOUS
<1>7. b \in Nat /\ c \in Nat BY <1>1, <1>4, <1>5, <1>6, FrameIs
<1>8. /\ Below(m, ps, b) /\ Len(ps) = n /\ \A k \in 1 .. n : k \in 1 .. l /\ ps[k] = fs[k]
  <2>1. b = frames[m][n + 1].base BY <1>6
  <2>2. Remain(m, n, ps, b) BY <2>1, PrefixBelow
  <2> QED BY <1>1, <2>2 DEF Remain
<1>9. FramesOk(ps) /\ \A r \in LocalRegs(ps) : r \in Locals(m) /\ r < b BY <1>8 DEF Below
<1>10. i \in Nat /\ b + c <= i
  <2>1. CASE n + 1 < l
    <3>1. PICK k : k = n + 2 OBVIOUS
    <3>2. k \in 1 .. l /\ n + 1 < k BY <1>4, <2>1, <3>1
    <3>3. i = fs[k].base BY <1>1, <2>1, <3>1
    <3>4. i \in Nat BY <1>5, <3>2, <3>3, FrameIs
    <3>5. fs[n + 1].base + fs[n + 1].nlocals <= fs[k].base BY <1>1, <1>2, <1>4, <3>2 DEF Nested
    <3> QED BY <1>1, <1>6, <3>3, <3>4, <3>5
  <2>2. CASE ~(n + 1 < l)
    <3>1. n + 1 = l /\ fs # <<>> BY <1>1, <1>3, <1>4, <2>2
    <3>2. i = b + FrameSize BY <1>1, <1>6, <2>2, <3>1 DEF FrameTop, Last
    <3>3. c <= FrameSize /\ FrameSize \in Nat BY <1>1, <1>4, <1>5, <1>6, FrameIs
    <3> QED BY <1>7, <3>2, <3>3
  <2> QED BY <2>1, <2>2
<1>11. Below(m, ps, i)
  <2>1. ASSUME NEW r \in LocalRegs(ps) PROVE r < i
    <3>1. r \in Nat /\ r < b BY <1>2, <1>9
    <3> QED BY <1>7, <1>10, <3>1
  <2> QED BY <1>8, <2>1 DEF Below
<1>12. ASSUME NEW r \in Registers, InFrame(r, old) PROVE r \in Locals(m) /\ r < i
  <2>1. r \in b .. b + c - 1 BY <1>6, <1>12 DEF InFrame
  <2>2. r < i BY <1>7, <1>10, <2>1
  <2>3. r \in LocalRegs(fs) BY <1>1, <1>2, <1>4, <1>12, LocalIs
  <2> QED BY <1>2, <2>2, <2>3
<1>13. ASSUME NEW r \in Locals(m), r < i PROVE r \in LocalRegs(ps) \/ InFrame(r, old)
  <2>1. PICK k \in 1 .. l : InFrame(r, fs[k]) BY <1>1, <1>2, LocalIs
  <2>2. CASE k = n + 1 BY <1>1, <2>1, <2>2
  <2>3. CASE k < n + 1
    <3>1. k \in 1 .. n BY <1>4, <2>3
    <3>2. InFrame(r, ps[k]) BY <1>8, <2>1, <3>1
    <3> QED BY <1>8, <1>9, <3>1, <3>2, LocalIs
  <2>4. CASE k > n + 1
    <3>1. PICK j : j = n + 2 OBVIOUS
    <3>2. j \in 1 .. l /\ n + 1 < l /\ (j = k \/ j < k) BY <1>4, <2>4, <3>1
    <3>3. i = fs[j].base BY <1>1, <3>1, <3>2
    <3>4. PICK x, y, u, w : x = fs[j].base /\ y = fs[j].nlocals /\ u = fs[k].base /\ w = fs[k].nlocals OBVIOUS
    <3>5. x \in Nat /\ y \in Nat /\ u \in Nat /\ w \in Nat BY <1>5, <3>2, <3>4, FrameIs
    <3>6. x <= u
      <4>1. CASE j = k BY <3>4, <3>5, <4>1
      <4>2. CASE j < k
        <5>1. x + y <= u BY <1>1, <1>2, <3>2, <3>4, <4>2 DEF Nested
        <5> QED BY <3>5, <5>1
      <4> QED BY <3>2, <4>1, <4>2
    <3>7. r \in u .. u + w - 1 BY <2>1, <3>4 DEF InFrame
    <3>8. r < x BY <1>13, <3>3, <3>4
    <3>9. FALSE BY ONLY <3>5, <3>6, <3>7, <3>8
    <3> QED BY <3>9
  <2> QED BY <1>4, <2>2, <2>3, <2>4
<1>14. i \in Int /\ b <= i BY <1>7, <1>10
<1> QED BY <1>6, <1>11, <1>12, <1>13, <1>14 DEF UpTo

LEMMA SettleMoves ==
    ASSUME OInv, VInv, NEW m \in VMs, NEW ps, NEW f, NEW regs, NEW i \in Int, NEW New,
           Joins(m, ps, f, regs, i, New), NEW s, CutsHere(s, m, i), Settle(m, regs, Append(ps, f), s),
           mem' = mem, closure' = closure, loose \subseteq loose'
    PROVE  Moves(m, regs, Append(ps, f), s, i, New)
PROOF
<1>1. PICK fs : fs = Append(ps, f) OBVIOUS
<1>2. Settle(m, regs, fs, s) BY <1>1
<1>3. Cuts(s, m, i) BY CutsStay
<1>4. s.opens \in Seq(Outers) BY DEF CutsHere
<1>5. Moves(m, regs, fs, s, i, New) BY <1>1, <1>2, <1>3, <1>4, JoinsMoves
<1> QED BY <1>1, <1>5

\* A new variable at register b + p.
LEMMA PutsOne ==
    ASSUME OInv, VInv, NEW m \in VMs, NEW v \in Unused, NEW f, NEW p, f.nlocals = p + 1, NEW b, b = f.base,
           b \in Int, p \in Int
    PROVE  /\ Puts(m, f, p, [stack[m] EXCEPT ![b + p] = v], {v})
           /\ \A g \in Suspended : \A i \in 1 .. Len(gen[g].regs) : gen[g].regs[i] \notin {v}
PROOF
<1>1. PICK r, regs : r = b + p /\ regs = [stack[m] EXCEPT ![b + p] = v] OBVIOUS
<1>2. DOMAIN stack[m] = Registers BY DEF VInv, StackOk
<1>3. \A q \in Registers : regs[q] = IF q = r THEN v ELSE stack[m][q] BY <1>1, <1>2
<1>4. \A q \in Registers : q < b + p => q # r
  <2>1. \A q \in Registers : q \in Int
    <3>1. Registers = 0 .. MaxFrames * FrameSize - 1 BY DEF Registers
    <3> QED BY ONLY <3>1
  <2> QED BY <1>1, <2>1
<1>5. Puts(m, f, p, regs, {v})
  <2>1. \A q \in Registers : q < f.base + p => regs[q] = stack[m][q] BY <1>3, <1>4
  <2>2. \A q \in Registers : q = f.base + p => regs[q] = v BY <1>1, <1>3
  <2> QED BY <2>1, <2>2 DEF Puts
<1>6. \A g \in Suspended : \A i \in 1 .. Len(gen[g].regs) : gen[g].regs[i] \notin {v} BY UnusedIs
<1> QED BY <1>1, <1>5, <1>6

LEMMA DeclareReach ==
    ASSUME OInv, OInv', VInv, NEW m \in VMs, NEW blocks \in Seq(BlockT), DeclareIn(m, blocks),
           \A f : f.blocks = blocks /\ f.nlocals = Frame(m).nlocals + 1 => BlocksOk(f)
    PROVE  VInv'
PROOF
<1>1. PICK old, ps, top : old = Frame(m) /\ ps = Front(frames[m]) /\ top = FrameTop(frames[m]) OBVIOUS
<1>2. PICK p, b : p = old.nlocals /\ b = old.base OBVIOUS
<1>3. PICK n1 : n1 = p + 1 OBVIOUS
<1>4. PICK f : f = [old EXCEPT !.nlocals = n1, !.blocks = blocks] OBVIOUS
<1>5. /\ Running(m) /\ p < FrameSize /\ mem' = mem /\ gen' = gen /\ closure' = closure /\ loose' = loose
      /\ \E v \in Unused : Settle(m, [stack[m] EXCEPT ![b + p] = v], Append(ps, f), Open(m))
  BY <1>1, <1>2, <1>3, <1>4 DEF DeclareIn, WithFrame, Local
<1>6. PICK v \in Unused : Settle(m, [stack[m] EXCEPT ![b + p] = v], Append(ps, f), Open(m)) BY <1>5
<1>7. PICK regs : regs = [stack[m] EXCEPT ![b + p] = v] OBVIOUS
<1>8. FrameOk(old) /\ b \in Nat /\ p \in Nat /\ FrameSize \in Nat BY <1>1, <1>2, <1>5, RunningIs, FrameIs
<1>9. FrameOk(f) /\ f.base = b /\ f.nlocals = p + 1 /\ f.blocks = blocks /\ f.closure = old.closure
  <2>1. n1 \in 0 .. FrameSize BY <1>3, <1>5, <1>8
  <2>2. DOMAIN old = FrameFields BY <1>8 DEF FrameOk
  <2>3. /\ DOMAIN f = FrameFields /\ f.base = old.base /\ f.nlocals = n1 /\ f.blocks = blocks
        /\ f.closure = old.closure
    BY <1>4, <2>2 DEF FrameFields
  <2> QED BY <1>2, <1>3, <1>8, <2>1, <2>3 DEF FrameOk
<1>10. PICK n \in 0 .. Len(frames[m]) :
         n < Len(frames[m]) /\ ps = SubSeq(frames[m], 1, n) /\ frames[m][n + 1] = old /\ n + 1 = Len(frames[m])
  BY <1>1, <1>5, LastFrame
<1>11. /\ b <= FrameTop(ps) /\ EndsBy(ps, b) /\ n + 1 \in 1 .. Len(frames[m])
  <2>1. b = frames[m][n + 1].base BY <1>2, <1>10
  <2>2. Remain(m, n, SubSeq(frames[m], 1, n), frames[m][n + 1].base) BY <1>10, PrefixBelow
  <2>3. Remain(m, n, ps, b) BY <1>10, <2>1, <2>2
  <2> QED BY <2>3 DEF Remain
<1>12. ~(n + 1 < Len(frames[m]))
  <2>1. n \in Int OBVIOUS
  <2> QED BY <1>10, <2>1
<1>13. /\ top \in Int /\ Below(m, ps, top)
       /\ \A r \in Locals(m) : r < top => r \in LocalRegs(ps) \/ InFrame(r, old)
       /\ \A r \in Registers : InFrame(r, old) => r \in Locals(m) /\ r < top
  <2>1. UpTo(m, ps, old, top) BY <1>1, <1>10, <1>12, LocalsUpTo
  <2> QED BY <2>1 DEF UpTo
<1>14. Follows(ps, f)
  <2>1. Runs(old, closure)
    <3>1. PICK fs : fs = frames[m] OBVIOUS
    <3>2. \A k \in 1 .. Len(fs) : Runs(fs[k], closure) BY <3>1, OwnFrames
    <3> QED BY <1>10, <1>11, <3>1, <3>2
  <2>2. Runs(f, closure) BY <1>9, <2>1 DEF Runs
  <2>3. BlocksOk(f) BY <1>1, <1>2, <1>9
  <2> QED BY <1>9, <1>11, <2>2, <2>3 DEF Follows
<1>15. Part(m, ps, old, p, top)
  <2>1. \A r \in Locals(m) : InFrame(r, old) => ~(r >= old.base + p)
    <3>1. \A r : r \in b .. b + p - 1 => ~(r >= b + p) BY <1>8
    <3> QED BY <1>2, <3>1 DEF InFrame
  <2> QED BY <1>13, <2>1 DEF Part
<1>16. /\ Puts(m, f, p, regs, {v})
       /\ \A g \in Suspended : \A i \in 1 .. Len(gen[g].regs) : gen[g].regs[i] \notin {v}
  <2>1. b \in Int /\ p \in Int /\ b = f.base BY <1>8, <1>9
  <2> QED BY <1>7, <1>9, <2>1, PutsOne
<1>17. Joins(m, ps, f, regs, top, {v})
  <2>1. p <= old.nlocals /\ old.base = f.base BY <1>2, <1>8, <1>9
  <2> QED BY <1>8, <1>13, <1>14, <1>15, <1>16, <2>1, PartJoins
<1>18. CutsHere(Open(m), m, top) BY <1>1, CutsOpen
<1>19. Moves(m, regs, Append(ps, f), Open(m), top, {v})
  BY <1>5, <1>6, <1>7, <1>13, <1>17, <1>18, SettleMoves
<1> QED BY <1>5, <1>13, <1>16, <1>19, MovesEnd

\* The blocks of the frame that runs.
LEMMA OwnBlocks ==
    ASSUME OInv, VInv, NEW m \in VMs, Running(m), NEW old, old = Frame(m)
    PROVE  /\ FrameOk(old) /\ old.blocks \in Seq(BlockT) /\ BlocksOk(old) /\ old.base \in Nat
           /\ old.nlocals \in Nat /\ DOMAIN old.blocks = 1 .. Len(old.blocks)
           /\ \A k \in 1 .. Len(old.blocks) : old.blocks[k].start \in Nat
PROOF
<1>1. FrameOk(old) BY RunningIs
<1>2. BlocksOk(old)
  <2>1. PICK n \in 0 .. Len(frames[m]) : n < Len(frames[m]) /\ frames[m][n + 1] = old BY LastFrame
  <2>2. n + 1 \in 1 .. Len(frames[m])
    <3>1. Remain(m, n, SubSeq(frames[m], 1, n), frames[m][n + 1].base) BY <2>1, PrefixBelow
    <3> QED BY <3>1 DEF Remain
  <2> QED BY <2>1, <2>2 DEF VInv, Nested
<1>3. old.blocks \in Seq(BlockT) /\ old.base \in Nat /\ old.nlocals \in Nat BY <1>1, FrameIs
<1>4. ASSUME NEW k \in 1 .. Len(old.blocks) PROVE old.blocks[k].start \in Nat
  <2>1. old.blocks[k] \in BlockT BY <1>3
  <2> QED BY <2>1, BoundsAssumption DEF BlockT
<1> QED BY <1>1, <1>2, <1>3, <1>4

LEMMA BeginBlockReach ==
    ASSUME OInv, OInv', VInv, NEW m \in VMs, NEW try \in BOOLEAN, BeginBlock(m, try)
    PROVE  VInv'
PROOF
<1>1. PICK old : old = Frame(m) OBVIOUS
<1>2. PICK n, b, bs : n = old.nlocals /\ b = [start |-> old.nlocals, try |-> try] /\ bs = old.blocks OBVIOUS
<1>3. PICK blocks : blocks = Append(bs, b) OBVIOUS
<1>4. DeclareIn(m, blocks) BY <1>1, <1>2, <1>3 DEF BeginBlock
<1>5. Running(m) BY <1>4 DEF DeclareIn
<1>6. /\ FrameOk(old) /\ bs \in Seq(BlockT) /\ BlocksOk(old) /\ n \in Nat /\ DOMAIN bs = 1 .. Len(bs)
      /\ \A k \in 1 .. Len(bs) : bs[k].start \in Nat
  BY <1>1, <1>2, <1>5, OwnBlocks
<1>7. b \in BlockT /\ b.start = n BY <1>2, <1>6 DEF FrameOk, BlockT
<1>8. /\ blocks \in Seq(BlockT) /\ Len(blocks) = Len(bs) + 1
      /\ (\A k \in 1 .. Len(bs) : blocks[k] = bs[k]) /\ blocks[Len(bs) + 1] = b
  BY <1>3, <1>6, <1>7, AppendProperties
<1>9. PICK l : l = Len(bs) OBVIOUS
<1>10. l \in Nat /\ DOMAIN blocks = 1 .. l + 1 BY <1>6, <1>8, <1>9
<1>11. ASSUME NEW k \in 1 .. l + 1
       PROVE  (k \in 1 .. l /\ blocks[k].start = bs[k].start) \/ (k = l + 1 /\ blocks[k].start = n)
  BY <1>7, <1>8, <1>9, <1>10
<1>12. ASSUME NEW f, f.blocks = blocks, f.nlocals = n + 1 PROVE BlocksOk(f)
  <2>1. \A k \in 1 .. l : bs[k].start \in Nat /\ bs[k].start <= n BY <1>2, <1>6, <1>9 DEF BlocksOk
  <2>2. \A j, k \in 1 .. l : j <= k => bs[j].start <= bs[k].start BY <1>2, <1>6, <1>9 DEF BlocksOk
  <2>3. ASSUME NEW j \in 1 .. l + 1, NEW k \in 1 .. l + 1, j <= k PROVE blocks[j].start <= blocks[k].start
    <3>1. CASE k \in 1 .. l
      <4>1. j \in 1 .. l BY <1>10, <2>3, <3>1
      <4> QED BY <1>8, <1>9, <2>2, <2>3, <3>1, <4>1
    <3>2. CASE k = l + 1
      <4>1. blocks[k].start = n BY <1>7, <1>8, <1>9, <3>2
      <4> QED BY <1>6, <1>11, <2>1, <4>1
    <3> QED BY <1>10, <3>1, <3>2
  <2>4. ASSUME NEW k \in 1 .. l + 1 PROVE blocks[k].start <= n + 1
    <3>1. blocks[k].start \in Nat /\ blocks[k].start <= n BY <1>6, <1>11, <2>1
    <3> QED BY <1>6, <3>1
  <2> QED BY <1>10, <1>12, <2>3, <2>4 DEF BlocksOk
<1> QED BY <1>1, <1>2, <1>4, <1>8, <1>12, DeclareReach

LEMMA DeclareOnlyReach ==
    ASSUME OInv, OInv', VInv, NEW m \in VMs, Declare(m)
    PROVE  VInv'
PROOF
<1>1. PICK old : old = Frame(m) OBVIOUS
<1>2. DeclareIn(m, old.blocks) BY <1>1 DEF Declare
<1>3. Running(m) BY <1>2 DEF DeclareIn
<1>4. /\ old.blocks \in Seq(BlockT) /\ BlocksOk(old) /\ old.nlocals \in Nat
      /\ DOMAIN old.blocks = 1 .. Len(old.blocks) /\ \A k \in 1 .. Len(old.blocks) : old.blocks[k].start \in Nat
  BY <1>1, <1>3, OwnBlocks
<1>5. ASSUME NEW f, f.blocks = old.blocks, f.nlocals = old.nlocals + 1 PROVE BlocksOk(f)
  <2>1. ASSUME NEW k \in 1 .. Len(old.blocks) PROVE old.blocks[k].start <= old.nlocals + 1
    <3>1. old.blocks[k].start \in Nat /\ old.blocks[k].start <= old.nlocals BY <1>4 DEF BlocksOk
    <3> QED BY <1>4, <3>1
  <2> QED BY <1>4, <1>5, <2>1 DEF BlocksOk
<1> QED BY <1>1, <1>2, <1>4, <1>5, DeclareReach

LEMMA CapturedIs ==
    ASSUME NEW m, NEW i \in Int, NEW j \in Int, NEW r \in Int, i <= r, r < j,
           NEW v, v = stack[m][r], v \in Captured
    PROVE  v \in CapturedIn(m, i, j)
PROOF
<1>1. PICK S : S = {stack[m][q] : q \in i..(j - 1)} OBVIOUS
<1>2. v \in S
  <2>1. r \in i..(j - 1) OBVIOUS
  <2> QED BY <1>1, <2>1
<1>3. CapturedIn(m, i, j) = Captured \cap S BY <1>1 DEF CapturedIn
<1> QED BY ONLY <1>2, <1>3, v \in Captured

\* Where break, continue and the end of a block leave the variables of the frame.
LEMMA LeaveBlockReach ==
    ASSUME OInv, OInv', VInv, NEW m \in VMs, Running(m), NEW n \in 0 .. Len(Frame(m).blocks),
           n < Len(Frame(m).blocks), LeaveBlock(m, n)
    PROVE  VInv'
PROOF
<1>1. PICK old, ps, top : old = Frame(m) /\ ps = Front(frames[m]) /\ top = FrameTop(frames[m]) OBVIOUS
<1>2. PICK bs, b, w : bs = old.blocks /\ b = old.base /\ w = old.nlocals OBVIOUS
<1>3. PICK start, nbs, last : start = bs[n + 1].start /\ nbs = SubSeq(bs, 1, n) /\ last = Last(bs).start OBVIOUS
<1>4. PICK f : f = [old EXCEPT !.blocks = nbs, !.nlocals = start] OBVIOUS
<1>5. PICK at : at = b + last OBVIOUS
<1>6. /\ mem' = mem /\ gen' = gen /\ closure' = closure
      /\ loose' = loose \cup CapturedIn(m, b + start, b + last)
      /\ \E s \in ClosedBlock(m) : Settle(m, stack[m], Append(ps, f), s)
  BY <1>1, <1>2, <1>3, <1>4 DEF LeaveBlock, WithFrame, Local
<1>7. PICK s \in ClosedBlock(m) : Settle(m, stack[m], Append(ps, f), s) BY <1>6
<1>8. s = CloseOuters(m, at) \/ (s = Open(m) /\ CapturedIn(m, at, b + w) = {})
  BY <1>1, <1>2, <1>3, <1>5 DEF ClosedBlock, Local
<1>9. /\ FrameOk(old) /\ bs \in Seq(BlockT) /\ BlocksOk(old) /\ b \in Nat /\ w \in Nat /\ DOMAIN bs = 1 .. Len(bs)
      /\ \A k \in 1 .. Len(bs) : bs[k].start \in Nat
  BY <1>1, <1>2, OwnBlocks
<1>10. n \in 0 .. Len(bs) /\ n < Len(bs) /\ n + 1 \in 1 .. Len(bs) /\ Len(bs) \in 1 .. Len(bs) /\ n + 1 <= Len(bs)
  BY <1>1, <1>2, <1>9
<1>11. start \in Nat /\ last \in Nat /\ start <= last /\ last <= w
  <2>1. last = bs[Len(bs)].start BY <1>3 DEF Last
  <2> QED BY <1>2, <1>3, <1>9, <1>10, <2>1 DEF BlocksOk
<1>12. nbs \in Seq(BlockT) /\ Len(nbs) = n /\ \A k \in 1 .. n : k \in 1 .. Len(bs) /\ nbs[k] = bs[k] /\ k <= n + 1
  <2>1. 1 \in 1 .. Len(bs) + 1 /\ 1 <= n + 1 /\ n - 1 + 1 = n /\ \A k \in 1 .. n : 1 + k - 1 = k BY <1>10
  <2>2. /\ SubSeq(bs, 1, n) \in Seq(BlockT) /\ Len(SubSeq(bs, 1, n)) = n - 1 + 1
        /\ \A k \in 1 .. n - 1 + 1 : SubSeq(bs, 1, n)[k] = bs[1 + k - 1]
    BY <1>9, <1>10, <2>1, SliceIs
  <2>3. \A k \in 1 .. n : k \in 1 .. Len(bs) /\ k <= n + 1 BY <1>10
  <2> QED BY <1>3, <2>1, <2>2, <2>3
<1>13. FrameOk(f) /\ f.base = b /\ f.nlocals = start /\ f.blocks = nbs /\ f.closure = old.closure
  <2>1. DOMAIN old = FrameFields BY <1>9 DEF FrameOk
  <2>2. /\ DOMAIN f = FrameFields /\ f.base = old.base /\ f.nlocals = start /\ f.blocks = nbs
        /\ f.closure = old.closure
    BY <1>4, <2>1 DEF FrameFields
  <2>3. start \in 0 .. FrameSize
    <3>1. bs[n + 1] \in BlockT BY <1>9, <1>10
    <3> QED BY <1>3, <3>1 DEF BlockT
  <2> QED BY <1>2, <1>9, <1>12, <2>2, <2>3 DEF FrameOk
<1>14. BlocksOk(f)
  <2>1. DOMAIN nbs = 1 .. n BY <1>12
  <2>2. \A j, k \in 1 .. n : j <= k => nbs[j].start <= nbs[k].start BY <1>2, <1>9, <1>12 DEF BlocksOk
  <2>3. \A k \in 1 .. n : nbs[k].start <= start BY <1>2, <1>3, <1>9, <1>10, <1>12 DEF BlocksOk
  <2> QED BY <1>13, <2>1, <2>2, <2>3 DEF BlocksOk
<1>15. PICK q \in 0 .. Len(frames[m]) :
         q < Len(frames[m]) /\ ps = SubSeq(frames[m], 1, q) /\ frames[m][q + 1] = old /\ q + 1 = Len(frames[m])
  BY <1>1, LastFrame
<1>16. b <= FrameTop(ps) /\ EndsBy(ps, b) /\ q + 1 \in 1 .. Len(frames[m]) /\ Below(m, ps, b)
  <2>1. b = frames[m][q + 1].base BY <1>2, <1>15
  <2>2. Remain(m, q, SubSeq(frames[m], 1, q), frames[m][q + 1].base) BY <1>15, PrefixBelow
  <2>3. Remain(m, q, ps, b) BY <1>15, <2>1, <2>2
  <2> QED BY <2>3 DEF Remain
<1>17. ~(q + 1 < Len(frames[m]))
  <2>1. q \in Int OBVIOUS
  <2> QED BY <1>15, <2>1
<1>18. /\ top \in Int /\ Below(m, ps, top)
       /\ \A r \in Locals(m) : r < top => r \in LocalRegs(ps) \/ InFrame(r, old)
       /\ \A r \in Registers : InFrame(r, old) => r \in Locals(m) /\ r < top
  <2>1. UpTo(m, ps, old, top) BY <1>1, <1>15, <1>17, LocalsUpTo
  <2> QED BY <2>1 DEF UpTo
<1>19. Follows(ps, f)
  <2>1. Runs(old, closure)
    <3>1. PICK fs : fs = frames[m] OBVIOUS
    <3>2. \A k \in 1 .. Len(fs) : Runs(fs[k], closure) BY <3>1, OwnFrames
    <3> QED BY <1>15, <1>16, <3>1, <3>2
  <2>2. Runs(f, closure) BY <1>13, <2>1 DEF Runs
  <2> QED BY <1>13, <1>14, <1>16, <2>2 DEF Follows
<1>20. at \in Int BY <1>5, <1>9, <1>11
<1>21. ASSUME NEW r \in Locals(m)
       PROVE  /\ r \in Nat /\ r \in Registers /\ r < top
              /\ r \in LocalRegs(ps) \/ (InFrame(r, old) /\ r >= b /\ r < b + w)
  <2>1. PICK fs : fs = frames[m] OBVIOUS
  <2>2. r \in Nat /\ r \in Registers /\ r < top BY <1>1, <2>1, OwnFrames DEF Locals
  <2>3. r \in LocalRegs(ps) \/ InFrame(r, old) BY <1>18, <2>2
  <2>4. ASSUME InFrame(r, old) PROVE r >= b /\ r < b + w
    <3>1. r \in b .. b + w - 1 BY <1>2, <2>4 DEF InFrame
    <3> QED BY <1>9, <3>1
  <2> QED BY <2>2, <2>3, <2>4
\* Those that the instruction does not close.
<1>22. ASSUME NEW r \in Locals(m), r >= b + start, r < b + last, stack[m][r] \in Captured
       PROVE  stack[m][r] \in loose'
  <2>1. PICK x, y, v : x = b + start /\ y = b + last /\ v = stack[m][r] OBVIOUS
  <2>2. x \in Int /\ y \in Int /\ r \in Int /\ x <= r /\ r < y BY <1>9, <1>11, <1>21, <1>22, <2>1
  <2>3. v \in CapturedIn(m, x, y) BY <1>22, <2>1, <2>2, CapturedIs
  <2> QED BY <1>6, <2>1, <2>3
<1>23. PICK i : i = IF s = CloseOuters(m, at) THEN at ELSE top OBVIOUS
<1>24. i \in Int /\ CutsHere(s, m, i) BY <1>1, <1>8, <1>18, <1>20, <1>23, CutsClosed, CutsOpen
<1>25. i = at \/ (i = top /\ CapturedIn(m, at, b + w) = {}) BY <1>8, <1>23
<1>26. Below(m, ps, i)
  <2>1. ASSUME NEW r \in LocalRegs(ps) PROVE r < at
    <3>1. r \in Locals(m) /\ r < b BY <1>16 DEF Below
    <3>2. r \in Nat BY <1>21, <3>1
    <3> QED BY <1>5, <1>9, <1>11, <3>1, <3>2
  <2> QED BY <1>16, <1>18, <1>25, <2>1 DEF Below
<1>27. Part(m, ps, old, start, i)
  <2>1. ASSUME NEW r \in Registers, InFrame(r, old), r < b + start PROVE r \in Locals(m) /\ r < i
    <3>1. r \in Locals(m) /\ r < top BY <1>18, <2>1
    <3>2. r \in Nat BY <1>21, <3>1
    <3>3. r < at BY <1>5, <1>9, <1>11, <2>1, <3>2
    <3> QED BY <1>25, <3>1, <3>3
  <2>2. ASSUME NEW r \in Locals(m), InFrame(r, old), r < i, r >= b + start, stack[m][r] \in Captured
        PROVE  stack[m][r] \in loose'
    <3>1. CASE r < b + last BY <1>22, <2>2, <3>1
    <3>2. CASE ~(r < b + last)
      <4>1. r \in Nat /\ r \in b .. b + w - 1 BY <1>2, <1>21, <2>2 DEF InFrame
      <4>2. ~(r < at) BY <1>5, <3>2
      <4>3. CapturedIn(m, at, b + w) = {} BY <1>25, <2>2, <4>2
      <4>4. PICK y, v : y = b + w /\ v = stack[m][r] OBVIOUS
      <4>5. y \in Int /\ at \in Int /\ r \in Int /\ at <= r /\ r < y BY <1>9, <1>20, <4>1, <4>2, <4>4
      <4>6. v \in CapturedIn(m, at, y) BY <2>2, <4>4, <4>5, CapturedIs
      <4> QED BY <4>3, <4>4, <4>6
    <3> QED BY <3>1, <3>2
  <2>3. \A r \in Locals(m) : r < i => r \in LocalRegs(ps) \/ InFrame(r, old) BY <1>21
  <2> QED BY <1>2, <2>1, <2>2, <2>3 DEF Part
<1>28. PICK regs, none : regs = stack[m] /\ none = {} OBVIOUS
<1>29. Puts(m, f, start, regs, none) BY <1>13, <1>28 DEF Puts
<1>30. Joins(m, ps, f, regs, i, none)
  <2>1. old.base = f.base /\ start <= old.nlocals BY <1>2, <1>9, <1>11, <1>13
  <2> QED BY <1>9, <1>11, <1>19, <1>24, <1>26, <1>27, <1>29, <2>1, PartJoins
<1>31. loose \subseteq loose' /\ Settle(m, regs, Append(ps, f), s) BY <1>6, <1>7, <1>28
<1>32. Moves(m, regs, Append(ps, f), s, i, none) BY <1>6, <1>24, <1>30, <1>31, SettleMoves
<1> QED BY <1>6, <1>24, <1>28, <1>32, MovesEnd

LEMMA EndBlockReach ==
    ASSUME OInv, OInv', VInv, NEW m \in VMs, EndBlock(m) \/ Break(m)
    PROVE  VInv'
PROOF
<1>1. Running(m) BY DEF EndBlock, Break
<1>2. Frame(m).blocks \in Seq(BlockT) BY <1>1, RunningIs DEF FrameOk
<1>3. PICK n : n \in 0 .. Len(Frame(m).blocks) /\ n < Len(Frame(m).blocks) /\ LeaveBlock(m, n)
  <2>1. CASE EndBlock(m)
    <3>1. PICK n : n = Len(Frame(m).blocks) - 1 OBVIOUS
    <3>2. Frame(m).blocks # <<>> /\ LeaveBlock(m, n) BY <2>1, <3>1 DEF EndBlock
    <3>3. n \in 0 .. Len(Frame(m).blocks) /\ n < Len(Frame(m).blocks) BY <1>2, <3>1, <3>2
    <3> QED BY <3>2, <3>3
  <2>2. CASE Break(m)
    <3>1. PICK n \in 0..(Len(Frame(m).blocks) - 2) : LeaveBlock(m, n) BY <2>2 DEF Break
    <3>2. n \in 0 .. Len(Frame(m).blocks) /\ n < Len(Frame(m).blocks) BY <1>2
    <3> QED BY <3>1, <3>2
  <2> QED BY <2>1, <2>2
<1> QED BY <1>1, <1>3, LeaveBlockReach

LEMMA CatchReach ==
    ASSUME OInv, OInv', VInv, NEW m \in VMs, Catch(m)
    PROVE  VInv'
PROOF
<1>1. PICK k, l, top : k = Max(Catchers(m)) /\ l = Len(frames[m]) /\ top = FrameTop(frames[m]) OBVIOUS
<1>2. FramesOk(frames[m]) /\ Nested(frames[m]) BY DEF OInv, VInv
<1>3. PICK S : frames[m] \in Seq(S) BY <1>2 DEF FramesOk
<1>4. k \in 1 .. l /\ l \in Nat /\ Tries(frames[m][k]) # {}
  <2>1. Catchers(m) # {} BY DEF Catch
  <2>2. DOMAIN frames[m] = 1 .. l /\ l \in Nat BY <1>1, <1>3
  <2>3. Catchers(m) \subseteq 1 .. l BY <2>2 DEF Catchers
  <2>4. k \in Catchers(m) BY <1>1, <2>1, <2>2, <2>3, MaxIs
  <2> QED BY <2>2, <2>3, <2>4 DEF Catchers
<1>5. PICK old, q : old = frames[m][k] /\ q = k - 1 OBVIOUS
<1>6. PICK ps : ps = SubSeq(frames[m], 1, q) OBVIOUS
<1>7. q \in 0 .. Len(frames[m]) /\ q < Len(frames[m]) /\ q + 1 = k /\ q + 2 = k + 1 BY <1>1, <1>4, <1>5
<1>8. PICK bs, b, w, n : bs = old.blocks /\ b = old.base /\ w = old.nlocals /\ n = Max(Tries(old)) OBVIOUS
<1>9. PICK start, no : start = bs[n].start /\ no = FALSE OBVIOUS
<1>10. PICK block : block = [start |-> start, try |-> no] OBVIOUS
<1>11. PICK nbs, n1 : nbs = Append(SubSeq(bs, 1, n - 1), block) /\ n1 = start + 1 OBVIOUS
<1>12. PICK f : f = [old EXCEPT !.nlocals = n1, !.blocks = nbs] OBVIOUS
<1>13. PICK i : i = IF q + 1 < Len(frames[m]) THEN frames[m][q + 2].base ELSE FrameTop(frames[m]) OBVIOUS
<1>14. PICK s : s = IF k < l THEN CloseOuters(m, i) ELSE Open(m) OBVIOUS
<1>15. /\ start < FrameSize /\ mem' = mem /\ gen' = gen /\ closure' = closure
       /\ loose' = loose \cup CapturedIn(m, b + start, b + w)
       /\ \E v \in Unused : Settle(m, [stack[m] EXCEPT ![b + start] = v], Append(ps, f), s)
  <2>1. f = [old EXCEPT !.nlocals = start + 1,
                        !.blocks = Append(SubSeq(@, 1, n - 1), [start |-> start, try |-> FALSE])]
    BY <1>8, <1>9, <1>10, <1>11, <1>12
  <2>2. s = IF k < Len(frames[m]) THEN CloseOuters(m, frames[m][k + 1].base) ELSE Open(m)
    BY <1>1, <1>7, <1>13, <1>14
  <2> QED BY <1>1, <1>5, <1>6, <1>8, <1>9, <2>1, <2>2 DEF Catch
<1>16. PICK v \in Unused : Settle(m, [stack[m] EXCEPT ![b + start] = v], Append(ps, f), s) BY <1>15
<1>17. /\ i \in Int /\ Below(m, ps, i)
       /\ \A r \in Locals(m) : r < i => r \in LocalRegs(ps) \/ InFrame(r, old)
       /\ \A r \in Registers : InFrame(r, old) => r \in Locals(m) /\ r < i
  <2>1. old = frames[m][q + 1] BY <1>5, <1>7
  <2>2. UpTo(m, ps, old, i) BY <1>6, <1>7, <1>13, <2>1, LocalsUpTo
  <2> QED BY <2>2 DEF UpTo
<1>18. b <= FrameTop(ps) /\ EndsBy(ps, b)
  <2>1. b = frames[m][q + 1].base BY <1>5, <1>7, <1>8
  <2>2. Remain(m, q, SubSeq(frames[m], 1, q), frames[m][q + 1].base) BY <1>7, PrefixBelow
  <2>3. Remain(m, q, ps, b) BY <1>6, <2>1, <2>2
  <2> QED BY <2>3 DEF Remain
<1>19. /\ FrameOk(old) /\ BlocksOk(old) /\ Runs(old, closure)
  <2>1. FrameOk(old) BY <1>1, <1>2, <1>4, <1>5 DEF FramesOk
  <2>2. BlocksOk(old) BY <1>1, <1>2, <1>4, <1>5 DEF Nested
  <2>3. Runs(old, closure) BY <1>1, <1>4, <1>5 DEF VInv, ClosuresOk
  <2> QED BY <2>1, <2>2, <2>3
<1>20. bs \in Seq(BlockT) /\ DOMAIN bs = 1 .. Len(bs) /\ b \in Nat /\ w \in Nat /\ FrameSize \in Nat
  <2>1. bs \in Seq(BlockT) /\ b \in Nat /\ w \in Nat /\ FrameSize \in Nat BY <1>8, <1>19, FrameIs
  <2> QED BY <2>1
<1>21. n \in 1 .. Len(bs)
  <2>1. Len(bs) \in Nat /\ Tries(old) \subseteq 1 .. Len(bs) BY <1>8, <1>20 DEF Tries
  <2>2. n \in Tries(old) BY <1>4, <1>5, <1>8, <2>1, MaxIs
  <2> QED BY <2>1, <2>2
<1>22. start \in Nat /\ start \in 0 .. FrameSize /\ start <= w
  <2>1. bs[n] \in BlockT BY <1>20, <1>21
  <2>2. start \in 0 .. FrameSize BY <1>9, <2>1 DEF BlockT
  <2>3. start <= w BY <1>8, <1>9, <1>19, <1>20, <1>21 DEF BlocksOk
  <2> QED BY <1>20, <2>2, <2>3
<1>23. PICK j : j = n - 1 OBVIOUS
<1>24. /\ nbs \in Seq(BlockT) /\ Len(nbs) = n /\ nbs[n] = block /\ j \in Nat /\ n = j + 1
       /\ \A x \in 1 .. j : x \in 1 .. Len(bs) /\ nbs[x] = bs[x] /\ x <= n
  <2>1. j \in 0 .. Len(bs) /\ 1 \in 1 .. Len(bs) + 1 /\ 1 <= j + 1 /\ j - 1 + 1 = j /\ n = j + 1
        /\ \A x \in 1 .. j : 1 + x - 1 = x /\ x \in 1 .. Len(bs) /\ x <= n
    BY <1>21, <1>23
  <2>2. /\ SubSeq(bs, 1, j) \in Seq(BlockT) /\ Len(SubSeq(bs, 1, j)) = j - 1 + 1
        /\ \A x \in 1 .. j - 1 + 1 : SubSeq(bs, 1, j)[x] = bs[1 + x - 1]
    BY <1>20, <2>1, SliceIs
  <2>3. PICK cut : cut = SubSeq(bs, 1, j) OBVIOUS
  <2>4. cut \in Seq(BlockT) /\ Len(cut) = j /\ \A x \in 1 .. j : cut[x] = bs[x] BY <2>1, <2>2, <2>3
  <2>5. block \in BlockT BY <1>9, <1>10, <1>22 DEF BlockT
  <2>6. nbs = Append(cut, block) BY <1>11, <1>23, <2>3
  <2>7. /\ nbs \in Seq(BlockT) /\ Len(nbs) = j + 1 /\ nbs[j + 1] = block
        /\ \A x \in 1 .. j : nbs[x] = cut[x]
    BY <2>4, <2>5, <2>6, AppendProperties
  <2> QED BY <2>1, <2>4, <2>7
<1>25. FrameOk(f) /\ f.base = b /\ f.nlocals = start + 1 /\ f.blocks = nbs /\ f.closure = old.closure
  <2>1. n1 \in 0 .. FrameSize BY <1>11, <1>15, <1>20, <1>22
  <2>2. DOMAIN old = FrameFields BY <1>19 DEF FrameOk
  <2>3. /\ DOMAIN f = FrameFields /\ f.base = old.base /\ f.nlocals = n1 /\ f.blocks = nbs
        /\ f.closure = old.closure
    BY <1>12, <2>2 DEF FrameFields
  <2> QED BY <1>8, <1>11, <1>20, <1>24, <2>1, <2>3 DEF FrameOk
<1>26. BlocksOk(f)
  <2>1. DOMAIN nbs = 1 .. n /\ block.start = start BY <1>10, <1>24
  <2>2. \A x \in 1 .. n : x \in 1 .. j \/ x = n BY <1>24
  <2>3. \A x, y \in 1 .. Len(bs) : x <= y => bs[x].start <= bs[y].start BY <1>8, <1>19, <1>20 DEF BlocksOk
  <2>4. \A x \in 1 .. j : bs[x].start <= start BY <1>9, <1>21, <1>24, <2>3
  <2>5. ASSUME NEW x \in 1 .. n, NEW y \in 1 .. n, x <= y PROVE nbs[x].start <= nbs[y].start
    <3>1. CASE y = n
      <4>1. nbs[y].start = start BY <1>24, <2>1, <3>1
      <4>2. CASE x = n BY <1>22, <4>1, <4>2, <3>1
      <4>3. CASE x \in 1 .. j BY <1>24, <2>4, <4>1, <4>3
      <4> QED BY <2>2, <4>2, <4>3
    <3>2. CASE y \in 1 .. j
      <4>1. x \in 1 .. j BY <1>24, <2>5, <3>2
      <4> QED BY <1>24, <2>3, <2>5, <3>2, <4>1
    <3> QED BY <2>2, <3>1, <3>2
  <2>6. ASSUME NEW x \in 1 .. n PROVE nbs[x].start <= start + 1
    <3>1. CASE x = n BY <1>22, <1>24, <2>1, <3>1
    <3>2. CASE x \in 1 .. j
      <4>1. nbs[x] = bs[x] /\ x \in 1 .. Len(bs) BY <1>24, <3>2
      <4>2. bs[x] \in BlockT BY <1>20, <4>1
      <4>3. bs[x].start \in Nat BY <1>20, <4>2 DEF BlockT
      <4>4. bs[x].start <= start BY <2>4, <3>2
      <4> QED BY <1>22, <4>1, <4>3, <4>4
    <3> QED BY <2>2, <3>1, <3>2
  <2> QED BY <1>25, <2>1, <2>5, <2>6 DEF BlocksOk
<1>27. Follows(ps, f)
  <2>1. Runs(f, closure) BY <1>19, <1>25 DEF Runs
  <2> QED BY <1>18, <1>25, <1>26, <2>1 DEF Follows
<1>28. Part(m, ps, old, start, i)
  <2>1. ASSUME NEW r \in Locals(m), InFrame(r, old), r >= b + start, stack[m][r] \in Captured
        PROVE  stack[m][r] \in loose'
    <3>1. PICK x, y, u : x = b + start /\ y = b + w /\ u = stack[m][r] OBVIOUS
    <3>2. r \in b .. b + w - 1 BY <1>8, <2>1 DEF InFrame
    <3>3. x \in Int /\ y \in Int /\ r \in Int /\ x <= r /\ r < y BY <1>20, <1>22, <2>1, <3>1, <3>2
    <3>4. u \in CapturedIn(m, x, y) BY <2>1, <3>1, <3>3, CapturedIs
    <3> QED BY <1>15, <3>1, <3>4
  <2> QED BY <1>8, <1>17, <2>1 DEF Part
<1>29. PICK regs : regs = [stack[m] EXCEPT ![b + start] = v] OBVIOUS
<1>30. /\ Puts(m, f, start, regs, {v})
       /\ \A g \in Suspended : \A x \in 1 .. Len(gen[g].regs) : gen[g].regs[x] \notin {v}
  <2>1. b \in Int /\ start \in Int /\ b = f.base /\ f.nlocals = start + 1 BY <1>20, <1>22, <1>25
  <2> QED BY <1>29, <2>1, PutsOne
<1>31. Joins(m, ps, f, regs, i, {v})
  <2>1. start <= old.nlocals /\ old.base = f.base BY <1>8, <1>22, <1>25
  <2> QED BY <1>17, <1>19, <1>22, <1>27, <1>28, <1>30, <2>1, PartJoins
<1>32. CutsHere(s, m, i)
  <2>1. CASE k < l BY <1>14, <1>17, <2>1, CutsClosed
  <2>2. CASE ~(k < l)
    <3>1. s = Open(m) /\ i = FrameTop(frames[m]) BY <1>1, <1>7, <1>13, <1>14, <2>2
    <3> QED BY <3>1, CutsOpen
  <2> QED BY <2>1, <2>2
<1>33. loose \subseteq loose' /\ Settle(m, regs, Append(ps, f), s) BY <1>15, <1>16, <1>29
<1>34. Moves(m, regs, Append(ps, f), s, i, {v}) BY <1>15, <1>17, <1>31, <1>32, <1>33, SettleMoves
<1> QED BY <1>15, <1>17, <1>30, <1>34, MovesEnd

\* A generator that is suspended as x, with variables that nothing else has.
Saves(x) ==
    /\ GenOk(x) /\ Runs(x.frame, closure)
    /\ \A i, j \in 1 .. Len(x.regs) : x.regs[i] = x.regs[j] => i = j
    /\ \A h \in Suspended : \A i \in 1 .. Len(x.regs), j \in 1 .. Len(gen[h].regs) : x.regs[i] # gen[h].regs[j]
    /\ \A n \in VMs : \A j \in Locals(n)' : \A i \in 1 .. Len(x.regs) : stack'[n][j] # x.regs[i]
    /\ \A i \in 1 .. Len(x.regs) : x.regs[i] \in Captured => x.regs[i] \in loose'

LEMMA SavedWith ==
    ASSUME OInv, VInv, NEW m \in VMs, NEW regs, NEW fs, NEW t, NEW b \in Int, Moves(m, regs, fs, t, b, {}),
           NEW g, NEW x, \A h \in Gens : gen'[h] = IF h = g THEN x ELSE gen[h], Saves(x)
    PROVE  SavedOk' /\ \A h \in Suspended' : Runs(gen'[h].frame, closure)
PROOF
<1>1. \A h \in Suspended' : h \in Gens /\ IF h = g THEN gen'[h] = x ELSE h \in Suspended /\ gen'[h] = gen[h]
  BY DEF Suspended
<1>2. SavedOk /\ ClosuresOk BY DEF VInv
<1>3. closure' = closure /\ loose \subseteq loose' BY DEF Moves
<1>4. Captured' = Captured BY <1>3 DEF Captured, Entries
<1>5. \A n \in VMs : \A i \in Locals(n)' : i \in Locals(n) /\ stack'[n][i] = stack[n][i]
  <2>1. \A n \in VMs : \A i \in Locals(n)' : Was(m, regs, fs, {}, n, i) BY MovesWas
  <2> QED BY <2>1 DEF Was
<1>6. \A h \in Suspended' : GenOk(gen'[h]) BY <1>1, <1>2 DEF Saves, SavedOk
<1>7. ASSUME NEW h \in Suspended', NEW k \in Suspended', NEW i \in 1 .. Len(gen'[h].regs),
             NEW j \in 1 .. Len(gen'[k].regs), gen'[h].regs[i] = gen'[k].regs[j]
      PROVE  h = k /\ i = j
  <2>1. CASE h = g /\ k = g BY <1>1, <1>7, <2>1 DEF Saves
  <2>2. CASE h = g /\ k # g BY <1>1, <1>7, <2>2 DEF Saves
  <2>3. CASE h # g /\ k = g BY <1>1, <1>7, <2>3 DEF Saves
  <2>4. CASE h # g /\ k # g BY <1>1, <1>2, <1>7, <2>4, SMTT(30) DEF SavedOk
  <2> QED BY <2>1, <2>2, <2>3, <2>4
<1>8. ASSUME NEW h \in Suspended', NEW i \in 1 .. Len(gen'[h].regs), NEW n \in VMs, NEW j \in Locals(n)'
      PROVE  stack'[n][j] # gen'[h].regs[i]
  <2>1. CASE h = g BY <1>1, <2>1 DEF Saves
  <2>2. CASE h # g BY <1>1, <1>2, <1>5, <2>2 DEF SavedOk
  <2> QED BY <2>1, <2>2
<1>9. ASSUME NEW h \in Suspended', NEW i \in 1 .. Len(gen'[h].regs), gen'[h].regs[i] \in Captured'
      PROVE  gen'[h].regs[i] \in loose'
  <2>1. CASE h = g BY <1>1, <1>4, <1>9, <2>1 DEF Saves
  <2>2. CASE h # g BY <1>1, <1>2, <1>3, <1>4, <1>9, <2>2 DEF SavedOk
  <2> QED BY <2>1, <2>2
<1>10. \A h \in Suspended' : Runs(gen'[h].frame, closure) BY <1>1, <1>2 DEF Saves, ClosuresOk
<1> QED BY <1>6, <1>7, <1>8, <1>9, <1>10 DEF SavedOk

LEMMA YieldReach ==
    ASSUME OInv, OInv', VInv, NEW m \in VMs, Yield(m)
    PROVE  VInv'
PROOF
<1>1. PICK f, fs : f = Frame(m) /\ fs = Front(frames[m]) OBVIOUS
<1>2. PICK b, w, z : b = f.base /\ w = f.nlocals /\ z = 0 OBVIOUS
<1>3. PICK rs : rs = [i \in 1..w |-> stack[m][b + i - 1]] OBVIOUS
<1>4. PICK h : h = [f EXCEPT !.gen = None, !.base = z] OBVIOUS
<1>5. PICK x, g : x = [frame |-> h, regs |-> rs] /\ g = f.gen OBVIOUS
<1>6. /\ Running(m) /\ LeaveFrames(m, fs) /\ mem' = mem /\ closure' = closure
      /\ gen' = [gen EXCEPT ![g] = x] /\ loose' = loose \cup CapturedIn(m, b, b + w)
  BY <1>1, <1>2, <1>3, <1>4, <1>5 DEF Yield
<1>7. PICK n \in 0 .. Len(frames[m]) :
        n < Len(frames[m]) /\ fs = SubSeq(frames[m], 1, n) /\ frames[m][n + 1] = f
  BY <1>1, <1>6, LastFrame
<1>8. Below(m, fs, b) /\ n + 1 \in 1 .. Len(frames[m])
  <2>1. b = frames[m][n + 1].base BY <1>2, <1>7
  <2>2. Remain(m, n, SubSeq(frames[m], 1, n), frames[m][n + 1].base) BY <1>7, PrefixBelow
  <2>3. Remain(m, n, fs, b) BY <1>7, <2>1, <2>2
  <2> QED BY <2>3 DEF Remain
<1>9. \E i \in Int : \E s : Moves(m, stack[m], fs, s, i, {})
  <2>1. loose \subseteq loose' BY <1>6
  <2> QED BY <1>6, <1>7, <2>1, LeaveMoves
<1>10. PICK i \in Int : \E s : Moves(m, stack[m], fs, s, i, {}) BY <1>9
<1>11. PICK s : Moves(m, stack[m], fs, s, i, {}) BY <1>10
<1>12. FrameOk(f) /\ BlocksOk(f) /\ b \in Nat /\ w \in Nat BY <1>1, <1>2, <1>6, OwnBlocks
<1>13. h.nlocals = w /\ h.blocks = f.blocks /\ h.closure = f.closure
  <2>1. DOMAIN f = FrameFields BY <1>12 DEF FrameOk
  <2> QED BY <1>2, <1>4, <2>1 DEF FrameFields
<1>14. ASSUME NEW j \in 1 .. w PROVE b + j - 1 \in Locals(m) /\ rs[j] = stack[m][b + j - 1] /\ b + j - 1 >= b
  <2>1. PICK r : r = b + j - 1 OBVIOUS
  <2>2. r \in b .. b + w - 1 /\ r >= b BY <1>12, <2>1
  <2>3. InFrame(r, f) BY <1>2, <2>2 DEF InFrame
  <2>4. PICK gs : gs = frames[m] OBVIOUS
  <2>5. FramesOk(gs) BY <2>4, OwnFrames
  <2>6. r \in LocalRegs(gs) BY <1>7, <1>8, <2>3, <2>4, <2>5, LocalIs
  <2> QED BY <1>3, <2>1, <2>2, <2>4, <2>6 DEF Locals
<1>15. GenOk(x)
  <2>1. \A j \in 1 .. w : rs[j] \in Vars BY <1>14 DEF VInv, StackOk
  <2>2. rs \in [1 .. w -> Vars] BY <1>3, <2>1
  <2>3. rs \in Seq(Vars) /\ Len(rs) = w BY <1>12, <2>2
  <2>4. x.regs = rs /\ x.frame = h BY <1>5
  <2>5. BlocksOk(h) BY <1>2, <1>12, <1>13 DEF BlocksOk
  <2> QED BY <1>13, <2>3, <2>4, <2>5 DEF GenOk
<1>16. x.regs = rs /\ x.frame = h /\ Len(rs) = w
  <2>1. x.regs = rs /\ x.frame = h BY <1>5
  <2> QED BY <1>13, <1>15, <2>1 DEF GenOk
<1>17. Runs(h, closure)
  <2>1. Runs(f, closure) BY <1>7, <1>8 DEF VInv, ClosuresOk
  <2> QED BY <1>13, <2>1 DEF Runs
<1>18. StackOk /\ SavedOk BY DEF VInv
<1>19. ASSUME NEW j \in 1 .. w, NEW k \in 1 .. w, rs[j] = rs[k] PROVE j = k
  <2>1. PICK p, q : p = b + j - 1 /\ q = b + k - 1 OBVIOUS
  <2>2. p = q BY <1>14, <1>18, <1>19, <2>1 DEF StackOk
  <2> QED BY <1>12, <2>1, <2>2
<1>20. ASSUME NEW u \in Suspended, NEW j \in 1 .. w, NEW k \in 1 .. Len(gen[u].regs) PROVE rs[j] # gen[u].regs[k]
  BY <1>14, <1>18 DEF SavedOk
<1>21. ASSUME NEW v \in VMs, NEW r \in Locals(v)', NEW j \in 1 .. w PROVE stack'[v][r] # rs[j]
  <2>1. Was(m, stack[m], fs, {}, v, r) BY <1>11, MovesWas
  <2>2. r \in Locals(v) /\ stack'[v][r] = stack[v][r] BY <2>1 DEF Was
  <2>3. SUFFICES ASSUME stack[v][r] = rs[j] PROVE FALSE BY <2>2
  <2>4. PICK p : p = b + j - 1 OBVIOUS
  <2>5. v = m /\ r = p BY <1>14, <1>18, <2>2, <2>3, <2>4 DEF StackOk
  <2>6. Settled(m, stack[m], fs, s) BY <1>11, SettleAll DEF Moves
  <2>7. r \in LocalRegs(fs) BY <2>5, <2>6 DEF Settled, Locals
  <2>8. p < b BY <1>8, <2>5, <2>7 DEF Below
  <2> QED BY <1>12, <2>4, <2>8
<1>22. ASSUME NEW j \in 1 .. w, rs[j] \in Captured PROVE rs[j] \in loose'
  <2>1. PICK r, y, v : r = b + j - 1 /\ y = b + w /\ v = rs[j] OBVIOUS
  <2>2. b \in Int /\ y \in Int /\ r \in Int /\ b <= r /\ r < y BY <1>12, <2>1
  <2>3. v = stack[m][r] BY <1>14, <2>1
  <2>4. v \in CapturedIn(m, b, y) BY <1>22, <2>1, <2>2, <2>3, CapturedIs
  <2> QED BY <1>6, <2>1, <2>4
<1>23. Saves(x) BY <1>15, <1>16, <1>17, <1>19, <1>20, <1>21, <1>22 DEF Saves
<1>24. \A u \in Gens : gen'[u] = IF u = g THEN x ELSE gen[u] BY <1>6 DEF OInv, Shape
<1>25. SavedOk' /\ \A u \in Suspended' : Runs(gen'[u].frame, closure) BY <1>10, <1>11, <1>23, <1>24, SavedWith
<1> QED BY <1>10, <1>11, <1>25, MovesInv

LEMMA MakeGeneratorReach ==
    ASSUME OInv, OInv', VInv, NEW m \in VMs, NEW c \in Callees, NEW g \in Gens, NEW v \in Unused,
           MakeGenerator(m, c, g, v)
    PROVE  VInv'
PROOF
<1>1. PICK base, fs : base = CalleeBase(m) /\ fs = frames[m] OBVIOUS
<1>2. PICK s : s = CloseOuters(m, base) OBVIOUS
<1>3. PICK emptied : emptied = [o \in Outers |-> IF s.outs[o] # outer[o] THEN [s.outs[o] EXCEPT !.value = None]
                                                 ELSE outer[o]]
  OBVIOUS
<1>4. PICK u : u = [s EXCEPT !.outs = emptied] OBVIOUS
<1>5. PICK z, one : z = 0 /\ one = <<v>> OBVIOUS
<1>6. PICK f : f = NewFrame(z, 1, c, None) OBVIOUS
<1>7. PICK x : x = [frame |-> f, regs |-> one] OBVIOUS
<1>8. PICK t : t = Relocated(m, base, u) OBVIOUS
<1>9. /\ gen' = [gen EXCEPT ![g] = x] /\ mem' = Grown(m, base) /\ Settle(m, stack[m], fs, t)
      /\ closure' = closure /\ loose' = loose
  BY <1>1, <1>2, <1>3, <1>4, <1>5, <1>6, <1>7, <1>8 DEF MakeGenerator
<1>10. base \in Nat /\ base \in Int BY <1>1, CalleeBaseIs
<1>11. /\ FramesOk(fs) /\ Nested(fs) /\ \A k \in 1 .. Len(fs) : Runs(fs[k], closure)
       /\ \A r \in LocalRegs(fs) : r \in Locals(m) /\ r \in Nat
  BY <1>1, OwnFrames
<1>12. ASSUME NEW r \in LocalRegs(fs) PROVE r < base
  <2>1. EndsBy(fs, base) BY <1>1, EndsAt
  <2>2. PICK k \in 1 .. Len(fs) : InFrame(r, fs[k]) BY <1>11, LocalIs
  <2>3. fs[k].base + fs[k].nlocals <= base BY <2>1 DEF EndsBy
  <2>4. fs[k].base \in Nat /\ fs[k].nlocals \in Nat BY <1>11, FrameIs DEF FramesOk
  <2>5. PICK p, q : p = fs[k].base /\ q = fs[k].nlocals OBVIOUS
  <2>6. r \in p .. p + q - 1 BY <2>2, <2>5 DEF InFrame
  <2> QED BY <1>10, <2>3, <2>4, <2>5, <2>6
<1>13. Locals(m) = LocalRegs(fs) BY <1>1 DEF Locals
<1>14. CutsHere(s, m, base) BY <1>2, <1>10, CutsClosed
<1>15. \A o \in Outers : s.outs[o] = outer[o] => emptied[o] = outer[o] BY <1>3
<1>16. u.outs = emptied /\ u.opens = s.opens /\ {"outs", "opens"} \subseteq DOMAIN u BY <1>4, <1>14 DEF CutsHere
<1>17. s.opens \in Seq(Outers) /\ \A k \in 1 .. Len(s.opens) : s.outs[s.opens[k]] = outer[s.opens[k]]
  BY <1>14 DEF CutsHere
<1>18. \A k \in 1 .. Len(s.opens) : s.opens[k] \in Outers /\ emptied[s.opens[k]] = outer[s.opens[k]]
  BY <1>15, <1>17
<1>19. CutsHere(u, m, base)
  <2>1. Keeps(u, m, base)
    <3>1. ASSUME NEW k \in 1 .. Len(opens[m]), outer[opens[m][k]].idx < base
          PROVE  (\E j \in 1 .. Len(u.opens) : u.opens[j] = opens[m][k]) /\ emptied[opens[m][k]] = outer[opens[m][k]]
      <4>1. PICK j \in 1 .. Len(s.opens) : s.opens[j] = opens[m][k] BY <1>14, <3>1 DEF CutsHere, Keeps
      <4> QED BY <1>16, <1>18, <4>1
    <3> QED BY <1>16, <3>1 DEF Keeps
  <2>2. Closes(u, m, base)
    <3>1. ASSUME NEW r \in Locals(m), r >= base PROVE FALSE
      <4>1. r < base /\ r \in Nat BY <1>11, <1>12, <1>13
      <4> QED BY <1>10, <3>1, <4>1
    <3> QED BY <3>1 DEF Closes
  <2>3. Others(u, m) BY <1>14, <1>15, <1>16 DEF CutsHere, Others
  <2>4. DOMAIN emptied = Outers BY <1>3
  <2>5. ASSUME NEW k \in 1 .. Len(s.opens)
        PROVE  /\ emptied[s.opens[k]] = outer[s.opens[k]]
               /\ \E j \in 1 .. Len(opens[m]) : opens[m][j] = s.opens[k] /\ outer[opens[m][j]].idx < base
    BY <1>14, <1>18 DEF CutsHere
  <2> QED BY <1>16, <1>17, <2>1, <2>2, <2>3, <2>4, <2>5 DEF CutsHere
<1>20. Cuts(t, m, base) /\ t.opens = u.opens /\ \A n \in VMs \ {m} : mem'[n] = mem[n]
  BY <1>8, <1>9, <1>10, <1>19, CutsMoved
<1>21. Moves(m, stack[m], fs, t, base, {})
  <2>1. t.opens \in Seq(Outers) BY <1>16, <1>17, <1>20
  <2>2. \A r \in LocalRegs(fs) : r \in Locals(m) /\ r < base BY <1>12, <1>13
  <2>3. \A r \in Locals(m) : r < base => r \in LocalRegs(fs) BY <1>13
  <2> QED BY <1>9, <1>10, <1>11, <1>20, <2>1, <2>2, <2>3, DropMoves
<1>22. /\ v \in Vars /\ v \notin Captured /\ \A n \in VMs : \A i \in Locals(n) : stack[n][i] # v
       /\ \A h \in Suspended : \A i \in 1 .. Len(gen[h].regs) : gen[h].regs[i] # v
  BY UnusedIs
<1>23. x.regs = one /\ x.frame = f /\ one \in Seq(Vars) /\ Len(one) = 1 /\ 1 .. Len(one) = {1} /\ one[1] = v
  <2>1. x.regs = one /\ x.frame = f BY <1>7
  <2>2. one \in Seq(Vars) /\ Len(one) = 1 /\ one[1] = v BY <1>5, <1>22
  <2>3. 1 .. Len(one) = {1} BY <2>2
  <2> QED BY <2>1, <2>2, <2>3
<1>24. BlocksOk(f) /\ Runs(f, closure) /\ f.nlocals = 1
  <2>1. z \in Nat BY <1>5
  <2> QED BY <1>6, <2>1, NewFrameIs
<1>25. ASSUME NEW n \in VMs, NEW j \in Locals(n)' PROVE stack'[n][j] # v
  <2>1. Was(m, stack[m], fs, {}, n, j) BY <1>10, <1>21, MovesWas
  <2> QED BY <1>22, <2>1 DEF Was
<1>26. Saves(x) BY <1>22, <1>23, <1>24, <1>25 DEF Saves, GenOk
<1>27. \A h \in Gens : gen'[h] = IF h = g THEN x ELSE gen[h] BY <1>9 DEF OInv, Shape
<1>28. SavedOk' /\ \A h \in Suspended' : Runs(gen'[h].frame, closure)
  BY <1>10, <1>21, <1>26, <1>27, SavedWith
<1> QED BY <1>10, <1>21, <1>28, MovesInv

\* Entries that were there before, and outers as they were.
Kept ==
    /\ DOMAIN closure' = Closures /\ Entries' \subseteq Entries
    /\ \A e \in Entries' : outer'[e.outer] = outer[e.outer] /\ (e.var \in loose => e.var \in loose')
    /\ \A m \in VMs : \A k \in 1 .. Len(opens[m]) : outer'[opens[m][k]] = outer[opens[m][k]]
    /\ \A m \in VMs : \A k \in 1 .. Len(frames[m]) : Runs(frames[m][k], closure')
    /\ \A g \in Gens : gen'[g] # None => gen'[g] = gen[g] /\ Runs(gen[g].frame, closure')

\* A step that neither calls nor declares keeps what the closures reach.
LEMMA QuietReach ==
    ASSUME OInv, VInv, stack' = stack, mem' = mem, frames' = frames, opens' = opens, Kept
    PROVE  VInv'
PROOF
<1>1. \A m \in VMs : Locals(m)' = Locals(m) BY DEF Locals
<1>2. \A m \in VMs : Nested(frames'[m]) BY DEF VInv
<1>3. \A m \in VMs : \A k \in 1 .. Len(opens'[m]) : outer'[opens'[m][k]].ptr.at = mem'[m].at BY DEF VInv, Kept
<1>4. StackOk' BY <1>1 DEF VInv, StackOk
<1>5. \A g \in Suspended' : g \in Suspended /\ gen'[g] = gen[g] /\ Runs(gen[g].frame, closure') BY DEF Suspended, Kept
<1>6. SavedOk'
  <2>1. SavedOk BY DEF VInv
  <2>2. ASSUME NEW g \in Suspended', NEW i \in 1 .. Len(gen'[g].regs), gen'[g].regs[i] \in Captured'
        PROVE  gen'[g].regs[i] \in loose'
    <3>1. PICK v : v = gen[g].regs[i] OBVIOUS
    <3>2. gen'[g] = gen[g] /\ v \in Captured' BY <1>5, <2>2, <3>1
    <3>3. PICK e \in Entries' : e.var = v BY <3>2 DEF Captured
    <3>4. e \in Entries BY <3>3 DEF Kept
    <3>5. v \in Captured BY <3>3, <3>4 DEF Captured
    <3>6. v \in loose BY <1>5, <2>1, <3>1, <3>2, <3>5 DEF SavedOk
    <3> QED BY <3>1, <3>2, <3>3, <3>6 DEF Kept
  <2>3. \A g \in Suspended' : GenOk(gen'[g]) BY <1>5, <2>1 DEF SavedOk
  <2>4. \A g, h \in Suspended' : \A i \in 1 .. Len(gen'[g].regs), j \in 1 .. Len(gen'[h].regs) :
            gen'[g].regs[i] = gen'[h].regs[j] => g = h /\ i = j
    BY <1>5, <2>1, SMTT(30) DEF SavedOk
  <2>5. \A g \in Suspended' : \A i \in 1 .. Len(gen'[g].regs) : \A m \in VMs : \A j \in Locals(m)' :
            stack'[m][j] # gen'[g].regs[i]
    BY <1>1, <1>5, <2>1 DEF SavedOk
  <2> QED BY <2>2, <2>3, <2>4, <2>5 DEF SavedOk
<1>7. ClosuresOk'
  <2>1. \A e \in Entries' : e.outer \in Outers /\ e.var \in Vars BY DEF VInv, ClosuresOk, Kept
  <2>2. \A m \in VMs : \A k \in 1 .. Len(frames'[m]) : Runs(frames'[m][k], closure') BY DEF Kept
  <2>3. \A g \in Suspended' : Runs(gen'[g].frame, closure') BY <1>5
  <2>4. DOMAIN closure' = Closures BY DEF Kept
  <2> QED BY <2>1, <2>2, <2>3, <2>4 DEF ClosuresOk
<1>8. ASSUME NEW e \in Entries', e.var \notin loose' PROVE Reaches(e.outer, e.var)'
  <2>1. PICK o, v : o = e.outer /\ v = e.var OBVIOUS
  <2>2. e \in Entries /\ v \notin loose /\ outer'[o] = outer[o] BY <1>8, <2>1 DEF Kept
  <2>3. Reaches(o, v) BY <2>1, <2>2 DEF VInv
  <2>4. HasValue(o, v) => HasValue(o, v)' BY <1>1, <2>2 DEF HasValue
  <2>5. ASSUME NEW m \in VMs, PointsAt(o, m, v) PROVE PointsAt(o, m, v)' BY <1>1, <2>2, <2>5 DEF PointsAt
  <2>6. Reaches(o, v)' BY <2>2, <2>3, <2>4, <2>5 DEF Reaches
  <2> QED BY <2>1, <2>6
<1> QED BY <1>2, <1>3, <1>4, <1>6, <1>7, <1>8 DEF VInv

LEMMA EntryIs ==
    ASSUME NEW e
    PROVE  e \in Entries <=> \E c \in Closures : closure[c] # None /\ e \in Range(closure[c])
PROOF BY DEF Entries

LEMMA CloneClosureReach ==
    ASSUME OInv, VInv, NEW c \in Closures, NEW d \in Closures, CloneClosure(c, d)
    PROVE  VInv'
PROOF
<1>1. /\ closure[c] # None /\ closure[d] = None /\ closure' = [closure EXCEPT ![d] = closure[c]]
      /\ stack' = stack /\ mem' = mem /\ frames' = frames /\ opens' = opens /\ outer' = outer
      /\ gen' = gen /\ loose' = loose
  BY DEF CloneClosure
<1>2. ClosuresOk BY DEF VInv
<1>3. DOMAIN closure = Closures BY <1>2 DEF ClosuresOk
<1>4. \A b \in Closures : closure'[b] = IF b = d THEN closure[c] ELSE closure[b] BY <1>1, <1>3
<1>5. Entries' \subseteq Entries
  <2>1. SUFFICES ASSUME NEW e \in Entries' PROVE e \in Entries OBVIOUS
  <2>2. \E b \in Closures : closure'[b] # None /\ e \in Range(closure'[b]) BY <2>1 DEF Entries
  <2>3. \E b \in Closures : closure[b] # None /\ e \in Range(closure[b]) BY <1>1, <1>4, <2>2
  <2> QED BY <2>3, EntryIs
<1>6. \A f : Runs(f, closure) => Runs(f, closure') BY <1>1, <1>4 DEF Runs
<1>7. \A g \in Gens : gen[g] # None => Runs(gen[g].frame, closure') BY <1>2, <1>6 DEF ClosuresOk, Suspended
<1>8. Kept
  <2>1. \A m \in VMs : \A k \in 1 .. Len(frames[m]) : Runs(frames[m][k], closure') BY <1>2, <1>6 DEF ClosuresOk
  <2>2. DOMAIN closure' = Closures BY <1>1, <1>3
  <2> QED BY <1>1, <1>5, <1>7, <2>1, <2>2 DEF Kept
<1> QED BY <1>1, <1>8, QuietReach

LEMMA DropClosureReach ==
    ASSUME OInv, VInv, NEW c \in Closures, DropClosure(c)
    PROVE  VInv'
PROOF
<1>1. /\ closure' = [closure EXCEPT ![c] = None]
      /\ stack' = stack /\ mem' = mem /\ frames' = frames /\ opens' = opens /\ gen' = gen
      /\ \A m \in VMs : \A f \in Range(frames[m]) : f.closure # c
      /\ \A g \in Gens : gen[g] # None => gen[g].frame.closure # c
      /\ loose' = {v \in loose : \E e \in Entries' : e.var = v}
  BY DEF DropClosure
<1>2. PICK held : held = {o \in Outers : \/ \E m \in VMs : o \in Range(opens[m])
                                         \/ \E e \in Entries' : e.outer = o}
  OBVIOUS
<1>3. outer' = [o \in Outers |-> IF o \in held THEN outer[o] ELSE None]
  <2>1. \A o \in Outers : o \in held <=> \/ \E m \in VMs : o \in Range(opens[m])
                                         \/ \E e \in Entries' : e.outer = o
    BY <1>2
  <2> QED BY <2>1 DEF DropClosure
<1>4. ClosuresOk BY DEF VInv
<1>5. DOMAIN closure = Closures BY <1>4 DEF ClosuresOk
<1>6. \A b \in Closures : closure'[b] = IF b = c THEN None ELSE closure[b] BY <1>1, <1>5
<1>7. Entries' \subseteq Entries
  <2>1. SUFFICES ASSUME NEW e \in Entries' PROVE e \in Entries OBVIOUS
  <2>2. \E b \in Closures : closure'[b] # None /\ e \in Range(closure'[b]) BY <2>1 DEF Entries
  <2>3. \E b \in Closures : closure[b] # None /\ e \in Range(closure[b]) BY <1>6, <2>2
  <2> QED BY <2>3, EntryIs
<1>8. \A f : Runs(f, closure) /\ f.closure # c => Runs(f, closure') BY <1>6 DEF Runs
<1>9. ASSUME NEW e \in Entries' PROVE outer'[e.outer] = outer[e.outer] /\ (e.var \in loose => e.var \in loose')
  <2>1. e.outer \in Outers BY <1>4, <1>7, <1>9 DEF ClosuresOk
  <2>2. e.outer \in held BY <1>2, <1>9, <2>1
  <2> QED BY <1>1, <1>3, <1>9, <2>1, <2>2
<1>10. ASSUME NEW m \in VMs, NEW k \in 1 .. Len(opens[m]) PROVE outer'[opens[m][k]] = outer[opens[m][k]]
  <2>1. Listed(outer, opens[m], m, FrameTop(frames[m])) BY DEF OInv
  <2>2. opens[m] \in Seq(Outers) BY <2>1 DEF Listed
  <2>3. opens[m][k] \in Outers /\ opens[m][k] \in Range(opens[m]) BY <2>2, RangeIs
  <2>4. opens[m][k] \in held BY <1>2, <2>3
  <2> QED BY <1>3, <2>3, <2>4
<1>11. ASSUME NEW m \in VMs, NEW k \in 1 .. Len(frames[m]) PROVE Runs(frames[m][k], closure')
  <2>1. Runs(frames[m][k], closure) BY <1>4 DEF ClosuresOk
  <2>2. FramesOk(frames[m]) BY DEF OInv
  <2>3. PICK S : frames[m] \in Seq(S) BY <2>2 DEF FramesOk
  <2>4. frames[m][k] \in Range(frames[m]) BY <2>3, RangeIs
  <2> QED BY <1>1, <1>8, <2>1, <2>4
<1>12. \A g \in Gens : gen[g] # None => Runs(gen[g].frame, closure') BY <1>1, <1>4, <1>8 DEF ClosuresOk, Suspended
<1>13. DOMAIN closure' = Closures BY <1>1, <1>5
<1>14. Kept BY <1>1, <1>7, <1>9, <1>10, <1>11, <1>12, <1>13 DEF Kept
<1> QED BY <1>1, <1>14, QuietReach

LEMMA DropGeneratorReach ==
    ASSUME OInv, VInv, NEW g \in Gens, DropGenerator(g)
    PROVE  VInv'
PROOF
<1>1. /\ gen' = [gen EXCEPT ![g] = None] /\ stack' = stack /\ mem' = mem /\ frames' = frames
      /\ opens' = opens /\ outer' = outer /\ closure' = closure /\ loose' = loose
  BY DEF DropGenerator
<1>2. \A h \in Gens : gen'[h] = IF h = g THEN None ELSE gen[h] BY <1>1 DEF OInv, Shape
<1>3. ClosuresOk /\ Entries' = Entries BY <1>1 DEF VInv, Entries
<1>4. Kept BY <1>1, <1>2, <1>3 DEF Kept, ClosuresOk, Suspended
<1> QED BY <1>1, <1>4, QuietReach

LEMMA SameReach ==
    ASSUME OInv, VInv, UNCHANGED vars
    PROVE  VInv'
PROOF
<1>1. /\ gen' = gen /\ stack' = stack /\ mem' = mem /\ frames' = frames
      /\ opens' = opens /\ outer' = outer /\ closure' = closure /\ loose' = loose
  BY DEF vars
<1>2. ClosuresOk /\ Entries' = Entries BY <1>1 DEF VInv, Entries
<1>3. Kept BY <1>1, <1>2 DEF Kept, ClosuresOk, Suspended
<1> QED BY <1>1, <1>3, QuietReach

\* FindOuter adds w, the outer of register i, to the outers s, and loses none.
Finds(s, t, m, i, w) ==
    /\ w \in Outers /\ t.found = Append(s.found, w) /\ t.outs[w].idx = i
    /\ \E j \in 1 .. Len(t.opens) : t.opens[j] = w
    /\ \A k \in 1 .. Len(s.opens) : \E j \in 1 .. Len(t.opens) : t.opens[j] = s.opens[k]
    /\ \A j \in 1 .. Len(t.opens) :
          \/ t.outs[t.opens[j]].ptr.at = mem[m].at
          \/ \E k \in 1 .. Len(s.opens) : t.opens[j] = s.opens[k] /\ t.outs[t.opens[j]] = s.outs[s.opens[k]]

LEMMA FindOuterFinds ==
    ASSUME OInv, NEW m \in VMs, NEW s, "found" \in DOMAIN s, NEW top \in Int,
           Listed(s.outs, s.opens, m, top), Apart(s, m), NEW i \in Nat,
           NEW new \in Outers, NEW t, t = FindOuter(s, m, i, new)
    PROVE  \E w : Finds(s, t, m, i, w)
PROOF
<1>1. PICK outs, os : outs = s.outs /\ os = s.opens OBVIOUS
<1>2. PICK l : l = Len(os) OBVIOUS
<1>3. Listed(outs, os, m, top) BY <1>1
<1>4. os \in Seq(Outers) /\ l \in Nat BY <1>2, <1>3 DEF Listed
<1>5. PICK n : n = Place(s, i) OBVIOUS
<1>6. n \in 0 .. l
  <2>1. PICK i1 : i1 = i + 1 OBVIOUS
  <2>2. i1 \in Int BY <2>1
  <2>3. n = Above(outs, os, i1) BY <1>1, <1>5, <2>1 DEF Place
  <2> QED BY <1>2, <1>3, <2>2, <2>3, AboveIs
<1>7. \A k \in 1 .. l : outs[os[k]].ptr.reg = outs[os[k]].idx BY <1>2, <1>3 DEF Listed, Opened
<1>8. {"outs", "opens"} \subseteq DOMAIN s /\ DOMAIN outs = Outers BY <1>1 DEF Apart
<1>9. CASE n < l /\ outs[os[n + 1]].ptr.reg = i
  <2>1. PICK w : w = os[n + 1] OBVIOUS
  <2>2. t = [s EXCEPT !.found = Append(@, w)] BY <1>1, <1>2, <1>5, <1>9, <2>1 DEF FindOuter
  <2>3. t.outs = outs /\ t.opens = os /\ t.found = Append(s.found, w) BY <1>1, <1>8, <2>2
  <2>4. n + 1 \in 1 .. l /\ w \in Outers /\ outs[w].idx = i BY <1>2, <1>4, <1>6, <1>7, <1>9, <2>1
  <2>5. Finds(s, t, m, i, w) BY <1>1, <1>2, <2>1, <2>3, <2>4 DEF Finds
  <2> QED BY <2>5
<1>10. CASE ~(n < l /\ outs[os[n + 1]].ptr.reg = i)
  <2>1. PICK at : at = mem[m].at OBVIOUS
  <2>2. PICK x : x = [ptr |-> [vm |-> m, at |-> at, reg |-> i], idx |-> i, value |-> None] OBVIOUS
  <2>3. PICK o2, ns : o2 = [outs EXCEPT ![new] = x] /\ ns = InsertAt(os, n + 1, new) OBVIOUS
  <2>4. t = [outs |-> o2, opens |-> ns, found |-> Append(s.found, new)]
    BY <1>1, <1>2, <1>5, <1>10, <2>1, <2>2, <2>3 DEF FindOuter
  <2>5. t.outs = o2 /\ t.opens = ns /\ t.found = Append(s.found, new) BY <2>4
  <2>6. o2[new] = x /\ x.idx = i /\ x.ptr.at = at BY <1>8, <2>2, <2>3
  <2>7. \A o \in Outers : o # new => o2[o] = outs[o] BY <1>8, <2>3
  <2>8. PICK k : k = n + 1 OBVIOUS
  <2>9. k \in 1 .. Len(os) + 1 /\ k - 1 = n BY <1>2, <1>4, <1>6, <2>8
  <2>10. /\ Len(ns) = l + 1 /\ ns[k] = new
         /\ \A j \in 1 .. k - 1 : ns[j] = os[j]
         /\ \A j \in k + 1 .. l + 1 : ns[j] = os[j - 1]
    <3>1. /\ InsertAt(os, k, new) \in Seq(Outers) /\ Len(InsertAt(os, k, new)) = Len(os) + 1
          /\ \A j \in 1 .. k - 1 : InsertAt(os, k, new)[j] = os[j]
          /\ InsertAt(os, k, new)[k] = new
          /\ \A j \in k + 1 .. Len(os) + 1 : InsertAt(os, k, new)[j] = os[j - 1]
      BY <1>4, <2>9, InsertIs, SMTT(60)
    <3> QED BY <1>2, <2>3, <2>8, <3>1
  <2>11. ASSUME NEW j \in 1 .. Len(ns) PROVE ns[j] = new \/ \E h \in 1 .. l : ns[j] = os[h]
    <3>1. j \in 1 .. k - 1 \/ j = k \/ j \in k + 1 .. l + 1 BY <1>4, <1>6, <2>8, <2>10
    <3>2. CASE j \in 1 .. k - 1
      <4>1. j \in 1 .. l BY <1>4, <1>6, <2>8, <3>2
      <4> QED BY <2>10, <3>2, <4>1
    <3>3. CASE j \in k + 1 .. l + 1
      <4>1. PICK h : h = j - 1 OBVIOUS
      <4>2. h \in 1 .. l BY <1>4, <1>6, <2>8, <3>3, <4>1
      <4> QED BY <2>10, <3>3, <4>1, <4>2
    <3> QED BY <2>10, <3>1, <3>2, <3>3
  <2>12. ASSUME NEW h \in 1 .. l PROVE \E j \in 1 .. Len(ns) : ns[j] = os[h]
    <3>1. CASE h <= n
      <4>1. h \in 1 .. Len(ns) /\ h \in 1 .. k - 1 BY <1>4, <1>6, <2>8, <2>10, <3>1
      <4> QED BY <2>10, <4>1
    <3>2. CASE n < h
      <4>1. PICK j : j = h + 1 OBVIOUS
      <4>2. j \in 1 .. Len(ns) /\ j \in k + 1 .. l + 1 /\ j - 1 = h BY <1>4, <1>6, <2>8, <2>10, <3>2, <4>1
      <4>3. ns[j] = os[h] BY <2>10, <4>2
      <4> QED BY <4>2, <4>3
    <3> QED BY <1>4, <1>6, <3>1, <3>2
  <2>13. ASSUME NEW j \in 1 .. Len(ns)
         PROVE  \/ o2[ns[j]].ptr.at = mem[m].at
                \/ \E h \in 1 .. l : ns[j] = os[h] /\ o2[ns[j]] = outs[os[h]]
    <3>1. CASE ns[j] = new BY <2>1, <2>6, <3>1
    <3>2. CASE ns[j] # new
      <4>1. PICK h \in 1 .. l : ns[j] = os[h] BY <2>11, <3>2
      <4>2. os[h] \in Outers BY <1>2, <1>4
      <4> QED BY <2>7, <3>2, <4>1, <4>2
    <3> QED BY <3>1, <3>2
  <2>14. k \in 1 .. Len(ns) BY <1>2, <2>9, <2>10
  <2>15. Finds(s, t, m, i, new) BY <1>1, <1>2, <2>5, <2>6, <2>10, <2>12, <2>13, <2>14 DEF Finds
  <2> QED BY <2>15
<1> QED BY <1>9, <1>10

\* The outers s, found for the sources up to i.
SourceFound(s, m, x, w) ==
    IF x.kind = "local"
    THEN (\E k \in 1 .. Len(s.opens) : s.opens[k] = w) /\ s.outs[w].idx = Local(m, x.n)
    ELSE w = closure[Frame(m).closure][x.n].outer
AllFound(s, m, src, i) ==
    /\ "found" \in DOMAIN s /\ s.found \in Seq(Outers) /\ Len(s.found) = i
    /\ \A o \in Outers : outer[o] # None => s.outs[o] = outer[o]
    /\ \A k \in 1 .. Len(opens[m]) : \E j \in 1 .. Len(s.opens) : s.opens[j] = opens[m][k]
    /\ \A k \in 1 .. Len(s.opens) : s.outs[s.opens[k]].ptr.at = mem[m].at
    /\ \A j \in 1 .. i : SourceFound(s, m, src[j], s.found[j])

\* What a source is.
LEMMA SourceIs ==
    ASSUME OInv, VInv, NEW m \in VMs, Running(m), NEW x \in Sources(m)
    PROVE  /\ x.kind = "local" => Local(m, x.n) \in Locals(m) /\ Local(m, x.n) \in Nat /\ Local(m, x.n) < FrameTop(frames[m])
           /\ x.kind # "local" => closure[Frame(m).closure][x.n] \in Entries
PROOF
<1>1. PICK f, gs : f = Frame(m) /\ gs = frames[m] OBVIOUS
<1>2. PICK n \in 0 .. Len(gs) : n + 1 = Len(gs) /\ n < Len(gs) /\ gs[n + 1] = f BY <1>1, LastFrame
<1>3. n + 1 \in 1 .. Len(gs)
  <2>1. FramesOk(gs) BY <1>1, OwnFrames
  <2>2. PICK S : gs \in Seq(S) BY <2>1 DEF FramesOk
  <2> QED BY <1>2, <2>2
<1>4. ASSUME x.kind = "local"
      PROVE  Local(m, x.n) \in Locals(m) /\ Local(m, x.n) \in Nat /\ Local(m, x.n) < FrameTop(frames[m])
  <2>1. x.n \in 0 .. f.nlocals - 1 BY <1>1, <1>4 DEF Sources
  <2>2. FrameOk(f) BY <1>1, OwnBlocks
  <2>3. f.base \in Nat /\ f.nlocals \in Nat BY <2>2, FrameIs
  <2>4. PICK b, w, y, r : b = f.base /\ w = f.nlocals /\ y = x.n /\ r = b + y OBVIOUS
  <2>5. r \in b .. b + w - 1 /\ r = Local(m, x.n) BY <1>1, <2>1, <2>3, <2>4 DEF Local
  <2>6. InFrame(r, f) BY <2>4, <2>5 DEF InFrame
  <2>7. FramesOk(gs) /\ \A q \in LocalRegs(gs) : q \in Locals(m) /\ q \in Nat /\ q < FrameTop(gs)
    BY <1>1, OwnFrames
  <2>8. r \in LocalRegs(gs) BY <1>2, <1>3, <2>6, <2>7, LocalIs
  <2> QED BY <1>1, <2>5, <2>7, <2>8
<1>5. ASSUME x.kind # "local" PROVE closure[Frame(m).closure][x.n] \in Entries
  <2>1. f.closure # None /\ x.n \in DOMAIN closure[f.closure] BY <1>1, <1>5 DEF Sources
  <2>2. Runs(f, closure) BY <1>1, <1>2, <1>3 DEF VInv, ClosuresOk
  <2>3. f.closure \in Closures /\ closure[f.closure] # None BY <2>1, <2>2 DEF Runs
  <2>4. closure[f.closure][x.n] \in Range(closure[f.closure]) BY <2>1 DEF Range
  <2> QED BY <1>1, <2>3, <2>4, EntryIs
<1> QED BY <1>4, <1>5

\* The outers t after the source i, which follows h of them.
FoundNext(s, t, m, src, new, h, i) ==
    /\ h \in Nat /\ h + 1 = i /\ t = NextFound(s, m, src, new, i)
    /\ Listed(s.outs, s.opens, m, FrameTop(frames[m])) /\ Apart(s, m) /\ AllFound(s, m, src, h)
    /\ src[i] \in Sources(m) /\ new[i] \in Outers /\ outer[new[i]] = None /\ s.outs[new[i]] = None

LEMMA NextAllFound ==
    ASSUME OInv, VInv, NEW m \in VMs, Running(m), NEW src, NEW new, NEW h, NEW i, NEW s, NEW t,
           FoundNext(s, t, m, src, new, h, i)
    PROVE  AllFound(t, m, src, i)
PROOF
<1>0. /\ t = NextFound(s, m, src, new, i)
      /\ Listed(s.outs, s.opens, m, FrameTop(frames[m])) /\ Apart(s, m) /\ AllFound(s, m, src, h)
      /\ src[i] \in Sources(m) /\ new[i] \in Outers /\ outer[new[i]] = None /\ s.outs[new[i]] = None
  BY DEF FoundNext
<1>1. PICK x : x = src[i] OBVIOUS
<1>2. x \in Sources(m) BY <1>0, <1>1
<1>3. s.found \in Seq(Outers) /\ Len(s.found) = h /\ "found" \in DOMAIN s BY <1>0 DEF AllFound
<1>4. h \in Nat /\ h + 1 = i /\ \A j \in 1 .. i : j \in 1 .. h \/ j = i BY DEF FoundNext
<1>5. ASSUME NEW w \in Outers, t.found = Append(s.found, w)
      PROVE  t.found \in Seq(Outers) /\ Len(t.found) = i /\ t.found[i] = w /\ \A j \in 1 .. h : t.found[j] = s.found[j]
  BY <1>3, <1>4, <1>5, AppendProperties
<1>6. ASSUME NEW j \in 1 .. h PROVE SourceFound(s, m, src[j], s.found[j]) BY <1>0 DEF AllFound
<1>7. CASE x.kind = "local"
  <2>1. PICK r, o : r = Local(m, x.n) /\ o = new[i] OBVIOUS
  <2>2. t = FindOuter(s, m, r, o) BY <1>0, <1>1, <1>7, <2>1 DEF NextFound
  <2>3. o \in Outers /\ outer[o] = None /\ s.outs[o] = None BY <1>0, <2>1
  <2>4. r \in Nat /\ r < FrameTop(frames[m]) BY <1>2, <1>7, <2>1, SourceIs
  <2>5. FrameTop(frames[m]) \in Int BY TopIs
  <2>6. PICK w : Finds(s, t, m, r, w) BY <1>0, <1>3, <2>2, <2>3, <2>4, <2>5, FindOuterFinds
  <2>7. \A p \in Outers \ {o} : t.outs[p] = s.outs[p] BY <1>0, <2>2, <2>3, <2>4, <2>5, FindOuterOk
  <2>8. t.found \in Seq(Outers) /\ Len(t.found) = i /\ t.found[i] = w /\ \A j \in 1 .. h : t.found[j] = s.found[j]
    BY <1>5, <2>6 DEF Finds
  <2>9. "found" \in DOMAIN t
    <3>1. PICK n : n = Place(s, r) OBVIOUS
    <3> QED BY <1>3, <2>2 DEF FindOuter
  <2>10. \A p \in Outers : outer[p] # None => t.outs[p] = outer[p] BY <1>0, <2>3, <2>7 DEF AllFound
  <2>11. \A q \in 1 .. Len(s.opens) : s.opens[q] \in Outers /\ s.opens[q] # o
    <3> TAKE q \in 1 .. Len(s.opens)
    <3>1. Opened(s.outs[s.opens[q]], m, FrameTop(frames[m])) BY <1>0 DEF Listed
    <3>2. s.outs[s.opens[q]] # None BY <3>1, OpenedIsSome
    <3>3. s.opens[q] \in Outers BY <1>0 DEF Listed
    <3> QED BY <2>3, <3>2, <3>3
  <2>12. ASSUME NEW j \in 1 .. h PROVE SourceFound(t, m, src[j], t.found[j])
    <3>1. PICK y, u : y = src[j] /\ u = s.found[j] OBVIOUS
    <3>2. SourceFound(s, m, y, u) /\ t.found[j] = u BY <1>6, <2>8, <3>1
    <3>3. CASE y.kind = "local"
      <4>1. PICK q \in 1 .. Len(s.opens) : s.opens[q] = u BY <3>2, <3>3 DEF SourceFound
      <4>2. t.outs[u] = s.outs[u] BY <2>7, <2>11, <4>1
      <4>3. \E p \in 1 .. Len(t.opens) : t.opens[p] = u BY <2>6, <4>1 DEF Finds
      <4>4. s.outs[u].idx = Local(m, y.n) BY <3>2, <3>3 DEF SourceFound
      <4>5. SourceFound(t, m, y, u) BY <3>3, <4>2, <4>3, <4>4 DEF SourceFound
      <4> QED BY <3>1, <3>2, <4>5
    <3>4. CASE y.kind # "local"
      <4>1. SourceFound(t, m, y, u) BY <3>2, <3>4 DEF SourceFound
      <4> QED BY <3>1, <3>2, <4>1
    <3> QED BY <3>3, <3>4
  <2>13. SourceFound(t, m, x, w) BY <1>7, <2>1, <2>6 DEF SourceFound, Finds
  <2>14. \A q \in 1 .. Len(opens[m]) : \E j \in 1 .. Len(t.opens) : t.opens[j] = opens[m][q]
    <3> TAKE q \in 1 .. Len(opens[m])
    <3>1. PICK p \in 1 .. Len(s.opens) : s.opens[p] = opens[m][q] BY <1>0 DEF AllFound
    <3> QED BY <2>6, <3>1 DEF Finds
  <2>15. ASSUME NEW q \in 1 .. Len(t.opens) PROVE t.outs[t.opens[q]].ptr.at = mem[m].at
    <3>1. CASE \E p \in 1 .. Len(s.opens) : t.opens[q] = s.opens[p] /\ t.outs[t.opens[q]] = s.outs[s.opens[p]]
      <4>1. PICK p \in 1 .. Len(s.opens) : t.outs[t.opens[q]] = s.outs[s.opens[p]] BY <3>1
      <4>2. s.outs[s.opens[p]].ptr.at = mem[m].at BY <1>0 DEF AllFound
      <4> QED BY <4>1, <4>2
    <3> QED BY <2>6, <3>1 DEF Finds
  <2>16. \A j \in 1 .. i : SourceFound(t, m, src[j], t.found[j]) BY <1>1, <1>4, <2>8, <2>12, <2>13
  <2> QED BY <2>8, <2>9, <2>10, <2>14, <2>15, <2>16 DEF AllFound
<1>8. CASE x.kind # "local"
  <2>1. PICK z : z = closure[Frame(m).closure][x.n].outer OBVIOUS
  <2>2. t = [s EXCEPT !.found = Append(@, z)] BY <1>0, <1>1, <1>8, <2>1 DEF NextFound
  <2>3. t.outs = s.outs /\ t.opens = s.opens /\ "found" \in DOMAIN t /\ t.found = Append(s.found, z)
    BY <1>0, <1>3, <2>2 DEF Apart
  <2>4. z \in Outers
    <3>1. closure[Frame(m).closure][x.n] \in Entries BY <1>2, <1>8, SourceIs
    <3> QED BY <2>1, <3>1 DEF VInv, ClosuresOk
  <2>5. t.found \in Seq(Outers) /\ Len(t.found) = i /\ t.found[i] = z /\ \A j \in 1 .. h : t.found[j] = s.found[j]
    BY <1>5, <2>3, <2>4
  <2>6. \A y, u : SourceFound(s, m, y, u) => SourceFound(t, m, y, u) BY <2>3 DEF SourceFound
  <2>7. SourceFound(t, m, x, z) BY <1>8, <2>1 DEF SourceFound
  <2>8. \A j \in 1 .. i : SourceFound(t, m, src[j], t.found[j]) BY <1>1, <1>4, <1>6, <2>5, <2>6, <2>7
  <2> QED BY <1>0, <2>3, <2>5, <2>8 DEF AllFound
<1> QED BY <1>7, <1>8

LEMMA FindOutersFinds ==
    ASSUME OInv, VInv, NEW m \in VMs, Running(m), NEW k \in Nat, NEW src \in [1..k -> Sources(m)],
           NEW new \in [1..k -> {o \in Outers : outer[o] = None}], IsInjective(new)
    PROVE  AllFound(FindOuters(m, src, new), m, src, k)
PROOF
<1>1. PICK f : FoundOk(f, m, src, new, k) BY FoundAll
<1> DEFINE Ok(i) == AllFound(f[i], m, src, i)
<1>2. Ok(0)
  <2>1. PICK s : s = f[0] OBVIOUS
  <2>2. s = NoneFound(m) BY <1>1, <2>1 DEF FoundOk
  <2>3. s.outs = outer /\ s.opens = opens[m] /\ s.found = <<>> /\ "found" \in DOMAIN s BY <2>2 DEF NoneFound
  <2>4. s.found \in Seq(Outers) /\ Len(s.found) = 0 BY <2>3
  <2>5. \A q \in 1 .. Len(opens[m]) : outer[opens[m][q]].ptr.at = mem[m].at BY DEF VInv
  <2>6. AllFound(s, m, src, 0) BY <2>3, <2>4, <2>5 DEF AllFound
  <2> QED BY <2>1, <2>6
<1>3. ASSUME NEW i \in 1 .. k, Ok(i - 1) PROVE Ok(i)
  <2>1. PICK s, t, h : s = f[i - 1] /\ t = f[i] /\ h = i - 1 OBVIOUS
  <2>2. h \in 0 .. k /\ h \in Nat /\ h + 1 = i BY <2>1
  <2>3. t = NextFound(s, m, src, new, i) BY <1>1, <2>1 DEF FoundOk
  <2>4. /\ Listed(s.outs, s.opens, m, FrameTop(frames[m])) /\ Apart(s, m)
        /\ \A o \in Outers : (\A j \in 1 .. h : new[j] # o) => s.outs[o] = outer[o]
    BY <1>1, <2>1, <2>2 DEF FoundOk
  <2>5. s.outs[new[i]] = None
    <3>1. new[i] \in Outers /\ outer[new[i]] = None OBVIOUS
    <3>2. \A j \in 1 .. h : new[j] # new[i]
      <4> TAKE j \in 1 .. h
      <4>1. j \in 1 .. k /\ j # i BY <2>1
      <4>2. DOMAIN new = 1 .. k OBVIOUS
      <4> QED BY <4>1, <4>2 DEF IsInjective
    <3> QED BY <2>4, <3>1, <3>2
  <2>6. AllFound(s, m, src, h) BY <1>3, <2>1
  <2>7. FoundNext(s, t, m, src, new, h, i) BY <2>2, <2>3, <2>4, <2>5, <2>6 DEF FoundNext
  <2>8. AllFound(t, m, src, i) BY <2>7, NextAllFound
  <2> QED BY <2>1, <2>8
<1>4. \A i \in 0 .. k : Ok(i)
  <2> DEFINE Bad == {i \in 0 .. k : ~Ok(i)}
  <2> HIDE DEF Ok
  <2> SUFFICES ASSUME Bad # {} PROVE FALSE OBVIOUS
  <2>1. Bad \subseteq Nat OBVIOUS
  <2>2. PICK i \in Bad : \A j \in Bad : i <= j BY <2>1, Least
  <2>3. i # 0 BY <1>2, <2>2
  <2>4. i - 1 \in 0 .. k /\ i \in 1 .. k /\ ~(i <= i - 1) BY <2>2, <2>3
  <2>5. Ok(i - 1) BY <2>2, <2>4
  <2>6. Ok(i) BY <1>3, <2>4, <2>5
  <2> QED BY <2>2, <2>6
<1>5. k \in 0 .. k OBVIOUS
<1> QED BY <1>1, <1>4, <1>5 DEF FoundOk

\* The free variables q of a new closure of m.
Made(m, s, src, k, q) ==
    /\ DOMAIN q = 1 .. k
    /\ \A i \in 1 .. k : q[i] = [outer |-> s.found[i],
                                 var |-> IF src[i].kind = "local" THEN stack[m][Local(m, src[i].n)]
                                         ELSE closure[Frame(m).closure][src[i].n].var]

\* A free variable of a new closure: a local, with its open outer, or one of the
\* function that makes it.
NewEntry(s, m, e) ==
    \/ \E r \in Locals(m) : /\ e.var = stack[m][r] /\ e.outer \in Outers /\ s.outs[e.outer].idx = r
                            /\ \E k \in 1 .. Len(s.opens) : s.opens[k] = e.outer
    \/ \E d \in Entries : e.var = d.var /\ e.outer = d.outer

LEMMA MadeNew ==
    ASSUME OInv, VInv, NEW m \in VMs, Running(m), NEW k \in Nat, NEW src \in [1..k -> Sources(m)],
           NEW s, AllFound(s, m, src, k), NEW q, Made(m, s, src, k, q), NEW e \in Range(q)
    PROVE  NewEntry(s, m, e)
PROOF
<1>1. PICK i \in 1 .. k : q[i] = e BY DEF Made, Range
<1>2. PICK x : x = src[i] OBVIOUS
<1>3. x \in Sources(m) BY <1>2
<1>4. PICK u, w : /\ u = s.found[i]
                  /\ w = IF x.kind = "local" THEN stack[m][Local(m, x.n)] ELSE closure[Frame(m).closure][x.n].var
  OBVIOUS
<1>5. e = [outer |-> u, var |-> w] BY <1>1, <1>2, <1>4 DEF Made
<1>6. e.outer = u /\ e.var = w BY <1>5
<1>7. SourceFound(s, m, x, u) /\ u \in Outers BY <1>2, <1>4 DEF AllFound
<1>8. CASE x.kind = "local"
  <2>1. Local(m, x.n) \in Locals(m) BY <1>3, <1>8, SourceIs
  <2>2. w = stack[m][Local(m, x.n)] BY <1>4, <1>8
  <2> QED BY <1>6, <1>7, <1>8, <2>1, <2>2 DEF NewEntry, SourceFound
<1>9. CASE x.kind # "local"
  <2>1. closure[Frame(m).closure][x.n] \in Entries BY <1>3, <1>9, SourceIs
  <2>2. w = closure[Frame(m).closure][x.n].var /\ u = closure[Frame(m).closure][x.n].outer
    BY <1>4, <1>7, <1>9 DEF SourceFound
  <2> QED BY <1>6, <2>1, <2>2 DEF NewEntry
<1> QED BY <1>8, <1>9

LEMMA MakeClosureReach ==
    ASSUME OInv, OInv', VInv, NEW m \in VMs, NEW c \in Closures, MakeClosure(m, c)
    PROVE  VInv'
PROOF
<1>1. Running(m) /\ closure[c] = None /\ mem' = mem /\ gen' = gen /\ loose' = loose BY DEF MakeClosure
<1>2. PICK k \in 1..MaxCaptures :
        \E src \in [1..k -> Sources(m)], new \in [1..k -> {o \in Outers : outer[o] = None}] :
           /\ IsInjective(new) /\ Settle(m, stack[m], frames[m], FindOuters(m, src, new))
           /\ \E q : Made(m, FindOuters(m, src, new), src, k, q) /\ closure' = [closure EXCEPT ![c] = q]
  BY DEF MakeClosure, Made
<1>3. PICK src \in [1..k -> Sources(m)], new \in [1..k -> {o \in Outers : outer[o] = None}] :
        /\ IsInjective(new) /\ Settle(m, stack[m], frames[m], FindOuters(m, src, new))
        /\ \E q : Made(m, FindOuters(m, src, new), src, k, q) /\ closure' = [closure EXCEPT ![c] = q]
  BY <1>2
<1>4. PICK s, fs, regs : s = FindOuters(m, src, new) /\ fs = frames[m] /\ regs = stack[m] OBVIOUS
<1>5. PICK q : Made(m, s, src, k, q) /\ closure' = [closure EXCEPT ![c] = q] BY <1>3, <1>4
<1>6. k \in Nat BY BoundsAssumption
<1>7. AllFound(s, m, src, k) BY <1>1, <1>3, <1>4, <1>6, FindOutersFinds
<1>8. Listed(s.outs, s.opens, m, FrameTop(frames[m])) BY <1>1, <1>3, <1>4, <1>6, FindOutersOk
<1>9. s.opens \in Seq(Outers) BY <1>8 DEF Listed
<1>10. FramesOk(fs) /\ Nested(fs) /\ LocalRegs(fs) = Locals(m) BY <1>4, OwnFrames DEF Locals
<1>11. Settled(m, regs, fs, s) BY <1>3, <1>4, <1>9, <1>10, SettleAll
<1>12. /\ frames'[m] = frames[m] /\ opens'[m] = s.opens
       /\ \A i \in Locals(m) : stack'[m][i] = stack[m][i]
       /\ \A n \in VMs \ {m} : frames'[n] = frames[n] /\ opens'[n] = opens[n] /\ stack'[n] = stack[n]
       /\ DOMAIN stack' = VMs /\ \A n \in VMs : DOMAIN stack'[n] = Registers
       /\ \A j \in 1 .. Len(s.opens) : outer'[s.opens[j]] = s.outs[s.opens[j]]
       /\ \A n \in VMs \ {m} : \A j \in 1 .. Len(opens[n]) : outer'[opens[n][j]] = s.outs[opens[n][j]]
       /\ \A e \in Entries : e.outer \in Outers => outer'[e.outer] = s.outs[e.outer]
  BY <1>4, <1>10, <1>11 DEF Settled
<1>13. \A n \in VMs : frames'[n] = frames[n] BY <1>12
<1>14. \A n \in VMs : Locals(n)' = Locals(n) BY <1>13 DEF Locals
<1>15. \A n \in VMs : \A i \in Locals(n) : stack'[n][i] = stack[n][i] BY <1>12
<1>16. StackOk /\ SavedOk /\ ClosuresOk BY DEF VInv
<1>17. DOMAIN closure = Closures BY <1>16 DEF ClosuresOk
<1>18. \A d \in Closures : closure'[d] = IF d = c THEN q ELSE closure[d] BY <1>5, <1>17
<1>19. \A o \in Outers : outer[o] # None => s.outs[o] = outer[o] BY <1>7 DEF AllFound
<1>20. ASSUME NEW e \in Entries' PROVE e \in Entries \/ NewEntry(s, m, e)
  <2>1. PICK d \in Closures : closure'[d] # None /\ e \in Range(closure'[d]) BY <1>20 DEF Entries
  <2>2. CASE d = c
    <3>1. e \in Range(q) BY <1>18, <2>1, <2>2
    <3> QED BY <1>1, <1>3, <1>5, <1>6, <1>7, <3>1, MadeNew
  <2>3. CASE d # c BY <1>18, <2>1, <2>3, EntryIs
  <2> QED BY <2>2, <2>3
\* What was reached is still.
<1>21. ASSUME NEW e \in Entries, Reaches(e.outer, e.var) PROVE Reaches(e.outer, e.var)'
  <2>1. PICK o, v : o = e.outer /\ v = e.var OBVIOUS
  <2>2. o \in Outers /\ outer[o] # None BY <1>16, <1>21, <2>1 DEF ClosuresOk, Reaches
  <2>3. outer'[o] = outer[o] BY <1>12, <1>19, <2>1, <2>2
  <2>4. HasValue(o, v) => HasValue(o, v)' BY <1>14, <1>15, <2>3 DEF HasValue
  <2>5. ASSUME NEW n \in VMs, PointsAt(o, n, v) PROVE PointsAt(o, n, v)'
    <3>1. \E j \in 1 .. Len(opens'[n]) : opens'[n][j] = o
      <4>1. PICK h \in 1 .. Len(opens[n]) : opens[n][h] = o BY <2>5 DEF PointsAt
      <4>2. CASE n = m
        <5>1. \E j \in 1 .. Len(s.opens) : s.opens[j] = opens[m][h] BY <1>7, <4>1, <4>2 DEF AllFound
        <5> QED BY <1>12, <4>1, <4>2, <5>1
      <4> QED BY <1>12, <4>1, <4>2
    <3>2. outer[o].idx \in Locals(n) /\ stack[n][outer[o].idx] = v BY <2>5 DEF PointsAt
    <3>3. outer'[o].idx \in Locals(n)' /\ stack'[n][outer'[o].idx] = v BY <1>14, <1>15, <2>3, <3>2
    <3> QED BY <3>1, <3>3 DEF PointsAt
  <2>6. Reaches(o, v)' BY <1>21, <2>1, <2>2, <2>3, <2>4, <2>5 DEF Reaches
  <2> QED BY <2>1, <2>6
<1>22. ASSUME NEW e \in Entries', e.var \notin loose' PROVE Reaches(e.outer, e.var)'
  <2>1. CASE \E d \in Entries : e.var = d.var /\ e.outer = d.outer
    <3>1. PICK d \in Entries : e.var = d.var /\ e.outer = d.outer BY <2>1
    <3>2. d.var \notin loose BY <1>1, <1>22, <3>1
    <3>3. Reaches(d.outer, d.var) BY <3>2 DEF VInv
    <3>4. Reaches(d.outer, d.var)' BY <1>21, <3>3
    <3> QED BY <3>1, <3>4
  <2>2. ASSUME NEW r \in Locals(m), e.var = stack[m][r], e.outer \in Outers, s.outs[e.outer].idx = r,
               NEW j \in 1 .. Len(s.opens), s.opens[j] = e.outer
        PROVE  Reaches(e.outer, e.var)'
    <3>1. PICK o, v : o = e.outer /\ v = e.var OBVIOUS
    <3>2. outer'[o] = s.outs[o] /\ opens'[m] = s.opens BY <1>12, <2>2, <3>1
    <3>3. outer'[o].idx = r /\ r \in Locals(m)' /\ stack'[m][r] = v BY <1>14, <1>15, <2>2, <3>1, <3>2
    <3>4. PointsAt(o, m, v)' BY <2>2, <3>1, <3>2, <3>3 DEF PointsAt
    <3>5. outer'[o] # None
      <4>1. Opened(s.outs[o], m, FrameTop(frames[m])) BY <1>8, <2>2, <3>1 DEF Listed
      <4> QED BY <3>2, <4>1, OpenedIsSome
    <3>6. Reaches(o, v)' BY <3>4, <3>5 DEF Reaches
    <3> QED BY <3>1, <3>6
  <2> QED BY <1>20, <2>1, <2>2 DEF NewEntry
<1>23. ASSUME NEW e \in Entries' PROVE e.outer \in Outers /\ e.var \in Vars
  BY <1>16, <1>20 DEF NewEntry, ClosuresOk, StackOk
<1>24. ASSUME NEW g \in Suspended, NEW i \in 1 .. Len(gen[g].regs), gen[g].regs[i] \in Captured' PROVE gen[g].regs[i] \in loose
  <2>1. PICK v : v = gen[g].regs[i] OBVIOUS
  <2>2. PICK e \in Entries' : e.var = v BY <1>24, <2>1 DEF Captured
  <2>3. \A r \in Locals(m) : stack[m][r] # v BY <1>16, <2>1 DEF SavedOk
  <2>4. v \in Captured BY <1>20, <2>2, <2>3 DEF NewEntry, Captured
  <2> QED BY <1>16, <2>1, <2>4 DEF SavedOk
<1>25. Suspended' = Suspended BY <1>1 DEF Suspended
<1>26. SavedOk'
  <2>1. \A g \in Suspended : GenOk(gen[g]) BY <1>16 DEF SavedOk
  <2>2. \A g, h \in Suspended : \A i \in 1 .. Len(gen[g].regs), j \in 1 .. Len(gen[h].regs) :
            gen[g].regs[i] = gen[h].regs[j] => g = h /\ i = j
    BY <1>16 DEF SavedOk
  <2>3. \A g \in Suspended : \A i \in 1 .. Len(gen[g].regs) : \A n \in VMs : \A j \in Locals(n)' :
            stack'[n][j] # gen[g].regs[i]
    BY <1>14, <1>15, <1>16 DEF SavedOk
  <2> QED BY <1>1, <1>24, <1>25, <2>1, <2>2, <2>3, SMTT(30) DEF SavedOk
<1>27. StackOk'
  <2>1. \A n \in VMs : \A i \in Locals(n)' : stack'[n][i] \in Vars BY <1>14, <1>15, <1>16 DEF StackOk
  <2>2. \A n, p \in VMs : \A i \in Locals(n)', j \in Locals(p)' :
           stack'[n][i] = stack'[p][j] => n = p /\ i = j
    BY <1>14, <1>15, <1>16 DEF StackOk
  <2> QED BY <1>12, <2>1, <2>2 DEF StackOk
<1>28. \A f : Runs(f, closure) => Runs(f, closure')
  <2>1. SUFFICES ASSUME NEW f, Runs(f, closure), f.closure # None PROVE closure'[f.closure] # None /\ f.closure \in Closures
    BY DEF Runs
  <2>2. f.closure \in Closures /\ closure[f.closure] # None BY <2>1 DEF Runs
  <2> QED BY <1>1, <1>18, <2>2
<1>29. ClosuresOk'
  <2>1. \A n \in VMs : \A j \in 1 .. Len(frames'[n]) : Runs(frames'[n][j], closure') BY <1>13, <1>16, <1>28 DEF ClosuresOk
  <2>2. \A g \in Suspended' : Runs(gen'[g].frame, closure') BY <1>1, <1>16, <1>25, <1>28 DEF ClosuresOk
  <2>3. DOMAIN closure' = Closures BY <1>5, <1>17
  <2> QED BY <1>23, <2>1, <2>2, <2>3 DEF ClosuresOk
<1>30. ASSUME NEW n \in VMs, NEW j \in 1 .. Len(opens'[n]) PROVE outer'[opens'[n][j]].ptr.at = mem'[n].at
  <2>1. CASE n = m
    <3>1. opens'[m] = s.opens /\ j \in 1 .. Len(s.opens) BY <1>12, <2>1
    <3>2. s.outs[s.opens[j]].ptr.at = mem[m].at BY <1>7, <3>1 DEF AllFound
    <3> QED BY <1>1, <1>12, <2>1, <3>1, <3>2
  <2>2. CASE n # m
    <3>1. opens'[n] = opens[n] /\ j \in 1 .. Len(opens[n]) BY <1>12, <2>2
    <3>2. outer'[opens[n][j]] = s.outs[opens[n][j]] BY <1>12, <2>2, <3>1
    <3>3. opens[n][j] \in Outers /\ outer[opens[n][j]].ptr.at = mem[n].at BY <3>1, OpenIs
    <3>4. outer[opens[n][j]] # None
      <4>1. Listed(outer, opens[n], n, FrameTop(frames[n])) BY DEF OInv
      <4>2. Opened(outer[opens[n][j]], n, FrameTop(frames[n])) BY <3>1, <4>1 DEF Listed
      <4> QED BY <4>2, OpenedIsSome
    <3> QED BY <1>1, <1>19, <3>1, <3>2, <3>3, <3>4
  <2> QED BY <2>1, <2>2
<1>31. \A n \in VMs : Nested(frames'[n]) BY <1>13 DEF VInv
<1> QED BY <1>22, <1>26, <1>27, <1>29, <1>30, <1>31 DEF VInv

-----------------------------------------------------------------------------
(* The theorems.                                                           *)

LEMMA InitReach == Init => VInv
PROOF
<1>1. SUFFICES ASSUME Init PROVE VInv OBVIOUS
<1>2. PICK e : e = <<>> OBVIOUS
<1>3. \A m \in VMs : frames[m] = e /\ opens[m] = e BY <1>1, <1>2 DEF Init
<1>4. Nested(e) /\ LocalRegs(e) = {} /\ Len(e) = 0 BY <1>2, EmptyFrames
<1>5. 1 .. Len(e) = {} BY <1>4
<1>6. \A m \in VMs : Locals(m) = {} BY <1>3, <1>4 DEF Locals
<1>7. Suspended = {} BY <1>1 DEF Init, Suspended
<1>8. Entries = {} /\ DOMAIN closure = Closures BY <1>1 DEF Init, Entries
<1>9. DOMAIN stack = VMs /\ \A m \in VMs : DOMAIN stack[m] = Registers BY <1>1 DEF Init
<1>10. StackOk BY <1>6, <1>9 DEF StackOk
<1>11. SavedOk BY <1>7 DEF SavedOk
<1>12. ClosuresOk BY <1>3, <1>5, <1>7, <1>8 DEF ClosuresOk
<1> QED BY <1>3, <1>4, <1>5, <1>8, <1>10, <1>11, <1>12 DEF VInv

LEMMA StepReach ==
    ASSUME OInv, VInv, [Next]_vars
    PROVE  VInv'
PROOF
<1>0. OInv' BY StepInv
<1>1. CASE UNCHANGED vars BY <1>1, SameReach
<1>2. ASSUME NEW m \in VMs, NEW c \in Callees, NEW v \in Unused, Call(m, c, v) PROVE VInv' BY <1>0, <1>2, CallReach
<1>3. ASSUME NEW m \in VMs, NEW c \in Callees, NEW v \in Unused, TailCall(m, c, v) PROVE VInv'
  BY <1>0, <1>3, TailCallReach
<1>4. ASSUME NEW m \in VMs, NEW c \in Callees, NEW v \in Unused, NEW g \in Gens, MakeGenerator(m, c, g, v)
      PROVE  VInv'
  BY <1>0, <1>4, MakeGeneratorReach
<1>5. ASSUME NEW m \in VMs, Return(m) PROVE VInv' BY <1>0, <1>5, ReturnReach
<1>6. ASSUME NEW m \in VMs, ThrowOut(m) PROVE VInv' BY <1>0, <1>6, ThrowOutReach
<1>7. ASSUME NEW m \in VMs, Catch(m) PROVE VInv' BY <1>0, <1>7, CatchReach
<1>8. ASSUME NEW m \in VMs, Declare(m) PROVE VInv' BY <1>0, <1>8, DeclareOnlyReach
<1>9. ASSUME NEW m \in VMs, EndBlock(m) \/ Break(m) PROVE VInv' BY <1>0, <1>9, EndBlockReach
<1>10. ASSUME NEW m \in VMs, NEW try \in BOOLEAN, BeginBlock(m, try) PROVE VInv' BY <1>0, <1>10, BeginBlockReach
<1>11. ASSUME NEW m \in VMs, NEW c \in Closures, MakeClosure(m, c) PROVE VInv' BY <1>0, <1>11, MakeClosureReach
<1>12. ASSUME NEW m \in VMs, Yield(m) PROVE VInv' BY <1>0, <1>12, YieldReach
<1>13. ASSUME NEW m \in VMs, NEW g \in Gens, Resume(m, g) PROVE VInv' BY <1>0, <1>13, ResumeReach
<1>14. ASSUME NEW m \in VMs, Finalize(m) PROVE VInv' BY <1>0, <1>14, FinalizeReach
<1>15. ASSUME NEW c \in Closures, NEW d \in Closures, CloneClosure(c, d) PROVE VInv' BY <1>15, CloneClosureReach
<1>16. ASSUME NEW c \in Closures, DropClosure(c) PROVE VInv' BY <1>16, DropClosureReach
<1>17. ASSUME NEW g \in Gens, DropGenerator(g) PROVE VInv' BY <1>17, DropGeneratorReach
<1> QED BY <1>1, <1>2, <1>3, <1>4, <1>5, <1>6, <1>7, <1>8, <1>9, <1>10, <1>11, <1>12, <1>13, <1>14,
            <1>15, <1>16, <1>17 DEF Next

\* The inductive invariant: calls lie one after the other, variables are in one
\* place each, and outers have those that their closures mean, or are open and point
\* at the register that does.
THEOREM ReachInvariant == Spec => [](OInv /\ VInv)
PROOF
<1>1. OInv /\ VInv /\ [Next]_vars => OInv' /\ VInv' BY StepInv, StepReach
<1> QED BY <1>1, InitInv, InitReach, PTL DEF Spec

\* Every free variable of a closure is the one that its text means: the local of the
\* function while that is in scope, by way of an open outer, and its last value
\* afterwards.  Calls, tail calls, exceptions, generators, stacks that move, threads
\* that are freed and other closures make no difference; a break, a catch or a yield
\* that takes the variable out of the code's sight is what loose excepts.
THEOREM ClosuresReach == Spec => []ClosuresReachVariables
PROOF
<1>1. ASSUME OInv, VInv PROVE ClosuresReachVariables
  <2>1. ASSUME NEW e \in Entries, e.var \notin loose
        PROVE  /\ Deref(e.outer) = e.var
               /\ \A m \in VMs : \A i \in Locals(m) :
                     stack[m][i] = e.var => outer[e.outer].ptr = [vm |-> m, at |-> mem[m].at, reg |-> i]
    <3>1. PICK o, v : o = e.outer /\ v = e.var OBVIOUS
    <3>2. Reaches(o, v) BY <1>1, <2>1, <3>1 DEF VInv
    <3>3. CASE HasValue(o, v)
      <4>1. Deref(o) = v BY <3>3 DEF HasValue, Deref
      <4>2. \A m \in VMs : \A i \in Locals(m) : stack[m][i] # v BY <3>3 DEF HasValue
      <4> QED BY <3>1, <4>1, <4>2
    <3>4. ASSUME NEW n \in VMs, PointsAt(o, n, v)
          PROVE  /\ Deref(o) = v
                 /\ \A m \in VMs : \A i \in Locals(m) :
                       stack[m][i] = v => outer[o].ptr = [vm |-> m, at |-> mem[m].at, reg |-> i]
      <4>1. PICK k \in 1 .. Len(opens[n]) : opens[n][k] = o BY <3>4 DEF PointsAt
      <4>2. PICK p, r : p = outer[o].ptr /\ r = outer[o].idx OBVIOUS
      <4>3. r \in Locals(n) /\ stack[n][r] = v BY <3>4, <4>2 DEF PointsAt
      <4>4. outer[o] \in OpenT /\ p.vm = n /\ p.at = mem[n].at /\ p.reg = r BY <1>1, <4>1, <4>2, OpenIs
      <4>5. p \in [vm : VMs, at : {0, 1}, reg : Nat] BY <4>2, <4>4 DEF OpenT
      <4>6. p # None
        <5>1. p \in [vm : VMs, at : Nat, reg : Nat] BY <4>5
        <5> QED BY <5>1, NoneAssumption
      <4>7. Deref(o) = stack[n][r] BY <4>2, <4>4, <4>6 DEF Deref
      <4>8. p = [vm |-> n, at |-> mem[n].at, reg |-> r] BY <4>4, <4>5
      <4>9. ASSUME NEW m \in VMs, NEW i \in Locals(m), stack[m][i] = v PROVE m = n /\ i = r
        BY <1>1, <4>3, <4>9 DEF VInv, StackOk
      <4> QED BY <4>2, <4>3, <4>7, <4>8, <4>9
    <3> QED BY <3>1, <3>2, <3>3, <3>4 DEF Reaches
  <2>2. ASSUME NEW m \in VMs, NEW f \in Range(frames[m]), NEW i \in f.base..(f.base + f.nlocals - 1)
        PROVE  i \in Locals(m)
    BY DEF Locals, LocalRegs
  <2> QED BY <2>1, <2>2 DEF ClosuresReachVariables
<1>2. OInv /\ VInv => ClosuresReachVariables BY <1>1
<1> QED BY <1>2, ReachInvariant, PTL
=============================================================================
