------------------------ MODULE GSCallsFramesProofs -------------------------
(***************************************************************************)
(* How the frames and traps of a VM lie under the Executes and native      *)
(* functions on the C++ stack, for programs that use none of the Features  *)
(* (with them it is not so: the runs of MCCallsForeach and MCCallsAll).    *)
(*                                                                         *)
(* The frames of a VM are divided among its activations.  The last of them *)
(* has those from its base up to the top; one below it those from its own  *)
(* base up to the base of the next of the same VM, to which that will      *)
(* return (Stacked).  An Execute has a root frame with script frames upon  *)
(* it, and its traps are those set in them; a native function has its      *)
(* frame.  The traps are blocks, one for every frame (TrapsOk).  Every     *)
(* step changes what the top of the C++ stack has, or begins or ends one   *)
(* activation: what lies below its base is left alone.                     *)
(***************************************************************************)
EXTENDS GSCallsProofs

Trap == [at : Nat, level : Nat]

\* The traps of the first d frames are the first p.
Upto(tr, d, p) ==
    /\ p \in 0 .. Len(tr)
    /\ \A k \in 1 .. Len(tr) : k <= p <=> tr[k].at <= d

\* Those of frame i, e of them, follow those of the frames below it, outer ones first.
HasBlock(tr, i, e) ==
    \E p \in 0 .. Len(tr) :
        /\ Upto(tr, i - 1, p) /\ Upto(tr, i, p + e)
        /\ \A n \in 1 .. e : tr[p + n].level = n

TrapsOk(c, tr) ==
    /\ tr \in Seq(Trap)
    /\ \A k \in 1 .. Len(tr) : tr[k].at \in 1 .. Len(c)
    /\ \A i \in 1 .. Len(c) : HasBlock(tr, i, c[i].etraps)

\* The frames of an Execute from base to d, with that many traps.
Script(c, tr, base, d, traps) ==
    /\ base < d /\ c[base + 1].root /\ c[base + 1].code
    /\ \A f \in base + 2 .. d : c[f].code /\ ~c[f].root
    /\ \E lo, hi \in 0 .. Len(tr) : Upto(tr, base, lo) /\ Upto(tr, d, hi) /\ traps = hi - lo

\* An Execute whose function has started, or has not.
Executing(a) == a.kind = "execute" /\ a.mode \in {"run", "raise", "unwind"}
Starting(a) == a.kind = "execute" /\ a.mode \in {"startraise", "startfail"}

\* Activation a has the frames from its base to d.
Owns(c, tr, a, d) ==
    /\ a.base <= d /\ d <= Len(c)
    /\ Executing(a) => Script(c, tr, a.base, d, a.traps)
    /\ a.kind = "native" => d = a.base + 1 /\ c[d] = NativeFrame
    /\ Starting(a) => d = a.base

\* Of the first n activations of s: where the frames of the i-th, of VM v,
\* end, if those of the last of v end at e.
Limit(s, n, v, e, i, d) ==
    \/ \E j \in i + 1 .. n : /\ s[j].vm = v /\ d = s[j].base
                             /\ \A k \in i + 1 .. n : k < j => s[k].vm # v
    \/ d = e /\ \A k \in i + 1 .. n : s[k].vm # v

\* The first n activations of s divide the first e frames of VM v.
Stacked(s, n, v, e, c, tr) ==
    /\ \A i \in 1 .. n : s[i].vm = v =>
          /\ s[i].base <= e
          /\ \A j \in i .. n : s[j].vm = v => s[i].base <= s[j].base
          /\ \A d \in Nat : Limit(s, n, v, e, i, d) => Owns(c, tr, s[i], d)
    /\ \A d \in Nat : Limit(s, n, v, e, 0, d) => d = 0

-----------------------------------------------------------------------------
(* Traps.                                                                  *)

LEMMA UptoUnique ==
    ASSUME NEW tr \in Seq(Trap), NEW d \in Nat, NEW p, NEW q, Upto(tr, d, p), Upto(tr, d, q)
    PROVE  p = q
PROOF
<1>1. p \in 0 .. Len(tr) /\ q \in 0 .. Len(tr) /\ Len(tr) \in Nat BY DEF Upto
<1>2. ASSUME p < q PROVE FALSE
  <2>1. p + 1 \in 1 .. Len(tr) /\ p + 1 <= q /\ ~(p + 1 <= p) BY <1>1, <1>2
  <2> QED BY <2>1 DEF Upto
<1>3. ASSUME q < p PROVE FALSE
  <2>1. q + 1 \in 1 .. Len(tr) /\ q + 1 <= p /\ ~(q + 1 <= q) BY <1>1, <1>3
  <2> QED BY <2>1 DEF Upto
<1> QED BY <1>1, <1>2, <1>3

LEMMA TrapIn ==
    ASSUME NEW tr \in Seq(Trap), NEW k \in 1 .. Len(tr)
    PROVE  tr[k].at \in Nat /\ tr[k].level \in Nat
PROOF
<1>1. tr[k] \in Trap OBVIOUS
<1> QED BY <1>1 DEF Trap

\* How many traps the first d frames have.
LEMMA UptoExists ==
    ASSUME NEW c \in Seq(FrameG), NEW tr, TrapsOk(c, tr), NEW d \in 0 .. Len(c)
    PROVE  \E p \in 0 .. Len(tr) : Upto(tr, d, p)
PROOF
<1>1. tr \in Seq(Trap) /\ Len(tr) \in Nat /\ \A k \in 1 .. Len(tr) : tr[k].at \in 1 .. Len(c) BY DEF TrapsOk
<1>2. CASE d = 0
  <2>1. 0 \in 0 .. Len(tr) /\ Upto(tr, 0, 0) BY <1>1 DEF Upto
  <2> QED BY <1>2, <2>1
<1>3. CASE d # 0
  <2>1. d \in 1 .. Len(c) BY <1>3
  <2>2. PICK p \in 0 .. Len(tr) : Upto(tr, d, p + c[d].etraps) BY <2>1 DEF TrapsOk, HasBlock
  <2>3. p + c[d].etraps \in 0 .. Len(tr) BY <2>2 DEF Upto
  <2> QED BY <2>2, <2>3
<1> QED BY <1>2, <1>3

LEMMA UptoAll ==
    ASSUME NEW c \in Seq(FrameG), NEW tr, TrapsOk(c, tr), NEW d \in Nat, d >= Len(c)
    PROVE  Upto(tr, d, Len(tr)) /\ Len(tr) \in Nat
PROOF
<1>1. tr \in Seq(Trap) /\ Len(tr) \in Nat /\ Len(c) \in Nat BY DEF TrapsOk
<1>2. ASSUME NEW k \in 1 .. Len(tr) PROVE k <= Len(tr) /\ tr[k].at <= d
  <2>1. tr[k].at \in 1 .. Len(c) BY DEF TrapsOk
  <2> QED BY <1>1, <2>1
<1>3. Len(tr) \in 0 .. Len(tr) BY <1>1
<1> QED BY <1>1, <1>2, <1>3 DEF Upto

\* The block of one frame.
BlockAt(tr, i, p, e) ==
    /\ Upto(tr, i, p + e) /\ p \in Nat /\ e \in Nat /\ p + e <= Len(tr)
    /\ \A n \in 1 .. e : tr[p + n].at = i /\ tr[p + n].level = n

LEMMA Block ==
    ASSUME NEW c \in Seq(FrameG), NEW tr, TrapsOk(c, tr), NEW i \in 1 .. Len(c), NEW p, Upto(tr, i - 1, p)
    PROVE  BlockAt(tr, i, p, c[i].etraps)
PROOF
<1>1. tr \in Seq(Trap) /\ Len(tr) \in Nat /\ i - 1 \in Nat /\ i \in Nat BY DEF TrapsOk
<1>2. PICK q \in 0 .. Len(tr) :
        /\ Upto(tr, i - 1, q) /\ Upto(tr, i, q + c[i].etraps)
        /\ \A n \in 1 .. c[i].etraps : tr[q + n].level = n
  BY DEF TrapsOk, HasBlock
<1>3. q = p BY <1>1, <1>2, UptoUnique
<1>4. PICK e : e = c[i].etraps OBVIOUS
<1>5. e \in Int
  <2>1. c[i] \in FrameG OBVIOUS
  <2> QED BY <1>4, <2>1 DEF FrameG
<1>6. p \in Nat /\ p + e \in 0 .. Len(tr) BY <1>2, <1>3, <1>4 DEF Upto
<1>7. e \in Nat
  <2>1. ASSUME e < 0 PROVE FALSE
    <3>1. p \in 1 .. Len(tr) /\ ~(p <= p + e) BY <1>1, <1>2, <1>3, <1>5, <1>6, <2>1
    <3>2. tr[p].at <= i - 1 BY <1>2, <1>3, <3>1 DEF Upto
    <3>3. ~(tr[p].at <= i) BY <1>2, <1>3, <1>4, <3>1 DEF Upto
    <3>4. tr[p].at \in Nat BY <1>1, <3>1, TrapIn
    <3> QED BY <1>1, <3>2, <3>3, <3>4
  <2> QED BY <1>5, <2>1
<1>8. ASSUME NEW n \in 1 .. e PROVE tr[p + n].at = i
  <2>1. p + n \in 1 .. Len(tr) /\ p + n <= p + e /\ ~(p + n <= p) BY <1>1, <1>6, <1>7
  <2>2. tr[p + n].at <= i BY <1>2, <1>3, <1>4, <2>1 DEF Upto
  <2>3. ~(tr[p + n].at <= i - 1) BY <1>2, <1>3, <2>1 DEF Upto
  <2>4. tr[p + n].at \in Nat BY <1>1, <2>1, TrapIn
  <2> QED BY <1>1, <2>2, <2>3, <2>4
<1> QED BY <1>2, <1>3, <1>4, <1>6, <1>7, <1>8 DEF BlockAt

\* c2 and tr2 are the first n frames of c and their p traps, and one more
\* frame with its own.
Rebuilt(c, tr, c2, tr2, n, p) ==
    /\ n \in 0 .. Len(c) /\ c2 \in Seq(FrameG) /\ Len(c2) = n + 1 /\ \A i \in 1 .. n : c2[i] = c[i]
    /\ Upto(tr, n, p)
    /\ tr2 \in Seq(Trap) /\ c2[n + 1].etraps \in Nat /\ Len(tr2) = p + c2[n + 1].etraps
    /\ \A k \in 1 .. p : tr2[k] = tr[k]
    /\ \A m \in 1 .. c2[n + 1].etraps : tr2[p + m].at = n + 1 /\ tr2[p + m].level = m

\* They are the first n frames and their p traps.
Cut(c, tr, c2, tr2, n, p) ==
    /\ n \in 0 .. Len(c) /\ c2 \in Seq(FrameG) /\ Len(c2) = n /\ \A i \in 1 .. n : c2[i] = c[i]
    /\ Upto(tr, n, p)
    /\ tr2 \in Seq(Trap) /\ Len(tr2) = p
    /\ \A k \in 1 .. p : tr2[k] = tr[k]

\* The first e frames and their traps are the same.
Same(c, tr, c2, tr2, e) ==
    /\ e <= Len(c) /\ e <= Len(c2)
    /\ \A i \in 1 .. e : c2[i] = c[i]
    /\ \A d \in 0 .. e : \A p : Upto(tr, d, p) => Upto(tr2, d, p)

\* Traps after the first p are of frames above the n-th.
LEMMA UptoKept ==
    ASSUME NEW tr \in Seq(Trap), NEW tr2 \in Seq(Trap), NEW n \in Nat, NEW p, Upto(tr, n, p), Len(tr2) >= p,
           \A k \in 1 .. p : tr2[k] = tr[k],
           \A k \in p + 1 .. Len(tr2) : tr2[k].at > n,
           NEW d \in 0 .. n, NEW q, Upto(tr, d, q)
    PROVE  Upto(tr2, d, q)
PROOF
<1>1. p \in 0 .. Len(tr) /\ q \in 0 .. Len(tr) /\ Len(tr) \in Nat /\ Len(tr2) \in Nat BY DEF Upto
<1>2. q <= p
  <2>1. ASSUME q > p PROVE FALSE
    <3>1. q \in 1 .. Len(tr) /\ q <= q /\ ~(q <= p) BY <1>1, <2>1
    <3>2. tr[q].at <= d /\ ~(tr[q].at <= n) BY <3>1 DEF Upto
    <3>3. tr[q].at \in Nat BY <3>1, TrapIn
    <3> QED BY <3>2, <3>3
  <2> QED BY <1>1, <2>1
<1>3. ASSUME NEW k \in 1 .. Len(tr2) PROVE k <= q <=> tr2[k].at <= d
  <2>1. CASE k <= p
    <3>1. k \in 1 .. p /\ k \in 1 .. Len(tr) BY <1>1, <2>1
    <3> QED BY <3>1 DEF Upto
  <2>2. CASE k > p
    <3>1. k \in p + 1 .. Len(tr2) BY <1>1, <2>2
    <3>2. tr2[k].at > n /\ tr2[k].at \in Nat BY <3>1, TrapIn
    <3> QED BY <1>1, <1>2, <2>2, <3>2
  <2> QED BY <1>1, <2>1, <2>2
<1>4. q \in 0 .. Len(tr2) BY <1>1, <1>2
<1> QED BY <1>3, <1>4 DEF Upto

LEMMA RebuiltSame ==
    ASSUME NEW c \in Seq(FrameG), NEW tr, TrapsOk(c, tr), NEW c2, NEW tr2, NEW n, NEW p,
           Rebuilt(c, tr, c2, tr2, n, p)
    PROVE  Same(c, tr, c2, tr2, n)
PROOF
<1>1. n \in Nat /\ n <= Len(c) /\ n <= Len(c2) BY DEF Rebuilt
<1>2. tr \in Seq(Trap) /\ tr2 \in Seq(Trap) /\ Len(tr2) \in Nat BY DEF TrapsOk, Rebuilt
<1>3. p \in Nat /\ Len(tr2) >= p
  <2>1. p \in Nat BY DEF Rebuilt, Upto
  <2> QED BY <2>1 DEF Rebuilt
<1>4. ASSUME NEW k \in p + 1 .. Len(tr2) PROVE tr2[k].at > n
  <2>1. PICK m : m = k - p OBVIOUS
  <2>2. m \in 1 .. c2[n + 1].etraps /\ k = p + m BY <1>2, <1>3, <2>1 DEF Rebuilt
  <2>3. tr2[k].at = n + 1 BY <2>2 DEF Rebuilt
  <2> QED BY <1>1, <2>3
<1>5. Upto(tr, n, p) /\ \A k \in 1 .. p : tr2[k] = tr[k] BY DEF Rebuilt
<1>6. ASSUME NEW d \in 0 .. n, NEW q, Upto(tr, d, q) PROVE Upto(tr2, d, q)
  BY <1>1, <1>2, <1>3, <1>4, <1>5, <1>6, UptoKept
<1> QED BY <1>1, <1>6 DEF Same, Rebuilt

LEMMA CutSame ==
    ASSUME NEW c \in Seq(FrameG), NEW tr, TrapsOk(c, tr), NEW c2, NEW tr2, NEW n, NEW p,
           Cut(c, tr, c2, tr2, n, p)
    PROVE  Same(c, tr, c2, tr2, n)
PROOF
<1>1. n \in Nat /\ n <= Len(c) /\ n <= Len(c2) BY DEF Cut
<1>2. tr \in Seq(Trap) /\ tr2 \in Seq(Trap) /\ Len(tr2) = p BY DEF TrapsOk, Cut
<1>3. p \in Nat BY DEF Cut, Upto
<1>4. \A k \in p + 1 .. Len(tr2) : tr2[k].at > n BY <1>2, <1>3
<1>5. Upto(tr, n, p) /\ Len(tr2) >= p /\ \A k \in 1 .. p : tr2[k] = tr[k] BY <1>2, <1>3 DEF Cut
<1>6. ASSUME NEW d \in 0 .. n, NEW q, Upto(tr, d, q) PROVE Upto(tr2, d, q)
  BY <1>1, <1>2, <1>4, <1>5, <1>6, UptoKept
<1> QED BY <1>1, <1>6 DEF Same, Cut

\* The blocks of frames that stay the same stay.
LEMMA SameBlock ==
    ASSUME NEW c \in Seq(FrameG), NEW tr, TrapsOk(c, tr), NEW c2, NEW tr2, NEW n \in Nat, NEW p, NEW i \in 1 .. n,
           Same(c, tr, c2, tr2, n), Upto(tr, n, p), tr2 \in Seq(Trap), Len(tr2) >= p,
           \A k \in 1 .. p : tr2[k] = tr[k]
    PROVE  HasBlock(tr2, i, c2[i].etraps)
PROOF
<1>1. i \in 1 .. Len(c) /\ c2[i] = c[i] /\ i \in 0 .. n /\ i - 1 \in 0 .. n /\ i - 1 \in 0 .. Len(c)
  BY DEF Same
<1>2. PICK q \in 0 .. Len(tr) : Upto(tr, i - 1, q) BY <1>1, UptoExists
<1>3. PICK e : e = c[i].etraps OBVIOUS
<1>4. /\ Upto(tr, i, q + e) /\ q \in Nat /\ e \in Nat /\ q + e <= Len(tr)
      /\ \A m \in 1 .. e : tr[q + m].at = i /\ tr[q + m].level = m
  <2>1. BlockAt(tr, i, q, c[i].etraps) BY <1>1, <1>2, Block
  <2> QED BY <1>3, <2>1 DEF BlockAt
<1>5. Upto(tr2, i - 1, q) /\ Upto(tr2, i, q + e) BY <1>1, <1>2, <1>4 DEF Same
<1>6. ASSUME NEW m \in 1 .. e PROVE tr2[q + m].level = m
  <2>1. q + m \in 1 .. Len(tr) BY <1>2, <1>4
  <2>2. tr[q + m].at <= n BY <1>4
  <2>3. q + m <= p BY <2>1, <2>2 DEF Upto
  <2>4. q + m \in 1 .. p
    <3>1. p \in Nat BY DEF Upto
    <3> QED BY <1>4, <2>1, <2>3, <3>1
  <2> QED BY <1>4, <2>4
<1>7. q \in 0 .. Len(tr2) BY <1>5 DEF Upto
<1>8. c2[i].etraps = e BY <1>1, <1>3
<1> QED BY <1>5, <1>6, <1>7, <1>8 DEF HasBlock

LEMMA RebuiltTraps ==
    ASSUME NEW c \in Seq(FrameG), NEW tr, TrapsOk(c, tr), NEW c2, NEW tr2, NEW n, NEW p,
           Rebuilt(c, tr, c2, tr2, n, p)
    PROVE  TrapsOk(c2, tr2)
PROOF
<1>1. n \in Nat /\ n <= Len(c) /\ Len(c2) = n + 1 BY DEF Rebuilt
<1>2. PICK e : e = c2[n + 1].etraps OBVIOUS
<1>3. /\ tr2 \in Seq(Trap) /\ Len(tr2) \in Nat /\ Len(tr2) = p + e /\ e \in Nat
      /\ Upto(tr, n, p) /\ (\A k \in 1 .. p : tr2[k] = tr[k])
      /\ \A m \in 1 .. e : tr2[p + m].at = n + 1 /\ tr2[p + m].level = m
  BY <1>2 DEF Rebuilt
<1>4. p \in Nat /\ p <= Len(tr) BY <1>3 DEF Upto
<1>5. Same(c, tr, c2, tr2, n) BY RebuiltSame
<1>6. ASSUME NEW k \in 1 .. Len(tr2) PROVE tr2[k].at \in 1 .. Len(c2)
  <2>1. CASE k <= p
    <3>1. k \in 1 .. p /\ k \in 1 .. Len(tr) BY <1>3, <1>4, <2>1
    <3>2. tr2[k] = tr[k] /\ tr[k].at \in 1 .. Len(c) /\ tr[k].at <= n
      BY <1>3, <2>1, <3>1 DEF Upto, TrapsOk
    <3> QED BY <1>1, <3>2
  <2>2. CASE k > p
    <3>1. k - p \in 1 .. e /\ k = p + (k - p) BY <1>3, <1>4, <2>2
    <3>2. tr2[k].at = n + 1 BY <1>3, <3>1
    <3> QED BY <1>1, <3>2
  <2> QED BY <1>3, <1>4, <2>1, <2>2
<1>7. ASSUME NEW i \in 1 .. Len(c2) PROVE HasBlock(tr2, i, c2[i].etraps)
  <2>1. CASE i = n + 1
    <3>1. n \in 0 .. n BY <1>1
    <3>2. Upto(tr2, n, p) BY <1>3, <1>5, <3>1 DEF Same
    <3>3. Upto(tr2, n + 1, p + e)
      <4>1. \A k \in 1 .. Len(tr2) : k <= Len(tr2) /\ tr2[k].at <= n + 1 BY <1>1, <1>3, <1>6
      <4>2. Len(tr2) \in 0 .. Len(tr2) BY <1>3
      <4> QED BY <1>3, <4>1, <4>2 DEF Upto
    <3>4. p \in 0 .. Len(tr2) BY <1>3, <1>4
    <3>5. i - 1 = n BY <1>1, <2>1
    <3> QED BY <1>2, <1>3, <2>1, <3>2, <3>3, <3>4, <3>5 DEF HasBlock
  <2>2. CASE i # n + 1
    <3>1. i \in 1 .. n /\ Len(tr2) >= p /\ \A k \in 1 .. p : tr2[k] = tr[k] BY <1>1, <1>3, <1>4, <2>2
    <3>2. Upto(tr, n, p) /\ tr2 \in Seq(Trap) /\ n \in Nat BY <1>1, <1>3
    <3> QED BY <1>5, <3>1, <3>2, SameBlock
  <2> QED BY <2>1, <2>2
<1> QED BY <1>3, <1>6, <1>7 DEF TrapsOk

LEMMA CutTraps ==
    ASSUME NEW c \in Seq(FrameG), NEW tr, TrapsOk(c, tr), NEW c2, NEW tr2, NEW n, NEW p,
           Cut(c, tr, c2, tr2, n, p)
    PROVE  TrapsOk(c2, tr2)
PROOF
<1>1. n \in Nat /\ n <= Len(c) /\ Len(c2) = n BY DEF Cut
<1>2. tr2 \in Seq(Trap) /\ Len(tr2) = p /\ Upto(tr, n, p) /\ \A k \in 1 .. p : tr2[k] = tr[k] BY DEF Cut
<1>3. p \in Nat /\ p <= Len(tr) BY <1>2 DEF Upto
<1>4. Same(c, tr, c2, tr2, n) BY CutSame
<1>5. ASSUME NEW k \in 1 .. Len(tr2) PROVE tr2[k].at \in 1 .. Len(c2)
  <2>1. k \in 1 .. p /\ k \in 1 .. Len(tr) /\ k <= p BY <1>2, <1>3
  <2>2. tr2[k] = tr[k] /\ tr[k].at \in 1 .. Len(c) /\ tr[k].at <= n BY <1>2, <2>1 DEF Upto, TrapsOk
  <2> QED BY <1>1, <2>2
<1>6. ASSUME NEW i \in 1 .. Len(c2) PROVE HasBlock(tr2, i, c2[i].etraps)
  <2>1. i \in 1 .. n /\ Len(tr2) >= p /\ \A k \in 1 .. p : tr2[k] = tr[k] BY <1>1, <1>2, <1>3
  <2>2. Upto(tr, n, p) /\ tr2 \in Seq(Trap) /\ n \in Nat BY <1>1, <1>2
  <2> QED BY <1>4, <2>1, <2>2, SameBlock
<1> QED BY <1>2, <1>5, <1>6 DEF TrapsOk

-----------------------------------------------------------------------------
(* The frames of an activation.                                            *)

LEMMA SameScript ==
    ASSUME NEW c, NEW tr, NEW c2, NEW tr2, NEW e \in Nat, Same(c, tr, c2, tr2, e),
           NEW base \in Nat, NEW d \in Nat, d <= e, NEW traps, Script(c, tr, base, d, traps)
    PROVE  Script(c2, tr2, base, d, traps)
PROOF
<1>1. PICK lo, hi \in 0 .. Len(tr) : Upto(tr, base, lo) /\ Upto(tr, d, hi) /\ traps = hi - lo BY DEF Script
<1>2. base < d /\ base \in 0 .. e /\ d \in 0 .. e BY DEF Script
<1>3. Upto(tr2, base, lo) /\ Upto(tr2, d, hi) BY <1>1, <1>2 DEF Same
<1>4. lo \in 0 .. Len(tr2) /\ hi \in 0 .. Len(tr2) BY <1>3 DEF Upto
<1>5. base + 1 \in 1 .. e /\ \A f \in base + 2 .. d : f \in 1 .. e BY <1>2
<1>6. c2[base + 1].root /\ c2[base + 1].code /\ \A f \in base + 2 .. d : c2[f].code /\ ~c2[f].root
  BY <1>5 DEF Same, Script
<1> QED BY <1>1, <1>2, <1>3, <1>4, <1>6 DEF Script

LEMMA SameOwns ==
    ASSUME NEW c, NEW tr, NEW c2, NEW tr2, NEW e \in Nat, Same(c, tr, c2, tr2, e), Len(c2) \in Nat,
           NEW a \in Act, NEW d \in Nat, d <= e, Owns(c, tr, a, d)
    PROVE  Owns(c2, tr2, a, d)
PROOF
<1>1. a.base \in Nat BY DEF Act
<1>2. a.base <= d /\ d <= Len(c2) BY DEF Owns, Same
<1>3. ASSUME Executing(a) PROVE Script(c2, tr2, a.base, d, a.traps)
  <2>1. Script(c, tr, a.base, d, a.traps) BY <1>3 DEF Owns
  <2> QED BY <1>1, <2>1, SameScript
<1>4. ASSUME a.kind = "native" PROVE d = a.base + 1 /\ c2[d] = NativeFrame
  <2>1. d = a.base + 1 /\ c[d] = NativeFrame BY <1>4 DEF Owns
  <2>2. d \in 1 .. e BY <1>1, <2>1
  <2> QED BY <2>1, <2>2 DEF Same
<1>5. Starting(a) => d = a.base BY DEF Owns
<1> QED BY <1>2, <1>3, <1>4, <1>5 DEF Owns

\* b is a, up to what happens to it while it stays where it is.
Like(a, b) ==
    /\ b.kind = a.kind /\ b.vm = a.vm /\ b.base = a.base /\ b.traps = a.traps
    /\ Executing(b) => Executing(a)
    /\ Starting(b) => Starting(a)

LEMMA LikeOwns ==
    ASSUME NEW c, NEW tr, NEW a, NEW b, NEW d, Like(a, b), Owns(c, tr, a, d)
    PROVE  Owns(c, tr, b, d)
BY DEF Like, Owns

\* The last frame of an Execute changes, or there is one more.
LEMMA ScriptRebuilt ==
    ASSUME NEW c \in Seq(FrameG), NEW tr, TrapsOk(c, tr), NEW c2, NEW tr2, NEW n, NEW p,
           Rebuilt(c, tr, c2, tr2, n, p),
           NEW base \in Nat, NEW d \in Nat, d <= Len(c), NEW traps, Script(c, tr, base, d, traps),
           base <= n, n <= d, NEW q, Upto(tr, d, q),
           c2[n + 1].code, n = base => c2[n + 1].root, n > base => ~c2[n + 1].root
    PROVE  Script(c2, tr2, base, n + 1, traps + (Len(tr2) - q))
PROOF
<1>1. PICK lo, hi \in 0 .. Len(tr) : Upto(tr, base, lo) /\ Upto(tr, d, hi) /\ traps = hi - lo BY DEF Script
<1>2. n \in Nat /\ Len(c2) = n + 1 /\ base \in 0 .. n /\ tr \in Seq(Trap) /\ tr2 \in Seq(Trap)
  BY DEF Rebuilt, TrapsOk
<1>3. hi = q BY <1>1, <1>2, UptoUnique
<1>4. TrapsOk(c2, tr2) /\ Same(c, tr, c2, tr2, n) BY RebuiltTraps, RebuiltSame
<1>5. Upto(tr2, base, lo) BY <1>1, <1>2, <1>4 DEF Same
<1>6. Upto(tr2, n + 1, Len(tr2)) /\ Len(tr2) \in Nat
  <2>1. c2 \in Seq(FrameG) /\ n + 1 \in Nat /\ n + 1 >= Len(c2) BY <1>2 DEF Rebuilt
  <2> QED BY <1>4, <2>1, UptoAll
<1>7. lo \in 0 .. Len(tr2) BY <1>5 DEF Upto
<1>8. Len(tr2) \in 0 .. Len(tr2) BY <1>6
<1>9. traps + (Len(tr2) - q) = Len(tr2) - lo BY <1>1, <1>3, <1>6, <1>7
<1>10. c2[base + 1].root /\ c2[base + 1].code
  <2>1. CASE n = base BY <2>1
  <2>2. CASE n # base
    <3>1. base + 1 \in 1 .. n BY <1>2, <2>2
    <3> QED BY <3>1 DEF Rebuilt, Script
  <2> QED BY <2>1, <2>2
<1>11. ASSUME NEW f \in base + 2 .. n + 1 PROVE c2[f].code /\ ~c2[f].root
  <2>1. CASE f = n + 1
    <3>1. n > base BY <1>2, <2>1
    <3> QED BY <2>1, <3>1
  <2>2. CASE f # n + 1
    <3>1. f \in 1 .. n /\ f \in base + 2 .. d BY <1>2, <2>2
    <3>2. c2[f] = c[f] BY <3>1 DEF Rebuilt
    <3> QED BY <3>1, <3>2 DEF Script
  <2> QED BY <2>1, <2>2
<1>12. base < n + 1 BY <1>2
<1> QED BY <1>5, <1>6, <1>7, <1>8, <1>9, <1>10, <1>11, <1>12 DEF Script

\* A function called from C++ starts with a root frame.
LEMMA ScriptNew ==
    ASSUME NEW c \in Seq(FrameG), NEW tr, TrapsOk(c, tr), NEW c2, NEW tr2, NEW n, NEW p,
           Rebuilt(c, tr, c2, tr2, n, p), c2[n + 1].code, c2[n + 1].root, c2[n + 1].etraps = 0
    PROVE  Script(c2, tr2, n, n + 1, 0)
PROOF
<1>1. n \in Nat /\ Len(c2) = n + 1 /\ Upto(tr, n, p) /\ n \in 0 .. n BY DEF Rebuilt
<1>2. TrapsOk(c2, tr2) /\ Same(c, tr, c2, tr2, n) BY RebuiltTraps, RebuiltSame
<1>3. Upto(tr2, n, p) BY <1>1, <1>2 DEF Same
<1>4. Upto(tr2, n + 1, Len(tr2)) /\ Len(tr2) \in Nat
  <2>1. c2 \in Seq(FrameG) /\ n + 1 \in Nat /\ n + 1 >= Len(c2) BY <1>1 DEF Rebuilt
  <2> QED BY <1>2, <2>1, UptoAll
<1>5. p \in Nat /\ Len(tr2) = p /\ p \in 0 .. Len(tr2)
  <2>1. p \in Nat BY <1>1 DEF Upto
  <2> QED BY <2>1 DEF Rebuilt
<1>6. 0 = p - p BY <1>5
<1>7. \A f \in n + 2 .. n + 1 : c2[f].code /\ ~c2[f].root BY <1>1
<1>8. n < n + 1 BY <1>1
<1> QED BY <1>3, <1>4, <1>5, <1>6, <1>7, <1>8 DEF Script

\* Frames that are left above the root frame.
LEMMA ScriptCut ==
    ASSUME NEW c \in Seq(FrameG), NEW tr, TrapsOk(c, tr), NEW c2, NEW tr2, NEW n, NEW p,
           Cut(c, tr, c2, tr2, n, p),
           NEW base \in Nat, NEW traps, Script(c, tr, base, Len(c), traps), base < n
    PROVE  Script(c2, tr2, base, n, traps + (Len(tr2) - Len(tr)))
PROOF
<1>1. PICK lo, hi \in 0 .. Len(tr) : Upto(tr, base, lo) /\ Upto(tr, Len(c), hi) /\ traps = hi - lo BY DEF Script
<1>2. n \in Nat /\ n <= Len(c) /\ base \in 0 .. n /\ n \in 0 .. n /\ Len(c) \in Nat /\ tr \in Seq(Trap)
      /\ tr2 \in Seq(Trap) /\ Len(tr) \in Nat
  BY DEF Cut, TrapsOk
<1>3. hi = Len(tr)
  <2>1. Upto(tr, Len(c), Len(tr)) BY <1>2, UptoAll
  <2> QED BY <1>1, <1>2, <2>1, UptoUnique
<1>4. Same(c, tr, c2, tr2, n) BY CutSame
<1>5. Upto(tr2, base, lo) /\ Upto(tr2, n, p) BY <1>1, <1>2, <1>4 DEF Same, Cut
<1>6. lo \in 0 .. Len(tr2) /\ p \in 0 .. Len(tr2) /\ Len(tr2) = p BY <1>5 DEF Upto, Cut
<1>7. traps + (Len(tr2) - Len(tr)) = p - lo BY <1>1, <1>2, <1>3, <1>6
<1>8. base + 1 \in 1 .. n /\ \A f \in base + 2 .. n : f \in 1 .. n /\ f \in base + 2 .. Len(c) BY <1>2
<1>9. c2[base + 1].root /\ c2[base + 1].code /\ \A f \in base + 2 .. n : c2[f].code /\ ~c2[f].root
  BY <1>8 DEF Cut, Script
<1> QED BY <1>5, <1>6, <1>7, <1>9 DEF Script

-----------------------------------------------------------------------------
(* The activations of a VM.                                                *)

LEMMA StackedSame ==
    ASSUME NEW s \in Seq(Act), NEW n \in 0 .. Len(s), NEW v, NEW e \in Nat, NEW c, NEW tr, NEW c2, NEW tr2,
           Len(c2) \in Nat, Stacked(s, n, v, e, c, tr), Same(c, tr, c2, tr2, e)
    PROVE  Stacked(s, n, v, e, c2, tr2)
PROOF
<1>1. ASSUME NEW i \in 1 .. n, s[i].vm = v, NEW d \in Nat, Limit(s, n, v, e, i, d) PROVE Owns(c2, tr2, s[i], d)
  <2>1. Owns(c, tr, s[i], d) /\ \A j \in 1 .. n : s[j].vm = v => s[j].base <= e BY <1>1 DEF Stacked
  <2>2. d <= e
    <3>1. CASE d = e BY <3>1
    <3>2. ASSUME NEW j \in i + 1 .. n, s[j].vm = v, d = s[j].base PROVE d <= e
      <4>1. j \in 1 .. n OBVIOUS
      <4> QED BY <2>1, <3>2, <4>1
    <3> QED BY <1>1, <3>1, <3>2 DEF Limit
  <2>3. s[i] \in Act OBVIOUS
  <2> QED BY <2>1, <2>2, <2>3, SameOwns
<1> QED BY <1>1 DEF Stacked

\* t is s, up to what happens to activations while they stay where they are.
AllLike(s, t, n) == \A i \in 1 .. n : Like(s[i], t[i])

LEMMA LikeLimit ==
    ASSUME NEW s, NEW t, NEW n \in Nat, AllLike(s, t, n), NEW v, NEW e, NEW i \in Nat, NEW d
    PROVE  Limit(t, n, v, e, i, d) => Limit(s, n, v, e, i, d)
PROOF
<1>1. \A j \in i + 1 .. n : t[j].vm = s[j].vm /\ t[j].base = s[j].base
  <2>1. \A j \in i + 1 .. n : j \in 1 .. n OBVIOUS
  <2> QED BY <2>1 DEF AllLike, Like
<1> QED BY <1>1 DEF Limit

LEMMA StackedLike ==
    ASSUME NEW s, NEW t, NEW n \in Nat, AllLike(s, t, n), NEW v, NEW e, NEW c, NEW tr, Stacked(s, n, v, e, c, tr)
    PROVE  Stacked(t, n, v, e, c, tr)
PROOF
<1>1. \A j \in 1 .. n : Like(s[j], t[j]) /\ t[j].vm = s[j].vm /\ t[j].base = s[j].base BY DEF AllLike, Like
<1>2. ASSUME NEW i \in 1 .. n, t[i].vm = v
      PROVE  /\ t[i].base <= e
             /\ \A j \in i .. n : t[j].vm = v => t[i].base <= t[j].base
             /\ \A d \in Nat : Limit(t, n, v, e, i, d) => Owns(c, tr, t[i], d)
  <2>1. s[i].vm = v BY <1>1, <1>2
  <2>2. ASSUME NEW d \in Nat, Limit(t, n, v, e, i, d) PROVE Owns(c, tr, t[i], d)
    <3>1. Limit(s, n, v, e, i, d) BY <2>2, LikeLimit
    <3>2. Owns(c, tr, s[i], d) BY <2>1, <3>1 DEF Stacked
    <3> QED BY <1>1, <3>2, LikeOwns
  <2>3. ASSUME NEW j \in i .. n, t[j].vm = v PROVE t[i].base <= t[j].base
    <3>1. j \in 1 .. n OBVIOUS
    <3> QED BY <1>1, <2>1, <2>3, <3>1 DEF Stacked
  <2> QED BY <1>1, <2>1, <2>2, <2>3 DEF Stacked
<1>3. ASSUME NEW d \in Nat, Limit(t, n, v, e, 0, d) PROVE d = 0
  <2>1. Limit(s, n, v, e, 0, d) BY <1>3, LikeLimit
  <2> QED BY <2>1 DEF Stacked
<1> QED BY <1>2, <1>3 DEF Stacked

\* One more activation of the VM, or one less.
LEMMA StackedPush ==
    ASSUME NEW s \in Seq(Act), NEW n \in Nat, n < Len(s), NEW v, s[n + 1].vm = v, NEW e \in Nat, s[n + 1].base <= e,
           NEW c, NEW tr, Stacked(s, n, v, s[n + 1].base, c, tr), Owns(c, tr, s[n + 1], e)
    PROVE  Stacked(s, n + 1, v, e, c, tr)
PROOF
<1>0. PICK b : b = s[n + 1].base OBVIOUS
<1>1. \A i \in 1 .. n + 1 : s[i] \in Act OBVIOUS
<1>2. \A i \in 1 .. n + 1 : s[i].base \in Nat BY <1>1 DEF Act
<1>3. b \in Nat /\ n + 1 \in 1 .. n + 1 BY <1>0, <1>2
<1>4. ASSUME NEW i \in 0 .. n, NEW d, Limit(s, n + 1, v, e, i, d) PROVE Limit(s, n, v, b, i, d)
  <2>1. n + 1 \in i + 1 .. n + 1 /\ \A k \in i + 1 .. n : k \in i + 1 .. n + 1 /\ k < n + 1 OBVIOUS
  <2>2. PICK j \in i + 1 .. n + 1 : /\ s[j].vm = v /\ d = s[j].base
                                    /\ \A k \in i + 1 .. n + 1 : k < j => s[k].vm # v
    BY <1>4, <2>1 DEF Limit
  <2>3. CASE j = n + 1 BY <1>0, <2>1, <2>2, <2>3 DEF Limit
  <2>4. CASE j # n + 1
    <3>1. j \in i + 1 .. n BY <2>4
    <3> QED BY <2>1, <2>2, <3>1 DEF Limit
  <2> QED BY <2>3, <2>4
<1>5. ASSUME NEW i \in 1 .. n, s[i].vm = v
      PROVE  /\ s[i].base <= e
             /\ \A j \in i .. n + 1 : s[j].vm = v => s[i].base <= s[j].base
             /\ \A d \in Nat : Limit(s, n + 1, v, e, i, d) => Owns(c, tr, s[i], d)
  <2>1. s[i].base <= b /\ s[i].base \in Nat BY <1>0, <1>2, <1>5 DEF Stacked
  <2>2. ASSUME NEW j \in i .. n + 1, s[j].vm = v PROVE s[i].base <= s[j].base
    <3>1. CASE j = n + 1 BY <1>0, <2>1, <3>1
    <3>2. CASE j # n + 1
      <4>1. j \in i .. n BY <3>2
      <4> QED BY <1>5, <2>2, <4>1 DEF Stacked
    <3> QED BY <3>1, <3>2
  <2>3. ASSUME NEW d \in Nat, Limit(s, n + 1, v, e, i, d) PROVE Owns(c, tr, s[i], d)
    <3>1. Limit(s, n, v, b, i, d) BY <1>4, <2>3
    <3> QED BY <1>0, <1>5, <3>1 DEF Stacked
  <2>4. s[i].base <= e BY <1>0, <1>3, <2>1
  <2> QED BY <2>2, <2>3, <2>4
<1>6. ASSUME NEW d \in Nat, Limit(s, n + 1, v, e, n + 1, d) PROVE Owns(c, tr, s[n + 1], d)
  <2>1. d = e BY <1>6 DEF Limit
  <2> QED BY <2>1
<1>7. ASSUME NEW j \in n + 1 .. n + 1 PROVE s[n + 1].base <= s[j].base
  <2>1. j = n + 1 OBVIOUS
  <2> QED BY <1>0, <1>3, <2>1
<1>8. ASSUME NEW d \in Nat, Limit(s, n + 1, v, e, 0, d) PROVE d = 0
  <2>1. Limit(s, n, v, b, 0, d) BY <1>4, <1>8
  <2> QED BY <1>0, <2>1 DEF Stacked
<1>9. ASSUME NEW i \in 1 .. n + 1, s[i].vm = v
      PROVE  /\ s[i].base <= e
             /\ \A j \in i .. n + 1 : s[j].vm = v => s[i].base <= s[j].base
             /\ \A d \in Nat : Limit(s, n + 1, v, e, i, d) => Owns(c, tr, s[i], d)
  <2>1. CASE i = n + 1 BY <1>6, <1>7, <2>1
  <2>2. CASE i # n + 1
    <3>1. i \in 1 .. n BY <2>2
    <3> QED BY <1>5, <1>9, <3>1
  <2> QED BY <2>1, <2>2
<1> QED BY <1>8, <1>9 DEF Stacked

LEMMA StackedPop ==
    ASSUME NEW s \in Seq(Act), NEW n \in Nat, n < Len(s), NEW v, s[n + 1].vm = v, NEW e \in Nat,
           NEW c, NEW tr, Stacked(s, n + 1, v, e, c, tr)
    PROVE  Stacked(s, n, v, s[n + 1].base, c, tr) /\ s[n + 1].base <= e /\ Owns(c, tr, s[n + 1], e)
PROOF
<1>0. PICK b : b = s[n + 1].base OBVIOUS
<1>1. n + 1 \in 1 .. n + 1 OBVIOUS
<1>2. ASSUME NEW i \in 0 .. n, NEW d, Limit(s, n, v, b, i, d) PROVE Limit(s, n + 1, v, e, i, d)
  <2>1. n + 1 \in i + 1 .. n + 1 /\ \A k \in i + 1 .. n + 1 : k < n + 1 => k \in i + 1 .. n OBVIOUS
  <2>2. CASE d = b /\ \A k \in i + 1 .. n : s[k].vm # v BY <1>0, <2>1, <2>2 DEF Limit
  <2>3. ASSUME NEW j \in i + 1 .. n, s[j].vm = v, d = s[j].base, \A k \in i + 1 .. n : k < j => s[k].vm # v
        PROVE  Limit(s, n + 1, v, e, i, d)
    <3>1. j \in i + 1 .. n + 1 /\ \A k \in i + 1 .. n + 1 : k < j => k \in i + 1 .. n OBVIOUS
    <3> QED BY <2>3, <3>1 DEF Limit
  <2> QED BY <1>2, <2>2, <2>3 DEF Limit
<1>3. b <= e /\ \A i \in 1 .. n : s[i].vm = v => s[i].base <= b
  <2>1. ASSUME NEW i \in 1 .. n, s[i].vm = v PROVE s[i].base <= b
    <3>1. i \in 1 .. n + 1 /\ n + 1 \in i .. n + 1 OBVIOUS
    <3> QED BY <1>0, <2>1, <3>1 DEF Stacked
  <2> QED BY <1>0, <1>1, <2>1 DEF Stacked
<1>4. Owns(c, tr, s[n + 1], e)
  <2>1. Limit(s, n + 1, v, e, n + 1, e) BY DEF Limit
  <2> QED BY <1>1, <2>1 DEF Stacked
<1>5. ASSUME NEW i \in 1 .. n, s[i].vm = v, NEW d \in Nat, Limit(s, n, v, b, i, d) PROVE Owns(c, tr, s[i], d)
  <2>1. Limit(s, n + 1, v, e, i, d) /\ i \in 1 .. n + 1 BY <1>2, <1>5
  <2> QED BY <1>5, <2>1 DEF Stacked
<1>6. ASSUME NEW i \in 1 .. n, s[i].vm = v, NEW j \in i .. n, s[j].vm = v PROVE s[i].base <= s[j].base
  <2>1. i \in 1 .. n + 1 /\ j \in i .. n + 1 OBVIOUS
  <2> QED BY <1>6, <2>1 DEF Stacked
<1>7. ASSUME NEW d \in Nat, Limit(s, n, v, b, 0, d) PROVE d = 0
  <2>1. Limit(s, n + 1, v, e, 0, d) BY <1>2, <1>7
  <2> QED BY <2>1 DEF Stacked
<1>8. Stacked(s, n, v, b, c, tr) BY <1>3, <1>5, <1>6, <1>7 DEF Stacked
<1> QED BY <1>0, <1>3, <1>4, <1>8

\* Activations of other VMs do not matter.
LEMMA StackedOthers ==
    ASSUME NEW s, NEW t, NEW n \in Nat, NEW m \in Nat, NEW k \in Nat, k <= n, k <= m, AllLike(s, t, k),
           NEW u, \A i \in k + 1 .. n : s[i].vm = u, \A i \in k + 1 .. m : t[i].vm = u,
           NEW w, w # u, NEW e, NEW c, NEW tr, Stacked(s, n, w, e, c, tr)
    PROVE  Stacked(t, m, w, e, c, tr)
PROOF
<1>1. ASSUME NEW i \in 1 .. m, t[i].vm = w
      PROVE  i \in 1 .. k /\ i \in 1 .. n /\ s[i].vm = w /\ s[i].base = t[i].base /\ Like(s[i], t[i])
  <2>1. i \in 1 .. k
    <3>1. CASE i \in k + 1 .. m BY <1>1, <3>1
    <3> QED BY <3>1
  <2> QED BY <1>1, <2>1 DEF AllLike, Like
<1>2. ASSUME NEW i \in 1 .. n, s[i].vm = w
      PROVE  i \in 1 .. k /\ i \in 1 .. m /\ t[i].vm = w
  <2>1. i \in 1 .. k
    <3>1. CASE i \in k + 1 .. n BY <1>2, <3>1
    <3> QED BY <3>1
  <2> QED BY <1>2, <2>1 DEF AllLike, Like
<1>3. ASSUME NEW i \in 0 .. m, NEW d, Limit(t, m, w, e, i, d) PROVE Limit(s, n, w, e, i, d)
  <2>1. ASSUME NEW j \in i + 1 .. m, t[j].vm = w, d = t[j].base, \A l \in i + 1 .. m : l < j => t[l].vm # w
        PROVE  Limit(s, n, w, e, i, d)
    <3>1. j \in 1 .. m BY <1>3
    <3>2. j \in i + 1 .. n /\ s[j].vm = w /\ d = s[j].base BY <1>1, <2>1, <3>1
    <3>3. ASSUME NEW l \in i + 1 .. n, l < j, s[l].vm = w PROVE FALSE
      <4>1. l \in 1 .. n OBVIOUS
      <4>2. l \in 1 .. m /\ t[l].vm = w BY <1>2, <3>3, <4>1
      <4>3. l \in i + 1 .. m BY <4>2
      <4> QED BY <2>1, <3>3, <4>2, <4>3
    <3> QED BY <3>2, <3>3 DEF Limit
  <2>2. ASSUME d = e, \A l \in i + 1 .. m : t[l].vm # w PROVE Limit(s, n, w, e, i, d)
    <3>1. ASSUME NEW l \in i + 1 .. n, s[l].vm = w PROVE FALSE
      <4>1. l \in 1 .. n OBVIOUS
      <4>2. l \in 1 .. m /\ t[l].vm = w BY <1>2, <3>1, <4>1
      <4>3. l \in i + 1 .. m BY <4>2
      <4> QED BY <2>2, <4>2, <4>3
    <3> QED BY <2>2, <3>1 DEF Limit
  <2> QED BY <1>3, <2>1, <2>2 DEF Limit
<1>4. ASSUME NEW i \in 1 .. m, t[i].vm = w
      PROVE  /\ t[i].base <= e
             /\ \A j \in i .. m : t[j].vm = w => t[i].base <= t[j].base
             /\ \A d \in Nat : Limit(t, m, w, e, i, d) => Owns(c, tr, t[i], d)
  <2>1. i \in 1 .. n /\ s[i].vm = w /\ s[i].base = t[i].base /\ Like(s[i], t[i]) BY <1>1, <1>4
  <2>2. t[i].base <= e BY <2>1 DEF Stacked
  <2>3. ASSUME NEW j \in i .. m, t[j].vm = w PROVE t[i].base <= t[j].base
    <3>1. j \in 1 .. m OBVIOUS
    <3>2. j \in i .. n /\ s[j].vm = w /\ s[j].base = t[j].base BY <1>1, <2>3, <3>1
    <3> QED BY <2>1, <3>2 DEF Stacked
  <2>4. ASSUME NEW d \in Nat, Limit(t, m, w, e, i, d) PROVE Owns(c, tr, t[i], d)
    <3>1. Limit(s, n, w, e, i, d) BY <1>3, <2>4
    <3>2. Owns(c, tr, s[i], d) BY <2>1, <3>1 DEF Stacked
    <3> QED BY <2>1, <3>2, LikeOwns
  <2> QED BY <2>2, <2>3, <2>4
<1>5. ASSUME NEW d \in Nat, Limit(t, m, w, e, 0, d) PROVE d = 0
  <2>1. Limit(s, n, w, e, 0, d) BY <1>3, <1>5
  <2> QED BY <2>1 DEF Stacked
<1> QED BY <1>4, <1>5 DEF Stacked

-----------------------------------------------------------------------------
(* The invariant.                                                          *)

FrameOk(f) == f \in FrameType /\ (f.gen # None => ~f.root)

\* Calls, room for calls, and traps of a VM.
Fits(c, alloc, tr) ==
    /\ Len(c) <= MaxFrames /\ alloc \in Nat \ {0} /\ Len(c) <= alloc
    /\ \A i \in 1 .. Len(c) : FrameOk(c[i])
    /\ TrapsOk(c, tr)

\* Of a suspended VM nothing is on the C++ stack; thread.wakeup finds what it needs.
Waits(s, m, v) ==
    m.suspended =>
        /\ \A i \in 1 .. Len(s) : s[i].vm # v
        /\ Script(m.calls, m.etraps, 0, Len(m.calls), m.straps)
        /\ m.sroot = m.calls[Len(m.calls)].root

VMOk(s, m, v) ==
    /\ m.suspended \in BOOLEAN /\ m.nnative <= MAX_NATIVE_CALLS
    /\ Fits(m.calls, m.alloc, m.etraps)
    /\ Stacked(s, Len(s), v, IF m.suspended THEN 0 ELSE Len(m.calls), m.calls, m.etraps)
    /\ Waits(s, m, v)

\* What an activation does, and what the one below it does meanwhile.
ActOk(a) ==
    /\ a.kind = "native" => a.mode \in {"run", "done", "failed"}
    /\ a.kind = "execute" => Executing(a) \/ Starting(a)
    /\ a.mode = "raise" => NotifyAll \/ (a.traps = 0 /\ a.raise)

CallerOk(for, mode) ==
    /\ for \in {"meta", "opcall"} => mode = "run"
    /\ for = "handler" => mode \in {"raise", "startraise"}

StackOk(s) == \A i \in 1 .. Len(s) : ActOk(s[i]) /\ (i > 1 => CallerOk(s[i].for, s[i - 1].mode))

\* The traps that Yield put into a generator, innermost first.
GenOk(r) ==
    /\ r.root = FALSE /\ Len(r.etraps) <= MaxTraps
    /\ \A k \in 1 .. Len(r.etraps) : r.etraps[k] = Len(r.etraps) - k + 1

Framed ==
    \A g \in Gens : gen[g].state = "running" =>
        \E v \in VMs : \E i \in 1 .. Len(vm[v].calls) : vm[v].calls[i].gen = g

Generators == (\A g \in Gens : GenOk(gen[g])) /\ Framed
AllVMsOk == \A v \in VMs : VMOk(cstack, vm[v], v)
Frames == AllVMsOk /\ StackOk(cstack) /\ Generators
FInv == GInv /\ Frames

-----------------------------------------------------------------------------
(* Changes of a VM.                                                        *)

LEMMA FrameIn ==
    ASSUME NEW c \in Seq(FrameG), NEW alloc, NEW tr, Fits(c, alloc, tr), NEW i \in 1 .. Len(c)
    PROVE  /\ c[i].etraps \in Nat /\ c[i].etraps <= MaxTraps /\ c[i].gen \in Gens \cup {None}
           /\ c[i].root \in BOOLEAN /\ c[i].code \in BOOLEAN /\ (c[i].gen # None => ~c[i].root)
PROOF
<1>1. FrameOk(c[i]) BY DEF Fits
<1> QED BY <1>1, BoundsAssumption DEF FrameOk, FrameType

LEMMA FitsRebuilt ==
    ASSUME NEW c \in Seq(FrameG), NEW alloc, NEW tr, Fits(c, alloc, tr), NEW c2, NEW tr2, NEW n, NEW p,
           Rebuilt(c, tr, c2, tr2, n, p), FrameOk(c2[n + 1]), n + 1 <= MaxFrames,
           NEW alloc2 \in Nat \ {0}, n + 1 <= alloc2
    PROVE  Fits(c2, alloc2, tr2)
PROOF
<1>1. TrapsOk(c, tr) BY DEF Fits
<1>2. TrapsOk(c2, tr2) BY <1>1, RebuiltTraps
<1>3. n \in 0 .. Len(c) /\ Len(c2) = n + 1 BY DEF Rebuilt
<1>4. ASSUME NEW i \in 1 .. Len(c2) PROVE FrameOk(c2[i])
  <2>1. CASE i = n + 1 BY <2>1
  <2>2. CASE i # n + 1
    <3>1. i \in 1 .. n /\ i \in 1 .. Len(c) BY <1>3, <2>2
    <3>2. c2[i] = c[i] BY <3>1 DEF Rebuilt
    <3> QED BY <3>1, <3>2 DEF Fits
  <2> QED BY <2>1, <2>2
<1> QED BY <1>2, <1>3, <1>4 DEF Fits

LEMMA FitsCut ==
    ASSUME NEW c \in Seq(FrameG), NEW alloc, NEW tr, Fits(c, alloc, tr), NEW c2, NEW tr2, NEW n, NEW p,
           Cut(c, tr, c2, tr2, n, p)
    PROVE  Fits(c2, alloc, tr2)
PROOF
<1>1. TrapsOk(c, tr) BY DEF Fits
<1>2. TrapsOk(c2, tr2) BY <1>1, CutTraps
<1>3. n \in 0 .. Len(c) /\ Len(c2) = n /\ Len(c) \in Nat BY DEF Cut
<1>4. \A i \in 1 .. n : i \in 1 .. Len(c) /\ c2[i] = c[i] BY <1>3 DEF Cut
<1>5. Len(c2) <= MaxFrames /\ Len(c2) <= alloc /\ alloc \in Nat \ {0} BY <1>3, BoundsAssumption DEF Fits
<1> QED BY <1>2, <1>3, <1>4, <1>5 DEF Fits

\* Frames without traps.
LEMMA UptoRest ==
    ASSUME NEW c \in Seq(FrameG), NEW tr, TrapsOk(c, tr), NEW n \in 0 .. Len(c),
           \A i \in n + 1 .. Len(c) : c[i].etraps <= 0
    PROVE  Upto(tr, n, Len(tr)) /\ Len(tr) \in Nat
PROOF
<1>1. tr \in Seq(Trap) /\ Len(tr) \in Nat BY DEF TrapsOk
<1>2. ASSUME NEW k \in 1 .. Len(tr), ~(tr[k].at <= n) PROVE FALSE
  <2>1. PICK i : i = tr[k].at OBVIOUS
  <2>2. i \in 1 .. Len(c) /\ i \in n + 1 .. Len(c) /\ i - 1 \in 0 .. Len(c)
    <3>1. i \in 1 .. Len(c) BY <2>1 DEF TrapsOk
    <3> QED BY <1>2, <2>1, <3>1
  <2>3. PICK p \in 0 .. Len(tr) : Upto(tr, i - 1, p) BY <2>2, UptoExists
  <2>4. BlockAt(tr, i, p, c[i].etraps) BY <2>2, <2>3, Block
  <2>5. PICK e : e = c[i].etraps OBVIOUS
  <2>6. e = 0
    <3>1. e \in Nat BY <2>4, <2>5 DEF BlockAt
    <3>2. e <= 0 BY <2>2, <2>5
    <3> QED BY <3>1, <3>2
  <2>7. Upto(tr, i, p)
    <3>1. Upto(tr, i, p + e) BY <2>4, <2>5 DEF BlockAt
    <3>2. p + e = p BY <2>3, <2>6
    <3> QED BY <3>1, <3>2
  <2>8. k <= p BY <2>1, <2>2, <2>7 DEF Upto
  <2>9. tr[k].at <= i - 1 BY <2>3, <2>8 DEF Upto
  <2> QED BY <2>1, <2>2, <2>9
<1>3. Len(tr) \in 0 .. Len(tr) /\ \A k \in 1 .. Len(tr) : k <= Len(tr) BY <1>1
<1> QED BY <1>1, <1>2, <1>3 DEF Upto

LEMMA CutRest ==
    ASSUME NEW c \in Seq(FrameG), NEW tr, TrapsOk(c, tr), NEW n \in 0 .. Len(c),
           \A i \in n + 1 .. Len(c) : c[i].etraps <= 0,
           NEW c2 \in Seq(FrameG), Len(c2) = n, \A i \in 1 .. n : c2[i] = c[i]
    PROVE  Cut(c, tr, c2, tr, n, Len(tr))
PROOF
<1>1. Upto(tr, n, Len(tr)) BY UptoRest
<1> QED BY <1>1 DEF Cut, TrapsOk

LEMMA RebuiltEnter ==
    ASSUME NEW c \in Seq(FrameG), NEW tr, TrapsOk(c, tr), NEW f \in FrameG, f.etraps = 0
    PROVE  Rebuilt(c, tr, Append(c, f), tr, Len(c), Len(tr))
PROOF
<1>1. Len(c) \in Nat /\ Len(c) \in 0 .. Len(c) BY DEF TrapsOk
<1>2. Upto(tr, Len(c), Len(tr)) /\ Len(tr) \in Nat BY <1>1, UptoAll
<1>3. PICK t : t = Append(c, f) OBVIOUS
<1>4. t \in Seq(FrameG) /\ Len(t) = Len(c) + 1 /\ (\A i \in 1 .. Len(c) : t[i] = c[i]) /\ t[Len(c) + 1] = f
  BY <1>3
<1>5. Rebuilt(c, tr, t, tr, Len(c), Len(tr)) BY <1>1, <1>2, <1>4 DEF Rebuilt, TrapsOk
<1> QED BY <1>3, <1>5

\* How many traps lie below frame n, if those above it have none.
LEMMA UptoBelow ==
    ASSUME NEW c \in Seq(FrameG), NEW tr, TrapsOk(c, tr), NEW n \in 1 .. Len(c),
           \A i \in n + 1 .. Len(c) : c[i].etraps <= 0
    PROVE  Upto(tr, n - 1, Len(tr) - c[n].etraps) /\ BlockAt(tr, n, Len(tr) - c[n].etraps, c[n].etraps)
PROOF
<1>1. n - 1 \in 0 .. Len(c) /\ n \in 0 .. Len(c) /\ n \in Nat OBVIOUS
<1>2. PICK p \in 0 .. Len(tr) : Upto(tr, n - 1, p) BY <1>1, UptoExists
<1>3. BlockAt(tr, n, p, c[n].etraps) BY <1>2, Block
<1>4. PICK e : e = c[n].etraps OBVIOUS
<1>5. Upto(tr, n, p + e) /\ p \in Nat /\ e \in Nat BY <1>3, <1>4 DEF BlockAt
<1>6. Upto(tr, n, Len(tr)) /\ Len(tr) \in Nat BY <1>1, UptoRest
<1>7. p + e = Len(tr)
  <2>1. tr \in Seq(Trap) BY DEF TrapsOk
  <2> QED BY <1>1, <1>5, <1>6, <2>1, UptoUnique
<1>8. p = Len(tr) - e BY <1>5, <1>6, <1>7
<1> QED BY <1>2, <1>3, <1>4, <1>8

\* The last frame that has traps changes, and so do they.
LEMMA RebuiltLast ==
    ASSUME NEW c \in Seq(FrameG), NEW tr, TrapsOk(c, tr), NEW n \in 1 .. Len(c),
           \A i \in n + 1 .. Len(c) : c[i].etraps <= 0,
           NEW c2 \in Seq(FrameG), Len(c2) = n, \A i \in 1 .. n : i # n => c2[i] = c[i], c2[n].etraps \in Nat,
           NEW tr2 \in Seq(Trap), Len(tr2) = Len(tr) + (c2[n].etraps - c[n].etraps),
           \A k \in 1 .. Len(tr2) : k <= Len(tr) => tr2[k] = tr[k],
           \A k \in 1 .. Len(tr2) : k > Len(tr) => tr2[k].at = n /\ tr2[k].level = c[n].etraps + (k - Len(tr))
    PROVE  Rebuilt(c, tr, c2, tr2, n - 1, Len(tr) - c[n].etraps)
PROOF
<1>1. PICK e, x, p, l : e = c[n].etraps /\ x = c2[n].etraps /\ p = Len(tr) - e /\ l = Len(tr) OBVIOUS
<1>2. Upto(tr, n - 1, p) /\ BlockAt(tr, n, p, e) BY <1>1, UptoBelow
<1>3. p \in Nat /\ e \in Nat /\ p + e = l /\ l \in Nat /\ x \in Nat
  <2>1. p \in Nat /\ e \in Nat BY <1>2 DEF BlockAt
  <2>2. l \in Nat BY <1>1 DEF TrapsOk
  <2> QED BY <1>1, <2>1, <2>2, SMTT(30)
<1>4. Len(tr2) = p + x
  <2>1. Len(tr2) = l + (x - e) BY <1>1
  <2> QED BY <1>3, <2>1
<1>5. ASSUME NEW k \in 1 .. p PROVE tr2[k] = tr[k]
  <2>1. k \in 1 .. Len(tr2) /\ k <= l BY <1>3, <1>4
  <2> QED BY <1>1, <2>1
<1>6. ASSUME NEW m \in 1 .. x PROVE tr2[p + m].at = n /\ tr2[p + m].level = m
  <2>1. p + m \in 1 .. Len(tr2) BY <1>3, <1>4, SMTT(30)
  <2>2. CASE m <= e
    <3>1. p + m <= l /\ m \in 1 .. e BY <1>3, <2>2
    <3>2. tr2[p + m] = tr[p + m] BY <1>1, <2>1, <3>1
    <3>3. tr[p + m].at = n /\ tr[p + m].level = m BY <1>2, <3>1 DEF BlockAt
    <3> QED BY <3>2, <3>3
  <2>3. CASE m > e
    <3>1. p + m > l /\ e + (p + m - l) = m BY <1>3, <2>3
    <3>2. tr2[p + m].at = n /\ tr2[p + m].level = e + (p + m - l) BY <1>1, <2>1, <3>1, SMTT(30)
    <3> QED BY <3>1, <3>2
  <2> QED BY <1>3, <2>2, <2>3
<1>7. n - 1 \in 0 .. Len(c) /\ n - 1 + 1 = n /\ Len(c2) = n - 1 + 1 OBVIOUS
<1>8. \A i \in 1 .. n - 1 : c2[i] = c[i] OBVIOUS
<1>9. Rebuilt(c, tr, c2, tr2, n - 1, p) BY <1>1, <1>2, <1>3, <1>4, <1>5, <1>6, <1>7, <1>8 DEF Rebuilt
<1> QED BY <1>1, <1>9

LEMMA RebuiltSame1 ==
    ASSUME NEW c \in Seq(FrameG), NEW tr, TrapsOk(c, tr), NEW n, n = Len(c), NEW f, NEW t, SetFrame(c, t, n, f),
           n > 0, f.etraps = c[n].etraps
    PROVE  \E p : Rebuilt(c, tr, t, tr, n - 1, p)
PROOF
<1>1. n \in 1 .. Len(c) /\ \A i \in n + 1 .. Len(c) : c[i].etraps <= 0 OBVIOUS
<1>2. t \in Seq(FrameG) /\ Len(t) = n /\ (\A i \in 1 .. n : i # n => t[i] = c[i]) /\ t[n] = f
  BY <1>1 DEF SetFrame
<1>3. tr \in Seq(Trap) /\ Len(tr) \in Nat BY DEF TrapsOk
<1>4. c[n].etraps \in Nat
  <2>1. BlockAt(tr, n, Len(tr) - c[n].etraps, c[n].etraps) BY <1>1, UptoBelow
  <2> QED BY <2>1 DEF BlockAt
<1>5. t[n].etraps = c[n].etraps BY <1>2
<1>6. t[n].etraps \in Nat /\ Len(tr) = Len(tr) + (t[n].etraps - c[n].etraps) BY <1>3, <1>4, <1>5
<1>7. \A k \in 1 .. Len(tr) : ~(k > Len(tr)) BY <1>3
<1>8. Rebuilt(c, tr, t, tr, n - 1, Len(tr) - c[n].etraps) BY <1>1, <1>2, <1>3, <1>6, <1>7, RebuiltLast
<1> QED BY <1>8

LEMMA RebuiltPush ==
    ASSUME NEW c \in Seq(FrameG), NEW tr, TrapsOk(c, tr), NEW n, n = Len(c), NEW f, NEW t, SetFrame(c, t, n, f),
           n > 0, f.etraps = c[n].etraps + 1, NEW tr2, tr2 = Append(tr, [at |-> n, level |-> c[n].etraps + 1])
    PROVE  \E p : Rebuilt(c, tr, t, tr2, n - 1, p)
PROOF
<1>1. n \in 1 .. Len(c) /\ n \in Nat /\ \A i \in n + 1 .. Len(c) : c[i].etraps <= 0 OBVIOUS
<1>2. t \in Seq(FrameG) /\ Len(t) = n /\ (\A i \in 1 .. n : i # n => t[i] = c[i]) /\ t[n] = f
  BY <1>1 DEF SetFrame
<1>3. tr \in Seq(Trap) /\ Len(tr) \in Nat BY DEF TrapsOk
<1>4. PICK e : e = c[n].etraps OBVIOUS
<1>5. e \in Nat
  <2>1. BlockAt(tr, n, Len(tr) - c[n].etraps, c[n].etraps) BY <1>1, UptoBelow
  <2> QED BY <1>4, <2>1 DEF BlockAt
<1>6. PICK x : x = [at |-> n, level |-> e + 1] OBVIOUS
<1>7. x \in Trap /\ x.at = n /\ x.level = e + 1 BY <1>1, <1>5, <1>6 DEF Trap
<1>8. tr2 \in Seq(Trap) /\ Len(tr2) = Len(tr) + 1 /\ (\A k \in 1 .. Len(tr) : tr2[k] = tr[k]) /\ tr2[Len(tr) + 1] = x
  BY <1>3, <1>4, <1>6, <1>7
<1>9. t[n].etraps = e + 1 BY <1>2, <1>4
<1>10. t[n].etraps \in Nat /\ Len(tr2) = Len(tr) + (t[n].etraps - c[n].etraps) BY <1>3, <1>4, <1>5, <1>8, <1>9
<1>11. \A k \in 1 .. Len(tr2) : k <= Len(tr) => tr2[k] = tr[k] BY <1>3, <1>8
<1>12. ASSUME NEW k \in 1 .. Len(tr2), k > Len(tr) PROVE tr2[k].at = n /\ tr2[k].level = c[n].etraps + (k - Len(tr))
  <2>1. k = Len(tr) + 1 /\ k - Len(tr) = 1 BY <1>3, <1>8, <1>12
  <2> QED BY <1>4, <1>7, <1>8, <2>1
<1>13. Rebuilt(c, tr, t, tr2, n - 1, Len(tr) - c[n].etraps) BY <1>1, <1>2, <1>8, <1>10, <1>11, <1>12, RebuiltLast
<1> QED BY <1>13

\* For OpPopTrap, and for an exception that comes to frame n.
LEMMA RebuiltPop ==
    ASSUME NEW c \in Seq(FrameG), NEW tr, TrapsOk(c, tr), NEW n \in 1 .. Len(c),
           \A i \in n + 1 .. Len(c) : c[i].etraps <= 0,
           NEW t \in Seq(FrameG), Len(t) = n, \A i \in 1 .. n : i # n => t[i] = c[i],
           c[n].etraps > 0, t[n].etraps = c[n].etraps - 1
    PROVE  \E p : Rebuilt(c, tr, t, Front(tr), n - 1, p) /\ Len(Front(tr)) = Len(tr) - 1 /\ Len(tr) \in Nat
PROOF
<1>1. tr \in Seq(Trap) /\ Len(tr) \in Nat BY DEF TrapsOk
<1>2. PICK e : e = c[n].etraps OBVIOUS
<1>3. e \in Nat /\ e > 0 /\ Len(tr) - e \in Nat
  <2>1. BlockAt(tr, n, Len(tr) - c[n].etraps, c[n].etraps) BY UptoBelow
  <2> QED BY <1>2, <2>1 DEF BlockAt
<1>4. tr # <<>> BY <1>1, <1>3
<1>5. PICK tr2 : tr2 = Front(tr) OBVIOUS
<1>6. tr2 \in Seq(Trap) /\ Len(tr2) = Len(tr) - 1 /\ \A k \in 1 .. Len(tr) - 1 : tr2[k] = tr[k]
  BY <1>1, <1>4, <1>5, FrontIs
<1>7. t[n].etraps = e - 1 BY <1>2
<1>8. t[n].etraps \in Nat /\ Len(tr2) = Len(tr) + (t[n].etraps - c[n].etraps)
  <2>1. t[n].etraps \in Nat BY <1>3, <1>7
  <2>2. Len(tr) + (e - 1 - e) = Len(tr) - 1 BY <1>1, <1>3
  <2> QED BY <1>2, <1>6, <1>7, <2>1, <2>2
<1>9. \A k \in 1 .. Len(tr2) : tr2[k] = tr[k] /\ ~(k > Len(tr)) BY <1>1, <1>6
<1>10. Rebuilt(c, tr, t, tr2, n - 1, Len(tr) - c[n].etraps) BY <1>6, <1>8, <1>9, RebuiltLast
<1> QED BY <1>1, <1>5, <1>6, <1>10

LEMMA RebuiltResume ==
    ASSUME Shape, NEW c \in Seq(FrameG), NEW tr, TrapsOk(c, tr), NEW g \in Gens, GenOk(gen[g]),
           NEW f \in FrameG, f.etraps = Len(gen[g].etraps), NEW n, n = Len(c)
    PROVE  Rebuilt(c, tr, Append(c, f), tr \o ResumedTraps(g, n + 1), n, Len(tr))
PROOF
<1>1. PICK l, r : l = Len(gen[g].etraps) /\ r = ResumedTraps(g, n + 1) OBVIOUS
<1>2. l \in Nat BY <1>1 DEF Shape, GenShape
<1>3. n \in Nat /\ n \in 0 .. Len(c) OBVIOUS
<1>4. Upto(tr, n, Len(tr)) /\ Len(tr) \in Nat /\ tr \in Seq(Trap)
  <2>1. Upto(tr, n, Len(tr)) /\ Len(tr) \in Nat BY <1>3, UptoAll
  <2> QED BY <2>1 DEF TrapsOk
<1>5. ASSUME NEW k \in 1 .. l PROVE r[k] = [at |-> n + 1, level |-> k]
  <2>1. r[k] = [at |-> n + 1, level |-> gen[g].etraps[l - k + 1]] BY <1>1, <1>5 DEF ResumedTraps
  <2>2. l - k + 1 \in 1 .. l /\ l - (l - k + 1) + 1 = k BY <1>2
  <2>3. gen[g].etraps[l - k + 1] = l - (l - k + 1) + 1 BY <1>1, <2>2 DEF GenOk
  <2> QED BY <2>1, <2>2, <2>3
<1>9. ASSUME NEW k \in 1 .. l PROVE r[k] \in Trap /\ r[k].at = n + 1 /\ r[k].level = k
  <2>1. r[k] = [at |-> n + 1, level |-> k] /\ n + 1 \in Nat /\ k \in Nat BY <1>3, <1>5
  <2> QED BY <2>1 DEF Trap
<1>6. r \in Seq(Trap) /\ Len(r) = l
  <2>1. DOMAIN r = 1 .. l /\ r = [k \in 1 .. l |-> r[k]] BY <1>1 DEF ResumedTraps
  <2>2. r \in [1 .. l -> Trap] BY <1>9, <2>1
  <2> QED BY <1>2, <2>2
<1>7. PICK tr2 : tr2 = tr \o r OBVIOUS
<1>8. tr2 \in Seq(Trap) /\ Len(tr2) = Len(tr) + l /\ (\A k \in 1 .. Len(tr) : tr2[k] = tr[k])
      /\ \A k \in 1 .. l : tr2[Len(tr) + k] = r[k]
  <2>1. tr \in Seq(Trap) /\ r \in Seq(Trap) BY <1>4, <1>6
  <2>2. /\ tr2 \in Seq(Trap) /\ Len(tr2) = Len(tr) + Len(r)
        /\ \A k \in 1 .. Len(tr) + Len(r) : tr2[k] = IF k <= Len(tr) THEN tr[k] ELSE r[k - Len(tr)]
    BY <1>7, <2>1, ConcatProperties
  <2>3. \A k \in 1 .. Len(tr) : k \in 1 .. Len(tr) + l /\ k <= Len(tr) BY <1>2, <1>4
  <2>4. \A k \in 1 .. l : Len(tr) + k \in 1 .. Len(tr) + l /\ ~(Len(tr) + k <= Len(tr)) /\ Len(tr) + k - Len(tr) = k
    BY <1>2, <1>4
  <2> QED BY <1>6, <2>2, <2>3, <2>4
<1>10. PICK t : t = Append(c, f) OBVIOUS
<1>11. t \in Seq(FrameG) /\ Len(t) = n + 1 /\ (\A i \in 1 .. n : t[i] = c[i]) /\ t[n + 1] = f BY <1>3, <1>10
<1>12. Rebuilt(c, tr, t, tr2, n, Len(tr))
  <2>1. t[n + 1].etraps = l BY <1>1, <1>11
  <2>2. \A m \in 1 .. l : tr2[Len(tr) + m].at = n + 1 /\ tr2[Len(tr) + m].level = m BY <1>8, <1>9
  <2> QED BY <1>2, <1>3, <1>4, <1>8, <1>11, <2>1, <2>2 DEF Rebuilt
<1> QED BY <1>1, <1>7, <1>10, <1>12

\* Yield.
LEMMA CutLast ==
    ASSUME NEW c \in Seq(FrameG), NEW tr, TrapsOk(c, tr), c # <<>>
    PROVE  Cut(c, tr, Front(c), SubSeq(tr, 1, Len(tr) - c[Len(c)].etraps), Len(c) - 1, Len(tr) - c[Len(c)].etraps)
PROOF
<1>1. PICK n, p : n = Len(c) /\ p = Len(tr) - c[n].etraps OBVIOUS
<1>2. n \in 1 .. Len(c) /\ n \in Nat /\ \A i \in n + 1 .. Len(c) : c[i].etraps <= 0 BY <1>1
<1>3. Upto(tr, n - 1, p) BY <1>1, <1>2, UptoBelow
<1>4. p \in 0 .. Len(tr) /\ tr \in Seq(Trap) BY <1>3 DEF Upto, TrapsOk
<1>5. PICK t, tr2 : t = Front(c) /\ tr2 = SubSeq(tr, 1, p) OBVIOUS
<1>6. tr2 \in Seq(Trap) /\ Len(tr2) = p /\ \A k \in 1 .. p : tr2[k] = tr[k] BY <1>4, <1>5, PrefixIs
<1>7. t \in Seq(FrameG) /\ Len(t) = n - 1 /\ \A i \in 1 .. n - 1 : t[i] = c[i] BY <1>1, <1>5, FrontIs
<1>8. n - 1 \in 0 .. Len(c) BY <1>1, <1>2
<1>9. Cut(c, tr, t, tr2, n - 1, p) BY <1>3, <1>6, <1>7, <1>8 DEF Cut
<1> QED BY <1>1, <1>5, <1>9

-----------------------------------------------------------------------------
(* What a step does to the C++ stack.                                      *)

LEMMA LikeSelf ==
    ASSUME NEW a
    PROVE  Like(a, a)
BY DEF Like

\* s and t are alike up to the k-th, and have only activations of u above it.
Apart(s, t, k, u) ==
    /\ k \in Nat /\ k <= Len(s) /\ k <= Len(t) /\ AllLike(s, t, k)
    /\ \A i \in k + 1 .. Len(s) : s[i].vm = u
    /\ \A i \in k + 1 .. Len(t) : t[i].vm = u

LEMMA Others ==
    ASSUME FInv, Shape', NEW u \in VMs, Only(u), NEW k, Apart(cstack, cstack', k, u), VMOk(cstack', vm'[u], u)
    PROVE  AllVMsOk'
PROOF
<1>1. PICK s, t : s = cstack /\ t = cstack' OBVIOUS
<1>2. s \in Seq(Act) /\ t \in Seq(Act) /\ Len(s) \in Nat /\ Len(t) \in Nat
  <2>1. s \in Seq(Act) BY <1>1 DEF FInv, GInv, Shape
  <2>2. t \in Seq(Act) BY <1>1 DEF Shape
  <2> QED BY <2>1, <2>2
<1>3. ASSUME NEW w \in VMs \ {u} PROVE VMOk(t, vm[w], w)
  <2>1. PICK m : m = vm[w] OBVIOUS
  <2>2. VMOk(s, m, w) BY <1>1, <2>1 DEF FInv, Frames, AllVMsOk
  <2>3. PICK e : e = IF m.suspended THEN 0 ELSE Len(m.calls) OBVIOUS
  <2>4. Stacked(s, Len(s), w, e, m.calls, m.etraps) BY <2>2, <2>3 DEF VMOk
  <2>5. /\ k \in Nat /\ k <= Len(s) /\ k <= Len(t) /\ AllLike(s, t, k)
        /\ (\A i \in k + 1 .. Len(s) : s[i].vm = u) /\ \A i \in k + 1 .. Len(t) : t[i].vm = u
    BY <1>1 DEF Apart
  <2>6. w # u OBVIOUS
  <2>7. Stacked(t, Len(t), w, e, m.calls, m.etraps)
    <3>1. PICK n, l, c, tr : n = Len(s) /\ l = Len(t) /\ c = m.calls /\ tr = m.etraps OBVIOUS
    <3>2. n \in Nat /\ l \in Nat /\ k \in Nat /\ k <= n /\ k <= l /\ AllLike(s, t, k) BY <1>2, <2>5, <3>1
    <3>3. \A i \in k + 1 .. n : s[i].vm = u BY <2>5, <3>1
    <3>4. \A i \in k + 1 .. l : t[i].vm = u BY <2>5, <3>1
    <3>5. Stacked(s, n, w, e, c, tr) BY <2>4, <3>1
    <3>6. Stacked(t, l, w, e, c, tr) BY <2>6, <3>2, <3>3, <3>4, <3>5, StackedOthers, ZenonT(60)
    <3> QED BY <3>1, <3>6
  <2>8. ASSUME m.suspended, NEW i \in 1 .. Len(t) PROVE t[i].vm # w
    <3>1. \A j \in 1 .. Len(s) : s[j].vm # w BY <2>2, <2>8 DEF VMOk, Waits
    <3>2. CASE i <= k
      <4>1. i \in 1 .. k /\ i \in 1 .. Len(s) BY <1>2, <2>5, <3>2
      <4> QED BY <2>5, <3>1, <4>1 DEF AllLike, Like
    <3>3. CASE i > k
      <4>1. i \in k + 1 .. Len(t) BY <1>2, <2>5, <3>3
      <4> QED BY <2>5, <2>6, <4>1
    <3> QED BY <1>2, <2>5, <3>2, <3>3
  <2>9. Waits(t, m, w) BY <2>2, <2>8 DEF VMOk, Waits
  <2> QED BY <2>1, <2>2, <2>3, <2>7, <2>9 DEF VMOk
<1>4. ASSUME NEW w \in VMs PROVE VMOk(cstack', vm'[w], w)
  <2>1. CASE w = u BY <2>1
  <2>2. CASE w # u
    <3>1. vm'[w] = vm[w] BY <2>2 DEF Only
    <3> QED BY <1>1, <1>3, <2>2, <3>1
  <2> QED BY <2>1, <2>2
<1> QED BY <1>4 DEF AllVMsOk

\* A VM with an activation is not suspended.
LEMMA OnStack ==
    ASSUME FInv, NEW i \in 1 .. Len(cstack)
    PROVE  cstack[i].vm \in VMs /\ ~vm[cstack[i].vm].suspended
PROOF
<1>1. cstack[i] \in Act BY DEF FInv, GInv, Shape
<1>2. PICK u : u = cstack[i].vm OBVIOUS
<1>3. u \in VMs BY <1>1, <1>2 DEF Act
<1>4. VMOk(cstack, vm[u], u) BY <1>3 DEF FInv, Frames, AllVMsOk
<1> QED BY <1>2, <1>3, <1>4 DEF VMOk, Waits

\* The VM in which the step happens.
LEMMA Mine ==
    ASSUME FInv, NEW u \in VMs, ~vm[u].suspended, NEW calls, NEW alloc, NEW etraps, NEW dn, NEW dm,
           Eff(u, calls, alloc, etraps, dn, dm), vm[u].nnative + dn <= MAX_NATIVE_CALLS, Fits(calls, alloc, etraps),
           Stacked(cstack', Len(cstack'), u, Len(calls), calls, etraps)
    PROVE  VMOk(cstack', vm'[u], u)
PROOF
<1>1. PICK s, m : s = cstack' /\ m = vm'[u] OBVIOUS
<1>2. vm[u].suspended \in BOOLEAN BY DEF FInv, Frames, AllVMsOk, VMOk
<1>3. /\ m.calls = calls /\ m.alloc = alloc /\ m.etraps = etraps /\ m.nnative = vm[u].nnative + dn
      /\ m.suspended = vm[u].suspended
  BY <1>1 DEF Eff, Is
<1>4. m.suspended = FALSE BY <1>2, <1>3
<1>5. Stacked(s, Len(s), u, IF m.suspended THEN 0 ELSE Len(m.calls), m.calls, m.etraps) BY <1>1, <1>3, <1>4
<1>6. Waits(s, m, u) BY <1>4 DEF Waits
<1>7. VMOk(s, m, u) BY <1>3, <1>4, <1>5, <1>6 DEF VMOk
<1> QED BY <1>1, <1>7

\* What belongs to the activation on top.
LEMMA TopOwns ==
    ASSUME FInv, cstack # <<>>
    PROVE  /\ Stacked(cstack, Len(cstack) - 1, Top.vm, Top.base, vm[Top.vm].calls, vm[Top.vm].etraps)
           /\ Owns(vm[Top.vm].calls, vm[Top.vm].etraps, Top, Len(vm[Top.vm].calls))
PROOF
<1>1. Shape BY DEF FInv, GInv
<1>2. PICK n, u : n = Len(cstack) - 1 /\ u = Top.vm OBVIOUS
<1>3. /\ Len(cstack) \in 1 .. Len(cstack) /\ Top = cstack[Len(cstack)] /\ u \in VMs /\ cstack \in Seq(Act)
      /\ Len(cstack) \in Nat
  BY <1>1, <1>2, TopType DEF Shape
<1>4. n \in Nat /\ n + 1 = Len(cstack) /\ n < Len(cstack) BY <1>2, <1>3
<1>5. VMOk(cstack, vm[u], u) /\ ~vm[u].suspended
  BY <1>2, <1>3, OnStack DEF FInv, Frames, AllVMsOk
<1>6. PICK c, tr : c = vm[u].calls /\ tr = vm[u].etraps OBVIOUS
<1>7. Len(c) \in Nat BY <1>1, <1>3, <1>6, SelfKept
<1>8. Stacked(cstack, n + 1, u, Len(c), c, tr) BY <1>4, <1>5, <1>6 DEF VMOk
<1>9. cstack[n + 1].vm = u /\ cstack[n + 1] = Top BY <1>2, <1>3, <1>4
<1>10. Stacked(cstack, n, u, cstack[n + 1].base, c, tr) /\ Owns(c, tr, cstack[n + 1], Len(c))
  BY <1>3, <1>4, <1>7, <1>8, <1>9, StackedPop
<1> QED BY <1>2, <1>6, <1>9, <1>10

\* An activation above those that stay.
LEMMA Restack ==
    ASSUME NEW s \in Seq(Act), NEW t \in Seq(Act), NEW k \in Nat, k <= Len(s), k < Len(t), AllLike(s, t, k),
           NEW u, NEW b \in Nat, NEW c, NEW tr, NEW c2, NEW tr2, Len(c2) \in Nat,
           Stacked(s, k, u, b, c, tr), Same(c, tr, c2, tr2, b),
           t[k + 1].vm = u, t[k + 1].base = b, NEW e \in Nat, b <= e, Owns(c2, tr2, t[k + 1], e)
    PROVE  Stacked(t, k + 1, u, e, c2, tr2)
PROOF
<1>1. k \in 0 .. Len(s) BY DEF Stacked
<1>2. Stacked(s, k, u, b, c2, tr2) BY <1>1, StackedSame
<1>3. Stacked(t, k, u, b, c2, tr2) BY <1>2, StackedLike
<1>4. Stacked(t, k, u, t[k + 1].base, c2, tr2) /\ t[k + 1].base <= e BY <1>3
<1> QED BY <1>4, StackedPush

LEMMA Unstack ==
    ASSUME NEW s \in Seq(Act), NEW t \in Seq(Act), NEW k \in Nat, k <= Len(s), AllLike(s, t, k),
           NEW u, NEW b \in Nat, NEW c, NEW tr, NEW c2, NEW tr2, Len(c2) \in Nat,
           Stacked(s, k, u, b, c, tr), Same(c, tr, c2, tr2, b)
    PROVE  Stacked(t, k, u, b, c2, tr2)
PROOF
<1>1. k \in 0 .. Len(s) BY DEF Stacked
<1>2. Stacked(s, k, u, b, c2, tr2) BY <1>1, StackedSame
<1> QED BY <1>2, StackedLike

LEMMA SameSelf ==
    ASSUME NEW c \in Seq(FrameG), NEW tr, NEW e \in Nat, e <= Len(c)
    PROVE  Same(c, tr, c, tr, e)
BY DEF Same

LEMMA SameLess ==
    ASSUME NEW c, NEW tr, NEW c2, NEW tr2, NEW e \in Nat, Same(c, tr, c2, tr2, e), NEW d \in Nat, d <= e,
           Len(c) \in Nat, Len(c2) \in Nat
    PROVE  Same(c, tr, c2, tr2, d)
PROOF
<1>1. d <= Len(c) /\ d <= Len(c2) BY DEF Same
<1>2. \A i \in 1 .. d : i \in 1 .. e OBVIOUS
<1>3. \A i \in 0 .. d : i \in 0 .. e OBVIOUS
<1> QED BY <1>1, <1>2, <1>3 DEF Same

\* A call that returns leaves the activation below it the frames that it has.
LEMMA ResumedOk ==
    ASSUME FInv, NEW k \in 1 .. Len(cstack), NEW for \in Fors, NEW ok \in BOOLEAN,
           CallerOk(for, cstack[k].mode), for # "host" => cstack[k].kind = "execute"
    PROVE  /\ Like(cstack[k], Resumed(cstack[k], for, ok)) /\ ActOk(Resumed(cstack[k], for, ok))
           /\ Resumed(cstack[k], for, ok).for = cstack[k].for
PROOF
<1>1. PICK a, b : a = cstack[k] /\ b = Resumed(a, for, ok) OBVIOUS
<1>2. a \in Act /\ ActOk(a) /\ (a.kind = "execute" => a.fn = "none")
  BY <1>1 DEF FInv, GInv, Shape, Frames, StackOk, StackInv, ExecuteFn
<1>3. b \in Act /\ b = [a EXCEPT !.mode = b.mode] BY <1>1, <1>2, ResumedType
<1>4. /\ b.kind = a.kind /\ b.vm = a.vm /\ b.base = a.base /\ b.traps = a.traps /\ b.raise = a.raise /\ b.for = a.for
      /\ a.kind \in {"execute", "native"}
  BY <1>2, <1>3 DEF Act, Kinds
<1>5. CASE for = "handler"
  <2>1. b = [a EXCEPT !.mode = Handled(@)] BY <1>1, <1>5 DEF Resumed
  <2>2. b.mode = Handled(a.mode) BY <1>2, <2>1 DEF Act
  <2>3. a.mode \in {"raise", "startraise"} /\ a.kind = "execute" BY <1>1, <1>5 DEF CallerOk
  <2> QED BY <1>1, <1>2, <1>4, <2>2, <2>3 DEF Handled, Like, ActOk, Executing, Starting
<1>6. CASE for \in {"meta", "opcall"}
  <2>1. a.mode = "run" /\ a.kind = "execute" BY <1>1, <1>6 DEF CallerOk
  <2>2. b = IF ok THEN a ELSE [a EXCEPT !.mode = Thrown(a)] BY <1>1, <1>6 DEF Resumed
  <2>3. b.mode = IF ok THEN "run" ELSE Thrown(a) BY <1>2, <2>1, <2>2 DEF Act
  <2> QED BY <1>1, <1>4, <2>1, <2>3 DEF Thrown, Like, ActOk, Executing, Starting
<1>7. CASE for = "host"
  <2>1. CASE a.fn # "call"
    <3>1. b = a BY <1>1, <1>7, <2>1 DEF Resumed
    <3> QED BY <1>1, <1>2, <3>1, LikeSelf
  <2>2. CASE a.fn = "call"
    <3>1. a.kind = "native" BY <1>2, <1>4, <2>2
    <3>2. b = [a EXCEPT !.mode = IF ok THEN "done" ELSE "failed"] BY <1>1, <1>7, <2>2 DEF Resumed
    <3>3. b.mode = IF ok THEN "done" ELSE "failed" BY <1>2, <3>2 DEF Act
    <3> QED BY <1>1, <1>4, <3>1, <3>3 DEF Like, ActOk, Executing, Starting
  <2> QED BY <2>1, <2>2
<1> QED BY <1>5, <1>6, <1>7 DEF Fors

\* A VM's new frames and traps are in order, and the first b frames as they were.
Changes(u, b, calls, alloc, etraps) ==
    /\ calls \in Seq(FrameG) /\ Fits(calls, alloc, etraps)
    /\ Same(vm[u].calls, vm[u].etraps, calls, etraps, b)

LEMMA StackIs ==
    ASSUME FInv
    PROVE  /\ cstack \in Seq(Act) /\ Len(cstack) \in Nat /\ Len(cstack) \in 0 .. Len(cstack)
           /\ \A i \in 1 .. Len(cstack) : cstack[i] \in Act /\ ActOk(cstack[i])
           /\ \A i \in 2 .. Len(cstack) : CallerOk(cstack[i].for, cstack[i - 1].mode)
PROOF
<1>1. cstack \in Seq(Act) BY DEF FInv, GInv, Shape
<1>2. StackOk(cstack) BY DEF FInv, Frames
<1> QED BY <1>1, <1>2 DEF StackOk

LEMMA VMIs ==
    ASSUME FInv, NEW u \in VMs
    PROVE  /\ vm[u].calls \in Seq(FrameG) /\ Len(vm[u].calls) \in Nat /\ VMOk(cstack, vm[u], u)
           /\ Fits(vm[u].calls, vm[u].alloc, vm[u].etraps) /\ TrapsOk(vm[u].calls, vm[u].etraps)
           /\ vm[u].nnative \in Int /\ vm[u].nnative + 0 <= MAX_NATIVE_CALLS /\ vm[u].nnative + (-1) <= MAX_NATIVE_CALLS
PROOF
<1>1. Shape BY DEF FInv, GInv
<1>2. VMOk(cstack, vm[u], u) BY DEF FInv, Frames, AllVMsOk
<1>3. vm[u].calls \in Seq(FrameG) /\ Len(vm[u].calls) \in Nat BY <1>1, SelfKept
<1>4. vm[u].nnative \in Int BY <1>1 DEF Shape, VMShape
<1>5. Fits(vm[u].calls, vm[u].alloc, vm[u].etraps) /\ vm[u].nnative <= MAX_NATIVE_CALLS BY <1>2 DEF VMOk
<1>6. TrapsOk(vm[u].calls, vm[u].etraps) BY <1>5 DEF Fits
<1>7. vm[u].nnative + 0 <= MAX_NATIVE_CALLS /\ vm[u].nnative + (-1) <= MAX_NATIVE_CALLS
  BY <1>4, <1>5, BoundsAssumption
<1> QED BY <1>2, <1>3, <1>4, <1>5, <1>6, <1>7

\* The VM u changes, in frames above b alone, which every call of u in
\* progress began at or above.
LEMMA KeptBelow ==
    ASSUME FInv, NEW u \in VMs, Only(u), NEW c2, vm'[u].calls = c2, Len(c2) \in Nat, NEW b \in Nat, b <= Len(c2),
           \A i \in 1 .. b : c2[i] = vm[u].calls[i],
           \A k \in 1 .. Len(cstack) : cstack[k].vm = u => cstack[k].base <= b
    PROVE  BelowKept
PROOF
<1>1. ASSUME NEW k \in 1 .. Len(cstack), NEW i \in 1 .. cstack[k].base
      PROVE  i <= Len(vm'[cstack[k].vm].calls) /\ vm'[cstack[k].vm].calls[i] = vm[cstack[k].vm].calls[i]
  <2>1. PICK a, w : a = cstack[k] /\ w = a.vm OBVIOUS
  <2>2. w \in VMs /\ ~vm[w].suspended BY <2>1, OnStack
  <2>3. a \in Act /\ a.base \in Nat
    <3>1. a \in Act BY <2>1, StackIs
    <3> QED BY <3>1 DEF Act
  <2>4. CASE w = u
    <3>1. a.base <= b BY <2>1, <2>4
    <3>2. i \in 1 .. b /\ i <= Len(c2) BY <2>1, <2>3, <3>1
    <3> QED BY <2>1, <2>4, <3>2
  <2>5. CASE w # u
    <3>1. vm'[w] = vm[w] BY <2>2, <2>5 DEF Only
    <3>2. VMOk(cstack, vm[w], w) /\ Len(vm[w].calls) \in Nat BY <2>2, VMIs
    <3>3. vm[w].suspended = FALSE BY <2>2, <3>2 DEF VMOk
    <3>4. a.base <= Len(vm[w].calls) BY <2>1, <3>2, <3>3 DEF VMOk, Stacked
    <3>5. i <= Len(vm[w].calls) BY <2>1, <2>3, <3>2, <3>4
    <3> QED BY <2>1, <3>1, <3>5
  <2> QED BY <2>4, <2>5
<1> QED BY <1>1 DEF BelowKept

LEMMA NothingKept ==
    ASSUME FInv, vm' = vm
    PROVE  BelowKept
PROOF
<1>1. ASSUME NEW k \in 1 .. Len(cstack), NEW i \in 1 .. cstack[k].base
      PROVE  i <= Len(vm[cstack[k].vm].calls)
  <2>1. PICK a, w : a = cstack[k] /\ w = a.vm OBVIOUS
  <2>2. w \in VMs /\ ~vm[w].suspended BY <2>1, OnStack
  <2>3. a \in Act /\ a.base \in Nat
    <3>1. a \in Act BY <2>1, StackIs
    <3> QED BY <3>1 DEF Act
  <2>4. VMOk(cstack, vm[w], w) /\ Len(vm[w].calls) \in Nat BY <2>2, VMIs
  <2>5. vm[w].suspended = FALSE BY <2>2, <2>4 DEF VMOk
  <2>6. a.base <= Len(vm[w].calls) BY <2>1, <2>4, <2>5 DEF VMOk, Stacked
  <2> QED BY <2>1, <2>3, <2>4, <2>6
<1> QED BY <1>1 DEF BelowKept

\* What happens in the VM on top happens above where its call began.
LEMMA TopKept ==
    ASSUME FInv, cstack # <<>>, NEW u, u = Top.vm, Only(u), NEW c2, vm'[u].calls = c2, Len(c2) \in Nat,
           NEW tr2, Same(vm[u].calls, vm[u].etraps, c2, tr2, Top.base)
    PROVE  BelowKept
PROOF
<1>1. PICK n, b : n = Len(cstack) - 1 /\ b = Top.base OBVIOUS
<1>2. n \in Nat /\ Len(cstack) = n + 1 /\ Top = cstack[n + 1] /\ u \in VMs /\ b \in Nat
  <2>1. Shape BY DEF FInv, GInv
  <2>2. Len(cstack) \in 1 .. Len(cstack) /\ Top \in Act /\ Top = cstack[Len(cstack)] /\ Top.vm \in VMs
    BY <2>1, TopType
  <2>3. Len(cstack) \in Nat BY StackIs
  <2>4. Top.base \in Nat BY <2>2 DEF Act
  <2> QED BY <1>1, <2>2, <2>3, <2>4
<1>3. Stacked(cstack, n, u, b, vm[u].calls, vm[u].etraps) BY <1>1, TopOwns
<1>4. ASSUME NEW k \in 1 .. Len(cstack), cstack[k].vm = u PROVE cstack[k].base <= b
  <2>1. CASE k = n + 1 BY <1>1, <1>2, <2>1
  <2>2. CASE k # n + 1
    <3>1. k \in 1 .. n BY <1>2, <2>2
    <3> QED BY <1>3, <1>4, <3>1 DEF Stacked
  <2> QED BY <2>1, <2>2
<1>5. b <= Len(c2) /\ \A i \in 1 .. b : c2[i] = vm[u].calls[i] BY <1>1 DEF Same
<1> QED BY <1>2, <1>4, <1>5, KeptBelow

\* Where the VM only gets more frames.
LEMMA MoreKept ==
    ASSUME FInv, NEW u \in VMs, ~vm[u].suspended, Only(u), NEW c2, vm'[u].calls = c2, Len(c2) \in Nat,
           NEW tr2, Same(vm[u].calls, vm[u].etraps, c2, tr2, Len(vm[u].calls))
    PROVE  BelowKept
PROOF
<1>1. PICK b : b = Len(vm[u].calls) OBVIOUS
<1>2. b \in Nat /\ VMOk(cstack, vm[u], u) BY <1>1, VMIs
<1>3. vm[u].suspended = FALSE BY <1>2 DEF VMOk
<1>4. \A k \in 1 .. Len(cstack) : cstack[k].vm = u => cstack[k].base <= b BY <1>1, <1>2, <1>3 DEF VMOk, Stacked
<1>5. b <= Len(c2) /\ \A i \in 1 .. b : c2[i] = vm[u].calls[i] BY <1>1 DEF Same
<1> QED BY <1>2, <1>4, <1>5, KeptBelow

\* The activation on top goes on with other frames.
LEMMA TopStep ==
    ASSUME FInv, Shape', cstack # <<>>, NEW u, u = Top.vm, NEW calls, NEW alloc, NEW etraps,
           Eff(u, calls, alloc, etraps, 0, 0), Changes(u, Top.base, calls, alloc, etraps),
           NEW b, Topped(cstack, cstack', b), b.vm = u, b.base = Top.base, b.for = Top.for, ActOk(b),
           Owns(calls, etraps, b, Len(calls))
    PROVE  AllVMsOk' /\ StackOk(cstack') /\ BelowKept
PROOF
<1>1. PICK s, t, k : s = cstack /\ t = cstack' /\ k = Len(cstack) - 1 OBVIOUS
<1>2. /\ s \in Seq(Act) /\ Len(s) \in Nat /\ k \in Nat /\ Len(s) = k + 1 /\ u \in VMs /\ Top = s[k + 1]
      /\ Top.base \in Nat /\ t \in Seq(Act)
  <2>1. Shape BY DEF FInv, GInv
  <2>2. Len(cstack) \in 1 .. Len(cstack) /\ Top \in Act /\ Top = cstack[Len(cstack)] /\ Top.vm \in VMs
    BY <2>1, TopType
  <2>3. cstack \in Seq(Act) /\ cstack' \in Seq(Act) BY <2>1 DEF Shape
  <2>4. Len(cstack) \in Nat /\ k \in Nat /\ Len(cstack) = k + 1 BY <1>1, <2>2, <2>3
  <2>5. Top.base \in Nat BY <2>2 DEF Act
  <2> QED BY <1>1, <2>2, <2>3, <2>4, <2>5
<1>3. Len(t) = k + 1 /\ t[k + 1] = b /\ \A i \in 1 .. k : t[i] = s[i] BY <1>1, <1>2 DEF Topped
<1>4. AllLike(s, t, k) BY <1>3, LikeSelf DEF AllLike
<1>5. PICK c, tr, d : c = vm[u].calls /\ tr = vm[u].etraps /\ d = Top.base OBVIOUS
<1>6. Stacked(s, k, u, d, c, tr) BY <1>1, <1>5, TopOwns
<1>7. calls \in Seq(FrameG) /\ Len(calls) \in Nat /\ Same(c, tr, calls, etraps, d) /\ Fits(calls, alloc, etraps)
  BY <1>5 DEF Changes
<1>8. d <= Len(calls) BY <1>5 DEF Owns
<1>9. Stacked(t, k + 1, u, Len(calls), calls, etraps)
  <2>1. k <= Len(s) /\ k < Len(t) BY <1>2, <1>3
  <2>2. t[k + 1].vm = u /\ t[k + 1].base = d /\ Owns(calls, etraps, t[k + 1], Len(calls)) BY <1>3, <1>5
  <2> QED BY <1>2, <1>4, <1>5, <1>6, <1>7, <1>8, <2>1, <2>2, Restack
<1>10. Len(cstack') = k + 1 BY <1>1, <1>3
<1>11. VMOk(cstack', vm'[u], u)
  <2>1. ~vm[u].suspended BY <1>1, <1>2, OnStack
  <2>2. vm[u].nnative + 0 <= MAX_NATIVE_CALLS BY <1>2, VMIs
  <2>3. Stacked(cstack', Len(cstack'), u, Len(calls), calls, etraps) BY <1>1, <1>9, <1>10
  <2> QED BY <1>2, <1>7, <2>1, <2>2, <2>3, Mine
<1>12. AllVMsOk'
  <2>1. Apart(s, t, k, u)
    <3>1. k <= Len(s) /\ k <= Len(t) BY <1>2, <1>3
    <3>2. \A i \in k + 1 .. Len(s) : i = k + 1 BY <1>2
    <3>3. \A i \in k + 1 .. Len(t) : i = k + 1 BY <1>2, <1>3
    <3>4. s[k + 1].vm = u /\ t[k + 1].vm = u BY <1>2, <1>3
    <3> QED BY <1>2, <1>4, <3>1, <3>2, <3>3, <3>4 DEF Apart
  <2>2. Only(u) BY DEF Eff
  <2>3. Apart(cstack, cstack', k, u) BY <1>1, <2>1
  <2> QED BY <1>2, <1>11, <2>2, <2>3, Others
<1>13. StackOk(t)
  <2>1. ASSUME NEW i \in 1 .. Len(t) PROVE ActOk(t[i]) /\ t[i].for = s[i].for
    <3>1. CASE i = k + 1 BY <1>2, <1>3, <3>1
    <3>2. CASE i # k + 1
      <4>1. i \in 1 .. k /\ i \in 1 .. Len(s) BY <1>2, <1>3, <3>2
      <4> QED BY <1>1, <1>3, <4>1, StackIs
    <3> QED BY <3>1, <3>2
  <2>2. ASSUME NEW i \in 1 .. Len(t), i > 1 PROVE CallerOk(t[i].for, t[i - 1].mode)
    <3>1. i - 1 \in 1 .. k /\ i \in 2 .. Len(s) BY <1>2, <1>3, <2>2
    <3>2. CallerOk(s[i].for, s[i - 1].mode) BY <1>1, <3>1, StackIs
    <3> QED BY <1>3, <2>1, <3>1, <3>2
  <2> QED BY <2>1, <2>2 DEF StackOk
<1>14. BelowKept
  <2>1. Only(u) /\ vm'[u].calls = calls BY DEF Eff, Is
  <2> QED BY <1>5, <1>7, <2>1, TopKept
<1> QED BY <1>1, <1>12, <1>13, <1>14

\* One more on the C++ stack.
LEMMA PushedOk ==
    ASSUME FInv, NEW a \in Act, ActOk(a), cstack # <<>> => CallerOk(a.for, Top.mode), NEW t, t = Append(cstack, a)
    PROVE  StackOk(t)
PROOF
<1>1. PICK s, k : s = cstack /\ k = Len(cstack) OBVIOUS
<1>2. s \in Seq(Act) /\ k \in Nat /\ Len(s) = k BY <1>1, StackIs
<1>3. Len(t) = k + 1 /\ t[k + 1] = a /\ \A i \in 1 .. k : t[i] = s[i] BY <1>1, <1>2
<1>4. ASSUME NEW i \in 1 .. Len(t) PROVE ActOk(t[i])
  <2>1. CASE i = k + 1 BY <1>3, <2>1
  <2>2. CASE i # k + 1
    <3>1. i \in 1 .. k /\ i \in 1 .. Len(s) BY <1>2, <1>3, <2>2
    <3> QED BY <1>1, <1>3, <3>1, StackIs
  <2> QED BY <2>1, <2>2
<1>5. ASSUME NEW i \in 1 .. Len(t), i > 1 PROVE CallerOk(t[i].for, t[i - 1].mode)
  <2>1. CASE i = k + 1
    <3>1. k \in 1 .. k /\ i - 1 = k /\ s # <<>> BY <1>2, <1>5, <2>1
    <3>2. Top = s[k] BY <1>1 DEF Top, Last
    <3> QED BY <1>1, <1>3, <2>1, <3>1, <3>2
  <2>2. CASE i # k + 1
    <3>1. i - 1 \in 1 .. k /\ i \in 1 .. k /\ i \in 2 .. Len(s) BY <1>2, <1>3, <1>5, <2>2
    <3>2. CallerOk(s[i].for, s[i - 1].mode) BY <1>1, <3>1, StackIs
    <3> QED BY <1>3, <3>1, <3>2
  <2> QED BY <2>1, <2>2
<1> QED BY <1>4, <1>5 DEF StackOk

\* One that begins.
LEMMA PushStep ==
    ASSUME FInv, Shape', NEW u \in VMs, ~vm[u].suspended, vm[u].nnative + 1 <= MAX_NATIVE_CALLS,
           NEW calls, NEW alloc, NEW etraps, NEW dm,
           Eff(u, calls, alloc, etraps, 1, dm), Changes(u, Len(vm[u].calls), calls, alloc, etraps),
           NEW a \in Act, cstack' = Append(cstack, a), a.vm = u, a.base = Len(vm[u].calls), ActOk(a),
           cstack # <<>> => CallerOk(a.for, Top.mode), Owns(calls, etraps, a, Len(calls))
    PROVE  AllVMsOk' /\ StackOk(cstack') /\ BelowKept
PROOF
<1>1. PICK s, t, k : s = cstack /\ t = cstack' /\ k = Len(cstack) OBVIOUS
<1>2. s \in Seq(Act) /\ k \in Nat /\ Len(s) = k /\ t \in Seq(Act)
  <2>1. cstack \in Seq(Act) BY StackIs
  <2>2. cstack' \in Seq(Act) BY DEF Shape
  <2> QED BY <1>1, <2>1, <2>2
<1>3. Len(t) = k + 1 /\ t[k + 1] = a /\ \A i \in 1 .. k : t[i] = s[i]
  BY <1>1, <1>2
<1>4. AllLike(s, t, k) BY <1>3, LikeSelf DEF AllLike
<1>5. PICK c, tr, d : c = vm[u].calls /\ tr = vm[u].etraps /\ d = Len(c) OBVIOUS
<1>6. Stacked(s, k, u, d, c, tr) /\ d \in Nat
  <2>1. VMOk(cstack, vm[u], u) /\ Len(vm[u].calls) \in Nat BY VMIs
  <2>2. vm[u].suspended = FALSE BY <2>1 DEF VMOk
  <2> QED BY <1>1, <1>5, <2>1, <2>2 DEF VMOk
<1>7. calls \in Seq(FrameG) /\ Len(calls) \in Nat /\ Same(c, tr, calls, etraps, d) /\ Fits(calls, alloc, etraps)
  BY <1>5 DEF Changes
<1>8. d <= Len(calls) BY <1>5 DEF Owns
<1>9. Stacked(t, k + 1, u, Len(calls), calls, etraps)
  <2>1. k <= Len(s) /\ k < Len(t) BY <1>2, <1>3
  <2>2. t[k + 1].vm = u /\ t[k + 1].base = d /\ Owns(calls, etraps, t[k + 1], Len(calls)) BY <1>3, <1>5
  <2> QED BY <1>2, <1>4, <1>6, <1>7, <1>8, <2>1, <2>2, Restack
<1>10. Len(cstack') = k + 1 BY <1>1, <1>3
<1>11. VMOk(cstack', vm'[u], u)
  <2>1. Stacked(cstack', Len(cstack'), u, Len(calls), calls, etraps) BY <1>1, <1>9, <1>10
  <2> QED BY <1>7, <2>1, Mine
<1>12. AllVMsOk'
  <2>1. Apart(s, t, k, u)
    <3>1. k <= Len(s) /\ k <= Len(t) BY <1>2, <1>3
    <3>2. \A i \in k + 1 .. Len(s) : FALSE BY <1>2
    <3>3. \A i \in k + 1 .. Len(t) : i = k + 1 BY <1>2, <1>3
    <3>4. t[k + 1].vm = u BY <1>3
    <3> QED BY <1>2, <1>4, <3>1, <3>2, <3>3, <3>4 DEF Apart
  <2>2. Only(u) BY DEF Eff
  <2>3. Apart(cstack, cstack', k, u) BY <1>1, <2>1
  <2> QED BY <1>11, <2>2, <2>3, Others
<1>13. StackOk(t) BY <1>1, PushedOk
<1>14. BelowKept
  <2>1. Only(u) /\ vm'[u].calls = calls BY DEF Eff, Is
  <2> QED BY <1>5, <1>7, <2>1, MoreKept
<1> QED BY <1>1, <1>12, <1>13, <1>14

\* The activations that are left when a call has returned to the last of them.
LEMMA BackOk ==
    ASSUME FInv, NEW k \in 0 .. Len(cstack), NEW s \in Seq(Act), Len(s) = k, \A i \in 1 .. k : s[i] = cstack[i],
           NEW for \in Fors, NEW ok \in BOOLEAN,
           k > 0 => CallerOk(for, cstack[k].mode) /\ (for # "host" => cstack[k].kind = "execute"),
           NEW t, t = Back(s, for, ok)
    PROVE  t \in Seq(Act) /\ Len(t) = k /\ AllLike(cstack, t, k) /\ StackOk(t)
PROOF
<1>1. /\ cstack \in Seq(Act) /\ Len(cstack) \in Nat /\ k \in Nat
      /\ \A i \in 1 .. Len(cstack) : cstack[i] \in Act /\ ActOk(cstack[i])
  BY StackIs
<1>2. t \in Seq(Act) /\ Alike(s, t) /\ (s # <<>> => Topped(s, t, Resumed(s[Len(s)], for, ok))) BY BackTop
<1>3. Len(t) = k BY <1>2 DEF Alike
<1>4. ASSUME NEW i \in 1 .. k PROVE Like(cstack[i], t[i]) /\ ActOk(t[i]) /\ t[i].for = cstack[i].for
  <2>1. s # <<>> /\ i \in 1 .. Len(cstack) /\ k \in 1 .. Len(cstack) /\ k > 0 BY <1>1, <1>4
  <2>2. Topped(s, t, Resumed(s[k], for, ok)) BY <1>2, <2>1
  <2>3. CASE i = k
    <3>1. t[i] = Resumed(cstack[k], for, ok) BY <1>1, <2>1, <2>2, <2>3 DEF Topped
    <3>2. /\ Like(cstack[k], Resumed(cstack[k], for, ok)) /\ ActOk(Resumed(cstack[k], for, ok))
          /\ Resumed(cstack[k], for, ok).for = cstack[k].for
      BY <2>1, ResumedOk
    <3> QED BY <2>3, <3>1, <3>2
  <2>4. CASE i # k
    <3>1. i \in 1 .. k - 1 BY <1>1, <2>4
    <3>2. t[i] = cstack[i] BY <2>2, <3>1 DEF Topped
    <3> QED BY <1>1, <2>1, <3>2, LikeSelf
  <2> QED BY <2>3, <2>4
<1>5. ASSUME NEW i \in 1 .. k, i > 1 PROVE CallerOk(t[i].for, t[i - 1].mode)
  <2>1. i \in 2 .. Len(cstack) /\ i - 1 \in 1 .. k - 1 /\ k > 0 BY <1>1, <1>5
  <2>2. CallerOk(cstack[i].for, cstack[i - 1].mode) BY <2>1, StackIs
  <2>3. t[i - 1] = cstack[i - 1]
    <3>1. s # <<>> /\ i - 1 \in 1 .. k BY <1>1, <2>1
    <3> QED BY <1>2, <2>1, <3>1 DEF Topped
  <2>4. t[i].for = cstack[i].for BY <1>4
  <2> QED BY <2>2, <2>3, <2>4
<1> QED BY <1>2, <1>3, <1>4, <1>5 DEF AllLike, StackOk

\* What the activation below the top was doing when it made the call.
LEMMA CallerIs ==
    ASSUME FInv, cstack # <<>>, NEW k, k = Len(cstack) - 1
    PROVE  /\ k \in 0 .. Len(cstack) /\ Len(cstack) = k + 1 /\ k \in Nat /\ Top = cstack[k + 1]
           /\ k > 0 => CallerOk(Top.for, cstack[k].mode) /\ (Top.for # "host" => cstack[k].kind = "execute")
           /\ Top.for # "host" => k > 0 /\ cstack[k].vm = Top.vm
           /\ Top.for \in Fors /\ Front(cstack) \in Seq(Act) /\ Len(Front(cstack)) = k
           /\ \A i \in 1 .. k : Front(cstack)[i] = cstack[i]
           /\ Top.vm \in VMs /\ Top \in Act /\ Top.base \in Nat /\ ActOk(Top)
PROOF
<1>1. Shape BY DEF FInv, GInv
<1>2. /\ Len(cstack) \in 1 .. Len(cstack) /\ Top \in Act /\ Top = cstack[Len(cstack)] /\ Top.vm \in VMs
      /\ Front(cstack) \in Seq(Act) /\ Len(Front(cstack)) = Len(cstack) - 1
      /\ (\A i \in 1 .. Len(cstack) - 1 : Front(cstack)[i] = cstack[i]) /\ Top.for \in Fors
  BY <1>1, TopType
<1>3. Len(cstack) \in Nat BY StackIs
<1>4. k \in 0 .. Len(cstack) /\ Len(cstack) = k + 1 /\ k \in Nat BY <1>2, <1>3
<1>5. Top = cstack[k + 1] BY <1>2, <1>4
<1>6. Top.base \in Nat /\ ActOk(Top) BY <1>2, StackIs DEF Act
<1>7. Called BY DEF FInv, GInv, StackInv
<1>8. ASSUME Top.for # "host" PROVE k > 0 /\ cstack[k].vm = Top.vm /\ cstack[k].kind = "execute"
  <2>1. k + 1 \in 1 .. Len(cstack) /\ k + 1 - 1 = k BY <1>2, <1>4
  <2>2. k + 1 > 1 /\ cstack[k + 1 - 1].vm = cstack[k + 1].vm /\ cstack[k + 1 - 1].kind = "execute"
    BY <1>5, <1>7, <1>8, <2>1 DEF Called
  <2> QED BY <1>4, <1>5, <2>1, <2>2
<1>9. ASSUME k > 0 PROVE CallerOk(Top.for, cstack[k].mode)
  <2>1. k + 1 \in 2 .. Len(cstack) /\ k + 1 - 1 = k BY <1>4, <1>9
  <2>2. CallerOk(cstack[k + 1].for, cstack[k + 1 - 1].mode) BY <2>1, StackIs
  <2> QED BY <1>5, <2>1, <2>2
<1>10. Len(Front(cstack)) = k /\ \A i \in 1 .. k : Front(cstack)[i] = cstack[i] BY <1>2, <1>4
<1> QED BY <1>2, <1>4, <1>5, <1>6, <1>8, <1>9, <1>10

\* The activation on top returns: those below it, as they are then.
LEMMA PopLike ==
    ASSUME FInv, cstack # <<>>, NEW ok \in BOOLEAN, cstack' = Back(Front(cstack), Top.for, ok),
           NEW k, k = Len(cstack) - 1
    PROVE  cstack' \in Seq(Act) /\ Len(cstack') = k /\ AllLike(cstack, cstack', k) /\ StackOk(cstack')
PROOF
<1>1. PICK t, f, for : t = cstack' /\ f = Front(cstack) /\ for = Top.for OBVIOUS
<1>2. /\ k \in 0 .. Len(cstack) /\ for \in Fors /\ f \in Seq(Act) /\ Len(f) = k
      /\ k > 0 => CallerOk(for, cstack[k].mode) /\ (for # "host" => cstack[k].kind = "execute")
  BY <1>1, CallerIs
<1>3. \A i \in 1 .. k : f[i] = cstack[i] BY <1>1, CallerIs
<1>4. t = Back(f, for, ok) BY <1>1
<1>5. t \in Seq(Act) /\ Len(t) = k /\ AllLike(cstack, t, k) /\ StackOk(t)
  <2>1. k > 0 => CallerOk(for, cstack[k].mode) /\ (for # "host" => cstack[k].kind = "execute") BY <1>2
  <2> QED BY <1>2, <1>3, <1>4, <2>1, BackOk, SMTT(30)
<1> QED BY <1>1, <1>5

\* The VMs, then.
LEMMA PopRest ==
    ASSUME FInv, Shape', cstack # <<>>, NEW u, u = Top.vm, NEW calls, NEW alloc, NEW etraps, NEW dm,
           Eff(u, calls, alloc, etraps, -1, dm), Fits(calls, alloc, etraps),
           calls \in Seq(FrameG), Same(vm[u].calls, vm[u].etraps, calls, etraps, Top.base),
           NEW ok \in BOOLEAN, cstack' = Back(Front(cstack), Top.for, ok),
           Stacked(cstack', Len(cstack) - 1, u, Len(calls), calls, etraps)
    PROVE  AllVMsOk' /\ StackOk(cstack') /\ BelowKept
PROOF
<1>1. PICK s, t, k, f : s = cstack /\ t = cstack' /\ k = Len(cstack) - 1 /\ f = Front(cstack) OBVIOUS
<1>2. /\ k \in 0 .. Len(cstack) /\ Len(cstack) = k + 1 /\ k \in Nat /\ Top = cstack[k + 1]
      /\ k > 0 => CallerOk(Top.for, cstack[k].mode) /\ (Top.for # "host" => cstack[k].kind = "execute")
      /\ Top.for \in Fors /\ f \in Seq(Act) /\ Len(f) = k /\ \A i \in 1 .. k : f[i] = cstack[i]
  BY <1>1, CallerIs
<1>3. u \in VMs BY <1>1, CallerIs
<1>4. t \in Seq(Act) /\ Len(t) = k /\ AllLike(s, t, k) /\ StackOk(t)
  <2>1. t \in Seq(Act) /\ Len(t) = k /\ AllLike(cstack, t, k) /\ StackOk(t) BY <1>1, PopLike
  <2> QED BY <1>1, <2>1
<1>9. VMOk(cstack', vm'[u], u)
  <2>1. ~vm[u].suspended
    <3>1. k + 1 \in 1 .. Len(cstack) /\ cstack[k + 1].vm = u BY <1>2
    <3> QED BY <3>1, OnStack
  <2>2. vm[u].nnative + (-1) <= MAX_NATIVE_CALLS BY <1>3, VMIs
  <2>3. Stacked(cstack', Len(cstack'), u, Len(calls), calls, etraps) BY <1>1, <1>4
  <2>4. PICK dn : dn = -1 OBVIOUS
  <2>5. Eff(u, calls, alloc, etraps, dn, dm) /\ vm[u].nnative + dn <= MAX_NATIVE_CALLS BY <2>2, <2>4
  <2> QED BY <1>3, <2>1, <2>3, <2>5, Mine
<1>10. AllVMsOk'
  <2>1. Apart(s, t, k, u)
    <3>1. k <= Len(s) /\ k <= Len(t)
      <4>1. Len(s) = k + 1 /\ Len(t) = k /\ k \in Nat BY <1>1, <1>2, <1>4
      <4> QED BY ONLY <4>1
    <3>2. \A i \in k + 1 .. Len(s) : i = k + 1 BY <1>1, <1>2
    <3>3. \A i \in k + 1 .. Len(t) : FALSE BY <1>2, <1>4
    <3>4. s[k + 1].vm = u BY <1>1, <1>2
    <3> QED BY <1>2, <1>4, <3>1, <3>2, <3>3, <3>4 DEF Apart
  <2>2. Only(u) BY DEF Eff
  <2>3. Apart(cstack, cstack', k, u) BY <1>1, <2>1
  <2> QED BY <1>3, <1>9, <2>2, <2>3, Others
<1>11. BelowKept
  <2>1. Only(u) /\ vm'[u].calls = calls BY DEF Eff, Is
  <2>2. Len(calls) \in Nat OBVIOUS
  <2> QED BY <2>1, <2>2, TopKept
<1> QED BY <1>1, <1>4, <1>10, <1>11

\* It returns, with the frames of its VM as it found them.
LEMMA PopStep ==
    ASSUME FInv, Shape', cstack # <<>>, NEW u, u = Top.vm, NEW calls, NEW alloc, NEW etraps, NEW dm,
           Eff(u, calls, alloc, etraps, -1, dm), Changes(u, Top.base, calls, alloc, etraps), Len(calls) = Top.base,
           NEW ok \in BOOLEAN, cstack' = Back(Front(cstack), Top.for, ok)
    PROVE  AllVMsOk' /\ StackOk(cstack') /\ BelowKept
PROOF
<1>1. PICK s, t, k : s = cstack /\ t = cstack' /\ k = Len(cstack) - 1 OBVIOUS
<1>2. k \in Nat /\ Len(s) = k + 1 /\ Top.base \in Nat BY <1>1, CallerIs
<1>3. t \in Seq(Act) /\ Len(t) = k /\ AllLike(s, t, k) BY <1>1, PopLike
<1>4. PICK c, tr, d : c = vm[u].calls /\ tr = vm[u].etraps /\ d = Top.base OBVIOUS
<1>5. Stacked(s, k, u, d, c, tr) BY <1>1, <1>4, TopOwns
<1>6. calls \in Seq(FrameG) /\ Len(calls) \in Nat /\ Same(c, tr, calls, etraps, d) /\ Fits(calls, alloc, etraps)
  BY <1>4 DEF Changes
<1>7. Stacked(t, k, u, d, calls, etraps)
  <2>1. s \in Seq(Act) /\ k <= Len(s) BY <1>1, <1>2, StackIs
  <2> QED BY <1>2, <1>3, <1>4, <1>5, <1>6, <2>1, Unstack
<1>8. Stacked(cstack', Len(cstack) - 1, u, Len(calls), calls, etraps) BY <1>1, <1>4, <1>7
<1>9. Same(vm[u].calls, vm[u].etraps, calls, etraps, Top.base) BY <1>4, <1>6
<1> QED BY <1>6, <1>8, <1>9, PopRest

\* Who may call for this reason now.
Calling(for) == cstack # <<>> => CallerOk(for, Top.mode) /\ (for # "host" => Top.kind = "execute")

\* A call of u that returns at once.
LEMMA StayStep ==
    ASSUME FInv, Shape', NEW u \in VMs, ~vm[u].suspended, NEW alloc \in Nat \ {0}, Len(vm[u].calls) <= alloc,
           Eff(u, vm[u].calls, alloc, vm[u].etraps, 0, 0),
           NEW for \in Fors, Calling(for), NEW ok \in BOOLEAN, cstack' = Back(cstack, for, ok)
    PROVE  AllVMsOk' /\ StackOk(cstack') /\ BelowKept
PROOF
<1>1. PICK s, t, k : s = cstack /\ t = cstack' /\ k = Len(cstack) OBVIOUS
<1>2. s \in Seq(Act) /\ k \in 0 .. Len(s) /\ k \in Nat BY <1>1, StackIs
<1>3. k > 0 => CallerOk(for, cstack[k].mode) /\ (for # "host" => cstack[k].kind = "execute")
  <2>1. Top = cstack[k] BY <1>1 DEF Top, Last
  <2>2. k > 0 => cstack # <<>> BY <1>1, <1>2
  <2> QED BY <2>1, <2>2 DEF Calling
<1>4. t \in Seq(Act) /\ Len(t) = k /\ AllLike(s, t, k) /\ StackOk(t)
  <2>1. \A i \in 1 .. k : s[i] = cstack[i] BY <1>1
  <2>2. t = Back(s, for, ok) BY <1>1
  <2> QED BY <1>1, <1>2, <1>3, <2>1, <2>2, BackOk
<1>5. PICK c, tr, d : c = vm[u].calls /\ tr = vm[u].etraps /\ d = Len(c) OBVIOUS
<1>6. c \in Seq(FrameG) /\ d \in Nat /\ VMOk(s, vm[u], u) /\ Fits(c, vm[u].alloc, tr) BY <1>1, <1>5, VMIs
<1>7. Stacked(t, k, u, d, c, tr)
  <2>1. vm[u].suspended = FALSE BY <1>6 DEF VMOk
  <2>2. Stacked(s, k, u, d, c, tr) BY <1>1, <1>5, <1>6, <2>1 DEF VMOk
  <2>3. AllLike(s, t, k) BY <1>4
  <2> QED BY <1>2, <2>2, <2>3, StackedLike
<1>8. Fits(c, alloc, tr) BY <1>5, <1>6 DEF Fits
<1>9. VMOk(cstack', vm'[u], u)
  <2>1. vm[u].nnative + 0 <= MAX_NATIVE_CALLS BY VMIs
  <2>2. Stacked(cstack', Len(cstack'), u, Len(c), c, tr) BY <1>1, <1>4, <1>5, <1>7
  <2>3. Eff(u, c, alloc, tr, 0, 0) BY <1>5
  <2> QED BY <1>8, <2>1, <2>2, <2>3, Mine
<1>10. AllVMsOk'
  <2>1. Apart(s, t, k, u)
    <3>1. k <= Len(s) /\ k <= Len(t) BY <1>2, <1>4
    <3>2. \A i \in k + 1 .. Len(s) : FALSE BY <1>1, <1>2
    <3>3. \A i \in k + 1 .. Len(t) : FALSE BY <1>2, <1>4
    <3> QED BY <1>2, <1>4, <3>1, <3>2, <3>3 DEF Apart
  <2>2. Only(u) BY DEF Eff
  <2>3. Apart(cstack, cstack', k, u) BY <1>1, <2>1
  <2> QED BY <1>9, <2>2, <2>3, Others
<1>11. BelowKept
  <2>1. Only(u) /\ vm'[u].calls = c BY <1>5 DEF Eff, Is
  <2>2. Len(c) \in Nat /\ d <= Len(c) BY <1>5, <1>6
  <2>3. Same(c, tr, c, tr, d) BY <1>6, <2>2, SameSelf
  <2> QED BY <1>5, <2>1, <2>2, <2>3, MoreKept
<1> QED BY <1>1, <1>4, <1>10, <1>11

\* What is known of the VM u, with frames c, in which the Execute on top runs.
ScriptTop(u, c, tr, n) ==
    /\ u \in VMs /\ c \in Seq(FrameG) /\ n \in Nat /\ TrapsOk(c, tr) /\ Fits(c, vm[u].alloc, tr)
    /\ tr \in Seq(Trap) /\ Len(tr) \in Nat /\ Upto(tr, n, Len(tr))
    /\ Top \in Act /\ Top.base \in Nat /\ Top.base < n /\ n \in 1 .. n /\ n \in 0 .. n /\ ActOk(Top)
    /\ Script(c, tr, Top.base, n, Top.traps) /\ Top.traps \in Int
    /\ \A i \in Top.base + 1 .. n : c[i].code /\ (c[i].root <=> i = Top.base + 1)
    /\ Len(cstack) \in 1 .. Len(cstack) /\ ~vm[u].suspended /\ Top = cstack[Len(cstack)]

\* What an Execute on top has.
LEMMA TopScript ==
    ASSUME FInv, cstack # <<>>, Executing(Top), NEW u, u = Top.vm, NEW c, c = vm[u].calls, NEW tr, tr = vm[u].etraps,
           NEW n, n = Len(c)
    PROVE  ScriptTop(u, c, tr, n)
PROOF
<1>1. Shape BY DEF FInv, GInv
<1>2. Len(cstack) \in 1 .. Len(cstack) /\ Top \in Act /\ Top.vm \in VMs /\ Top = cstack[Len(cstack)] BY <1>1, TopType
<1>3. Top.base \in Nat /\ Top.traps \in Int BY <1>2 DEF Act
<1>4. ActOk(Top) BY <1>2, StackIs
<1>5. c \in Seq(FrameG) /\ n \in Nat /\ TrapsOk(c, tr) /\ Fits(c, vm[u].alloc, tr) BY <1>2, VMIs
<1>6. tr \in Seq(Trap) /\ Len(tr) \in Nat /\ Upto(tr, n, Len(tr))
  <2>1. Upto(tr, n, Len(tr)) /\ Len(tr) \in Nat BY <1>5, UptoAll
  <2> QED BY <1>5, <2>1 DEF TrapsOk
<1>7. Owns(c, tr, Top, n) BY TopOwns
<1>8. Script(c, tr, Top.base, n, Top.traps) BY <1>7 DEF Owns
<1>9. Top.base < n BY <1>8 DEF Script
<1>10. ASSUME NEW i \in Top.base + 1 .. n PROVE c[i].code /\ (c[i].root <=> i = Top.base + 1)
  <2>1. CASE i = Top.base + 1 BY <1>8, <2>1 DEF Script
  <2>2. CASE i # Top.base + 1
    <3>1. i \in Top.base + 2 .. n BY <1>3, <1>5, <2>2
    <3> QED BY <1>8, <2>2, <3>1 DEF Script
  <2> QED BY <2>1, <2>2
<1>11. n \in 1 .. n /\ n \in 0 .. n BY <1>3, <1>5, <1>9
<1>12. ~vm[u].suspended BY <1>2, OnStack
<1> QED BY <1>2, <1>3, <1>4, <1>5, <1>6, <1>8, <1>9, <1>10, <1>11, <1>12 DEF ScriptTop

\* The Execute on top goes on as b, with x more traps to go to.
GoesOn(b, x) ==
    /\ Topped(cstack, cstack', b) /\ b.kind = "execute" /\ b.mode = "run" /\ b.vm = Top.vm /\ b.base = Top.base
    /\ b.for = Top.for /\ b.traps = Top.traps + x

\* It has n frames left as they were, and another last one.
Remade(c, tr, calls, alloc, etraps, n, base) ==
    /\ \E p : Rebuilt(c, tr, calls, etraps, n, p)
    /\ FrameOk(calls[n + 1]) /\ calls[n + 1].code /\ (calls[n + 1].root <=> n = base)
    /\ n + 1 <= MaxFrames /\ alloc \in Nat \ {0} /\ n + 1 <= alloc /\ base <= n

LEMMA TopRebuilt ==
    ASSUME FInv, Shape', cstack # <<>>, Executing(Top), NEW u, u = Top.vm,
           NEW calls, NEW alloc, NEW etraps, Eff(u, calls, alloc, etraps, 0, 0),
           NEW n, Remade(vm[u].calls, vm[u].etraps, calls, alloc, etraps, n, Top.base),
           NEW b, GoesOn(b, Len(etraps) - Len(vm[u].etraps))
    PROVE  AllVMsOk' /\ StackOk(cstack') /\ BelowKept
PROOF
<1>1. PICK c, tr, m, l, f : c = vm[u].calls /\ tr = vm[u].etraps /\ m = Len(c) /\ l = Len(tr) /\ f = calls[n + 1] OBVIOUS
<1>2. /\ c \in Seq(FrameG) /\ m \in Nat /\ TrapsOk(c, tr) /\ Fits(c, vm[u].alloc, tr)
      /\ l \in Nat /\ Upto(tr, m, l) /\ Top.base \in Nat /\ Script(c, tr, Top.base, m, Top.traps)
  <2>1. ScriptTop(u, c, tr, m) BY <1>1, TopScript
  <2> QED BY <1>1, <2>1 DEF ScriptTop
<1>11. PICK p : Rebuilt(c, tr, calls, etraps, n, p) BY <1>1 DEF Remade
<1>12. /\ FrameOk(f) /\ f.code /\ (f.root <=> n = Top.base) /\ n + 1 <= MaxFrames /\ alloc \in Nat \ {0}
       /\ n + 1 <= alloc /\ Top.base <= n
  BY <1>1 DEF Remade
<1>3. n \in 0 .. m /\ calls \in Seq(FrameG) /\ Len(calls) = n + 1 BY <1>1, <1>11 DEF Rebuilt
<1>4. Fits(calls, alloc, etraps) BY <1>1, <1>2, <1>11, <1>12, FitsRebuilt
<1>5. Same(c, tr, calls, etraps, n) BY <1>2, <1>11, RebuiltSame
<1>6. Same(c, tr, calls, etraps, Top.base)
  <2>1. n \in Nat /\ Len(calls) \in Nat /\ Len(c) \in Nat BY <1>1, <1>2, <1>3
  <2> QED BY <1>2, <1>5, <1>12, <2>1, SameLess
<1>7. Changes(u, Top.base, calls, alloc, etraps) BY <1>1, <1>3, <1>4, <1>6 DEF Changes
<1>8. Script(calls, etraps, Top.base, n + 1, Top.traps + (Len(etraps) - l))
  <2>1. m <= Len(c) /\ n <= m /\ (n > Top.base => ~f.root) BY <1>1, <1>2, <1>3, <1>12
  <2> QED BY <1>1, <1>2, <1>11, <1>12, <2>1, ScriptRebuilt
<1>13. /\ Topped(cstack, cstack', b) /\ b.kind = "execute" /\ b.mode = "run" /\ b.vm = u /\ b.base = Top.base
       /\ b.for = Top.for /\ b.traps = Top.traps + (Len(etraps) - l)
  BY <1>1 DEF GoesOn
<1>9. Owns(calls, etraps, b, Len(calls))
  <2>1. b.base <= Len(calls) /\ Len(calls) <= Len(calls) BY <1>2, <1>3, <1>12, <1>13
  <2> QED BY <1>1, <1>3, <1>8, <1>13, <2>1 DEF Owns, Starting
<1>10. ActOk(b) BY <1>13 DEF ActOk, Executing
<1> QED BY <1>7, <1>9, <1>10, <1>13, TopStep

\* It goes on with fewer frames.
LEMMA TopCut ==
    ASSUME FInv, Shape', cstack # <<>>, Executing(Top), NEW u, u = Top.vm, NEW calls, NEW etraps,
           Eff(u, calls, vm[u].alloc, etraps, 0, 0), NEW n, NEW p,
           Cut(vm[u].calls, vm[u].etraps, calls, etraps, n, p), Top.base < n,
           NEW b, GoesOn(b, Len(etraps) - Len(vm[u].etraps))
    PROVE  AllVMsOk' /\ StackOk(cstack') /\ BelowKept
PROOF
<1>1. PICK c, tr, m, l, alloc : c = vm[u].calls /\ tr = vm[u].etraps /\ m = Len(c) /\ l = Len(tr) /\ alloc = vm[u].alloc
  OBVIOUS
<1>2. /\ c \in Seq(FrameG) /\ m \in Nat /\ TrapsOk(c, tr) /\ Fits(c, alloc, tr)
      /\ l \in Nat /\ Top.base \in Nat /\ Script(c, tr, Top.base, m, Top.traps)
  <2>1. ScriptTop(u, c, tr, m) BY <1>1, TopScript
  <2> QED BY <1>1, <2>1 DEF ScriptTop
<1>11. Cut(c, tr, calls, etraps, n, p) BY <1>1
<1>3. n \in 0 .. m /\ calls \in Seq(FrameG) /\ Len(calls) = n BY <1>1, <1>11 DEF Cut
<1>4. Fits(calls, alloc, etraps) BY <1>2, <1>11, FitsCut
<1>5. Same(c, tr, calls, etraps, n) BY <1>2, <1>11, CutSame
<1>6. Same(c, tr, calls, etraps, Top.base)
  <2>1. n \in Nat /\ Len(calls) \in Nat /\ Len(c) \in Nat /\ Top.base <= n BY <1>1, <1>2, <1>3
  <2> QED BY <1>2, <1>5, <2>1, SameLess
<1>7. Changes(u, Top.base, calls, alloc, etraps) BY <1>1, <1>3, <1>4, <1>6 DEF Changes
<1>8. Script(calls, etraps, Top.base, n, Top.traps + (Len(etraps) - l)) BY <1>1, <1>2, <1>11, ScriptCut
<1>12. /\ Topped(cstack, cstack', b) /\ b.kind = "execute" /\ b.mode = "run" /\ b.vm = u /\ b.base = Top.base
       /\ b.for = Top.for /\ b.traps = Top.traps + (Len(etraps) - l)
  BY <1>1 DEF GoesOn
<1>9. Owns(calls, etraps, b, Len(calls))
  <2>1. b.base <= Len(calls) /\ Len(calls) <= Len(calls) BY <1>2, <1>3, <1>12
  <2> QED BY <1>1, <1>3, <1>8, <1>12, <2>1 DEF Owns, Starting
<1>10. ActOk(b) BY <1>12 DEF ActOk, Executing
<1> QED BY <1>1, <1>7, <1>9, <1>10, <1>12, TopStep

LEMMA GrownRoom ==
    ASSUME NEW m, m.calls \in Seq(FrameG), Fits(m.calls, m.alloc, m.etraps)
    PROVE  Grown(m) \in Nat \ {0} /\ Len(m.calls) <= Grown(m) /\ Len(m.calls) + 1 <= Grown(m)
PROOF
<1>1. PICK n, a : n = Len(m.calls) /\ a = m.alloc OBVIOUS
<1>2. n \in Nat /\ a \in Nat \ {0} /\ n <= a BY <1>1 DEF Fits
<1>3. Grown(m) = IF n = a THEN 2 * a ELSE a BY <1>1 DEF Grown
<1> QED BY <1>1, <1>2, <1>3

\* The frames that calls enter.
LEMMA NewFramesOk ==
    /\ FrameOk(Frame) /\ Frame.code /\ ~Frame.root /\ Frame.etraps = 0
    /\ FrameOk(NativeFrame) /\ NativeFrame.etraps = 0
    /\ FrameOk([Frame EXCEPT !.root = TRUE]) /\ [Frame EXCEPT !.root = TRUE].code
    /\ [Frame EXCEPT !.root = TRUE].root /\ [Frame EXCEPT !.root = TRUE].etraps = 0
PROOF
<1>1. 0 \in 0 .. MaxTraps BY BoundsAssumption
<1>2. PICK f : f = Frame OBVIOUS
<1>3. f \in FrameType /\ f.code /\ ~f.root /\ f.gen = None /\ f.etraps = 0 BY <1>1, <1>2 DEF Frame, FrameType
<1>4. PICK nf, r : nf = NativeFrame /\ r = [f EXCEPT !.root = TRUE] OBVIOUS
<1>5. nf \in FrameType /\ nf.gen = None /\ nf.etraps = 0 BY <1>2, <1>3, <1>4 DEF NativeFrame, FrameType
<1>6. r \in FrameType /\ r.code /\ r.root /\ r.gen = None /\ r.etraps = 0 BY <1>3, <1>4 DEF FrameType
<1> QED BY <1>2, <1>3, <1>4, <1>5, <1>6 DEF FrameOk

-----------------------------------------------------------------------------
(* The instructions.                                                       *)

LEMMA RunningTop ==
    ASSUME FInv, NEW v \in VMs, Running(v)
    PROVE  /\ Shape /\ cstack # <<>> /\ v = Top.vm /\ Executing(Top) /\ Top.mode = "run" /\ Top.kind = "execute"
           /\ Top \in Act /\ ci(v) = vm[v].calls[Len(vm[v].calls)] /\ ~vm[v].suspended
PROOF
<1>1. GInv BY DEF FInv
<1>2. Shape /\ cstack # <<>> /\ Top.vm = v /\ ci(v) = vm[v].calls[Len(vm[v].calls)] BY <1>1, RunningIs
<1>3. Top.mode = "run" /\ Top.kind = "execute" BY DEF Running, Runs
<1>4. Executing(Top) BY <1>3 DEF Executing
<1>5. Top \in Act /\ ~vm[v].suspended
  <2>1. PICK c, tr, n : c = vm[v].calls /\ tr = vm[v].etraps /\ n = Len(c) OBVIOUS
  <2>2. ScriptTop(v, c, tr, n) BY <1>2, <1>4, <2>1, TopScript
  <2> QED BY <2>2 DEF ScriptTop
<1> QED BY <1>2, <1>3, <1>4, <1>5

\* The Execute on top throws: nothing else changes.
LEMMA ThrowStep ==
    ASSUME FInv, Shape', cstack # <<>>, Executing(Top), vm' = vm, Throw
    PROVE  AllVMsOk' /\ StackOk(cstack') /\ BelowKept
PROOF
<1>1. PICK u, c, tr, a, b : /\ u = Top.vm /\ c = vm[u].calls /\ tr = vm[u].etraps /\ a = Top
                            /\ b = [a EXCEPT !.mode = Thrown(a)] OBVIOUS
<1>2. /\ u \in VMs /\ c \in Seq(FrameG) /\ Len(c) \in Nat /\ Fits(c, vm[u].alloc, tr) /\ a \in Act /\ a.base \in Nat
      /\ a.base < Len(c)
  <2>1. ScriptTop(u, c, tr, Len(c)) BY <1>1, TopScript
  <2> QED BY <1>1, <2>1 DEF ScriptTop
<1>3. Shape BY DEF FInv, GInv
<1>4. Topped(cstack, cstack', b) BY <1>1, <1>3, ThrowTop
<1>5. /\ b.kind = a.kind /\ b.vm = a.vm /\ b.base = a.base /\ b.for = a.for /\ b.traps = a.traps /\ b.raise = a.raise
      /\ b.mode = Thrown(a)
  BY <1>1, <1>2 DEF Act
<1>6. b.mode \in {"raise", "unwind"} /\ (b.mode = "raise" => NotifyAll \/ (b.traps = 0 /\ b.raise))
  BY <1>5 DEF Thrown
<1>7. a.kind = "execute" BY <1>1 DEF Executing
<1>8. ActOk(b) BY <1>5, <1>6, <1>7 DEF ActOk, Executing
<1>9. Owns(c, tr, b, Len(c))
  <2>1. Owns(c, tr, a, Len(c)) BY <1>1, TopOwns
  <2>2. Like(a, b) BY <1>1, <1>5, <1>6 DEF Like, Executing, Starting
  <2> QED BY <2>1, <2>2, LikeOwns
<1>10. Eff(u, c, vm[u].alloc, tr, 0, 0) BY <1>1, <1>2, <1>3, SameEff
<1>11. Changes(u, Top.base, c, vm[u].alloc, tr) BY <1>1, <1>2, SameSelf DEF Changes
<1> QED BY <1>1, <1>4, <1>5, <1>8, <1>9, <1>10, <1>11, TopStep, ZenonT(60)

LEMMA OpCallStep ==
    ASSUME FInv, Shape', NEW v \in VMs, OpCall(v)
    PROVE  AllVMsOk' /\ StackOk(cstack') /\ BelowKept
PROOF
<1>1. Running(v) /\ HasRoom(v) /\ vm' = [vm EXCEPT ![v] = EnterFrame(vm[v], Frame)] /\ cstack' = cstack
  BY DEF OpCall
<1>2. Shape /\ cstack # <<>> /\ v = Top.vm /\ Executing(Top) /\ Top.mode = "run" /\ Top.kind = "execute"
  BY <1>1, RunningTop
<1>3. PICK c, tr, n, l, f, calls, alloc :
        /\ c = vm[v].calls /\ tr = vm[v].etraps /\ n = Len(c) /\ l = Len(tr) /\ f = Frame /\ calls = Append(c, f)
        /\ alloc = Grown(vm[v]) OBVIOUS
<1>4. /\ c \in Seq(FrameG) /\ n \in Nat /\ TrapsOk(c, tr) /\ Fits(c, vm[v].alloc, tr) /\ l \in Nat
      /\ Top.base \in Nat /\ Top.base < n /\ Top.traps \in Int
  <2>1. ScriptTop(v, c, tr, n) BY <1>2, <1>3, TopScript
  <2> QED BY <1>3, <2>1 DEF ScriptTop
<1>5. Eff(v, calls, alloc, tr, 0, 0) BY <1>1, <1>2, <1>3, EnterEff
<1>6. f \in FrameG /\ FrameOk(f) /\ f.code /\ ~f.root /\ f.etraps = 0 BY <1>3, FrameTypes, NewFramesOk
<1>7. Rebuilt(c, tr, calls, tr, n, l) BY <1>3, <1>4, <1>6, RebuiltEnter
<1>8. calls[n + 1] = f BY <1>3, <1>4
<1>9. alloc \in Nat \ {0} /\ n + 1 <= alloc BY <1>3, <1>4, GrownRoom
<1>10. n + 1 <= MaxFrames BY <1>1, <1>3, <1>4, BoundsAssumption DEF HasRoom, Depth
<1>11. GoesOn(Top, Len(tr) - Len(tr))
  <2>1. Topped(cstack, cstack', Top) BY <1>1 DEF Topped, Top, Last
  <2>2. Top.traps = Top.traps + (Len(tr) - Len(tr)) BY <1>3, <1>4
  <2> QED BY <1>2, <2>1, <2>2 DEF GoesOn
<1>12. Top.base <= n /\ n # Top.base BY <1>4
<1>13. Remade(c, tr, calls, alloc, tr, n, Top.base) BY <1>6, <1>7, <1>8, <1>9, <1>10, <1>12 DEF Remade
<1> QED BY <1>2, <1>3, <1>5, <1>11, <1>13, TopRebuilt

LEMMA OpCallGeneratorStep ==
    ASSUME FInv, Shape', NEW v \in VMs, NEW g \in Gens, OpCallGenerator(v, g)
    PROVE  AllVMsOk' /\ StackOk(cstack') /\ BelowKept
PROOF
<1>1. Running(v) /\ vm' = [vm EXCEPT ![v] = GrowCallStack(vm[v])] /\ cstack' = cstack BY DEF OpCallGenerator
<1>2. Shape /\ cstack # <<>> /\ v = Top.vm /\ Executing(Top) BY <1>1, RunningTop
<1>3. PICK c, tr, alloc : c = vm[v].calls /\ tr = vm[v].etraps /\ alloc = Grown(vm[v]) OBVIOUS
<1>4. /\ c \in Seq(FrameG) /\ Len(c) \in Nat /\ Fits(c, vm[v].alloc, tr) /\ Top.base \in Nat /\ Top.base < Len(c)
      /\ ActOk(Top)
  <2>1. ScriptTop(v, c, tr, Len(c)) BY <1>2, <1>3, TopScript
  <2> QED BY <2>1 DEF ScriptTop
<1>5. Eff(v, c, alloc, tr, 0, 0) BY <1>1, <1>2, <1>3, GrowEff
<1>6. alloc \in Nat \ {0} /\ Len(c) <= alloc BY <1>3, <1>4, GrownRoom
<1>7. Fits(c, alloc, tr) BY <1>4, <1>6 DEF Fits
<1>8. Changes(v, Top.base, c, alloc, tr) BY <1>3, <1>4, <1>7, SameSelf DEF Changes
<1>9. Owns(c, tr, Top, Len(c)) BY <1>2, <1>3, TopOwns
<1>10. Topped(cstack, cstack', Top) BY <1>1 DEF Topped, Top, Last
<1> QED BY <1>2, <1>4, <1>5, <1>8, <1>9, <1>10, TopStep

LEMMA OpPushTrapStep ==
    ASSUME FInv, Shape', NEW v \in VMs, OpPushTrap(v)
    PROVE  AllVMsOk' /\ StackOk(cstack') /\ BelowKept
PROOF
<1>1. Running(v) /\ ci(v).etraps < MaxTraps /\ cstack' = AddTraps(1) BY DEF OpPushTrap
<1>2. /\ Shape /\ cstack # <<>> /\ v = Top.vm /\ Executing(Top) /\ Top.mode = "run" /\ Top.kind = "execute"
      /\ Top \in Act /\ ci(v) = vm[v].calls[Len(vm[v].calls)]
  BY <1>1, RunningTop
<1>3. PICK c, tr, n, e, tr2 :
        /\ c = vm[v].calls /\ tr = vm[v].etraps /\ n = Len(c) /\ e = c[n].etraps
        /\ tr2 = Append(tr, [at |-> n, level |-> e + 1]) OBVIOUS
<1>4. PICK calls : calls = [c EXCEPT ![n].etraps = e + 1] OBVIOUS
<1>5. /\ c \in Seq(FrameG) /\ n \in Nat /\ n \in 1 .. n /\ TrapsOk(c, tr) /\ Fits(c, vm[v].alloc, tr) /\ Len(tr) \in Nat
      /\ Top.base \in Nat /\ Top.base < n /\ Top.traps \in Int /\ tr \in Seq(Trap)
      /\ \A i \in Top.base + 1 .. n : c[i].code /\ (c[i].root <=> i = Top.base + 1)
  <2>1. ScriptTop(v, c, tr, n) BY <1>2, <1>3, TopScript
  <2> QED BY <2>1 DEF ScriptTop
<1>6. e \in Nat /\ c[n].gen \in Gens \cup {None} /\ c[n].root \in BOOLEAN /\ (c[n].gen # None => ~c[n].root)
  BY <1>3, <1>5, FrameIn
<1>7. e < MaxTraps BY <1>1, <1>2, <1>3
<1>8. Eff(v, calls, vm[v].alloc, tr2, 0, 0) BY <1>2, <1>3, <1>4, PushTrapEff
<1>9. PICK f : f = [code |-> c[n].code, root |-> c[n].root, gen |-> c[n].gen, etraps |-> e + 1] OBVIOUS
<1>10. SetFrame(c, calls, n, f)
  <2>1. e + 1 \in Int /\ n \in 1 .. Len(c) BY <1>3, <1>5, <1>6
  <2> QED BY <1>4, <1>5, <1>9, <2>1, SetTraps
<1>11. PICK p : Rebuilt(c, tr, calls, tr2, n - 1, p)
  <2>1. n > 0 /\ n = Len(c) /\ f.etraps = c[n].etraps + 1 BY <1>3, <1>5, <1>9
  <2>2. tr2 = Append(tr, [at |-> n, level |-> c[n].etraps + 1]) BY <1>3
  <2> QED BY <1>5, <1>10, <2>1, <2>2, RebuiltPush
<1>12. c[n].code /\ (c[n].root <=> n = Top.base + 1)
  <2>1. n \in Top.base + 1 .. n BY <1>5
  <2> QED BY <1>5, <2>1
<1>13. f.code /\ FrameOk(f) /\ (f.root <=> n = Top.base + 1)
  <2>1. e + 1 \in 0 .. MaxTraps BY <1>6, <1>7, BoundsAssumption
  <2>2. c[n].code = TRUE
    <3>1. c[n].code \in BOOLEAN BY <1>3, <1>5, FrameIn
    <3> QED BY <1>12, <3>1
  <2>3. f \in FrameType BY <1>6, <1>9, <2>1, <2>2 DEF FrameType
  <2> QED BY <1>6, <1>9, <1>12, <2>3 DEF FrameOk
<1>14. n - 1 + 1 = n /\ Top.base <= n - 1 /\ (n - 1 = Top.base <=> n = Top.base + 1) BY <1>5
<1>15. f = calls[n - 1 + 1]
  <2>1. n \in 1 .. Len(c) BY <1>3, <1>5
  <2> QED BY <1>10, <1>14, <2>1 DEF SetFrame
<1>16. vm[v].alloc \in Nat \ {0} /\ n <= MaxFrames /\ n <= vm[v].alloc BY <1>3, <1>5 DEF Fits
<1>17. Remade(c, tr, calls, vm[v].alloc, tr2, n - 1, Top.base) BY <1>11, <1>13, <1>14, <1>15, <1>16 DEF Remade
<1>18. PICK b : b = [Top EXCEPT !.traps = @ + 1] OBVIOUS
<1>19. GoesOn(b, Len(tr2) - Len(tr))
  <2>1. Topped(cstack, cstack', b) BY <1>1, <1>2, <1>18, AddTrapsTop
  <2>2. /\ b.kind = "execute" /\ b.mode = "run" /\ b.vm = v /\ b.base = Top.base /\ b.for = Top.for
        /\ b.traps = Top.traps + 1
    BY <1>2, <1>18 DEF Act
  <2>3. Len(tr2) - Len(tr) = 1 BY <1>3, <1>5
  <2> QED BY <1>2, <2>1, <2>2, <2>3 DEF GoesOn
<1> QED BY <1>2, <1>3, <1>8, <1>17, <1>19, TopRebuilt

\* The traps local of an Execute that stays where it is changes.
LEMMA AddedGoesOn ==
    ASSUME FInv, cstack # <<>>, Executing(Top), Top.mode = "run", NEW x \in Int, cstack' = AddTraps(x)
    PROVE  GoesOn([Top EXCEPT !.traps = @ + x], x)
PROOF
<1>1. Shape BY DEF FInv, GInv
<1>2. Top \in Act /\ Top.kind = "execute" BY <1>1, TopType DEF Executing
<1>3. PICK b : b = [Top EXCEPT !.traps = @ + x] OBVIOUS
<1>4. Topped(cstack, cstack', b) BY <1>1, <1>3, AddTrapsTop
<1>5. /\ b.kind = "execute" /\ b.mode = "run" /\ b.vm = Top.vm /\ b.base = Top.base /\ b.for = Top.for
      /\ b.traps = Top.traps + x
  BY <1>2, <1>3 DEF Act
<1>6. GoesOn(b, x) BY <1>4, <1>5 DEF GoesOn
<1> QED BY <1>3, <1>6

LEMMA SameGoesOn ==
    ASSUME FInv, cstack # <<>>, Executing(Top), Top.mode = "run", cstack' = cstack
    PROVE  GoesOn(Top, 0)
PROOF
<1>1. Shape BY DEF FInv, GInv
<1>2. Top \in Act /\ Top.kind = "execute" BY <1>1, TopType DEF Executing
<1>3. Top.traps = Top.traps + 0 BY <1>2 DEF Act
<1>4. Topped(cstack, cstack', Top) BY DEF Topped, Top, Last
<1> QED BY <1>2, <1>3, <1>4 DEF GoesOn

\* Frames up to the at-th, which has one trap less.
Popped(c, at, calls) ==
    /\ at \in 1 .. Len(c) /\ c[at].etraps > 0 /\ \A i \in at + 1 .. Len(c) : c[i].etraps <= 0
    /\ calls \in Seq(FrameG) /\ Len(calls) = at /\ \A i \in 1 .. at : i # at => calls[i] = c[i]
    /\ calls[at] = [code |-> c[at].code, root |-> c[at].root, gen |-> c[at].gen, etraps |-> c[at].etraps - 1]

LEMMA PoppedRebuilt ==
    ASSUME NEW c \in Seq(FrameG), NEW tr, TrapsOk(c, tr), NEW at, NEW calls, Popped(c, at, calls)
    PROVE  \E p : Rebuilt(c, tr, calls, Front(tr), at - 1, p) /\ Len(Front(tr)) = Len(tr) - 1 /\ Len(tr) \in Nat
PROOF
<1>1. /\ at \in 1 .. Len(c) /\ c[at].etraps > 0 /\ \A i \in at + 1 .. Len(c) : c[i].etraps <= 0
      /\ calls \in Seq(FrameG) /\ Len(calls) = at /\ \A i \in 1 .. at : i # at => calls[i] = c[i]
  BY DEF Popped
<1>2. calls[at].etraps = c[at].etraps - 1 BY DEF Popped
<1> QED BY <1>1, <1>2, RebuiltPop

LEMMA PoppedFrame ==
    ASSUME NEW c \in Seq(FrameG), NEW alloc, NEW tr, Fits(c, alloc, tr), NEW at, NEW calls, Popped(c, at, calls)
    PROVE  /\ FrameOk(calls[at]) /\ calls[at].code = c[at].code /\ calls[at].root = c[at].root
           /\ at <= MaxFrames /\ alloc \in Nat \ {0} /\ at <= alloc
PROOF
<1>1. PICK e, f, g : e = c[at].etraps /\ f = calls[at] /\ g = c[at] OBVIOUS
<1>2. at \in 1 .. Len(c) /\ e > 0 BY <1>1 DEF Popped
<1>3. f = [code |-> g.code, root |-> g.root, gen |-> g.gen, etraps |-> e - 1] BY <1>1 DEF Popped
<1>4. /\ e \in Nat /\ e <= MaxTraps /\ g.gen \in Gens \cup {None} /\ g.root \in BOOLEAN
      /\ (g.gen # None => ~g.root) /\ g.code \in BOOLEAN
  BY <1>1, <1>2, FrameIn
<1>5. e - 1 \in 0 .. MaxTraps BY <1>2, <1>4, BoundsAssumption
<1>6. f \in FrameType BY <1>3, <1>4, <1>5 DEF FrameType
<1>7. f.gen = g.gen /\ f.root = g.root /\ f.code = g.code BY <1>3
<1>8. FrameOk(f) BY <1>4, <1>6, <1>7 DEF FrameOk
<1>9. Len(c) \in Nat /\ Len(c) <= MaxFrames /\ alloc \in Nat \ {0} /\ Len(c) <= alloc BY DEF Fits
<1>10. at <= MaxFrames /\ at <= alloc BY <1>2, <1>9, BoundsAssumption
<1> QED BY <1>1, <1>7, <1>8, <1>9, <1>10

\* A trap of the frame at which an exception, or OpPopTrap, finds it, is used up.
LEMMA PopRemade ==
    ASSUME FInv, cstack # <<>>, Executing(Top), NEW u, u = Top.vm, NEW c, c = vm[u].calls, NEW tr, tr = vm[u].etraps,
           NEW at, at > Top.base, NEW calls, Popped(c, at, calls)
    PROVE  /\ Remade(c, tr, calls, vm[u].alloc, Front(tr), at - 1, Top.base)
           /\ Len(Front(tr)) - Len(tr) = -1
PROOF
<1>1. PICK tr2, b, n : tr2 = Front(tr) /\ b = Top.base /\ n = Len(c) OBVIOUS
<1>2. /\ c \in Seq(FrameG) /\ TrapsOk(c, tr) /\ Fits(c, vm[u].alloc, tr) /\ b \in Nat /\ n \in Nat
      /\ \A i \in b + 1 .. n : c[i].code /\ (c[i].root <=> i = b + 1)
  <2>1. ScriptTop(u, c, tr, n) BY <1>1, TopScript
  <2> QED BY <1>1, <2>1 DEF ScriptTop
<1>3. PICK p : Rebuilt(c, tr, calls, tr2, at - 1, p) /\ Len(tr2) = Len(tr) - 1 /\ Len(tr) \in Nat
  BY <1>1, <1>2, PoppedRebuilt
<1>4. /\ FrameOk(calls[at]) /\ calls[at].code = c[at].code /\ calls[at].root = c[at].root
      /\ at <= MaxFrames /\ vm[u].alloc \in Nat \ {0} /\ at <= vm[u].alloc
  BY <1>2, PoppedFrame
<1>5. at \in 1 .. n /\ at > b BY <1>1 DEF Popped
<1>6. at \in b + 1 .. n /\ at - 1 + 1 = at /\ b <= at - 1 /\ (at - 1 = b <=> at = b + 1) BY <1>2, <1>5
<1>7. calls[at].code /\ (calls[at].root <=> at = b + 1) BY <1>2, <1>4, <1>6
<1>8. Remade(c, tr, calls, vm[u].alloc, tr2, at - 1, b) BY <1>3, <1>4, <1>6, <1>7 DEF Remade
<1> QED BY <1>1, <1>3, <1>8

LEMMA OpPopTrapStep ==
    ASSUME FInv, Shape', NEW v \in VMs, OpPopTrap(v)
    PROVE  AllVMsOk' /\ StackOk(cstack') /\ BelowKept
PROOF
<1>1. Running(v) /\ ci(v).etraps > 0 /\ cstack' = AddTraps(-1) BY DEF OpPopTrap
<1>2. /\ Shape /\ cstack # <<>> /\ v = Top.vm /\ Executing(Top) /\ Top.mode = "run"
      /\ ci(v) = vm[v].calls[Len(vm[v].calls)]
  BY <1>1, RunningTop
<1>3. PICK c, tr, n, e, tr2 :
        /\ c = vm[v].calls /\ tr = vm[v].etraps /\ n = Len(c) /\ e = c[n].etraps /\ tr2 = Front(tr) OBVIOUS
<1>4. PICK calls : calls = [c EXCEPT ![n].etraps = e - 1] OBVIOUS
<1>5. /\ c \in Seq(FrameG) /\ n \in Nat /\ n \in 1 .. n /\ TrapsOk(c, tr) /\ Fits(c, vm[v].alloc, tr) /\ Len(tr) \in Nat
      /\ Top.base \in Nat /\ Top.base < n
      /\ \A i \in Top.base + 1 .. n : c[i].code /\ (c[i].root <=> i = Top.base + 1)
  <2>1. ScriptTop(v, c, tr, n) BY <1>2, <1>3, TopScript
  <2> QED BY <2>1 DEF ScriptTop
<1>6. e \in Nat BY <1>3, <1>5, FrameIn
<1>7. e > 0 BY <1>1, <1>2, <1>3
<1>8. Eff(v, calls, vm[v].alloc, tr2, 0, 0) BY <1>2, <1>3, <1>4, PopTrapEff
<1>9. PICK f : f = [code |-> c[n].code, root |-> c[n].root, gen |-> c[n].gen, etraps |-> e - 1] OBVIOUS
<1>10. SetFrame(c, calls, n, f)
  <2>1. e - 1 \in Int /\ n \in 1 .. Len(c) BY <1>3, <1>5, <1>6
  <2> QED BY <1>4, <1>5, <1>9, <2>1, SetTraps
<1>11. Popped(c, n, calls)
  <2>1. calls \in Seq(FrameG) /\ Len(calls) = n /\ (\A i \in 1 .. n : i # n => calls[i] = c[i]) /\ calls[n] = f
    BY <1>3, <1>5, <1>10 DEF SetFrame
  <2>2. n \in 1 .. Len(c) /\ \A i \in n + 1 .. Len(c) : FALSE BY <1>3, <1>5
  <2> QED BY <1>3, <1>7, <1>9, <2>1, <2>2 DEF Popped
<1>12. Remade(c, tr, calls, vm[v].alloc, tr2, n - 1, Top.base) /\ Len(tr2) - Len(tr) = -1
  <2>1. n > Top.base BY <1>5
  <2> QED BY <1>2, <1>3, <1>11, <2>1, PopRemade
<1>13. PICK x, b : x = -1 /\ b = [Top EXCEPT !.traps = @ + x] OBVIOUS
<1>14. GoesOn(b, Len(tr2) - Len(tr))
  <2>1. x \in Int /\ cstack' = AddTraps(x) BY <1>1, <1>13
  <2>2. GoesOn(b, x) BY <1>2, <1>13, <2>1, AddedGoesOn
  <2> QED BY <1>12, <1>13, <2>2
<1> QED BY <1>2, <1>3, <1>8, <1>12, <1>14, TopRebuilt

\* The Execute on top returns and leaves its frames.
LEMMA PopCut ==
    ASSUME FInv, Shape', cstack # <<>>, NEW u, u = Top.vm, NEW calls, NEW etraps, NEW dm,
           Eff(u, calls, vm[u].alloc, etraps, -1, dm), NEW p, NEW n, n = Top.base,
           Cut(vm[u].calls, vm[u].etraps, calls, etraps, n, p),
           NEW ok \in BOOLEAN, cstack' = Back(Front(cstack), Top.for, ok)
    PROVE  AllVMsOk' /\ StackOk(cstack') /\ BelowKept
PROOF
<1>1. PICK c, tr, alloc : c = vm[u].calls /\ tr = vm[u].etraps /\ alloc = vm[u].alloc OBVIOUS
<1>2. u \in VMs BY CallerIs
<1>3. c \in Seq(FrameG) /\ Fits(c, alloc, tr) /\ TrapsOk(c, tr) BY <1>1, <1>2, VMIs
<1>4. Cut(c, tr, calls, etraps, n, p) BY <1>1
<1>5. Fits(calls, alloc, etraps) BY <1>3, <1>4, FitsCut
<1>6. Same(c, tr, calls, etraps, n) BY <1>3, <1>4, CutSame
<1>7. calls \in Seq(FrameG) /\ Len(calls) = n BY <1>4 DEF Cut
<1>8. Changes(u, Top.base, calls, alloc, etraps) BY <1>1, <1>5, <1>6, <1>7 DEF Changes
<1>9. Len(calls) = Top.base /\ Eff(u, calls, alloc, etraps, -1, dm) BY <1>1, <1>7
<1> QED BY <1>8, <1>9, PopStep

LEMMA OpReturnStep ==
    ASSUME FInv, Shape', NEW v \in VMs, OpReturn(v)
    PROVE  AllVMsOk' /\ StackOk(cstack') /\ BelowKept
PROOF
<1>1. Running(v) BY DEF OpReturn
<1>2. /\ Shape /\ cstack # <<>> /\ v = Top.vm /\ Executing(Top) /\ Top.mode = "run"
      /\ ci(v) = vm[v].calls[Len(vm[v].calls)]
  BY <1>1, RunningTop
<1>3. PICK c, tr, n, calls, dm :
        c = vm[v].calls /\ tr = vm[v].etraps /\ n = Len(c) /\ calls = Front(c) /\ dm = -One(Top.for) OBVIOUS
<1>4. /\ c \in Seq(FrameG) /\ n \in Nat /\ n \in 1 .. n /\ TrapsOk(c, tr) /\ Len(tr) \in Nat
      /\ Top.base \in Nat /\ Top.base < n
      /\ \A i \in Top.base + 1 .. n : c[i].code /\ (c[i].root <=> i = Top.base + 1)
  <2>1. ScriptTop(v, c, tr, n) BY <1>2, <1>3, TopScript
  <2> QED BY <2>1 DEF ScriptTop
<1>5. /\ c[n].root = TRUE => Eff(v, calls, vm[v].alloc, tr, -1, dm) /\ cstack' = Back(Front(cstack), Top.for, TRUE)
      /\ c[n].root = FALSE => Eff(v, calls, vm[v].alloc, tr, 0, 0) /\ cstack' = cstack
      /\ c[n].etraps = 0
  BY <1>2, <1>3, OpReturnEff
<1>6. Cut(c, tr, calls, tr, n - 1, Len(tr))
  <2>1. calls \in Seq(FrameG) /\ Len(calls) = n - 1 /\ \A i \in 1 .. n - 1 : calls[i] = c[i]
    <3>1. c # <<>> BY <1>3, <1>4
    <3> QED BY <1>3, <1>4, <3>1, FrontIs
  <2>2. n - 1 \in 0 .. Len(c) /\ \A i \in n - 1 + 1 .. Len(c) : c[i].etraps <= 0
    <3>1. \A i \in n - 1 + 1 .. Len(c) : i = n BY <1>3, <1>4
    <3> QED BY <1>3, <1>4, <1>5, <3>1
  <2> QED BY <1>4, <2>1, <2>2, CutRest
<1>7. c[n].root \in BOOLEAN
  <2>1. c[n] \in FrameG BY <1>3, <1>4
  <2> QED BY <2>1 DEF FrameG
<1>8. c[n].root <=> n = Top.base + 1
  <2>1. n \in Top.base + 1 .. n BY <1>4
  <2> QED BY <1>4, <2>1
<1>9. CASE c[n].root = TRUE
  <2>1. n - 1 = Top.base BY <1>4, <1>8, <1>9
  <2>2. TRUE \in BOOLEAN OBVIOUS
  <2> QED BY <1>2, <1>3, <1>5, <1>6, <1>9, <2>1, <2>2, PopCut
<1>10. CASE c[n].root = FALSE
  <2>1. Top.base < n - 1 BY <1>4, <1>8, <1>10
  <2>2. GoesOn(Top, Len(tr) - Len(tr))
    <3>1. GoesOn(Top, 0) BY <1>2, <1>5, <1>10, SameGoesOn
    <3>2. Len(tr) - Len(tr) = 0 BY <1>4
    <3> QED BY <3>1, <3>2
  <2> QED BY <1>2, <1>3, <1>5, <1>6, <1>10, <2>1, <2>2, TopCut
<1> QED BY <1>7, <1>9, <1>10

LEMMA OpYieldStep ==
    ASSUME FInv, Shape', NEW v \in VMs, OpYield(v)
    PROVE  AllVMsOk' /\ StackOk(cstack') /\ BelowKept
PROOF
<1>1. Running(v) BY DEF OpYield
<1>2. /\ Shape /\ cstack # <<>> /\ v = Top.vm /\ Executing(Top) /\ Top.mode = "run"
      /\ ci(v) = vm[v].calls[Len(vm[v].calls)]
  BY <1>1, RunningTop
<1>3. PICK c, tr, n, e, calls, tr2 :
        /\ c = vm[v].calls /\ tr = vm[v].etraps /\ n = Len(c) /\ e = c[n].etraps /\ calls = Front(c)
        /\ tr2 = SubSeq(tr, 1, Len(tr) - e) OBVIOUS
<1>4. /\ c \in Seq(FrameG) /\ n \in Nat /\ n \in 1 .. n /\ TrapsOk(c, tr) /\ Fits(c, vm[v].alloc, tr) /\ Len(tr) \in Nat
      /\ Top.base \in Nat /\ Top.base < n
      /\ \A i \in Top.base + 1 .. n : c[i].code /\ (c[i].root <=> i = Top.base + 1)
  <2>1. ScriptTop(v, c, tr, n) BY <1>2, <1>3, TopScript
  <2> QED BY <2>1 DEF ScriptTop
<1>5. e \in Nat /\ c[n].root \in BOOLEAN /\ (c[n].gen # None => ~c[n].root) BY <1>3, <1>4, FrameIn
<1>6. /\ c[n].root = FALSE => Eff(v, calls, vm[v].alloc, tr2, 0, 0) /\ cstack' = AddTraps(-e)
      /\ c[n].gen # None
  BY <1>2, <1>3, OpYieldEff
<1>7. c[n].root = FALSE BY <1>5, <1>6
<1>8. Cut(c, tr, calls, tr2, n - 1, Len(tr) - e)
  <2>1. c # <<>> BY <1>3, <1>4
  <2> QED BY <1>3, <1>4, <2>1, CutLast
<1>9. Top.base < n - 1
  <2>1. n \in Top.base + 1 .. n BY <1>4
  <2>2. n # Top.base + 1 BY <1>4, <1>7, <2>1
  <2> QED BY <1>4, <2>2
<1>10. PICK x, b : x = -e /\ b = [Top EXCEPT !.traps = @ + x] OBVIOUS
<1>11. GoesOn(b, Len(tr2) - Len(tr))
  <2>1. x \in Int /\ cstack' = AddTraps(x) BY <1>5, <1>6, <1>7, <1>10
  <2>2. GoesOn(b, x) BY <1>2, <1>10, <2>1, AddedGoesOn
  <2>3. Len(tr2) = Len(tr) - e BY <1>8 DEF Cut
  <2>4. Len(tr2) - Len(tr) = x BY <1>4, <1>5, <1>10, <2>3
  <2> QED BY <2>2, <2>4
<1> QED BY <1>2, <1>3, <1>6, <1>7, <1>8, <1>9, <1>11, TopCut

LEMMA OpResumeStep ==
    ASSUME FInv, Shape', NEW v \in VMs, NEW g \in Gens, OpResume(v, g)
    PROVE  AllVMsOk' /\ StackOk(cstack') /\ BelowKept
PROOF
<1>1. Running(v) BY DEF OpResume
<1>2. /\ Shape /\ cstack # <<>> /\ v = Top.vm /\ Executing(Top) /\ Top.mode = "run"
      /\ ci(v) = vm[v].calls[Len(vm[v].calls)]
  BY <1>1, RunningTop
<1>3. CASE ResumeRefused(g)
  <2>1. Throw /\ vm' = vm BY <1>3 DEF ResumeRefused
  <2> QED BY <1>2, <2>1, ThrowStep
<1>4. CASE Resume(v, g) /\ cstack' = AddTraps(Len(gen[g].etraps))
  <2>1. PICK c, tr, n, l, f, calls, tr2, alloc :
          /\ c = vm[v].calls /\ tr = vm[v].etraps /\ n = Len(c) /\ l = Len(gen[g].etraps)
          /\ f = ResumedFrame(g, gen[g].root) /\ calls = Append(c, f) /\ tr2 = tr \o ResumedTraps(g, n + 1)
          /\ alloc = Grown(vm[v]) OBVIOUS
  <2>2. /\ c \in Seq(FrameG) /\ n \in Nat /\ n \in 1 .. n /\ TrapsOk(c, tr) /\ Fits(c, vm[v].alloc, tr)
        /\ Len(tr) \in Nat /\ Top.base \in Nat /\ Top.base < n
    <3>1. ScriptTop(v, c, tr, n) BY <1>2, <2>1, TopScript
    <3> QED BY <3>1 DEF ScriptTop
  <2>3. Eff(v, calls, alloc, tr2, 0, 0) /\ n < MaxFrames BY <1>2, <1>4, <2>1, ResumeEff
  <2>4. GenOk(gen[g]) BY DEF FInv, Frames, Generators
  <2>5. l \in Nat /\ l <= MaxTraps /\ gen[g].root = FALSE BY <1>2, <2>1, <2>4 DEF GenOk, Shape, GenShape
  <2>6. f \in FrameG /\ FrameOk(f) /\ f.code /\ f.root = FALSE /\ f.etraps = l
    <3>1. f = [code |-> TRUE, root |-> FALSE, gen |-> g, etraps |-> l] BY <2>1, <2>5 DEF ResumedFrame
    <3>2. l \in 0 .. MaxTraps /\ l \in Int BY <2>5, BoundsAssumption
    <3>3. f \in FrameG /\ f \in FrameType BY <3>1, <3>2 DEF FrameG, FrameType
    <3> QED BY <3>1, <3>3 DEF FrameOk
  <2>7. Rebuilt(c, tr, calls, tr2, n, Len(tr)) BY <1>2, <2>1, <2>2, <2>4, <2>6, RebuiltResume
  <2>8. calls[n + 1] = f BY <2>1, <2>2
  <2>9. alloc \in Nat \ {0} /\ n + 1 <= alloc BY <2>1, <2>2, GrownRoom
  <2>10. n + 1 <= MaxFrames /\ Top.base <= n /\ n # Top.base BY <2>2, <2>3, BoundsAssumption
  <2>11. Remade(c, tr, calls, alloc, tr2, n, Top.base) BY <2>6, <2>7, <2>8, <2>9, <2>10 DEF Remade
  <2>12. PICK b : b = [Top EXCEPT !.traps = @ + l] OBVIOUS
  <2>13. GoesOn(b, Len(tr2) - Len(tr))
    <3>1. l \in Int /\ cstack' = AddTraps(l) BY <1>4, <2>1, <2>5
    <3>2. GoesOn(b, l) BY <1>2, <2>12, <3>1, AddedGoesOn
    <3>3. Len(tr2) = Len(tr) + l BY <2>6, <2>7, <2>8 DEF Rebuilt
    <3>4. Len(tr2) - Len(tr) = l BY <2>2, <2>5, <3>3
    <3> QED BY <3>2, <3>4
  <2> QED BY <1>2, <2>1, <2>3, <2>11, <2>13, TopRebuilt
<1> QED BY <1>3, <1>4 DEF OpResume

-----------------------------------------------------------------------------
(* Calls.                                                                  *)

\* What u has with one frame more.
Entered(u, f, calls) ==
    LET n == Len(vm[u].calls) IN
    /\ n \in Nat /\ Len(calls) = n + 1 /\ calls[n + 1] = f
    /\ Rebuilt(vm[u].calls, vm[u].etraps, calls, vm[u].etraps, n, Len(vm[u].etraps))
    /\ Changes(u, n, calls, Grown(vm[u]), vm[u].etraps)

LEMMA EnterChanges ==
    ASSUME FInv, NEW u \in VMs, Len(vm[u].calls) < MaxFrames, NEW f \in FrameG, FrameOk(f), f.etraps = 0,
           NEW calls, calls = Append(vm[u].calls, f)
    PROVE  Entered(u, f, calls)
PROOF
<1> PICK c, tr, n, p, alloc : /\ c = vm[u].calls /\ tr = vm[u].etraps /\ n = Len(c) /\ p = Len(tr)
                              /\ alloc = Grown(vm[u])
  OBVIOUS
<1>1. c \in Seq(FrameG) /\ n \in Nat /\ TrapsOk(c, tr) /\ Fits(c, vm[u].alloc, tr) /\ n < MaxFrames BY VMIs
<1>2. Rebuilt(c, tr, calls, tr, n, p) BY <1>1, RebuiltEnter
<1>3. Len(calls) = n + 1 /\ calls[n + 1] = f /\ calls \in Seq(FrameG) BY <1>1
<1>4. alloc \in Nat \ {0} /\ n + 1 <= alloc BY <1>1, GrownRoom
<1>5. n + 1 <= MaxFrames BY <1>1, BoundsAssumption
<1>6. FrameOk(calls[n + 1]) BY <1>3
<1>7. Fits(calls, alloc, tr) BY ONLY <1>1, <1>2, <1>4, <1>5, <1>6, FitsRebuilt
<1>8. Same(c, tr, calls, tr, n) BY <1>1, <1>2, RebuiltSame
<1>9. Changes(u, n, calls, alloc, tr) BY <1>3, <1>7, <1>8 DEF Changes
<1> QED BY <1>1, <1>2, <1>3, <1>9 DEF Entered

LEMMA CallScriptStep ==
    ASSUME FInv, Shape', NEW u \in VMs, ~vm[u].suspended, NEW for \in Fors, Calling(for), NEW raise \in BOOLEAN,
           CallScript(u, for, raise)
    PROVE  AllVMsOk' /\ StackOk(cstack') /\ BelowKept
PROOF
<1>1. Shape BY DEF FInv, GInv
<1>2. PICK c, tr, n, f, calls, alloc, dm :
        /\ c = vm[u].calls /\ tr = vm[u].etraps /\ n = Len(c) /\ f = [Frame EXCEPT !.root = TRUE]
        /\ calls = Append(c, f) /\ alloc = Grown(vm[u]) /\ dm = One(for) OBVIOUS
<1>3. PICK a : a = NewAct("execute", u, for, n, 0, raise, "run", "none") OBVIOUS
<1>4. Eff(u, calls, alloc, tr, 1, dm) /\ cstack' = Append(cstack, a) /\ n < MaxFrames BY <1>1, <1>2, <1>3, CallScriptEff
<1>5. vm[u].nnative + 1 <= MAX_NATIVE_CALLS BY DEF CallScript, CanNest
<1>6. f \in FrameG /\ FrameOk(f) /\ f.code /\ f.root /\ f.etraps = 0 BY <1>2, FrameTypes, NewFramesOk
<1>7. /\ Changes(u, n, calls, alloc, tr) /\ Len(calls) = n + 1 /\ calls[n + 1] = f /\ n \in Nat
      /\ Rebuilt(c, tr, calls, tr, n, Len(tr)) /\ c \in Seq(FrameG) /\ TrapsOk(c, tr)
  <2>1. Entered(u, f, calls) BY <1>2, <1>4, <1>6, EnterChanges
  <2> QED BY <1>2, <2>1, VMIs DEF Entered
<1>8. Script(calls, tr, n, n + 1, 0)
  <2>1. calls[n + 1].code /\ calls[n + 1].root /\ calls[n + 1].etraps = 0 BY <1>6, <1>7
  <2> QED BY <1>7, <2>1, ScriptNew
<1>9. /\ a \in Act /\ a.vm = u /\ a.kind = "execute" /\ a.for = for /\ a.base = n /\ a.traps = 0 /\ a.mode = "run"
  BY <1>3, <1>7, NewActIn DEF Kinds, Modes
<1>10. ActOk(a) BY <1>9 DEF ActOk, Executing
<1>11. Owns(calls, tr, a, Len(calls))
  <2>1. n <= n + 1 /\ n + 1 <= Len(calls) BY <1>7
  <2> QED BY <1>7, <1>8, <1>9, <2>1 DEF Owns, Starting
<1>12. cstack # <<>> => CallerOk(a.for, Top.mode) BY <1>9 DEF Calling
<1> QED BY <1>2, <1>4, <1>5, <1>7, <1>9, <1>10, <1>11, <1>12, PushStep, ZenonT(60)

LEMMA CallNativeStep ==
    ASSUME FInv, Shape', NEW u \in VMs, ~vm[u].suspended, NEW for \in Fors, Calling(for), NEW fn \in NativeFns,
           CallNative(u, for, fn)
    PROVE  AllVMsOk' /\ StackOk(cstack') /\ BelowKept
PROOF
<1>1. Shape BY DEF FInv, GInv
<1>2. PICK c, tr, n, f, calls, alloc, dm :
        /\ c = vm[u].calls /\ tr = vm[u].etraps /\ n = Len(c) /\ f = NativeFrame
        /\ calls = Append(c, f) /\ alloc = Grown(vm[u]) /\ dm = One(for) OBVIOUS
<1>3. PICK a : a = NewAct("native", u, for, n, 0, FALSE, "run", fn) OBVIOUS
<1>4. Eff(u, calls, alloc, tr, 1, dm) /\ cstack' = Append(cstack, a) /\ n < MaxFrames BY <1>1, <1>2, <1>3, CallNativeEff
<1>5. vm[u].nnative + 1 <= MAX_NATIVE_CALLS BY DEF CallNative, CanNest
<1>6. f \in FrameG /\ FrameOk(f) /\ f.etraps = 0 BY <1>2, FrameTypes, NewFramesOk
<1>7. Changes(u, n, calls, alloc, tr) /\ Len(calls) = n + 1 /\ calls[n + 1] = f /\ n \in Nat
  <2>1. Entered(u, f, calls) BY <1>2, <1>4, <1>6, EnterChanges
  <2> QED BY <1>2, <2>1 DEF Entered
<1>9. /\ a \in Act /\ a.vm = u /\ a.kind = "native" /\ a.for = for /\ a.base = n /\ a.traps = 0 /\ a.mode = "run"
  <2>1. PICK no : no = FALSE OBVIOUS
  <2>2. a = NewAct("native", u, for, n, 0, no, "run", fn) BY <1>3, <2>1
  <2>3. /\ "native" \in Kinds /\ n \in Nat /\ 0 \in Int /\ no \in BOOLEAN /\ "run" \in Modes
        /\ fn \in NativeFns \cup {"none"}
    <3>1. no \in BOOLEAN BY <2>1
    <3>2. "native" \in Kinds /\ "run" \in Modes BY DEF Kinds, Modes
    <3>3. n \in Nat /\ 0 \in Int BY <1>7
    <3> QED BY <3>1, <3>2, <3>3
  <2> QED BY <2>2, <2>3, NewActIn
<1>10. ActOk(a) BY <1>9 DEF ActOk
<1>11. Owns(calls, tr, a, Len(calls))
  <2>1. n <= n + 1 /\ n + 1 <= Len(calls) BY <1>7
  <2> QED BY <1>2, <1>7, <1>9, <2>1 DEF Owns, Executing, Starting
<1>12. cstack # <<>> => CallerOk(a.for, Top.mode) BY <1>9 DEF Calling
<1> QED BY <1>2, <1>4, <1>5, <1>7, <1>9, <1>10, <1>11, <1>12, PushStep

LEMMA CallBadlyStep ==
    ASSUME FInv, Shape', NEW u \in VMs, ~vm[u].suspended, NEW for \in Fors, Calling(for), CallBadly(u, for)
    PROVE  AllVMsOk' /\ StackOk(cstack') /\ BelowKept
PROOF
<1>1. Shape BY DEF FInv, GInv
<1>2. PICK c, tr, n, alloc, dm, mode :
        /\ c = vm[u].calls /\ tr = vm[u].etraps /\ n = Len(c) /\ alloc = vm[u].alloc /\ dm = One(for)
        /\ mode = IF n = 0 THEN "startraise" ELSE "startfail" OBVIOUS
<1>3. PICK a : a = NewAct("execute", u, for, n, 0, FALSE, mode, "none") OBVIOUS
<1>4. Eff(u, c, alloc, tr, 1, dm) /\ cstack' = Append(cstack, a) BY <1>1, <1>2, <1>3, CallBadlyEff
<1>5. vm[u].nnative + 1 <= MAX_NATIVE_CALLS BY DEF CallBadly, CanNest
<1>6. c \in Seq(FrameG) /\ n \in Nat /\ Fits(c, alloc, tr) BY <1>2, VMIs
<1>7. mode \in {"startraise", "startfail"} BY <1>2
<1>8. /\ a \in Act /\ a.vm = u /\ a.kind = "execute" /\ a.for = for /\ a.base = n /\ a.traps = 0 /\ a.mode = mode
  <2>1. PICK no, none : no = FALSE /\ none = "none" OBVIOUS
  <2>2. a = NewAct("execute", u, for, n, 0, no, mode, none) BY <1>3, <2>1
  <2>3. /\ "execute" \in Kinds /\ n \in Nat /\ 0 \in Int /\ no \in BOOLEAN /\ mode \in Modes
        /\ none \in NativeFns \cup {"none"}
    <3>1. no \in BOOLEAN /\ none \in NativeFns \cup {"none"} BY <2>1
    <3>2. "execute" \in Kinds /\ mode \in Modes BY <1>7 DEF Kinds, Modes
    <3>3. n \in Nat /\ 0 \in Int BY <1>6
    <3> QED BY <3>1, <3>2, <3>3
  <2> QED BY <2>2, <2>3, NewActIn
<1>9. ActOk(a) BY <1>7, <1>8 DEF ActOk, Starting
<1>10. Changes(u, n, c, alloc, tr) BY <1>2, <1>6, SameSelf DEF Changes
<1>11. Owns(c, tr, a, Len(c)) BY <1>2, <1>6, <1>7, <1>8 DEF Owns, Executing
<1>12. cstack # <<>> => CallerOk(a.for, Top.mode) BY <1>8 DEF Calling
<1> QED BY <1>2, <1>4, <1>5, <1>8, <1>9, <1>10, <1>11, <1>12, PushStep

LEMMA CallStep ==
    ASSUME Features = {}, FInv, Shape', NEW u \in VMs, ~vm[u].suspended, NEW for \in Fors, Calling(for),
           NEW raise \in BOOLEAN, Call(u, for, raise)
    PROVE  AllVMsOk' /\ StackOk(cstack') /\ BelowKept
PROOF
<1>1. Shape BY DEF FInv, GInv
<1>2. vm[u].calls \in Seq(FrameG) /\ Fits(vm[u].calls, vm[u].alloc, vm[u].etraps) BY VMIs
<1>3. CASE CallScript(u, for, raise) BY <1>3, CallScriptStep
<1>4. CASE CallBadly(u, for) BY <1>4, CallBadlyStep
<1>5. CASE \E g \in Gens : CallGenerator(u, for, g)
  <2>1. PICK g \in Gens : CallGenerator(u, for, g) BY <1>5
  <2>2. PICK alloc : alloc = Grown(vm[u]) OBVIOUS
  <2>3. Eff(u, vm[u].calls, alloc, vm[u].etraps, 0, 0) /\ cstack' = Back(cstack, for, TRUE)
    BY <1>1, <2>1, <2>2, CallGeneratorEff
  <2>4. alloc \in Nat \ {0} /\ Len(vm[u].calls) <= alloc BY <1>2, <2>2, GrownRoom
  <2>5. TRUE \in BOOLEAN OBVIOUS
  <2> QED BY <2>3, <2>4, <2>5, StayStep
<1>6. CASE \E fn \in NativeFns : CallNative(u, for, fn) BY <1>6, CallNativeStep
<1>7. CASE CallRefused(for)
  <2>1. vm' = vm /\ cstack' = Back(cstack, for, FALSE) BY <1>7 DEF CallRefused, AtOnce
  <2>2. PICK alloc : alloc = vm[u].alloc OBVIOUS
  <2>3. Eff(u, vm[u].calls, alloc, vm[u].etraps, 0, 0) BY <1>1, <2>1, <2>2, SameEff
  <2>4. alloc \in Nat \ {0} /\ Len(vm[u].calls) <= alloc BY <1>2, <2>2 DEF Fits
  <2>5. FALSE \in BOOLEAN OBVIOUS
  <2> QED BY <2>1, <2>3, <2>4, <2>5, StayStep
<1>8. ~CallOverflows(u, for) BY DEF CallOverflows, Full
<1>9. \A g \in Gens : ~CallGeneratorMoved(u, for, raise, g) BY DEF CallGeneratorMoved
<1> QED BY <1>3, <1>4, <1>5, <1>6, <1>7, <1>8, <1>9 DEF Call

-----------------------------------------------------------------------------
(* Exceptions, native functions and the host.                              *)

LEMMA OpMetaStep ==
    ASSUME Features = {}, FInv, Shape', NEW v \in VMs, OpMeta(v)
    PROVE  AllVMsOk' /\ StackOk(cstack') /\ BelowKept
PROOF
<1>1. Running(v) /\ Call(v, "meta", FALSE) BY DEF OpMeta
<1>2. ~vm[v].suspended /\ Top.mode = "run" /\ Top.kind = "execute" BY <1>1, RunningTop
<1>3. PICK for, raise : for = "meta" /\ raise = FALSE OBVIOUS
<1>4. for \in Fors BY <1>3 DEF Fors
<1>5. raise \in BOOLEAN /\ Call(v, for, raise) BY <1>1, <1>3
<1>6. Calling(for) BY <1>2, <1>3 DEF Calling, CallerOk
<1> QED BY <1>2, <1>4, <1>5, <1>6, CallStep

LEMMA OpCallNativeStep ==
    ASSUME FInv, Shape', NEW v \in VMs, NEW fn \in NativeFns, OpCallNative(v, fn)
    PROVE  AllVMsOk' /\ StackOk(cstack') /\ BelowKept
PROOF
<1>1. Running(v) /\ CallNative(v, "opcall", fn) BY DEF OpCallNative
<1>2. ~vm[v].suspended /\ Top.mode = "run" /\ Top.kind = "execute" BY <1>1, RunningTop
<1>3. PICK for : for = "opcall" OBVIOUS
<1>4. for \in Fors BY <1>3 DEF Fors
<1>5. CallNative(v, for, fn) BY <1>1, <1>3
<1>6. Calling(for) BY <1>2, <1>3 DEF Calling, CallerOk
<1> QED BY <1>2, <1>4, <1>5, <1>6, CallNativeStep

LEMMA ErrorHandlerStep ==
    ASSUME Features = {}, FInv, Shape', NEW v \in VMs, ErrorHandler(v)
    PROVE  AllVMsOk' /\ StackOk(cstack') /\ BelowKept
PROOF
<1>1. /\ cstack # <<>> /\ Top.kind = "execute" /\ Top.vm = v /\ Top.mode \in {"raise", "startraise"}
      /\ Call(v, "handler", FALSE)
  BY DEF ErrorHandler, Runs
<1>2. ~vm[v].suspended
  <2>1. Shape BY DEF FInv, GInv
  <2>2. Len(cstack) \in 1 .. Len(cstack) /\ Top = cstack[Len(cstack)] BY <1>1, <2>1, TopType
  <2> QED BY <1>1, <2>2, OnStack
<1>3. PICK for, raise : for = "handler" /\ raise = FALSE OBVIOUS
<1>4. for \in Fors BY <1>3 DEF Fors
<1>5. raise \in BOOLEAN /\ Call(v, for, raise) BY <1>1, <1>3
<1>6. Calling(for) BY <1>1, <1>3 DEF Calling, CallerOk
<1> QED BY <1>2, <1>4, <1>5, <1>6, CallStep

LEMMA HostCallStep ==
    ASSUME Features = {}, FInv, Shape', NEW u \in VMs, ~vm[u].suspended, NEW raise \in BOOLEAN, Call(u, "host", raise)
    PROVE  AllVMsOk' /\ StackOk(cstack') /\ BelowKept
PROOF
<1>1. PICK for : for = "host" OBVIOUS
<1>2. for \in Fors BY <1>1 DEF Fors
<1>3. Call(u, for, raise) BY <1>1
<1>4. Calling(for) BY <1>1 DEF Calling, CallerOk
<1> QED BY <1>2, <1>3, <1>4, CallStep

LEMMA ClosureCallStep ==
    ASSUME Features = {}, FInv, Shape', ClosureCall
    PROVE  AllVMsOk' /\ StackOk(cstack') /\ BelowKept
PROOF
<1>1. cstack # <<>> /\ Call(Top.vm, "host", TRUE) BY DEF ClosureCall, Runs
<1>2. PICK u, raise : u = Top.vm /\ raise = TRUE OBVIOUS
<1>3. Shape BY DEF FInv, GInv
<1>4. Len(cstack) \in 1 .. Len(cstack) /\ Top = cstack[Len(cstack)] /\ u \in VMs BY <1>1, <1>2, <1>3, TopType
<1>5. ~vm[u].suspended BY <1>2, <1>4, OnStack
<1>6. raise \in BOOLEAN /\ Call(u, "host", raise) BY <1>1, <1>2
<1> QED BY <1>4, <1>5, <1>6, HostCallStep

\* The frame of a native function.
LEMMA NativeOwns ==
    ASSUME FInv, cstack # <<>>, Top.kind = "native", NEW u, u = Top.vm, NEW c, c = vm[u].calls,
           NEW tr, tr = vm[u].etraps, NEW n, n = Len(c)
    PROVE  /\ u \in VMs /\ c \in Seq(FrameG) /\ n \in Nat /\ n \in 1 .. n /\ TrapsOk(c, tr) /\ Fits(c, vm[u].alloc, tr)
           /\ Top.base \in Nat /\ n = Top.base + 1 /\ c[n] = NativeFrame
PROOF
<1>1. u \in VMs /\ Top.base \in Nat BY CallerIs
<1>2. c \in Seq(FrameG) /\ n \in Nat /\ TrapsOk(c, tr) /\ Fits(c, vm[u].alloc, tr) BY <1>1, VMIs
<1>3. Owns(c, tr, Top, n) BY TopOwns
<1>4. n = Top.base + 1 /\ c[n] = NativeFrame BY <1>3 DEF Owns
<1>5. n \in 1 .. n BY <1>1, <1>2, <1>4
<1> QED BY <1>1, <1>2, <1>4, <1>5

LEMMA NativeReturnStep ==
    ASSUME FInv, Shape', NEW ok \in BOOLEAN, NativeReturn(ok)
    PROVE  AllVMsOk' /\ StackOk(cstack') /\ BelowKept
PROOF
<1>1. Shape BY DEF FInv, GInv
<1>2. PICK u, c, tr, n, calls, dm : /\ u = Top.vm /\ c = vm[u].calls /\ tr = vm[u].etraps /\ n = Len(c)
                                    /\ calls = Front(c) /\ dm = -One(Top.for) OBVIOUS
<1>3. /\ Eff(u, calls, vm[u].alloc, tr, -1, dm) /\ cstack' = Back(Front(cstack), Top.for, ok)
      /\ cstack # <<>> /\ Top.kind = "native"
  BY <1>1, <1>2, NativeReturnEff
<1>4. /\ c \in Seq(FrameG) /\ n \in Nat /\ n \in 1 .. n /\ TrapsOk(c, tr)
      /\ Top.base \in Nat /\ n = Top.base + 1 /\ c[n] = NativeFrame
  BY <1>2, <1>3, NativeOwns
<1>5. Cut(c, tr, calls, tr, n - 1, Len(tr))
  <2>1. calls \in Seq(FrameG) /\ Len(calls) = n - 1 /\ \A i \in 1 .. n - 1 : calls[i] = c[i]
    <3>1. c # <<>>
      <4>1. Len(c) \in 1 .. Len(c) BY <1>2, <1>4
      <4> QED BY <4>1
    <3> QED BY <1>2, <1>4, <3>1, FrontIs
  <2>2. n - 1 \in 0 .. Len(c) /\ \A i \in n - 1 + 1 .. Len(c) : c[i].etraps <= 0
    <3>1. \A i \in n - 1 + 1 .. Len(c) : i = n BY <1>2, <1>4
    <3>2. c[n].etraps = 0 BY <1>4, NewFramesOk
    <3> QED BY <1>2, <1>4, <3>1, <3>2
  <2> QED BY <1>4, <2>1, <2>2, CutRest
<1>6. n - 1 = Top.base BY <1>4
<1> QED BY <1>2, <1>3, <1>5, <1>6, PopCut

LEMMA StartFailsStep ==
    ASSUME FInv, Shape', NEW v \in VMs, StartFails(v)
    PROVE  AllVMsOk' /\ StackOk(cstack') /\ BelowKept
PROOF
<1>1. Shape BY DEF FInv, GInv
<1>2. PICK c, tr, alloc, dm, no : /\ c = vm[v].calls /\ tr = vm[v].etraps /\ alloc = vm[v].alloc
                                  /\ dm = -One(Top.for) /\ no = FALSE OBVIOUS
<1>3. /\ Eff(v, c, alloc, tr, -1, dm) /\ cstack' = Back(Front(cstack), Top.for, no)
      /\ cstack # <<>> /\ Top.kind = "execute" /\ Top.mode = "startfail" /\ Top.vm = v
  BY <1>1, <1>2, StartFailsEff
<1>4. c \in Seq(FrameG) /\ Len(c) \in Nat /\ Fits(c, alloc, tr) BY <1>2, VMIs
<1>5. Owns(c, tr, Top, Len(c)) BY <1>2, <1>3, TopOwns
<1>6. Len(c) = Top.base BY <1>3, <1>5 DEF Owns, Starting
<1>7. Changes(v, Top.base, c, alloc, tr)
  <2>1. Top.base \in Nat /\ Top.base <= Len(c) BY <1>4, <1>6
  <2> QED BY <1>2, <1>4, <2>1, SameSelf DEF Changes
<1>8. no \in BOOLEAN BY <1>2
<1> QED BY <1>2, <1>3, <1>6, <1>7, <1>8, PopStep

LEMMA UnwindStep ==
    ASSUME FInv, Shape', NEW v \in VMs, Unwind(v)
    PROVE  AllVMsOk' /\ StackOk(cstack') /\ BelowKept
PROOF
<1>1. Shape BY DEF FInv, GInv
<1>2. cstack # <<>> /\ Top.kind = "execute" /\ Top.vm = v /\ Top.mode = "unwind" BY <1>1, UnwindEff
<1>3. Executing(Top) BY <1>2 DEF Executing
<1>4. PICK c, tr, n, dm, no : c = vm[v].calls /\ tr = vm[v].etraps /\ n = Len(c) /\ dm = -One(Top.for) /\ no = FALSE
  OBVIOUS
<1>5. /\ c \in Seq(FrameG) /\ n \in Nat /\ TrapsOk(c, tr) /\ Top \in Act /\ Top.base \in Nat /\ Top.base < n
      /\ Top = cstack[Len(cstack)] /\ Len(cstack) \in 1 .. Len(cstack) /\ Top.traps \in Int
      /\ \A i \in Top.base + 1 .. n : c[i].code /\ (c[i].root <=> i = Top.base + 1)
  <2>1. ScriptTop(v, c, tr, n) BY <1>2, <1>3, <1>4, TopScript
  <2> QED BY <2>1 DEF ScriptTop
<1>6. c[Top.base + 1].root
  <2>1. Top.base + 1 \in Top.base + 1 .. n BY <1>5
  <2> QED BY <1>5, <2>1
<1>7. ASSUME NEW at \in Nat, Caught(v, at) PROVE AllVMsOk' /\ StackOk(cstack') /\ BelowKept
  <2>1. PICK c3, calls : c3 = SubSeq(c, 1, at) /\ calls = [c3 EXCEPT ![at].etraps = c3[at].etraps - 1] OBVIOUS
  <2>2. at \in 1 .. n /\ c[at].etraps > 0 /\ \A i \in at + 1 .. n : c[i].etraps <= 0 /\ c[i].root = FALSE
    BY <1>4, <1>7 DEF Caught, Catches
  <2>3. at > Top.base
    <3>1. CASE at < Top.base + 1
      <4>1. Top.base + 1 \in at + 1 .. n BY <1>5, <2>2, <3>1
      <4> QED BY <1>6, <2>2, <4>1
    <3> QED BY <1>5, <2>2, <3>1
  <2>4. c3 \in Seq(FrameG) /\ Len(c3) = at /\ \A i \in 1 .. at : c3[i] = c[i] BY <1>4, <1>5, <2>1, <2>2, PrefixIs
  <2>5. PICK x, f : /\ x = c[at].etraps - 1
                    /\ f = [code |-> c[at].code, root |-> c[at].root, gen |-> c[at].gen, etraps |-> x] OBVIOUS
  <2>6. SetFrame(c3, calls, at, f)
    <3>1. at \in 1 .. Len(c3) /\ c3[at] = c[at] BY <2>2, <2>4
    <3>2. x \in Int
      <4>1. c[at] \in FrameG BY <1>4, <1>5, <2>2
      <4> QED BY <2>5, <4>1 DEF FrameG
    <3>3. calls = [c3 EXCEPT ![at].etraps = x] BY <2>1, <2>5, <3>1
    <3>4. f = [code |-> c3[at].code, root |-> c3[at].root, gen |-> c3[at].gen, etraps |-> x] BY <2>5, <3>1
    <3>5. SetFrame(c3, calls, at, [code |-> c3[at].code, root |-> c3[at].root, gen |-> c3[at].gen, etraps |-> x])
      BY <2>4, <3>1, <3>2, <3>3, SetTraps
    <3> QED BY <3>4, <3>5
  <2>7. calls \in Seq(FrameG) /\ Len(calls) = at /\ (\A i \in 1 .. at : i # at => calls[i] = c[i]) /\ calls[at] = f
    BY <2>2, <2>4, <2>6 DEF SetFrame
  <2>8. Remade(c, tr, calls, vm[v].alloc, Front(tr), at - 1, Top.base) /\ Len(Front(tr)) - Len(tr) = -1
    <3>1. at \in 1 .. Len(c) /\ \A i \in at + 1 .. Len(c) : c[i].etraps <= 0 BY <1>4, <2>2
    <3>2. f = [code |-> c[at].code, root |-> c[at].root, gen |-> c[at].gen, etraps |-> c[at].etraps - 1] BY <2>5
    <3>3. v = Top.vm /\ c = vm[v].calls /\ tr = vm[v].etraps /\ c[at].etraps > 0 BY <1>2, <1>4, <2>2
    <3>4. Popped(c, at, calls) BY <2>7, <3>1, <3>2, <3>3 DEF Popped
    <3> QED BY <1>2, <1>3, <2>3, <3>3, <3>4, PopRemade
  <2>9. Eff(v, calls, vm[v].alloc, Front(tr), 0, 0) BY <1>4, <1>7, <2>1 DEF Caught
  <2>10. PICK b : b = [Top EXCEPT !.traps = @ - 1, !.mode = "run"] OBVIOUS
  <2>11. GoesOn(b, -1)
    <3>1. /\ b.kind = "execute" /\ b.mode = "run" /\ b.vm = Top.vm /\ b.base = Top.base /\ b.for = Top.for
          /\ b.traps = Top.traps + (-1)
      BY <1>2, <1>5, <2>10 DEF Act
    <3>2. cstack' = [cstack EXCEPT ![Len(cstack)] = b] BY <1>7, <2>10 DEF Caught
    <3>3. cstack \in Seq(Act) BY StackIs
    <3>4. Topped(cstack, cstack', b) BY <1>5, <3>2, <3>3 DEF Topped
    <3> QED BY <3>1, <3>4 DEF GoesOn
  <2>12. GoesOn(b, Len(Front(tr)) - Len(tr)) BY <2>8, <2>11
  <2> QED BY <1>2, <1>3, <1>4, <2>8, <2>9, <2>12, TopRebuilt
<1>8. ASSUME NEW left \in Nat, Uncaught(v, left) PROVE AllVMsOk' /\ StackOk(cstack') /\ BelowKept
  <2>1. /\ left \in 0 .. n /\ (\A i \in left + 2 .. n : c[i].root = FALSE) /\ (\A i \in left + 1 .. n : c[i].etraps <= 0)
        /\ \/ left < n /\ c[left + 1].root = TRUE
           \/ left = 0 /\ \A i \in 1 .. n : c[i].root = FALSE
    BY <1>4, <1>8 DEF Uncaught, LeavesAll
  <2>2. left = Top.base
    <3>1. CASE left < Top.base
      <4>1. Top.base + 1 \in left + 2 .. n BY <1>5, <2>1, <3>1
      <4> QED BY <1>6, <2>1, <4>1
    <3>2. CASE left > Top.base
      <4>1. ~(left = 0) BY <1>5, <3>2
      <4>2. left < n /\ c[left + 1].root = TRUE BY <2>1, <4>1
      <4>3. left + 1 \in Top.base + 1 .. n /\ left + 1 # Top.base + 1 BY <1>5, <2>1, <3>2, <4>2
      <4> QED BY <1>5, <4>2, <4>3
    <3> QED BY <1>5, <2>1, <3>1, <3>2
  <2>3. PICK calls : calls = SubSeq(c, 1, left) OBVIOUS
  <2>4. calls \in Seq(FrameG) /\ Len(calls) = left /\ \A i \in 1 .. left : calls[i] = c[i]
    BY <1>4, <1>5, <2>1, <2>3, PrefixIs
  <2>5. Cut(c, tr, calls, tr, left, Len(tr)) BY <1>4, <1>5, <2>1, <2>4, CutRest
  <2>6. Eff(v, calls, vm[v].alloc, tr, -1, dm) /\ cstack' = Back(Front(cstack), Top.for, no)
    BY <1>2, <1>4, <1>8, <2>3 DEF Uncaught
  <2>7. no \in BOOLEAN BY <1>4
  <2> QED BY <1>2, <1>4, <2>2, <2>5, <2>6, <2>7, PopCut
<1>9. PICK at \in Nat : Caught(v, at) \/ Uncaught(v, at) BY <1>1, UnwindEff
<1> QED BY <1>7, <1>8, <1>9

\* GS_tailcall: the frame is that of the function now, and belongs to the Execute below.
LEMMA TailCallStep ==
    ASSUME Features = {}, FInv, Shape', TailCall
    PROVE  AllVMsOk' /\ StackOk(cstack') /\ BelowKept
PROOF
<1>1. Shape BY DEF FInv, GInv
<1>2. PICK u, c, tr, n, d, dm, k, s, t, yes :
        /\ u = Top.vm /\ c = vm[u].calls /\ tr = vm[u].etraps /\ n = Len(c) /\ d = Top.base /\ dm = -One(Top.for)
        /\ k = Len(cstack) - 1 /\ s = cstack /\ t = cstack' /\ yes = TRUE OBVIOUS
<1>3. PICK calls, f : /\ calls = [c EXCEPT ![n].code = yes]
                      /\ f = [code |-> TRUE, root |-> c[n].root, gen |-> c[n].gen, etraps |-> c[n].etraps] OBVIOUS
<1>4. /\ Eff(u, calls, vm[u].alloc, tr, -1, dm) /\ cstack' = Back(Front(cstack), Top.for, yes)
      /\ cstack # <<>> /\ Top.kind = "native"
  BY <1>1, <1>2, <1>3, TailCallEff
<1>5. Top.for = "opcall" BY DEF TailCall
<1>6. /\ u \in VMs /\ c \in Seq(FrameG) /\ n \in Nat /\ n \in 1 .. n /\ TrapsOk(c, tr) /\ Fits(c, vm[u].alloc, tr)
      /\ d \in Nat /\ n = d + 1 /\ c[n] = NativeFrame
  BY <1>2, <1>4, NativeOwns
<1>7. /\ k \in Nat /\ Len(s) = k + 1 /\ k > 0 /\ s[k].vm = u /\ s[k].kind = "execute" /\ s[k].mode = "run"
      /\ s \in Seq(Act)
  <2>1. /\ k \in Nat /\ Len(s) = k + 1 /\ k > 0 /\ s[k].vm = u /\ CallerOk(Top.for, cstack[k].mode)
        /\ cstack[k].kind = "execute"
    BY <1>2, <1>4, <1>5, CallerIs
  <2> QED BY <1>2, <1>5, <2>1, StackIs DEF CallerOk
<1>8. yes \in BOOLEAN BY <1>2
<1>9. t \in Seq(Act) /\ Len(t) = k /\ AllLike(s, t, k) BY <1>2, <1>4, <1>8, PopLike
<1>10. PICK a, j, b : a = s[k] /\ j = k - 1 /\ b = s[k].base OBVIOUS
<1>11. j \in Nat /\ j + 1 = k /\ j < Len(s) /\ j <= Len(s) /\ j < Len(t) /\ a \in Act /\ b \in Nat /\ a.base = b
  <2>1. k \in 1 .. Len(s) BY <1>7
  <2>2. a \in Act BY <1>7, <1>10, <2>1
  <2> QED BY <1>7, <1>9, <1>10, <2>2 DEF Act
<1>12. Stacked(s, j, u, b, c, tr) /\ b <= d /\ Owns(c, tr, a, d)
  <2>1. Stacked(s, k, u, d, c, tr) BY <1>2, <1>4, TopOwns
  <2>2. Stacked(s, j + 1, u, d, c, tr) /\ s[j + 1].vm = u /\ s[j + 1] = a /\ s[j + 1].base = b
    BY <1>7, <1>10, <1>11, <2>1
  <2>3. Stacked(s, j, u, s[j + 1].base, c, tr) /\ s[j + 1].base <= d /\ Owns(c, tr, s[j + 1], d)
    BY <1>6, <1>7, <1>11, <2>2, StackedPop
  <2> QED BY <2>2, <2>3
<1>13. Script(c, tr, b, d, a.traps) /\ b < d
  <2>1. Executing(a) BY <1>7, <1>10 DEF Executing
  <2> QED BY <1>11, <1>12, <2>1 DEF Owns, Script
<1>14. f \in FrameG /\ FrameOk(f) /\ f.code /\ ~f.root /\ f.etraps = 0 /\ f.etraps = c[n].etraps
  <2>1. c[n].root = FALSE /\ c[n].gen = None /\ c[n].etraps = 0
    <3>1. PICK g : g = Frame OBVIOUS
    <3>2. NativeFrame = [g EXCEPT !.code = FALSE] /\ g.root = FALSE /\ g.gen = None /\ g.etraps = 0
          /\ DOMAIN g = {"code", "root", "gen", "etraps"}
      BY <3>1 DEF NativeFrame, Frame
    <3> QED BY <1>6, <3>2
  <2>2. 0 \in 0 .. MaxTraps /\ 0 \in Int BY BoundsAssumption
  <2>3. f \in FrameG /\ f \in FrameType BY <1>3, <2>1, <2>2 DEF FrameG, FrameType
  <2> QED BY <1>3, <2>1, <2>3 DEF FrameOk
<1>15. SetFrame(c, calls, n, f)
  <2>1. n \in 1 .. Len(c) BY <1>2, <1>6
  <2> QED BY <1>2, <1>3, <1>6, <2>1, SetCode
<1>16. calls \in Seq(FrameG) /\ Len(calls) = n /\ calls[n] = f BY <1>2, <1>6, <1>15 DEF SetFrame
<1>17. PICK p : Rebuilt(c, tr, calls, tr, d, p)
  <2>1. n > 0 /\ n - 1 = d BY <1>6
  <2>2. \E p : Rebuilt(c, tr, calls, tr, n - 1, p) BY <1>2, <1>6, <1>14, <1>15, <2>1, RebuiltSame1
  <2> QED BY <2>1, <2>2
<1>18. Len(tr) = p /\ p \in Nat /\ Upto(tr, d, p)
  <2>1. Len(tr) = p + calls[d + 1].etraps /\ Upto(tr, d, p) BY <1>17 DEF Rebuilt
  <2>2. calls[d + 1].etraps = 0 BY <1>6, <1>14, <1>16
  <2>3. p \in 0 .. Len(tr) BY <2>1 DEF Upto
  <2> QED BY <2>1, <2>2, <2>3
<1>19. Script(calls, tr, b, d + 1, a.traps)
  <2>1. calls[d + 1].code /\ ~calls[d + 1].root BY <1>6, <1>14, <1>16
  <2>2. d <= Len(c) /\ b <= d /\ d <= d /\ d # b BY <1>2, <1>6, <1>11, <1>13
  <2>3. Script(calls, tr, b, d + 1, a.traps + (Len(tr) - p))
    BY <1>6, <1>11, <1>13, <1>17, <1>18, <2>1, <2>2, ScriptRebuilt
  <2>4. a.traps + (Len(tr) - p) = a.traps
    <3>1. a.traps \in Int BY <1>11 DEF Act
    <3> QED BY <1>18, <3>1
  <2> QED BY <2>3, <2>4
<1>20. Owns(calls, tr, t[k], Len(calls))
  <2>1. Owns(calls, tr, a, Len(calls))
    <3>1. Len(calls) = d + 1 /\ b <= d + 1 BY <1>6, <1>11, <1>13, <1>16
    <3>2. a.kind = "execute" /\ a.mode = "run" BY <1>7, <1>10
    <3>3. d + 1 <= d + 1 BY <1>6
    <3> QED BY <1>11, <1>19, <3>1, <3>2, <3>3 DEF Owns, Starting
  <2>2. Like(a, t[k])
    <3>1. k \in 1 .. k BY <1>7
    <3> QED BY <1>9, <1>10, <3>1 DEF AllLike
  <2> QED BY <2>1, <2>2, LikeOwns
<1>21. Same(c, tr, calls, tr, b)
  <2>1. Same(c, tr, calls, tr, d) BY <1>6, <1>17, RebuiltSame
  <2>2. Len(c) \in Nat /\ Len(calls) \in Nat /\ b <= d BY <1>2, <1>6, <1>13, <1>16, <1>11
  <2> QED BY <1>6, <1>11, <2>1, <2>2, SameLess
<1>22. Stacked(t, k, u, Len(calls), calls, tr)
  <2>1. AllLike(s, t, j)
    <3>1. \A i \in 1 .. j : i \in 1 .. k BY <1>11
    <3> QED BY <1>9, <3>1 DEF AllLike
  <2>2. t[j + 1].vm = u /\ t[j + 1].base = b
    <3>1. k \in 1 .. k BY <1>7
    <3> QED BY <1>7, <1>9, <1>10, <1>11, <3>1 DEF AllLike, Like
  <2>3. Len(calls) \in Nat /\ b <= Len(calls) BY <1>6, <1>11, <1>13, <1>16
  <2>4. Stacked(t, j + 1, u, Len(calls), calls, tr)
    BY <1>7, <1>9, <1>11, <1>12, <1>20, <1>21, <2>1, <2>2, <2>3, Restack
  <2> QED BY <1>11, <2>4
<1>23. Fits(calls, vm[u].alloc, tr)
  <2>1. FrameOk(calls[d + 1]) BY <1>6, <1>14, <1>16
  <2>2. PICK alloc : alloc = vm[u].alloc OBVIOUS
  <2>3. alloc \in Nat \ {0} /\ d + 1 <= alloc /\ d + 1 <= MaxFrames BY <1>2, <1>6, <2>2 DEF Fits
  <2>4. Fits(c, alloc, tr) BY <1>6, <2>2
  <2>5. Fits(calls, alloc, tr) BY <1>6, <1>17, <2>1, <2>3, <2>4, FitsRebuilt
  <2> QED BY <2>2, <2>5
<1>24. Stacked(cstack', Len(cstack) - 1, u, Len(calls), calls, tr) BY <1>2, <1>22
<1>25. Same(vm[u].calls, vm[u].etraps, calls, tr, Top.base) BY <1>2, <1>6, <1>17, RebuiltSame
<1> QED BY <1>2, <1>4, <1>8, <1>16, <1>23, <1>24, <1>25, PopRest

\* Under suspend() there is one Execute of the VM, which the host called.
LEMMA SuspendStack ==
    ASSUME FInv, NEW v \in VMs, Suspend(v), NEW k, k = Len(cstack) - 2, NEW e, e = cstack[Len(cstack) - 1]
    PROVE  /\ k \in 0 .. Len(cstack) /\ k \in Nat /\ Len(cstack) = k + 2 /\ e = cstack[k + 1] /\ e \in Act
           /\ e.vm = v /\ Executing(e) /\ e.for = "host" /\ Top = cstack[k + 2] /\ Top.vm = v /\ Top.kind = "native"
           /\ Front(Front(cstack)) \in Seq(Act) /\ Len(Front(Front(cstack))) = k
           /\ \A i \in 1 .. k : Front(Front(cstack))[i] = cstack[i] /\ cstack[i].vm # v
PROOF
<1>1. Shape /\ NativeCallsExact BY DEF FInv, GInv
<1>2. /\ cstack # <<>> /\ Top.vm = v /\ Top.kind = "native" /\ Top.for = "opcall" /\ vm[v].nnative = 2
  BY <1>1, SuspendEff
<1>3. GInv BY DEF FInv
<1>4. Len(cstack) > 1 /\ e.vm = v /\ e.for = "host" /\ e.kind = "execute" BY <1>3, SuspendBelow
<1>5. cstack \in Seq(Act) /\ Len(cstack) \in Nat BY StackIs
<1>6. k \in 0 .. Len(cstack) /\ k \in Nat /\ Len(cstack) = k + 2 /\ Len(cstack) - 1 = k + 1 /\ k + 1 \in 1 .. Len(cstack)
      /\ k + 2 \in 2 .. Len(cstack) /\ k + 2 - 1 = k + 1
  BY <1>4, <1>5
<1>7. e = cstack[k + 1] /\ e \in Act /\ ActOk(e) BY <1>6, StackIs
<1>8. Top = cstack[k + 2] BY <1>6 DEF Top, Last
<1>9. e.mode = "run"
  <2>1. CallerOk(cstack[k + 2].for, cstack[k + 2 - 1].mode) BY <1>6, StackIs
  <2>2. CallerOk("opcall", e.mode) BY <1>2, <1>6, <1>7, <1>8, <2>1
  <2> QED BY <2>2 DEF CallerOk
<1>10. Executing(e) BY <1>4, <1>9 DEF Executing
<1>11. PICK s1, s2 : s1 = Front(cstack) /\ s2 = Front(s1) OBVIOUS
<1>12. /\ s1 \in Seq(Act) /\ Len(s1) = k + 1 /\ (\A i \in 1 .. k + 1 : s1[i] = cstack[i]) /\ Last(cstack) = Top
  <2>1. s1 \in Seq(Act) /\ Len(s1) = Len(cstack) - 1 /\ (\A i \in 1 .. Len(cstack) - 1 : s1[i] = cstack[i])
    BY <1>2, <1>5, <1>11, FrontIs
  <2>2. Last(cstack) = Top BY DEF Top
  <2> QED BY <1>6, <2>1, <2>2
<1>13. s1 # <<>> BY <1>6, <1>12
<1>14. /\ s2 \in Seq(Act) /\ Len(s2) = k /\ (\A i \in 1 .. k : s2[i] = s1[i]) /\ Last(s1) = s1[k + 1]
  <2>1. /\ s2 \in Seq(Act) /\ Len(s2) = Len(s1) - 1 /\ (\A i \in 1 .. Len(s1) - 1 : s2[i] = s1[i])
        /\ Last(s1) = s1[Len(s1)]
    BY <1>11, <1>12, <1>13, FrontIs
  <2>2. Len(s1) - 1 = k /\ Len(s1) = k + 1 BY <1>6, <1>12
  <2> QED BY <2>1, <2>2
<1>15. Last(s1) = e
  <2>1. k + 1 \in 1 .. k + 1 BY <1>6
  <2> QED BY <1>7, <1>12, <1>14, <2>1
<1>16. Num(s2, v) = 0
  <2>1. Num(cstack, v) = 2 BY <1>1, <1>2 DEF NativeCallsExact, Num
  <2>2. Num(s1, v) = Num(cstack, v) - 1 BY <1>2, <1>5, <1>11, <1>12, NumFront
  <2>3. Num(s2, v) = Num(s1, v) - 1 BY <1>4, <1>11, <1>12, <1>13, <1>15, NumFront
  <2> QED BY <2>1, <2>2, <2>3
<1>17. ASSUME NEW i \in 1 .. k PROVE s2[i] = cstack[i] /\ cstack[i].vm # v
  <2>1. i \in 1 .. k + 1 BY <1>6
  <2>2. s2[i] = cstack[i] BY <1>12, <1>14, <2>1
  <2>3. PICK S : S = {j \in 1 .. Len(s2) : s2[j].vm = v} OBVIOUS
  <2>4. IsFiniteSet(S)
    <3>1. 1 \in Int /\ Len(s2) \in Int BY <1>6, <1>14
    <3>2. IsFiniteSet(1 .. Len(s2)) BY <3>1, FS_Interval
    <3>3. S \subseteq 1 .. Len(s2) BY <2>3
    <3> QED BY <3>2, <3>3, FS_Subset
  <2>5. S = {} BY <1>16, <2>3, <2>4, FS_EmptySet DEF Num
  <2>6. s2[i].vm # v BY <1>14, <2>3, <2>5
  <2> QED BY <2>2, <2>6
<1>18. Front(Front(cstack)) = s2 BY <1>11
<1> QED BY <1>2, <1>4, <1>6, <1>7, <1>8, <1>10, <1>14, <1>17, <1>18

\* An Execute that is the first of its VM begins at the first frame.
LEMMA FirstBase ==
    ASSUME NEW s, NEW n \in Nat, NEW v, \A i \in 1 .. n : s[i].vm # v, NEW e \in Nat, NEW c, NEW tr
    PROVE  Stacked(s, n, v, e, c, tr) <=> e = 0
PROOF
<1>1. \A k \in 0 + 1 .. n : s[k].vm # v OBVIOUS
<1>2. \A d \in Nat : Limit(s, n, v, e, 0, d) <=> d = e BY <1>1 DEF Limit
<1> QED BY <1>2 DEF Stacked

LEMMA SuspendStep ==
    ASSUME FInv, Shape', NEW v \in VMs, Suspend(v)
    PROVE  AllVMsOk' /\ StackOk(cstack') /\ BelowKept
PROOF
<1>1. Shape BY DEF FInv, GInv
<1>2. PICK k, e, s, t, s2 : /\ k = Len(cstack) - 2 /\ e = cstack[Len(cstack) - 1] /\ s = cstack /\ t = cstack'
                            /\ s2 = Front(Front(cstack))
  OBVIOUS
<1>3. /\ k \in 0 .. Len(cstack) /\ k \in Nat /\ Len(cstack) = k + 2 /\ e = cstack[k + 1] /\ e \in Act
      /\ e.vm = v /\ Executing(e) /\ e.for = "host" /\ Top = cstack[k + 2] /\ Top.vm = v /\ Top.kind = "native"
      /\ s2 \in Seq(Act) /\ Len(s2) = k
  BY <1>2, SuspendStack
<1>4. \A i \in 1 .. k : s2[i] = cstack[i] /\ cstack[i].vm # v BY <1>2, SuspendStack
<1>5. Suspends(v) /\ cstack # <<>> BY <1>1, SuspendEff
<1>6. t = Back(s2, e.for, TRUE) BY <1>1, <1>2, SuspendEff
<1>7. t \in Seq(Act) /\ Len(t) = k /\ AllLike(cstack, t, k) /\ StackOk(t)
  <2>1. PICK for, ok : for = "host" /\ ok = TRUE OBVIOUS
  <2>2. for \in Fors /\ ok \in BOOLEAN /\ t = Back(s2, for, ok) BY <1>3, <1>6, <2>1 DEF Fors
  <2>3. \A i \in 1 .. k : s2[i] = cstack[i] BY <1>4
  <2>4. k > 0 => CallerOk(for, cstack[k].mode) /\ (for # "host" => cstack[k].kind = "execute")
    BY <2>1 DEF CallerOk
  <2> QED BY <1>3, <2>2, <2>3, <2>4, BackOk
<1>8. PICK c, tr, n, b, c2, alloc : /\ c = vm[v].calls /\ tr = vm[v].etraps /\ n = Len(c) /\ b = Top.base /\ c2 = Front(c)
                                    /\ alloc = vm[v].alloc
  OBVIOUS
<1>9. /\ c \in Seq(FrameG) /\ n \in Nat /\ n \in 1 .. n /\ TrapsOk(c, tr) /\ Fits(c, alloc, tr)
      /\ b \in Nat /\ n = b + 1 /\ c[n] = NativeFrame
  BY <1>3, <1>5, <1>8, NativeOwns
<1>10. c2 \in Seq(FrameG) /\ Len(c2) = b /\ \A i \in 1 .. b : c2[i] = c[i]
  <2>1. c # <<>>
    <3>1. Len(c) # 0 BY <1>8, <1>9
    <3> QED BY <3>1
  <2>2. c2 \in Seq(FrameG) /\ Len(c2) = Len(c) - 1 /\ \A i \in 1 .. Len(c) - 1 : c2[i] = c[i]
    BY <1>8, <1>9, <2>1, FrontIs
  <2>3. Len(c) - 1 = b BY <1>8, <1>9
  <2> QED BY <2>2, <2>3
<1>11. Cut(c, tr, c2, tr, b, Len(tr))
  <2>1. b \in 0 .. Len(c) BY <1>8, <1>9
  <2>2. \A i \in b + 1 .. Len(c) : i = n BY <1>8, <1>9
  <2>3. \A i \in b + 1 .. Len(c) : c[i].etraps <= 0 BY <1>9, <2>2, NewFramesOk
  <2> QED BY <1>9, <1>10, <2>1, <2>3, CutRest
<1>12. Fits(c2, alloc, tr) /\ Same(c, tr, c2, tr, b) BY <1>9, <1>11, FitsCut, CutSame
<1>13. Stacked(s, k, v, e.base, c, tr) /\ e.base \in Nat /\ e.base <= b /\ Owns(c, tr, e, b)
  <2>1. Stacked(s, k + 1, v, b, c, tr)
    <3>1. Len(cstack) - 1 = k + 1 BY <1>3
    <3> QED BY <1>2, <1>3, <1>5, <1>8, <3>1, TopOwns
  <2>2. s \in Seq(Act) /\ k < Len(s) /\ s[k + 1] = e /\ s[k + 1].vm = v BY <1>2, <1>3, StackIs
  <2>3. e.base \in Nat BY <1>3 DEF Act
  <2> QED BY <1>3, <1>9, <2>1, <2>2, <2>3, StackedPop
<1>14. e.base = 0
  <2>1. \A i \in 1 .. k : s[i].vm # v BY <1>2, <1>4
  <2>2. PICK d : d = e.base OBVIOUS
  <2>3. d \in Nat /\ Stacked(s, k, v, d, c, tr) BY <1>13, <2>2
  <2>4. d = 0 BY <1>3, <2>1, <2>3, FirstBase
  <2> QED BY <2>2, <2>4
<1>15. Script(c2, tr, 0, b, e.traps)
  <2>1. Script(c, tr, 0, b, e.traps) BY <1>3, <1>13, <1>14 DEF Owns
  <2> QED BY <1>9, <1>12, <2>1, SameScript
<1>16. PICK m : m = vm'[v] OBVIOUS
<1>17. /\ m.calls = c2 /\ m.alloc = alloc /\ m.etraps = tr /\ m.nnative = vm[v].nnative - 2
       /\ m.suspended = TRUE /\ m.straps = e.traps /\ m.sroot = Last(c2).root
  BY <1>2, <1>5, <1>8, <1>16 DEF Suspends
<1>18. \A i \in 1 .. Len(t) : t[i].vm # v BY <1>4, <1>7 DEF AllLike, Like
<1>19. VMOk(t, m, v)
  <2>1. m.nnative <= MAX_NATIVE_CALLS
    <3>1. vm[v].nnative \in Int /\ vm[v].nnative + 0 <= MAX_NATIVE_CALLS BY VMIs
    <3>2. MAX_NATIVE_CALLS \in Nat BY BoundsAssumption
    <3> QED BY <1>17, <3>1, <3>2
  <2>2. Stacked(t, Len(t), v, 0, c2, tr)
    <3>1. \A i \in 1 .. k : t[i].vm # v BY <1>7, <1>18
    <3>2. Stacked(t, k, v, 0, c2, tr) BY <1>3, <3>1, FirstBase
    <3> QED BY <1>7, <3>2
  <2>3. Waits(t, m, v)
    <3>1. Script(m.calls, m.etraps, 0, Len(m.calls), m.straps) BY <1>10, <1>15, <1>17
    <3>2. m.sroot = m.calls[Len(m.calls)].root BY <1>17 DEF Last
    <3> QED BY <1>18, <3>1, <3>2 DEF Waits
  <2>4. Fits(m.calls, m.alloc, m.etraps) BY <1>12, <1>17
  <2>5. Stacked(t, Len(t), v, IF m.suspended THEN 0 ELSE Len(m.calls), m.calls, m.etraps) BY <1>17, <2>2
  <2>6. m.suspended \in BOOLEAN BY <1>17
  <2> QED BY <2>1, <2>3, <2>4, <2>5, <2>6 DEF VMOk
<1>20. AllVMsOk'
  <2>1. Apart(s, t, k, v)
    <3>1. Len(s) = k + 2 /\ Len(t) = k BY <1>2, <1>3, <1>7
    <3>2. k <= Len(s) /\ k <= Len(t)
      <4>1. Len(s) = k + 2 /\ Len(t) = k /\ k \in Nat BY <1>3, <3>1
      <4> QED BY ONLY <4>1
    <3>3. \A i \in k + 1 .. Len(s) : i = k + 1 \/ i = k + 2 BY <1>3, <3>1
    <3>4. \A i \in k + 1 .. Len(s) : s[i].vm = v BY <1>2, <1>3, <3>3
    <3>5. \A i \in k + 1 .. Len(t) : FALSE BY <1>3, <3>1
    <3>6. AllLike(s, t, k) BY <1>2, <1>7
    <3> QED BY <1>3, <3>2, <3>4, <3>5, <3>6 DEF Apart
  <2>2. Only(v) BY <1>5 DEF Suspends
  <2>3. Apart(cstack, cstack', k, v) BY <1>2, <2>1
  <2>4. VMOk(cstack', vm'[v], v) BY <1>2, <1>16, <1>19
  <2> QED BY <2>2, <2>3, <2>4, Others
<1>21. BelowKept
  <2>1. Only(v) /\ vm'[v].calls = c2 BY <1>5, <1>16, <1>17 DEF Suspends
  <2>2. Len(c2) \in Nat /\ v = Top.vm /\ cstack # <<>> BY <1>3, <1>5, <1>9, <1>10
  <2>3. Same(vm[v].calls, vm[v].etraps, c2, tr, Top.base) BY <1>8, <1>12
  <2> QED BY <2>1, <2>2, <2>3, TopKept
<1> QED BY <1>2, <1>7, <1>20, <1>21

\* A frame that is what it was.
LEMMA SetNothing ==
    ASSUME NEW c \in Seq(FrameG), NEW n \in 1 .. Len(c), NEW f, f = c[n], NEW t, t = [c EXCEPT ![n] = f]
    PROVE  t = c
PROOF
<1>1. f \in FrameG OBVIOUS
<1>2. SetFrame(c, t, n, f) BY <1>1, SetIs
<1>3. t \in Seq(FrameG) /\ Len(t) = Len(c) /\ \A i \in 1 .. Len(c) : t[i] = c[i] BY <1>2 DEF SetFrame
<1> QED BY <1>3

\* The last frame of a thread that wakes up is marked as it was.
LEMMA WokenSame ==
    ASSUME FInv, NEW u \in VMs, vm[u].suspended, Wakes(u)
    PROVE  vm'[u].calls = vm[u].calls
PROOF
<1>1. PICK c, n, calls, r : c = vm[u].calls /\ n = Len(c) /\ calls = vm'[u].calls /\ r = vm[u].sroot OBVIOUS
<1>2. c \in Seq(FrameG) /\ n \in Nat /\ VMOk(cstack, vm[u], u) BY <1>1, VMIs
<1>3. Script(c, vm[u].etraps, 0, n, vm[u].straps) /\ vm[u].sroot = c[n].root BY <1>1, <1>2 DEF VMOk, Waits
<1>4. n \in 1 .. Len(c)
  <2>1. 0 < n BY <1>3 DEF Script
  <2> QED BY <1>1, <1>2, <2>1
<1>5. calls = [c EXCEPT ![n].root = r] BY <1>1 DEF Wakes
<1>6. c[n] \in FrameG BY <1>2, <1>4
<1>7. PICK f : f = [c[n] EXCEPT !.root = r] OBVIOUS
<1>8. f = c[n] BY <1>1, <1>3, <1>6, <1>7 DEF FrameG
<1>9. calls = [c EXCEPT ![n] = f] BY <1>5, <1>7
<1>10. calls = c BY <1>2, <1>4, <1>8, <1>9, SetNothing
<1> QED BY <1>1, <1>10

LEMMA WakeupStep ==
    ASSUME FInv, Shape', NEW u \in VMs, NEW throw \in BOOLEAN, ApiWakeup(u, throw)
    PROVE  AllVMsOk' /\ StackOk(cstack') /\ BelowKept
PROOF
<1>1. Shape BY DEF FInv, GInv
<1>2. Wakes(u) /\ vm[u].suspended /\ vm[u].nnative + 1 <= MAX_NATIVE_CALLS BY <1>1, WakeupEff
<1>3. PICK root \in 1 .. Len(vm[u].calls) \cup {1}, mode \in {"run", "raise", "unwind"} :
        /\ root = 1 \/ vm[u].calls[root].root
        /\ \A i \in root + 1 .. Len(vm[u].calls) : vm[u].calls[i].root = FALSE
        /\ mode = "raise" => NotifyAll \/ vm[u].straps = 0
        /\ cstack' = Append(cstack, NewAct("execute", u, "host", root - 1, vm[u].straps, TRUE, mode, "none"))
  BY <1>1, WakeupEff
<1>4. PICK s, t, k, c, tr, n, alloc, traps :
        /\ s = cstack /\ t = cstack' /\ k = Len(cstack) /\ c = vm[u].calls /\ tr = vm[u].etraps /\ n = Len(vm[u].calls)
        /\ alloc = vm[u].alloc /\ traps = vm[u].straps
  OBVIOUS
<1>5. /\ c \in Seq(FrameG) /\ n \in Nat /\ VMOk(s, vm[u], u) /\ Fits(c, alloc, tr) /\ Len(c) = n BY <1>4, VMIs
<1>6. /\ \A i \in 1 .. Len(s) : s[i].vm # u
      /\ Script(c, tr, 0, n, traps) /\ vm[u].sroot = c[n].root /\ Stacked(s, Len(s), u, 0, c, tr)
  BY <1>2, <1>4, <1>5 DEF VMOk, Waits
<1>7. 0 < n /\ n \in 1 .. n /\ \A f \in 2 .. n : ~c[f].root
  <2>1. 0 < n /\ \A f \in 0 + 2 .. n : ~c[f].root BY <1>6 DEF Script
  <2> QED BY <1>5, <2>1
<1>8. root = 1
  <2>1. ASSUME root # 1 PROVE FALSE
    <3>1. root \in 2 .. n BY <1>3, <1>4, <1>5, <2>1
    <3> QED BY <1>3, <1>4, <1>7, <2>1, <3>1
  <2> QED BY <2>1
<1>9. PICK m : m = vm'[u] OBVIOUS
<1>10. /\ m.calls = c /\ m.alloc = alloc /\ m.etraps = tr /\ m.nnative = vm[u].nnative + 1 /\ m.suspended = FALSE
       /\ Only(u)
  <2>1. m.calls = c BY <1>2, <1>4, <1>9, WokenSame
  <2>2. m.alloc = alloc /\ m.etraps = tr /\ m.nnative = vm[u].nnative + 1 /\ m.suspended = FALSE /\ Only(u)
    BY <1>2, <1>4, <1>9 DEF Wakes
  <2> QED BY <2>1, <2>2
<1>11. PICK a, base, yes : /\ base = 0 /\ yes = TRUE
                           /\ a = NewAct("execute", u, "host", base, traps, yes, mode, "none")
  OBVIOUS
<1>12. t = Append(s, a)
  <2>1. root - 1 = base BY <1>8, <1>11
  <2> QED BY <1>3, <1>4, <1>11, <2>1
<1>13. /\ a \in Act /\ a.vm = u /\ a.kind = "execute" /\ a.for = "host" /\ a.base = 0 /\ a.traps = traps
       /\ a.raise = TRUE /\ a.mode = mode
  <2>1. "execute" \in Kinds /\ mode \in Modes /\ "host" \in Fors /\ "none" \in NativeFns \cup {"none"}
    BY DEF Kinds, Modes, Fors
  <2>2. traps \in Int BY <1>1, <1>4 DEF Shape, VMShape
  <2>3. base \in Nat /\ yes \in BOOLEAN BY <1>11
  <2>4. PICK kind, for, fn : kind = "execute" /\ for = "host" /\ fn = "none" OBVIOUS
  <2>5. a = NewAct(kind, u, for, base, traps, yes, mode, fn) BY <1>11, <2>4
  <2>6. kind \in Kinds /\ for \in Fors /\ fn \in NativeFns \cup {"none"} BY <2>1, <2>4
  <2>7. /\ a \in Act /\ a.vm = u /\ a.kind = kind /\ a.for = for /\ a.base = base /\ a.traps = traps /\ a.raise = yes
        /\ a.mode = mode
    BY <2>1, <2>2, <2>3, <2>5, <2>6, NewActIn
  <2> QED BY <1>11, <2>4, <2>7
<1>14. Executing(a) /\ ~Starting(a)
  <2>1. mode # "startraise" /\ mode # "startfail" OBVIOUS
  <2> QED BY <1>13, <2>1 DEF Executing, Starting
<1>15. ActOk(a)
  <2>1. a.mode = "raise" => NotifyAll \/ (a.traps = 0 /\ a.raise) BY <1>3, <1>4, <1>13
  <2> QED BY <1>13, <1>14, <2>1 DEF ActOk
<1>16. StackOk(t)
  <2>1. cstack # <<>> => CallerOk(a.for, Top.mode) BY <1>13 DEF CallerOk
  <2> QED BY <1>4, <1>12, <1>13, <1>15, <2>1, PushedOk
<1>17. s \in Seq(Act) /\ t \in Seq(Act) /\ k \in Nat /\ Len(s) = k BY <1>1, <1>4, StackIs DEF Shape
<1>18. Len(t) = k + 1 /\ t[k + 1] = a /\ \A i \in 1 .. k : t[i] = s[i] BY <1>12, <1>13, <1>17
<1>19. AllLike(s, t, k) BY <1>18, LikeSelf DEF AllLike
<1>20. Owns(c, tr, a, n)
  <2>1. a.base <= n /\ n <= Len(c) BY <1>5, <1>13
  <2>2. Script(c, tr, a.base, n, a.traps) BY <1>6, <1>13
  <2>3. a.kind # "native" BY <1>13
  <2> QED BY <1>14, <2>1, <2>2, <2>3 DEF Owns
<1>21. Stacked(t, k + 1, u, n, c, tr)
  <2>1. k <= Len(s) /\ k < Len(t) BY <1>17, <1>18
  <2>2. t[k + 1].vm = u /\ t[k + 1].base = 0 /\ Owns(c, tr, t[k + 1], n) BY <1>13, <1>18, <1>20
  <2>3. Stacked(s, k, u, 0, c, tr) BY <1>6, <1>17
  <2>4. PICK b : b = 0 OBVIOUS
  <2>5. b \in Nat /\ b <= n /\ b <= Len(c) /\ Len(c) \in Nat BY <1>5, <2>4
  <2>6. Same(c, tr, c, tr, b) BY <1>5, <2>5, SameSelf
  <2>7. Stacked(s, k, u, b, c, tr) /\ t[k + 1].base = b BY <2>2, <2>3, <2>4
  <2> QED BY <1>5, <1>17, <1>19, <2>1, <2>2, <2>5, <2>6, <2>7, Restack
<1>22. VMOk(t, m, u)
  <2>1. m.nnative <= MAX_NATIVE_CALLS BY <1>2, <1>10
  <2>2. Fits(m.calls, m.alloc, m.etraps) BY <1>5, <1>10
  <2>3. Stacked(t, Len(t), u, IF m.suspended THEN 0 ELSE Len(m.calls), m.calls, m.etraps) BY <1>5, <1>10, <1>18, <1>21
  <2>4. Waits(t, m, u) BY <1>10 DEF Waits
  <2>5. m.suspended \in BOOLEAN BY <1>10
  <2> QED BY <2>1, <2>2, <2>3, <2>4, <2>5 DEF VMOk
<1>23. AllVMsOk'
  <2>1. Apart(s, t, k, u)
    <3>1. k <= Len(s) /\ k <= Len(t) BY <1>17, <1>18
    <3>2. \A i \in k + 1 .. Len(s) : FALSE BY <1>17
    <3>3. \A i \in k + 1 .. Len(t) : i = k + 1 BY <1>17, <1>18
    <3>4. t[k + 1].vm = u BY <1>13, <1>18
    <3> QED BY <1>17, <1>19, <3>1, <3>2, <3>3, <3>4 DEF Apart
  <2>2. Apart(cstack, cstack', k, u) BY <1>4, <2>1
  <2>3. VMOk(cstack', vm'[u], u) BY <1>4, <1>9, <1>22
  <2> QED BY <1>10, <2>2, <2>3, Others
<1>24. BelowKept
  <2>1. PICK b : b = 0 OBVIOUS
  <2>2. vm'[u].calls = c /\ Only(u) BY <1>9, <1>10
  <2>3. b \in Nat /\ b <= Len(c) /\ Len(c) \in Nat /\ (\A i \in 1 .. b : FALSE) BY <1>5, <2>1
  <2>4. \A i \in 1 .. Len(cstack) : cstack[i].vm # u BY <1>4, <1>6
  <2> QED BY <2>2, <2>3, <2>4, KeptBelow
<1> QED BY <1>4, <1>16, <1>23, <1>24

-----------------------------------------------------------------------------
(* Generators.                                                             *)

\* At most, a generator is made.
GensQuiet ==
    gen' = gen \/ \E g \in Gens : gen[g].state = "none" /\ gen' = [gen EXCEPT ![g].state = "suspended"]

LEMMA EmptyGen ==
    ASSUME NEW r, NEW state, r = [state |-> state, etraps |-> <<>>, root |-> FALSE]
    PROVE  GenOk(r)
PROOF
<1>1. r.root = FALSE /\ r.etraps = <<>> OBVIOUS
<1>2. Len(r.etraps) = 0 BY <1>1
<1>3. Len(r.etraps) <= MaxTraps BY <1>2, BoundsAssumption
<1>4. \A k \in 1 .. Len(r.etraps) : FALSE BY <1>2
<1> QED BY <1>1, <1>3, <1>4 DEF GenOk

LEMMA GensAre ==
    ASSUME FInv
    PROVE  DOMAIN gen = Gens /\ Framed /\ \A g \in Gens : GenOk(gen[g]) /\ GenShape(gen[g])
BY DEF FInv, GInv, Shape, Frames, Generators

LEMMA QuietGens ==
    ASSUME FInv, GensQuiet
    PROVE  \A g \in Gens : GenOk(gen'[g]) /\ (gen'[g].state = "running" => gen[g].state = "running")
PROOF
<1>1. DOMAIN gen = Gens /\ \A g \in Gens : GenOk(gen[g]) /\ GenShape(gen[g]) BY GensAre
<1>2. CASE gen' = gen BY <1>1, <1>2
<1>3. ASSUME NEW h \in Gens, gen' = [gen EXCEPT ![h].state = "suspended"], NEW g \in Gens
      PROVE  GenOk(gen'[g]) /\ (gen'[g].state = "running" => gen[g].state = "running")
  <2>1. CASE g # h
    <3>1. gen'[g] = gen[g] BY <1>1, <1>3, <2>1
    <3> QED BY <1>1, <3>1
  <2>2. CASE g = h
    <3>1. gen'[g] = [gen[g] EXCEPT !.state = "suspended"] BY <1>1, <1>3, <2>2
    <3>2. DOMAIN gen[g] = {"state", "etraps", "root"} BY <1>1 DEF GenShape
    <3>3. gen'[g].root = gen[g].root /\ gen'[g].etraps = gen[g].etraps /\ gen'[g].state = "suspended" BY <3>1, <3>2
    <3>4. GenOk(gen[g]) BY <1>1
    <3>5. GenOk(gen'[g]) BY <3>3, <3>4 DEF GenOk
    <3> QED BY <3>3, <3>5
  <2> QED BY <2>1, <2>2
<1> QED BY <1>2, <1>3 DEF GensQuiet

\* The frames of u above the first n are left, and what ran in them does not run any more.
LEMMA FramedStep ==
    ASSUME FInv, NEW u \in VMs, Only(u), NEW calls \in Seq(FrameG), vm'[u].calls = calls,
           NEW n \in Nat, n <= Len(calls), \A i \in 1 .. n : calls[i].gen = vm[u].calls[i].gen,
           \A i \in n + 1 .. Len(vm[u].calls) :
              vm[u].calls[i].gen \in Gens => gen'[vm[u].calls[i].gen].state # "running",
           \A g \in Gens : gen'[g].state = "running" => gen[g].state = "running"
    PROVE  Framed'
PROOF
<1>1. SUFFICES ASSUME NEW g \in Gens, gen'[g].state = "running"
               PROVE  \E v \in VMs : \E i \in 1 .. Len(vm'[v].calls) : vm'[v].calls[i].gen = g
  BY DEF Framed
<1>2. PICK v \in VMs : \E i \in 1 .. Len(vm[v].calls) : vm[v].calls[i].gen = g
  <2>1. gen[g].state = "running" BY <1>1
  <2> QED BY <2>1, GensAre DEF Framed
<1>3. PICK i \in 1 .. Len(vm[v].calls) : vm[v].calls[i].gen = g BY <1>2
<1>4. CASE v # u
  <2>1. vm'[v] = vm[v] BY <1>3, <1>4 DEF Only
  <2> QED BY <1>3, <2>1
<1>5. CASE v = u
  <2>1. Len(vm[u].calls) \in Nat BY VMIs
  <2>2. i \in 1 .. n
    <3>1. ASSUME i > n PROVE FALSE
      <4>1. i \in n + 1 .. Len(vm[u].calls) BY <1>3, <1>5, <2>1, <3>1
      <4> QED BY <1>1, <1>3, <1>5, <4>1
    <3> QED BY <1>3, <1>5, <2>1, <3>1
  <2>3. calls[i].gen = g BY <1>3, <1>5, <2>2
  <2>4. i \in 1 .. Len(calls)
    <3>1. Len(calls) \in Nat OBVIOUS
    <3> QED BY <2>2, <3>1
  <2> QED BY <2>3, <2>4
<1> QED BY <1>4, <1>5

\* What is left had no generator.
LEMMA GensStep ==
    ASSUME FInv, NEW u \in VMs, NEW calls \in Seq(FrameG), Only(u), vm'[u].calls = calls, GensQuiet,
           NEW n \in Nat, n <= Len(calls), \A i \in 1 .. n : calls[i].gen = vm[u].calls[i].gen,
           \A i \in n + 1 .. Len(vm[u].calls) : vm[u].calls[i].gen = None
    PROVE  Generators'
PROOF
<1>1. \A g \in Gens : GenOk(gen'[g]) /\ (gen'[g].state = "running" => gen[g].state = "running") BY QuietGens
<1>2. \A i \in n + 1 .. Len(vm[u].calls) :
         vm[u].calls[i].gen \in Gens => gen'[vm[u].calls[i].gen].state # "running"
  BY NoneAssumption
<1>3. Framed' BY <1>1, <1>2, FramedStep
<1> QED BY <1>1, <1>3 DEF Generators

\* An exception or a return kills what was left.
LEMMA GensKill ==
    ASSUME FInv, NEW u \in VMs, NEW calls \in Seq(FrameG), Only(u), vm'[u].calls = calls,
           NEW S, gen' = Kill(gen, S),
           NEW n \in Nat, n <= Len(calls), \A i \in 1 .. n : calls[i].gen = vm[u].calls[i].gen,
           \A i \in n + 1 .. Len(vm[u].calls) : vm[u].calls[i] \in S
    PROVE  Generators'
PROOF
<1>1. \A g \in Gens : GenOk(gen[g]) BY GensAre
<1>2. ASSUME NEW g \in Gens
      PROVE  /\ GenOk(gen'[g]) /\ (gen'[g].state = "running" => gen[g].state = "running")
             /\ (\E f \in S : f.gen = g) => gen'[g].state # "running"
  <2>1. CASE \E f \in S : f.gen = g
    <3>1. gen'[g] = [state |-> "dead", etraps |-> <<>>, root |-> FALSE] BY <2>1 DEF Kill
    <3>2. GenOk(gen'[g]) BY <3>1, EmptyGen
    <3>3. gen'[g].state = "dead" BY <3>1
    <3> QED BY <3>2, <3>3
  <2>2. CASE ~\E f \in S : f.gen = g
    <3>1. gen'[g] = gen[g] BY <2>2 DEF Kill
    <3> QED BY <1>1, <2>2, <3>1
  <2> QED BY <2>1, <2>2
<1>3. ASSUME NEW i \in n + 1 .. Len(vm[u].calls), vm[u].calls[i].gen \in Gens
      PROVE  gen'[vm[u].calls[i].gen].state # "running"
  <2>1. vm[u].calls[i] \in S OBVIOUS
  <2> QED BY <1>2, <1>3, <2>1
<1>4. \A g \in Gens : gen'[g].state = "running" => gen[g].state = "running" BY <1>2
<1>5. Framed' BY <1>3, <1>4, FramedStep
<1> QED BY <1>2, <1>5 DEF Generators

\* Yield and Resume.
LEMMA GensYield ==
    ASSUME FInv, NEW v \in VMs, OpYield(v)
    PROVE  Generators'
PROOF
<1>1. Shape /\ GInv BY DEF FInv, GInv
<1>2. PICK c, tr, n, f, calls : /\ c = vm[v].calls /\ tr = vm[v].etraps /\ n = Len(c) /\ f = ci(v) /\ calls = Front(c)
  OBVIOUS
<1>3. /\ c \in Seq(FrameG) /\ n \in 1 .. n /\ n \in Nat /\ f = c[n]
  <2>1. Running(v) BY DEF OpYield
  <2>2. /\ Len(vm[v].calls) \in 1 .. Len(vm[v].calls) /\ vm[v].calls \in Seq(FrameG)
        /\ ci(v) = vm[v].calls[Len(vm[v].calls)]
    BY <1>1, <2>1, RunningIs
  <2> QED BY <1>2, <2>2
<1>4. Fits(c, vm[v].alloc, tr) /\ TrapsOk(c, tr) BY <1>2, VMIs
<1>5. PICK e : e = f.etraps OBVIOUS
<1>6. f.gen # None /\ gen' = [gen EXCEPT ![f.gen] = [state |-> "suspended", etraps |-> Saved(vm[v], e), root |-> f.root]]
  BY <1>1, <1>2, <1>5, OpYieldEff
<1>7. e \in Nat /\ e <= MaxTraps /\ f.gen \in Gens /\ f.root = FALSE
  <2>1. /\ c[n].etraps \in Nat /\ c[n].etraps <= MaxTraps /\ c[n].gen \in Gens \cup {None}
        /\ c[n].root \in BOOLEAN /\ (c[n].gen # None => ~c[n].root)
    BY <1>2, <1>3, <1>4, FrameIn
  <2> QED BY <1>3, <1>5, <1>6, <2>1
<1>8. calls \in Seq(FrameG) /\ Len(calls) = n - 1 /\ \A i \in 1 .. n - 1 : calls[i] = c[i]
  <2>1. c # <<>>
    <3>1. Len(c) # 0 BY <1>2, <1>3
    <3> QED BY <3>1
  <2> QED BY <1>2, <1>3, <2>1, FrontIs
<1>9. Only(v) /\ vm'[v].calls = calls
  <2>1. f.root = FALSE => \E etraps : Eff(v, calls, vm[v].alloc, etraps, 0, 0) BY <1>1, <1>2, OpYieldEff
  <2> QED BY <1>7, <2>1 DEF Eff, Is
<1>10. PICK r : r = [state |-> "suspended", etraps |-> Saved(vm[v], e), root |-> f.root] OBVIOUS
<1>11. GenOk(r)
  <2>1. PICK q : q = Saved(vm[v], e) OBVIOUS
  <2>2. q = [k \in 1 .. e |-> tr[Len(tr) - k + 1].level] BY <1>2, <2>1 DEF Saved
  <2>3. Len(q) = e
    <3>1. DOMAIN q = 1 .. e /\ e \in Int BY <1>7, <2>2
    <3>2. Len(q) = IF e > 0 THEN e ELSE 0 BY <3>1, LenOf
    <3> QED BY <1>7, <3>2
  <2>4. BlockAt(tr, n, Len(tr) - e, e)
    <3>1. n \in 1 .. Len(c) /\ \A i \in n + 1 .. Len(c) : c[i].etraps <= 0 BY <1>2, <1>3
    <3>2. BlockAt(tr, n, Len(tr) - c[n].etraps, c[n].etraps) BY <1>3, <1>4, <3>1, UptoBelow
    <3> QED BY <1>3, <1>5, <3>2
  <2>5. tr \in Seq(Trap) /\ Len(tr) \in Nat BY <1>4 DEF TrapsOk
  <2>6. ASSUME NEW k \in 1 .. e PROVE q[k] = e - k + 1
    <3>1. PICK m : m = e - k + 1 OBVIOUS
    <3>2. m \in 1 .. e /\ Len(tr) - e + m = Len(tr) - k + 1 BY <1>7, <2>5, <3>1
    <3>3. tr[Len(tr) - e + m].level = m BY <2>4, <3>2 DEF BlockAt
    <3> QED BY <2>2, <3>1, <3>2, <3>3
  <2>7. r.root = FALSE /\ r.etraps = q BY <1>7, <1>10, <2>1
  <2> QED BY <1>7, <2>3, <2>6, <2>7 DEF GenOk
<1>12. DOMAIN gen = Gens /\ \A g \in Gens : GenOk(gen[g]) BY GensAre
<1>13. gen'[f.gen] = r /\ \A g \in Gens : g # f.gen => gen'[g] = gen[g] BY <1>6, <1>7, <1>10, <1>12
<1>14. r.state = "suspended" BY <1>10
<1>15. \A g \in Gens : GenOk(gen'[g]) /\ (gen'[g].state = "running" => gen[g].state = "running")
  BY <1>11, <1>12, <1>13, <1>14
<1>16. Framed'
  <2>1. \A i \in 1 .. n - 1 : calls[i].gen = vm[v].calls[i].gen BY <1>2, <1>8
  <2>2. \A i \in n - 1 + 1 .. Len(vm[v].calls) : i = n BY <1>2, <1>3
  <2>3. \A i \in n - 1 + 1 .. Len(vm[v].calls) :
           vm[v].calls[i].gen \in Gens => gen'[vm[v].calls[i].gen].state # "running"
    BY <1>2, <1>3, <1>13, <1>14, <2>2
  <2>4. PICK x : x = n - 1 OBVIOUS
  <2>5. x \in Nat /\ x <= Len(calls) BY <1>3, <1>8, <2>4
  <2>6. \A i \in 1 .. x : calls[i].gen = vm[v].calls[i].gen BY <2>1, <2>4
  <2>7. \A i \in x + 1 .. Len(vm[v].calls) :
           vm[v].calls[i].gen \in Gens => gen'[vm[v].calls[i].gen].state # "running"
    BY <2>3, <2>4
  <2> QED BY <1>8, <1>9, <1>15, <2>5, <2>6, <2>7, FramedStep
<1> QED BY <1>15, <1>16 DEF Generators

LEMMA GensResume ==
    ASSUME FInv, NEW v \in VMs, NEW g \in Gens, Resume(v, g)
    PROVE  Generators'
PROOF
<1>1. Shape BY DEF FInv, GInv
<1>2. PICK c, calls, f, n : /\ c = vm[v].calls /\ f = ResumedFrame(g, gen[g].root) /\ calls = Append(c, f) /\ n = Len(c)
  OBVIOUS
<1>3. PICK r : r = [state |-> "running", etraps |-> <<>>, root |-> FALSE] OBVIOUS
<1>4. Only(v) /\ vm'[v].calls = calls /\ gen' = [gen EXCEPT ![g] = r]
  BY <1>1, <1>2, <1>3, ResumeEff DEF Eff, Is
<1>5. DOMAIN gen = Gens /\ Framed /\ \A h \in Gens : GenOk(gen[h]) BY GensAre
<1>6. gen'[g] = r /\ \A h \in Gens : h # g => gen'[h] = gen[h] BY <1>4, <1>5
<1>7. c \in Seq(FrameG) /\ n \in Nat BY <1>2, VMIs
<1>8. f.gen = g /\ f \in FrameG
  <2>1. PICK root : root = gen[g].root OBVIOUS
  <2>2. root \in BOOLEAN BY <1>1, <2>1 DEF Shape, GenShape
  <2>3. f = ResumedFrame(g, root) BY <1>2, <2>1
  <2> QED BY <1>1, <2>2, <2>3, ResumedFrameIn
<1>9. Len(calls) = n + 1 /\ calls[n + 1] = f /\ \A i \in 1 .. n : calls[i] = c[i] BY <1>2, <1>7, <1>8
<1>10. \A h \in Gens : GenOk(gen'[h])
  <2>1. GenOk(r) BY <1>3, EmptyGen
  <2> QED BY <1>5, <1>6, <2>1
<1>11. ASSUME NEW h \in Gens, gen'[h].state = "running"
       PROVE  \E w \in VMs : \E i \in 1 .. Len(vm'[w].calls) : vm'[w].calls[i].gen = h
  <2>1. CASE h = g
    <3>1. n + 1 \in 1 .. Len(vm'[v].calls) /\ vm'[v].calls[n + 1].gen = h BY <1>4, <1>7, <1>8, <1>9, <2>1
    <3> QED BY <3>1
  <2>2. CASE h # g
    <3>1. gen[h].state = "running" BY <1>6, <1>11, <2>2
    <3>2. PICK w \in VMs : \E i \in 1 .. Len(vm[w].calls) : vm[w].calls[i].gen = h BY <1>5, <3>1 DEF Framed
    <3>3. PICK i \in 1 .. Len(vm[w].calls) : vm[w].calls[i].gen = h BY <3>2
    <3>4. CASE w # v
      <4>1. vm'[w] = vm[w] BY <1>4, <3>4 DEF Only
      <4> QED BY <3>3, <4>1
    <3>5. CASE w = v
      <4>1. i \in 1 .. n /\ i \in 1 .. n + 1 BY <1>2, <1>7, <3>3, <3>5
      <4>2. calls[i].gen = h BY <1>2, <1>9, <3>3, <3>5, <4>1
      <4> QED BY <1>4, <1>9, <3>5, <4>1, <4>2
    <3> QED BY <3>4, <3>5
  <2> QED BY <2>1, <2>2
<1>12. Framed' BY <1>11 DEF Framed
<1> QED BY <1>10, <1>12 DEF Generators

\* Steps that leave the frames, up to the last, and the generators.
LEMMA GensSame ==
    ASSUME FInv, vm' = vm, gen' = gen
    PROVE  Generators'
PROOF
<1>1. Framed /\ \A g \in Gens : GenOk(gen[g]) BY GensAre
<1>2. Framed' BY <1>1 DEF Framed
<1>3. \A g \in Gens : GenOk(gen'[g]) BY <1>1
<1> QED BY <1>2, <1>3 DEF Generators

LEMMA GensStay ==
    ASSUME FInv, NEW u \in VMs, NEW calls, calls = vm[u].calls, Only(u), vm'[u].calls = calls, GensQuiet
    PROVE  Generators'
PROOF
<1>1. PICK n : n = Len(calls) OBVIOUS
<1>2. calls \in Seq(FrameG) /\ n \in Nat /\ n <= Len(calls) /\ Len(vm[u].calls) = n BY <1>1, VMIs
<1>3. \A i \in 1 .. n : calls[i].gen = vm[u].calls[i].gen OBVIOUS
<1>4. \A i \in n + 1 .. Len(vm[u].calls) : FALSE BY <1>2
<1>5. \A i \in n + 1 .. Len(vm[u].calls) : vm[u].calls[i].gen = None BY <1>4
<1> QED BY <1>2, <1>3, <1>5, GensStep

LEMMA GensEnter ==
    ASSUME FInv, NEW u \in VMs, NEW f \in FrameG, NEW calls, calls = Append(vm[u].calls, f), Only(u),
           vm'[u].calls = calls, gen' = gen
    PROVE  Generators'
PROOF
<1>1. PICK n, c : c = vm[u].calls /\ n = Len(c) OBVIOUS
<1>2. c \in Seq(FrameG) /\ n \in Nat BY <1>1, VMIs
<1>3. calls = Append(c, f) BY <1>1
<1>4. calls \in Seq(FrameG) /\ Len(calls) = n + 1 /\ \A i \in 1 .. n : calls[i] = c[i] BY <1>1, <1>2, <1>3
<1>5. n <= Len(calls) /\ \A i \in 1 .. n : calls[i].gen = vm[u].calls[i].gen BY <1>1, <1>2, <1>4
<1>6. \A i \in n + 1 .. Len(vm[u].calls) : FALSE BY <1>1, <1>2
<1>7. \A i \in n + 1 .. Len(vm[u].calls) : vm[u].calls[i].gen = None BY <1>6
<1>8. GensQuiet BY DEF GensQuiet
<1> QED BY <1>2, <1>4, <1>5, <1>7, <1>8, GensStep

LEMMA GensSet ==
    ASSUME FInv, NEW u \in VMs, NEW calls, NEW f, SetFrame(vm[u].calls, calls, Len(vm[u].calls), f),
           f.gen = vm[u].calls[Len(vm[u].calls)].gen, Only(u), vm'[u].calls = calls, gen' = gen
    PROVE  Generators'
PROOF
<1>1. PICK n, c : c = vm[u].calls /\ n = Len(c) OBVIOUS
<1>2. c \in Seq(FrameG) /\ n \in Nat BY <1>1, VMIs
<1>3. /\ calls \in Seq(FrameG) /\ Len(calls) = n
      /\ \A i \in 1 .. n : calls[i] = IF i = n THEN f ELSE c[i]
  BY <1>1 DEF SetFrame
<1>4. n <= Len(calls) /\ \A i \in 1 .. n : calls[i].gen = vm[u].calls[i].gen BY <1>1, <1>2, <1>3
<1>6. \A i \in n + 1 .. Len(vm[u].calls) : FALSE BY <1>1, <1>2
<1>7. \A i \in n + 1 .. Len(vm[u].calls) : vm[u].calls[i].gen = None BY <1>6
<1>8. GensQuiet BY DEF GensQuiet
<1> QED BY <1>2, <1>3, <1>4, <1>7, <1>8, GensStep

\* A native function leaves its frame.
LEMMA GensNative ==
    ASSUME FInv, cstack # <<>>, Top.kind = "native", NEW u, u = Top.vm, NEW calls, calls = Front(vm[u].calls),
           Only(u), vm'[u].calls = calls, gen' = gen
    PROVE  Generators'
PROOF
<1>1. PICK n, c, x : c = vm[u].calls /\ n = Len(c) /\ x = n - 1 OBVIOUS
<1>2. u \in VMs /\ c \in Seq(FrameG) /\ n \in Nat /\ n \in 1 .. n /\ c[n] = NativeFrame BY <1>1, NativeOwns
<1>3. calls \in Seq(FrameG) /\ Len(calls) = x /\ \A i \in 1 .. x : calls[i] = c[i]
  <2>1. c # <<>>
    <3>1. Len(c) # 0 BY <1>1, <1>2
    <3> QED BY <3>1
  <2>2. calls = Front(c) BY <1>1
  <2>3. calls \in Seq(FrameG) /\ Len(calls) = Len(c) - 1 /\ \A i \in 1 .. Len(c) - 1 : calls[i] = c[i]
    BY <1>2, <2>1, <2>2, FrontIs
  <2>4. Len(c) - 1 = x BY <1>1
  <2> QED BY <2>3, <2>4
<1>4. x \in Nat /\ x <= Len(calls) /\ \A i \in 1 .. x : calls[i].gen = vm[u].calls[i].gen BY <1>1, <1>2, <1>3
<1>5. \A i \in x + 1 .. Len(vm[u].calls) : i = n BY <1>1, <1>2
<1>6. \A i \in x + 1 .. Len(vm[u].calls) : vm[u].calls[i].gen = None BY <1>1, <1>2, <1>5, FrameTypes
<1>7. GensQuiet BY DEF GensQuiet
<1> QED BY <1>2, <1>3, <1>4, <1>6, <1>7, GensStep

LEMMA GensReturn ==
    ASSUME FInv, NEW v \in VMs, OpReturn(v)
    PROVE  Generators'
PROOF
<1>1. Shape /\ GInv BY DEF FInv, GInv
<1>2. PICK n, c, x, calls : c = vm[v].calls /\ n = Len(c) /\ x = n - 1 /\ calls = Front(c) OBVIOUS
<1>3. c \in Seq(FrameG) /\ n \in 1 .. n /\ n \in Nat /\ ci(v) = c[n] /\ ci(v) \in FrameG
  <2>1. Running(v) BY DEF OpReturn
  <2>2. /\ Len(vm[v].calls) \in 1 .. Len(vm[v].calls) /\ vm[v].calls \in Seq(FrameG)
        /\ ci(v) = vm[v].calls[Len(vm[v].calls)] /\ ci(v) \in FrameG
    BY <1>1, <2>1, RunningIs
  <2> QED BY <1>2, <2>2
<1>4. gen' = Kill(gen, {c[n]}) BY <1>1, <1>3, OpReturnEff
<1>5. Only(v) /\ vm'[v].calls = calls
  <2>1. ci(v).root \in BOOLEAN BY <1>3 DEF FrameG
  <2>2. ci(v).root = FALSE => Eff(v, calls, vm[v].alloc, vm[v].etraps, 0, 0) BY <1>1, <1>2, OpReturnEff
  <2>3. ci(v).root = TRUE => Eff(v, calls, vm[v].alloc, vm[v].etraps, -1, -One(Top.for)) BY <1>1, <1>2, OpReturnEff
  <2> QED BY <2>1, <2>2, <2>3 DEF Eff, Is
<1>6. calls \in Seq(FrameG) /\ Len(calls) = x /\ \A i \in 1 .. x : calls[i] = c[i]
  <2>1. c # <<>>
    <3>1. Len(c) # 0 BY <1>2, <1>3
    <3> QED BY <3>1
  <2> QED BY <1>2, <1>3, <2>1, FrontIs
<1>7. x \in Nat /\ x <= Len(calls) /\ \A i \in 1 .. x : calls[i].gen = vm[v].calls[i].gen BY <1>2, <1>3, <1>6
<1>8. \A i \in x + 1 .. Len(vm[v].calls) : i = n BY <1>2, <1>3
<1>9. PICK S : S = {c[n]} OBVIOUS
<1>10. \A i \in x + 1 .. Len(vm[v].calls) : vm[v].calls[i] \in S BY <1>2, <1>8, <1>9
<1> QED BY <1>4, <1>5, <1>6, <1>7, <1>9, <1>10, GensKill

LEMMA GensUnwind ==
    ASSUME FInv, NEW v \in VMs, Unwind(v)
    PROVE  Generators'
PROOF
<1>1. Shape BY DEF FInv, GInv
<1>2. PICK at \in Nat : Caught(v, at) \/ Uncaught(v, at) BY <1>1, UnwindEff
<1>3. PICK n, c, sub, S : /\ c = vm[v].calls /\ n = Len(c) /\ sub = SubSeq(c, 1, at)
                          /\ S = {vm[v].calls[i] : i \in at + 1 .. Len(vm[v].calls)}
  OBVIOUS
<1>4. c \in Seq(FrameG) /\ n \in Nat BY <1>3, VMIs
<1>5. at \in 0 .. Len(c)
  <2>1. Caught(v, at) => at \in 1 .. Len(c) BY <1>3 DEF Caught, Catches
  <2>2. Uncaught(v, at) => at \in 0 .. Len(c) BY <1>3 DEF Uncaught, LeavesAll
  <2>3. at \in 1 .. Len(c) => at \in 0 .. Len(c) BY <1>3, <1>4
  <2> QED BY <1>2, <2>1, <2>2, <2>3
<1>6. sub \in Seq(FrameG) /\ Len(sub) = at /\ \A i \in 1 .. at : sub[i] = c[i] BY <1>3, <1>4, <1>5, PrefixIs
<1>7. gen' = Kill(gen, S) BY <1>2, <1>3 DEF Caught, Uncaught
<1>8. \A i \in at + 1 .. Len(vm[v].calls) : vm[v].calls[i] \in S BY <1>3
<1>9. CASE Uncaught(v, at)
  <2>1. Only(v) /\ vm'[v].calls = sub BY <1>3, <1>9 DEF Uncaught, Eff, Is
  <2>2. at <= Len(sub) /\ \A i \in 1 .. at : sub[i].gen = vm[v].calls[i].gen BY <1>3, <1>6
  <2> QED BY <1>6, <1>7, <1>8, <2>1, <2>2, GensKill
<1>10. CASE Caught(v, at)
  <2>1. PICK calls : calls = [sub EXCEPT ![at].etraps = @ - 1] OBVIOUS
  <2>2. Only(v) /\ vm'[v].calls = calls BY <1>3, <1>10, <2>1 DEF Caught, Eff, Is
  <2>3. at \in 1 .. Len(sub)
    <3>1. at \in 1 .. Len(c) BY <1>3, <1>10 DEF Caught, Catches
    <3> QED BY <1>4, <1>6, <3>1
  <2>4. PICK x : x = sub[at].etraps - 1 OBVIOUS
  <2>5. x \in Int
    <3>1. sub[at] \in FrameG BY <1>6, <2>3
    <3> QED BY <2>4, <3>1 DEF FrameG
  <2>6. calls = [sub EXCEPT ![at].etraps = x] BY <2>1, <2>4
  <2>7. SetFrame(sub, calls, at, [code |-> sub[at].code, root |-> sub[at].root, gen |-> sub[at].gen, etraps |-> x])
    BY <1>6, <2>3, <2>5, <2>6, SetTraps
  <2>8. calls \in Seq(FrameG) /\ Len(calls) = at /\ \A i \in 1 .. at : calls[i].gen = sub[i].gen
    BY <1>6, <2>7 DEF SetFrame
  <2>9. at <= Len(calls) /\ \A i \in 1 .. at : calls[i].gen = vm[v].calls[i].gen BY <1>3, <1>6, <2>8
  <2> QED BY <1>7, <1>8, <2>2, <2>8, <2>9, GensKill
<1> QED BY <1>2, <1>9, <1>10

LEMMA GensCall ==
    ASSUME Features = {}, FInv, NEW u \in VMs, NEW for, NEW raise, Call(u, for, raise)
    PROVE  Generators'
PROOF
<1>1. Shape BY DEF FInv, GInv
<1>2. CASE CallScript(u, for, raise)
  <2>1. PICK f, calls : f = [Frame EXCEPT !.root = TRUE] /\ calls = Append(vm[u].calls, f) OBVIOUS
  <2>2. f \in FrameG BY <2>1, FrameTypes
  <2>3. Only(u) /\ vm'[u].calls = calls /\ gen' = gen BY <1>1, <1>2, <2>1, CallScriptEff DEF Eff, Is
  <2> QED BY <2>1, <2>2, <2>3, GensEnter
<1>3. CASE CallBadly(u, for)
  <2>1. Only(u) /\ vm'[u].calls = vm[u].calls /\ gen' = gen BY <1>1, <1>3, CallBadlyEff DEF Eff, Is
  <2>2. GensQuiet BY <2>1 DEF GensQuiet
  <2> QED BY <2>1, <2>2, GensStay
<1>4. ASSUME NEW g \in Gens, CallGenerator(u, for, g) PROVE Generators'
  <2>1. Only(u) /\ vm'[u].calls = vm[u].calls BY <1>1, <1>4, CallGeneratorEff DEF Eff, Is
  <2>2. GensQuiet BY <1>1, <1>4, CallGeneratorEff DEF GensQuiet
  <2> QED BY <2>1, <2>2, GensStay
<1>5. ASSUME NEW g \in Gens PROVE ~CallGeneratorMoved(u, for, raise, g) BY DEF CallGeneratorMoved
<1>6. ASSUME NEW fn \in NativeFns, CallNative(u, for, fn) PROVE Generators'
  <2>1. PICK calls : calls = Append(vm[u].calls, NativeFrame) OBVIOUS
  <2>2. Only(u) /\ vm'[u].calls = calls /\ gen' = gen BY <1>1, <1>6, <2>1, CallNativeEff DEF Eff, Is
  <2>3. NativeFrame \in FrameG BY FrameTypes
  <2> QED BY <2>1, <2>2, <2>3, GensEnter
<1>7. CASE CallRefused(for) BY <1>7, GensSame DEF CallRefused
<1>8. ~CallOverflows(u, for) BY DEF CallOverflows, Full
<1> QED BY <1>2, <1>3, <1>4, <1>5, <1>6, <1>7, <1>8 DEF Call

\* A change of the last frame.
LEMMA GensTraps ==
    ASSUME FInv, NEW v \in VMs, OpPushTrap(v) \/ OpPopTrap(v)
    PROVE  Generators'
PROOF
<1>1. Shape /\ GInv BY DEF FInv, GInv
<1>2. PICK c, n, calls : c = vm[v].calls /\ n = Len(c) /\ calls = vm'[v].calls OBVIOUS
<1>3. c \in Seq(FrameG) /\ n \in 1 .. Len(c)
  <2>1. Running(v) BY DEF OpPushTrap, OpPopTrap
  <2> QED BY <1>1, <1>2, <2>1, RunningIs
<1>4. Only(v) /\ gen' = gen
  <2>1. CASE OpPushTrap(v) BY <1>1, <2>1, PushTrapEff DEF Eff
  <2>2. CASE OpPopTrap(v) BY <1>1, <2>2, PopTrapEff DEF Eff
  <2> QED BY <2>1, <2>2
<1>5. \E x \in Int : calls = [c EXCEPT ![n].etraps = x]
  <2>1. PICK e : e = c[n].etraps OBVIOUS
  <2>2. c[n] \in FrameG BY <1>3
  <2>3. e \in Int BY <2>1, <2>2 DEF FrameG
  <2>4. CASE OpPushTrap(v)
    <3>1. calls = [c EXCEPT ![n].etraps = @ + 1] BY <1>1, <1>2, <2>4, PushTrapEff DEF Eff, Is
    <3>2. calls = [c EXCEPT ![n].etraps = e + 1] BY <2>1, <3>1
    <3>3. e + 1 \in Int BY <2>3
    <3> QED BY <3>2, <3>3
  <2>5. CASE OpPopTrap(v)
    <3>1. calls = [c EXCEPT ![n].etraps = @ - 1] BY <1>1, <1>2, <2>5, PopTrapEff DEF Eff, Is
    <3>2. calls = [c EXCEPT ![n].etraps = e - 1] BY <2>1, <3>1
    <3>3. e - 1 \in Int BY <2>3
    <3> QED BY <3>2, <3>3
  <2> QED BY <2>4, <2>5
<1>6. PICK x \in Int : calls = [c EXCEPT ![n].etraps = x] BY <1>5
<1>7. PICK f : f = [code |-> c[n].code, root |-> c[n].root, gen |-> c[n].gen, etraps |-> x] OBVIOUS
<1>8. SetFrame(c, calls, n, f) BY <1>3, <1>6, <1>7, SetTraps
<1>9. f.gen = c[n].gen BY <1>7
<1>10. SetFrame(vm[v].calls, calls, Len(vm[v].calls), f) /\ f.gen = vm[v].calls[Len(vm[v].calls)].gen
  BY <1>2, <1>8, <1>9
<1> QED BY <1>2, <1>4, <1>10, GensSet

LEMMA GensTailCall ==
    ASSUME FInv, TailCall
    PROVE  Generators'
PROOF
<1>1. Shape BY DEF FInv, GInv
<1>2. PICK u, c, n, calls, yes : u = Top.vm /\ c = vm[u].calls /\ n = Len(c) /\ calls = vm'[u].calls /\ yes = TRUE
  OBVIOUS
<1>3. /\ Eff(u, [c EXCEPT ![n].code = TRUE], vm[u].alloc, vm[u].etraps, -1, -One(Top.for)) /\ gen' = gen
      /\ cstack # <<>> /\ Top.kind = "native"
  BY <1>1, <1>2, TailCallEff
<1>4. u \in VMs /\ c \in Seq(FrameG) /\ n \in 1 .. Len(c) BY <1>2, <1>3, NativeOwns
<1>5. Only(u) /\ calls = [c EXCEPT ![n].code = yes] BY <1>2, <1>3 DEF Eff, Is
<1>6. PICK f : f = [code |-> TRUE, root |-> c[n].root, gen |-> c[n].gen, etraps |-> c[n].etraps] OBVIOUS
<1>7. SetFrame(c, calls, n, f) BY <1>2, <1>4, <1>5, <1>6, SetCode
<1>8. f.gen = c[n].gen BY <1>6
<1>9. SetFrame(vm[u].calls, calls, Len(vm[u].calls), f) /\ f.gen = vm[u].calls[Len(vm[u].calls)].gen
  BY <1>2, <1>7, <1>8
<1>10. vm'[u].calls = calls BY <1>2
<1> QED BY <1>3, <1>4, <1>5, <1>9, <1>10, GensSet

-----------------------------------------------------------------------------
(* The steps.                                                              *)

LEMMA InstructionFrames ==
    ASSUME Features = {}, FInv, Shape', NEW v \in VMs, Instruction(v)
    PROVE  Frames' /\ BelowKept
PROOF
<1>1. Shape BY DEF FInv, GInv
<1>2. CASE OpThrow(v)
  <2>1. Running(v) /\ Throw /\ vm' = vm /\ gen' = gen BY <1>2 DEF OpThrow
  <2>2. AllVMsOk' /\ StackOk(cstack') /\ BelowKept
    <3>1. cstack # <<>> /\ Executing(Top) BY <2>1, RunningTop
    <3> QED BY <2>1, <3>1, ThrowStep
  <2>3. Generators' BY <2>1, GensSame
  <2> QED BY <2>2, <2>3 DEF Frames
<1>3. CASE OpCall(v)
  <2>1. PICK calls : calls = Append(vm[v].calls, Frame) OBVIOUS
  <2>2. vm' = [vm EXCEPT ![v] = EnterFrame(vm[v], Frame)] /\ gen' = gen BY <1>3 DEF OpCall
  <2>3. Only(v) /\ vm'[v].calls = calls BY <1>1, <2>1, <2>2, EnterEff DEF Eff, Is
  <2>4. Generators' BY <2>1, <2>2, <2>3, FrameTypes, GensEnter
  <2>5. AllVMsOk' /\ StackOk(cstack') /\ BelowKept BY <1>3, OpCallStep
  <2> QED BY <2>4, <2>5 DEF Frames
<1>4. ~OpCallOverflows(v) BY DEF OpCallOverflows, Full
<1>5. CASE OpMeta(v)
  <2>1. AllVMsOk' /\ StackOk(cstack') /\ BelowKept BY <1>5, OpMetaStep
  <2>2. PICK for, raise : for = "meta" /\ raise = FALSE OBVIOUS
  <2>3. Call(v, for, raise) BY <1>5, <2>2 DEF OpMeta
  <2>4. Generators' BY <2>3, GensCall
  <2> QED BY <2>1, <2>4 DEF Frames
<1>6. CASE OpPushTrap(v)
  <2>1. AllVMsOk' /\ StackOk(cstack') /\ BelowKept /\ Generators' BY <1>6, OpPushTrapStep, GensTraps
  <2> QED BY <2>1 DEF Frames
<1>7. CASE OpPopTrap(v)
  <2>1. AllVMsOk' /\ StackOk(cstack') /\ BelowKept /\ Generators' BY <1>7, OpPopTrapStep, GensTraps
  <2> QED BY <2>1 DEF Frames
<1>8. CASE OpReturn(v)
  <2>1. AllVMsOk' /\ StackOk(cstack') /\ BelowKept /\ Generators' BY <1>8, OpReturnStep, GensReturn
  <2> QED BY <2>1 DEF Frames
<1>9. CASE OpYield(v)
  <2>1. AllVMsOk' /\ StackOk(cstack') /\ BelowKept /\ Generators' BY <1>9, OpYieldStep, GensYield
  <2> QED BY <2>1 DEF Frames
<1>10. ASSUME NEW g \in Gens, OpCallGenerator(v, g) PROVE Frames' /\ BelowKept
  <2>1. AllVMsOk' /\ StackOk(cstack') /\ BelowKept BY <1>10, OpCallGeneratorStep
  <2>2. vm' = [vm EXCEPT ![v] = GrowCallStack(vm[v])] BY <1>10 DEF OpCallGenerator
  <2>3. Only(v) /\ vm'[v].calls = vm[v].calls BY <1>1, <2>2, GrowEff DEF Eff, Is
  <2>4. GensQuiet BY <1>10 DEF OpCallGenerator, GensQuiet
  <2>5. Generators' BY <2>3, <2>4, GensStay
  <2> QED BY <2>1, <2>5 DEF Frames
<1>11. ASSUME NEW g \in Gens, OpResume(v, g) PROVE Frames' /\ BelowKept
  <2>1. AllVMsOk' /\ StackOk(cstack') /\ BelowKept BY <1>11, OpResumeStep
  <2>2. Resume(v, g) \/ (vm' = vm /\ gen' = gen) BY <1>11 DEF OpResume, ResumeRefused
  <2>3. Generators' BY <2>2, GensResume, GensSame
  <2> QED BY <2>1, <2>3 DEF Frames
<1>12. ASSUME NEW g \in Gens PROVE ~OpForeach(v, g) BY DEF OpForeach
<1>13. ASSUME NEW fn \in NativeFns, OpCallNative(v, fn) PROVE Frames' /\ BelowKept
  <2>1. AllVMsOk' /\ StackOk(cstack') /\ BelowKept BY <1>13, OpCallNativeStep
  <2>2. PICK for, raise : for = "opcall" /\ raise = FALSE OBVIOUS
  <2>3. Call(v, for, raise) BY <1>13, <2>2 DEF OpCallNative, Call
  <2>4. Generators' BY <2>3, GensCall
  <2> QED BY <2>1, <2>4 DEF Frames
<1> QED BY <1>2, <1>3, <1>4, <1>5, <1>6, <1>7, <1>8, <1>9, <1>10, <1>11, <1>12, <1>13 DEF Instruction

LEMMA ExceptionFrames ==
    ASSUME Features = {}, FInv, Shape', NEW v \in VMs, Exception(v)
    PROVE  Frames' /\ BelowKept
PROOF
<1>1. Shape BY DEF FInv, GInv
<1>2. CASE ErrorHandler(v)
  <2>1. AllVMsOk' /\ StackOk(cstack') /\ BelowKept BY <1>2, ErrorHandlerStep
  <2>2. PICK for, raise : for = "handler" /\ raise = FALSE OBVIOUS
  <2>3. Call(v, for, raise) BY <1>2, <2>2 DEF ErrorHandler
  <2>4. Generators' BY <2>3, GensCall
  <2> QED BY <2>1, <2>4 DEF Frames
<1>3. CASE Unwind(v)
  <2>1. AllVMsOk' /\ StackOk(cstack') /\ BelowKept /\ Generators' BY <1>3, UnwindStep, GensUnwind
  <2> QED BY <2>1 DEF Frames
<1>4. CASE StartFails(v)
  <2>1. AllVMsOk' /\ StackOk(cstack') /\ BelowKept BY <1>4, StartFailsStep
  <2>2. Only(v) /\ vm'[v].calls = vm[v].calls /\ gen' = gen BY <1>1, <1>4, StartFailsEff DEF Eff, Is
  <2>3. GensQuiet BY <2>2 DEF GensQuiet
  <2>4. Generators' BY <2>2, <2>3, GensStay
  <2> QED BY <2>1, <2>4 DEF Frames
<1> QED BY <1>2, <1>3, <1>4 DEF Exception

LEMMA NativeReturnFrames ==
    ASSUME FInv, Shape', NEW ok \in BOOLEAN, NativeReturn(ok)
    PROVE  Frames' /\ BelowKept
PROOF
<1>1. Shape BY DEF FInv, GInv
<1>2. AllVMsOk' /\ StackOk(cstack') /\ BelowKept BY NativeReturnStep
<1>3. PICK u, calls : u = Top.vm /\ calls = Front(vm[u].calls) OBVIOUS
<1>4. Only(u) /\ vm'[u].calls = calls /\ gen' = gen /\ cstack # <<>> /\ Top.kind = "native"
  BY <1>1, <1>3, NativeReturnEff DEF Eff, Is
<1>5. Generators' BY <1>3, <1>4, GensNative
<1> QED BY <1>2, <1>5 DEF Frames

LEMMA NativeFrames ==
    ASSUME Features = {}, FInv, Shape', Native
    PROVE  Frames' /\ BelowKept
PROOF
<1>1. Shape BY DEF FInv, GInv
<1>2. ASSUME NEW ok \in BOOLEAN, OtherReturn(ok) PROVE Frames' /\ BelowKept
  <2>1. NativeReturn(ok) BY <1>2 DEF OtherReturn
  <2> QED BY <2>1, NativeReturnFrames
<1>3. CASE TailCall
  <2>1. AllVMsOk' /\ StackOk(cstack') /\ BelowKept /\ Generators' BY <1>3, TailCallStep, GensTailCall
  <2> QED BY <2>1 DEF Frames
<1>4. CASE ClosureCall
  <2>1. AllVMsOk' /\ StackOk(cstack') /\ BelowKept BY <1>4, ClosureCallStep
  <2>2. PICK for, raise, u : for = "host" /\ raise = TRUE /\ u = Top.vm OBVIOUS
  <2>3. Call(u, for, raise) BY <1>4, <2>2 DEF ClosureCall
  <2>4. u \in VMs BY <1>1, <1>4, <2>2, RunsIs DEF ClosureCall
  <2>5. Generators' BY <2>3, <2>4, GensCall
  <2> QED BY <2>1, <2>5 DEF Frames
<1>5. CASE ClosureCallReturn
  <2>1. PICK ok : ok = (Top.mode = "done") OBVIOUS
  <2>2. ok \in BOOLEAN /\ NativeReturn(ok) BY <1>5, <2>1 DEF ClosureCallReturn
  <2> QED BY <2>2, NativeReturnFrames
<1>6. ASSUME NEW v \in VMs, Suspend(v) PROVE Frames' /\ BelowKept
  <2>1. AllVMsOk' /\ StackOk(cstack') /\ BelowKept BY <1>6, SuspendStep
  <2>2. PICK calls : calls = Front(vm[v].calls) OBVIOUS
  <2>3. Only(v) /\ vm'[v].calls = calls BY <1>1, <1>6, <2>2, SuspendEff DEF Suspends
  <2>4. gen' = gen /\ cstack # <<>> /\ Top.vm = v /\ Top.kind = "native" BY <1>1, <1>6, SuspendEff
  <2>5. Generators' BY <2>2, <2>3, <2>4, GensNative
  <2> QED BY <2>1, <2>5 DEF Frames
<1>7. ASSUME NEW v \in VMs, SuspendReturn(v) PROVE Frames' /\ BelowKept
  <2>1. PICK yes, no : yes = TRUE /\ no = FALSE OBVIOUS
  <2>2. NativeReturn(yes) \/ NativeReturn(no) BY <1>7, <2>1 DEF SuspendReturn
  <2>3. yes \in BOOLEAN /\ no \in BOOLEAN BY <2>1
  <2> QED BY <2>2, <2>3, NativeReturnFrames
<1> QED BY <1>2, <1>3, <1>4, <1>5, <1>6, <1>7 DEF Native

LEMMA ApiFrames ==
    ASSUME Features = {}, FInv, Shape', NEW u \in VMs, Api(u)
    PROVE  Frames' /\ BelowKept
PROOF
<1>1. Shape BY DEF FInv, GInv
<1>2. ASSUME NEW b \in BOOLEAN, ApiCall(u, b) PROVE Frames' /\ BelowKept
  <2>1. ~vm[u].suspended /\ Call(u, "host", b) BY <1>2 DEF ApiCall
  <2>2. AllVMsOk' /\ StackOk(cstack') /\ BelowKept BY <2>1, HostCallStep
  <2>3. PICK for : for = "host" OBVIOUS
  <2>4. Call(u, for, b) BY <2>1, <2>3
  <2>5. Generators' BY <2>4, GensCall
  <2> QED BY <2>2, <2>5 DEF Frames
<1>3. ASSUME NEW b \in BOOLEAN, ApiWakeup(u, b) PROVE Frames' /\ BelowKept
  <2>1. AllVMsOk' /\ StackOk(cstack') /\ BelowKept BY <1>3, WakeupStep
  <2>2. Wakes(u) /\ gen' = gen /\ vm[u].suspended BY <1>1, <1>3, WakeupEff
  <2>3. vm'[u].calls = vm[u].calls BY <2>2, WokenSame
  <2>4. Only(u) BY <2>2 DEF Wakes
  <2>5. GensQuiet BY <2>2 DEF GensQuiet
  <2>6. Generators' BY <2>3, <2>4, <2>5, GensStay
  <2> QED BY <2>1, <2>6 DEF Frames
<1>4. ASSUME NEW g \in Gens PROVE ~ApiResume(u, g) BY DEF ApiResume
<1> QED BY <1>2, <1>3, <1>4 DEF Api

LEMMA NextFrames ==
    ASSUME Features = {}, FInv, [Next]_vars
    PROVE  FInv' /\ BelowKept
PROOF
<1>1. GInv /\ Shape BY DEF FInv, GInv
<1>2. GInv' BY <1>1, NextInv
<1>3. Shape' BY <1>2 DEF GInv
<1>4. Frames' /\ BelowKept
  <2>1. CASE Native BY <1>3, <2>1, NativeFrames
  <2>2. ASSUME NEW v \in VMs, Instruction(v) PROVE Frames' /\ BelowKept BY <1>3, <2>2, InstructionFrames
  <2>3. ASSUME NEW v \in VMs, Exception(v) PROVE Frames' /\ BelowKept BY <1>3, <2>3, ExceptionFrames
  <2>4. ASSUME NEW v \in VMs, Api(v) PROVE Frames' /\ BelowKept BY <1>3, <2>4, ApiFrames
  <2>5. CASE UNCHANGED vars
    <3>1. vm' = vm /\ gen' = gen /\ cstack' = cstack BY <2>5 DEF vars
    <3>2. Generators' BY <3>1, GensSame
    <3>3. AllVMsOk /\ StackOk(cstack) BY DEF FInv, Frames
    <3>4. AllVMsOk' /\ StackOk(cstack') BY <3>1, <3>3 DEF AllVMsOk
    <3>5. BelowKept BY <3>1, NothingKept
    <3> QED BY <3>2, <3>4, <3>5 DEF Frames
  <2> QED BY <2>1, <2>2, <2>3, <2>4, <2>5 DEF Next
<1> QED BY <1>2, <1>4 DEF FInv

LEMMA InitFrames ==
    ASSUME Init
    PROVE  FInv
PROOF
<1>1. GInv BY InitInv
<1>2. cstack = <<>> BY DEF Init
<1>3. ASSUME NEW v \in VMs PROVE VMOk(cstack, vm[v], v)
  <2>1. PICK m : m = vm[v] OBVIOUS
  <2>2. /\ m.calls = <<>> /\ m.alloc = InitialCalls /\ m.etraps = <<>> /\ m.nnative = 0
        /\ m.suspended = FALSE
    BY <2>1 DEF Init
  <2>3. Fits(m.calls, m.alloc, m.etraps)
    <3>1. Len(m.calls) = 0 /\ Len(m.etraps) = 0 BY <2>2
    <3>2. TrapsOk(m.calls, m.etraps)
      <4>1. m.etraps \in Seq(Trap) BY <2>2
      <4>2. \A k \in 1 .. Len(m.etraps) : FALSE BY <3>1
      <4>3. \A i \in 1 .. Len(m.calls) : FALSE BY <3>1
      <4> QED BY <4>1, <4>2, <4>3 DEF TrapsOk
    <3>3. \A i \in 1 .. Len(m.calls) : FALSE BY <3>1
    <3>4. Len(m.calls) <= MaxFrames /\ m.alloc \in Nat \ {0} /\ Len(m.calls) <= m.alloc
      BY <2>2, <3>1, BoundsAssumption
    <3> QED BY <3>2, <3>3, <3>4 DEF Fits
  <2>4. Stacked(cstack, Len(cstack), v, 0, m.calls, m.etraps)
    <3>1. PICK s, n, e, c, tr : s = cstack /\ n = Len(cstack) /\ e = 0 /\ c = m.calls /\ tr = m.etraps OBVIOUS
    <3>2. n \in Nat /\ e \in Nat /\ \A i \in 1 .. n : s[i].vm # v BY <1>2, <3>1
    <3>3. Stacked(s, n, v, e, c, tr) BY <3>1, <3>2, FirstBase
    <3> QED BY <3>1, <3>3
  <2>5. (IF m.suspended THEN 0 ELSE Len(m.calls)) = 0 BY <2>2
  <2>6. Stacked(cstack, Len(cstack), v, IF m.suspended THEN 0 ELSE Len(m.calls), m.calls, m.etraps)
    BY <2>4, <2>5
  <2>7. m.nnative <= MAX_NATIVE_CALLS BY <2>2, BoundsAssumption
  <2>8. Waits(cstack, m, v) BY <2>2 DEF Waits
  <2>9. m.suspended \in BOOLEAN BY <2>2
  <2> QED BY <2>1, <2>3, <2>6, <2>7, <2>8, <2>9 DEF VMOk
<1>4. StackOk(cstack) BY <1>2 DEF StackOk
<1>5. Generators
  <2>1. PICK r : r = [state |-> "none", etraps |-> <<>>, root |-> FALSE] OBVIOUS
  <2>2. \A g \in Gens : gen[g] = r BY <2>1 DEF Init
  <2>3. GenOk(r) /\ r.state = "none" BY <2>1, EmptyGen
  <2>4. Framed BY <2>2, <2>3 DEF Framed
  <2> QED BY <2>2, <2>3, <2>4 DEF Generators
<1> QED BY <1>1, <1>3, <1>4, <1>5 DEF FInv, Frames, AllVMsOk

-----------------------------------------------------------------------------
(* What follows from the invariant.                                        *)

LEMMA FramesTypeOK ==
    ASSUME FInv
    PROVE  TypeOK
PROOF
<1>1. Shape /\ NativeCallsExact BY DEF FInv, GInv
<1>2. ASSUME NEW v \in VMs
      PROVE  /\ Depth(v) <= MaxFrames /\ Depth(v) <= vm[v].alloc
             /\ \A i \in 1 .. Depth(v) : vm[v].calls[i] \in FrameType
  <2>1. Fits(vm[v].calls, vm[v].alloc, vm[v].etraps) BY VMIs
  <2> QED BY <2>1 DEF Fits, FrameOk, Depth
<1>3. ASSUME NEW v \in VMs
      PROVE  vm[v].nnative \in 0 .. MAX_NATIVE_CALLS /\ vm[v].nmeta \in 0 .. MAX_NATIVE_CALLS
  <2>1. vm[v].nnative = Num(cstack, v) /\ vm[v].nmeta = NumMeta(cstack, v) BY <1>1 DEF NativeCallsExact, Num, NumMeta
  <2>2. cstack \in Seq(Act) /\ Len(cstack) \in Int BY StackIs
  <2>3. Num(cstack, v) \in Nat /\ NumMeta(cstack, v) \in Nat BY <2>2, NumTypes
  <2>4. NumMeta(cstack, v) <= Num(cstack, v)
    <3>1. PICK S, T : /\ S = {i \in 1 .. Len(cstack) : cstack[i].vm = v}
                      /\ T = {i \in 1 .. Len(cstack) : cstack[i].vm = v /\ cstack[i].for = "meta"}
      OBVIOUS
    <3>2. IsFiniteSet(1 .. Len(cstack))
      <4>1. 1 \in Int OBVIOUS
      <4> QED BY <2>2, <4>1, FS_Interval
    <3>3. S \in SUBSET (1 .. Len(cstack)) /\ T \in SUBSET S BY <3>1
    <3>4. IsFiniteSet(S) BY <3>2, <3>3, FS_Subset
    <3>5. Cardinality(T) <= Cardinality(S) BY <3>3, <3>4, FS_Subset
    <3> QED BY <3>1, <3>5 DEF Num, NumMeta
  <2>5. vm[v].nnative <= MAX_NATIVE_CALLS /\ MAX_NATIVE_CALLS \in Nat BY VMIs, BoundsAssumption DEF VMOk
  <2> QED BY <2>1, <2>3, <2>4, <2>5
<1>4. ASSUME NEW v \in VMs PROVE vm[v].suspended \in BOOLEAN /\ vm[v].sroot \in BOOLEAN /\ vm[v].straps \in Int
  <2>1. vm[v].suspended \in BOOLEAN BY VMIs DEF VMOk
  <2>2. VMShape(vm[v]) BY <1>1 DEF Shape
  <2> QED BY <2>1, <2>2 DEF VMShape
<1>5. \A g \in Gens : gen[g].state \in {"none", "running", "suspended", "dead"}
  BY <1>1 DEF Shape, GenShape, GenStates
<1>6. ASSUME NEW i \in 1 .. Len(cstack)
      PROVE  cstack[i].kind \in Kinds /\ cstack[i].for \in Fors /\ cstack[i].mode \in Modes /\ cstack[i].vm \in VMs
  <2>1. cstack[i] \in Act BY StackIs
  <2> QED BY <2>1 DEF Act
<1> QED BY <1>2, <1>3, <1>4, <1>5, <1>6 DEF TypeOK

\* The traps of a frame, by their place on _etraps.
LEMMA TrapPlace ==
    ASSUME NEW c \in Seq(FrameG), NEW tr, TrapsOk(c, tr), NEW i \in 1 .. Len(c), NEW p, Upto(tr, i - 1, p)
    PROVE  \A k \in 1 .. Len(tr) : tr[k].at = i =>
               k - p \in 1 .. c[i].etraps /\ k = p + (k - p) /\ tr[k].level = k - p
PROOF
<1>1. BlockAt(tr, i, p, c[i].etraps) BY Block
<1>2. PICK e : e = c[i].etraps OBVIOUS
<1>3. /\ Upto(tr, i, p + e) /\ p \in Nat /\ e \in Nat /\ p + e <= Len(tr)
      /\ \A m \in 1 .. e : tr[p + m].at = i /\ tr[p + m].level = m
  BY <1>1, <1>2 DEF BlockAt
<1>4. ASSUME NEW k \in 1 .. Len(tr), tr[k].at = i PROVE k - p \in 1 .. e /\ k = p + (k - p) /\ tr[k].level = k - p
  <2>1. k <= p + e
    <3>1. tr[k].at <= i BY <1>4
    <3> QED BY <1>3, <3>1 DEF Upto
  <2>2. ~(k <= p)
    <3>1. ~(tr[k].at <= i - 1) BY <1>4
    <3> QED BY <3>1 DEF Upto
  <2>3. k - p \in 1 .. e /\ k = p + (k - p) BY <1>3, <2>1, <2>2
  <2> QED BY <1>3, <2>3
<1> QED BY <1>2, <1>4

LEMMA FramesTrapsOwned ==
    ASSUME FInv
    PROVE  TrapsOwned
PROOF
<1>1. SUFFICES ASSUME NEW v \in VMs, NEW tr, tr = vm[v].etraps
      PROVE  /\ \A k \in 1 .. Len(tr) : tr[k].at \in 1 .. Depth(v)
             /\ \A i \in 1 .. Depth(v) : {tr[k].level : k \in TrapsOf(v, i)} = 1 .. vm[v].calls[i].etraps
             /\ \A k, l \in 1 .. Len(tr) : k < l =>
                  \/ tr[k].at < tr[l].at
                  \/ tr[k].at = tr[l].at /\ tr[k].level < tr[l].level
  BY DEF TrapsOwned
<1>2. PICK c : c = vm[v].calls OBVIOUS
<1>3. c \in Seq(FrameG) /\ TrapsOk(c, tr) /\ Len(c) \in Nat /\ Depth(v) = Len(c) BY <1>1, <1>2, VMIs DEF Depth
<1>4. tr \in Seq(Trap) /\ Len(tr) \in Nat /\ \A k \in 1 .. Len(tr) : tr[k].at \in 1 .. Len(c) BY <1>3 DEF TrapsOk
<1>5. ASSUME NEW i \in 1 .. Len(c) PROVE {tr[k].level : k \in TrapsOf(v, i)} = 1 .. c[i].etraps
  <2>1. i - 1 \in 0 .. Len(c) /\ i \in Nat BY <1>3
  <2>2. PICK p \in 0 .. Len(tr) : Upto(tr, i - 1, p) BY <1>3, <2>1, UptoExists
  <2>3. BlockAt(tr, i, p, c[i].etraps) BY <1>3, <2>2, Block
  <2>4. PICK e : e = c[i].etraps OBVIOUS
  <2>5. e \in Nat /\ p + e <= Len(tr) /\ \A m \in 1 .. e : tr[p + m].at = i /\ tr[p + m].level = m
    BY <2>3, <2>4 DEF BlockAt
  <2>6. TrapsOf(v, i) = {k \in 1 .. Len(tr) : tr[k].at = i} BY <1>1 DEF TrapsOf
  <2>7. ASSUME NEW k \in TrapsOf(v, i) PROVE tr[k].level \in 1 .. e
    <3>1. k \in 1 .. Len(tr) /\ tr[k].at = i BY <2>6
    <3>2. i \in 1 .. Len(c) /\ c \in Seq(FrameG) /\ TrapsOk(c, tr) /\ Upto(tr, i - 1, p) BY <1>3, <2>2
    <3>3. k - p \in 1 .. c[i].etraps /\ tr[k].level = k - p BY <3>1, <3>2, TrapPlace
    <3> QED BY <2>4, <3>3
  <2>8. ASSUME NEW m \in 1 .. e PROVE \E k \in TrapsOf(v, i) : tr[k].level = m
    <3>1. p + m \in 1 .. Len(tr) BY <1>4, <2>5
    <3>2. p + m \in TrapsOf(v, i) /\ tr[p + m].level = m BY <2>5, <2>6, <3>1
    <3> QED BY <3>2
  <2> QED BY <2>4, <2>7, <2>8
<1>6. ASSUME NEW k \in 1 .. Len(tr), NEW l \in 1 .. Len(tr), k < l
      PROVE  tr[k].at < tr[l].at \/ (tr[k].at = tr[l].at /\ tr[k].level < tr[l].level)
  <2>1. PICK i : i = tr[l].at OBVIOUS
  <2>2. i \in 1 .. Len(c) /\ i \in 0 .. Len(c) /\ i - 1 \in 0 .. Len(c) /\ tr[k].at \in 1 .. Len(c) BY <1>3, <1>4, <2>1
  <2>3. tr[k].at <= i
    <3>1. PICK q \in 0 .. Len(tr) : Upto(tr, i, q) BY <1>3, <2>2, UptoExists
    <3>2. l <= q
      <4>1. tr[l].at <= i BY <2>1, <2>2
      <4> QED BY <3>1, <4>1 DEF Upto
    <3>3. k <= q BY <1>4, <1>6, <3>1, <3>2
    <3> QED BY <3>1, <3>3 DEF Upto
  <2>4. ASSUME tr[k].at = i PROVE tr[k].level < tr[l].level
    <3>1. PICK p \in 0 .. Len(tr) : Upto(tr, i - 1, p) BY <1>3, <2>2, UptoExists
    <3>2. tr[k].level = k - p /\ tr[l].level = l - p BY <1>3, <2>1, <2>2, <2>4, <3>1, TrapPlace
    <3> QED BY <1>4, <1>6, <3>1, <3>2
  <2> QED BY <2>1, <2>2, <2>3, <2>4
<1> QED BY <1>2, <1>3, <1>4, <1>5, <1>6

\* The traps that an Execute can go to are those above its base.
LEMMA FramesTrapsCounted ==
    ASSUME FInv, cstack # <<>>, Executing(Top)
    PROVE  Top.traps = TrapsSince(Top)
PROOF
<1>1. PICK u, c, tr, n, b : u = Top.vm /\ c = vm[u].calls /\ tr = vm[u].etraps /\ n = Len(c) /\ b = Top.base OBVIOUS
<1>2. /\ tr \in Seq(Trap) /\ Len(tr) \in Nat /\ n \in Nat /\ Upto(tr, n, Len(tr))
      /\ Script(c, tr, b, n, Top.traps) /\ b \in Nat
  <2>1. ScriptTop(u, c, tr, n) BY <1>1, TopScript
  <2> QED BY <1>1, <2>1 DEF ScriptTop
<1>3. PICK lo, hi \in 0 .. Len(tr) : Upto(tr, b, lo) /\ Upto(tr, n, hi) /\ Top.traps = hi - lo BY <1>2 DEF Script
<1>4. hi = Len(tr) BY <1>2, <1>3, UptoUnique
<1>5. PICK S : S = {k \in 1 .. Len(tr) : tr[k].at > b} OBVIOUS
<1>6. S = lo + 1 .. Len(tr)
  <2>1. ASSUME NEW k \in 1 .. Len(tr) PROVE tr[k].at > b <=> k > lo
    <3>1. tr[k].at \in Nat BY <1>2, TrapIn
    <3>2. k <= lo <=> tr[k].at <= b BY <1>3 DEF Upto
    <3> QED BY <1>2, <1>3, <3>1, <3>2
  <2>2. \A k \in lo + 1 .. Len(tr) : k \in 1 .. Len(tr) /\ k > lo BY <1>2, <1>3
  <2>3. \A k \in 1 .. Len(tr) : k > lo => k \in lo + 1 .. Len(tr) BY <1>2, <1>3
  <2> QED BY <1>5, <2>1, <2>2, <2>3
<1>7. Cardinality(S) = Len(tr) - lo
  <2>1. PICK a, z : a = lo + 1 /\ z = Len(tr) OBVIOUS
  <2>2. a \in Int /\ z \in Int BY <1>2, <1>3, <2>1
  <2>3. Cardinality(a .. z) = IF a > z THEN 0 ELSE z - a + 1 BY <2>2, FS_Interval
  <2> QED BY <1>2, <1>3, <1>6, <2>1, <2>3
<1>8. TrapsSince(Top) = Cardinality(S) BY <1>1, <1>5 DEF TrapsSince
<1> QED BY <1>3, <1>4, <1>7, <1>8

LEMMA FramesRunningFramed ==
    ASSUME FInv
    PROVE  RunningFramed
PROOF
<1>1. SUFFICES ASSUME NEW g \in Gens, gen[g].state = "running" PROVE FramesOf(g) # {} BY DEF RunningFramed
<1>2. PICK v \in VMs : \E i \in 1 .. Len(vm[v].calls) : vm[v].calls[i].gen = g BY <1>1, GensAre DEF Framed
<1>3. PICK i \in 1 .. Len(vm[v].calls) : vm[v].calls[i].gen = g BY <1>2
<1>4. Len(vm[v].calls) \in Nat /\ Len(vm[v].calls) <= MaxFrames BY VMIs DEF Fits
<1>5. i \in 1 .. MaxFrames /\ i <= Depth(v) BY <1>3, <1>4, BoundsAssumption DEF Depth
<1>6. PICK x : x = <<v, i>> OBVIOUS
<1>7. x \in VMs \X (1 .. MaxFrames) /\ x[1] = v /\ x[2] = i BY <1>5, <1>6
<1>8. x \in FramesOf(g) BY <1>3, <1>5, <1>7 DEF FramesOf
<1> QED BY <1>8

\* A suspended VM can be woken any time.
LEMMA FramesQuiet ==
    ASSUME FInv
    PROVE  SuspendedQuiet
PROOF
<1>1. SUFFICES ASSUME NEW v \in VMs, vm[v].suspended
               PROVE  (\A i \in 1 .. Len(cstack) : cstack[i].vm # v) /\ Depth(v) > 0 /\ ci(v).code
  BY DEF SuspendedQuiet
<1>2. PICK c, n : c = vm[v].calls /\ n = Len(c) OBVIOUS
<1>3. n \in Nat /\ VMOk(cstack, vm[v], v) BY <1>2, VMIs
<1>4. (\A i \in 1 .. Len(cstack) : cstack[i].vm # v) /\ Script(c, vm[v].etraps, 0, n, vm[v].straps)
  BY <1>1, <1>2, <1>3 DEF VMOk, Waits
<1>5. 0 < n /\ c[0 + 1].code /\ \A f \in 0 + 2 .. n : c[f].code BY <1>4 DEF Script
<1>6. c[n].code
  <2>1. CASE n = 1 BY <1>5, <2>1
  <2>2. CASE n # 1
    <3>1. n \in 0 + 2 .. n BY <1>3, <1>5, <2>2
    <3> QED BY <1>5, <3>1
  <2> QED BY <2>1, <2>2
<1> QED BY <1>2, <1>4, <1>5, <1>6 DEF Depth, ci

\* An Execute or a native function that begins, or goes on, leaves the others on the C++ stack.
LEMMA LongerStack ==
    ASSUME FInv,
           \/ cstack' = cstack
           \/ cstack # <<>> /\ Throw
           \/ cstack # <<>> /\ \E n \in Int : cstack' = AddTraps(n)
           \/ \E for \in Fors, ok \in BOOLEAN : cstack' = Back(cstack, for, ok)
           \/ \E a : cstack' = Append(cstack, a)
    PROVE  ~(Len(cstack') < Len(cstack))
PROOF
<1>1. Shape BY DEF FInv, GInv
<1>2. cstack \in Seq(Act) /\ Len(cstack) \in Nat BY StackIs
<1>3. ASSUME NEW s, Alike(cstack, s) PROVE ~(Len(s) < Len(cstack)) BY <1>2, <1>3 DEF Alike
<1>4. CASE cstack' = cstack BY <1>2, <1>4
<1>5. CASE cstack # <<>> /\ Throw
  <2>1. Alike(cstack, cstack') BY <1>1, <1>5, ThrowTop
  <2> QED BY <1>3, <2>1
<1>6. ASSUME cstack # <<>>, NEW n \in Int, cstack' = AddTraps(n) PROVE ~(Len(cstack') < Len(cstack))
  <2>1. Alike(cstack, cstack') BY <1>1, <1>6, AddTrapsTop
  <2> QED BY <1>3, <2>1
<1>7. ASSUME NEW for \in Fors, NEW ok \in BOOLEAN, cstack' = Back(cstack, for, ok) PROVE ~(Len(cstack') < Len(cstack))
  <2>1. Alike(cstack, cstack') BY <1>2, <1>7, BackTop
  <2> QED BY <1>3, <2>1
<1>8. ASSUME NEW a, cstack' = Append(cstack, a) PROVE ~(Len(cstack') < Len(cstack))
  <2>1. Len(Append(cstack, a)) = Len(cstack) + 1 BY <1>2
  <2> QED BY <1>2, <1>8, <2>1
<1> QED BY <1>4, <1>5, <1>6, <1>7, <1>8

LEMMA CallLonger ==
    ASSUME Features = {}, FInv, NEW u \in VMs, NEW for \in Fors, NEW raise, Call(u, for, raise)
    PROVE  ~(Len(cstack') < Len(cstack))
PROOF
<1>1. Shape BY DEF FInv, GInv
<1>2. PICK yes, no : yes = TRUE /\ no = FALSE OBVIOUS
<1>3. yes \in BOOLEAN /\ no \in BOOLEAN BY <1>2
<1>4. \/ \E a : cstack' = Append(cstack, a)
      \/ cstack' = Back(cstack, for, yes) \/ cstack' = Back(cstack, for, no)
  <2>1. CASE CallScript(u, for, raise) BY <1>1, <2>1, CallScriptEff
  <2>2. CASE CallBadly(u, for) BY <1>1, <2>2, CallBadlyEff
  <2>3. ASSUME NEW g \in Gens, CallGenerator(u, for, g) PROVE cstack' = Back(cstack, for, yes)
    BY <1>1, <1>2, <2>3, CallGeneratorEff
  <2>4. ASSUME NEW g \in Gens PROVE ~CallGeneratorMoved(u, for, raise, g) BY DEF CallGeneratorMoved
  <2>5. ASSUME NEW fn \in NativeFns, CallNative(u, for, fn) PROVE \E a : cstack' = Append(cstack, a)
    BY <1>1, <2>5, CallNativeEff
  <2>6. CASE CallRefused(for) BY <1>2, <2>6 DEF CallRefused, AtOnce
  <2>7. ~CallOverflows(u, for) BY DEF CallOverflows, Full
  <2> QED BY <2>1, <2>2, <2>3, <2>4, <2>5, <2>6, <2>7 DEF Call
<1> QED BY <1>3, <1>4, LongerStack

\* What a native function returns to.
LEMMA NativeRestores ==
    ASSUME FInv, NEW ok \in BOOLEAN, NativeReturn(ok)
    PROVE  Len(vm'[Top.vm].calls) = Top.base
PROOF
<1>1. Shape BY DEF FInv, GInv
<1>2. PICK u, c, n, calls : u = Top.vm /\ c = vm[u].calls /\ n = Len(c) /\ calls = Front(c) OBVIOUS
<1>3. vm'[u].calls = calls /\ cstack # <<>> /\ Top.kind = "native"
  BY <1>1, <1>2, NativeReturnEff DEF Eff, Is
<1>4. c \in Seq(FrameG) /\ n \in Nat /\ n \in 1 .. n /\ Top.base \in Nat /\ n = Top.base + 1 BY <1>2, <1>3, NativeOwns
<1>5. Len(calls) = n - 1
  <2>1. c # <<>>
    <3>1. Len(c) # 0 BY <1>2, <1>4
    <3> QED BY <3>1
  <2> QED BY <1>2, <1>4, <2>1, FrontIs
<1> QED BY <1>2, <1>3, <1>4, <1>5

LEMMA ReturnRestores ==
    ASSUME FInv, NEW v \in VMs, OpReturn(v), Len(cstack') < Len(cstack)
    PROVE  Len(vm'[Top.vm].calls) = Top.base
PROOF
<1>1. Shape BY DEF FInv, GInv
<1>2. Running(v) BY DEF OpReturn
<1>3. cstack # <<>> /\ v = Top.vm /\ Executing(Top) /\ ci(v) = vm[v].calls[Len(vm[v].calls)] BY <1>2, RunningTop
<1>4. PICK c, n, calls, b : c = vm[v].calls /\ n = Len(c) /\ calls = Front(c) /\ b = Top.base OBVIOUS
<1>5. /\ c \in Seq(FrameG) /\ n \in Nat /\ b \in Nat /\ b < n
      /\ \A i \in b + 1 .. n : c[i].root <=> i = b + 1
  <2>1. ScriptTop(v, c, vm[v].etraps, n) BY <1>3, <1>4, TopScript
  <2> QED BY <1>4, <2>1 DEF ScriptTop
<1>6. n \in 1 .. Len(c) /\ n \in b + 1 .. n BY <1>4, <1>5
<1>7. ci(v).root \in BOOLEAN
  <2>1. c[n] \in FrameG BY <1>5, <1>6
  <2> QED BY <1>3, <1>4, <2>1 DEF FrameG
<1>8. ci(v).root = TRUE
  <2>1. ASSUME ci(v).root = FALSE PROVE FALSE
    <3>1. cstack' = cstack BY <1>1, <2>1, OpReturnEff
    <3>2. Len(cstack) \in Nat BY StackIs
    <3> QED BY <3>1, <3>2
  <2> QED BY <1>7, <2>1
<1>9. n = b + 1 BY <1>3, <1>4, <1>5, <1>6, <1>8
<1>10. vm'[v].calls = calls BY <1>1, <1>4, <1>8, OpReturnEff DEF Eff, Is
<1>11. Len(calls) = n - 1
  <2>1. c # <<>>
    <3>1. Len(c) # 0 BY <1>4, <1>5
    <3> QED BY <3>1
  <2> QED BY <1>4, <1>5, <2>1, FrontIs
<1> QED BY <1>3, <1>4, <1>5, <1>9, <1>10, <1>11

LEMMA UnwindRestores ==
    ASSUME FInv, NEW v \in VMs, Unwind(v), Len(cstack') < Len(cstack)
    PROVE  Len(vm'[Top.vm].calls) = Top.base
PROOF
<1>1. Shape BY DEF FInv, GInv
<1>2. PICK left \in Nat : Caught(v, left) \/ Uncaught(v, left) BY <1>1, UnwindEff
<1>3. cstack # <<>> /\ Top.kind = "execute" /\ Top.vm = v /\ Top.mode = "unwind" BY <1>1, UnwindEff
<1>4. Executing(Top) BY <1>3 DEF Executing
<1>5. ~Caught(v, left)
  <2>1. ASSUME Caught(v, left) PROVE FALSE
    <3>1. cstack' = [cstack EXCEPT ![Len(cstack)] = [Top EXCEPT !.traps = @ - 1, !.mode = "run"]] BY <2>1 DEF Caught
    <3>2. cstack \in Seq(Act) /\ Len(cstack) \in Nat BY StackIs
    <3>3. PICK s, b, t : s = cstack /\ b = [Top EXCEPT !.traps = @ - 1, !.mode = "run"] /\ t = [s EXCEPT ![Len(s)] = b]
      OBVIOUS
    <3>4. Len(t) = Len(s) BY <3>2, <3>3
    <3> QED BY <3>1, <3>2, <3>3, <3>4
  <2> QED BY <2>1
<1>6. Uncaught(v, left) BY <1>2, <1>5
<1>7. PICK c, n, b : c = vm[v].calls /\ n = Len(c) /\ b = Top.base OBVIOUS
<1>8. /\ c \in Seq(FrameG) /\ n \in Nat /\ b \in Nat /\ b < n
      /\ \A i \in b + 1 .. n : c[i].root <=> i = b + 1
  <2>1. ScriptTop(v, c, vm[v].etraps, n) BY <1>3, <1>4, <1>7, TopScript
  <2> QED BY <1>7, <2>1 DEF ScriptTop
<1>9. LeavesAll(v, left) BY <1>6 DEF Uncaught
<1>10. /\ left \in 0 .. n /\ \A i \in left + 2 .. n : c[i].root = FALSE
       /\ \/ left < n /\ c[left + 1].root = TRUE
          \/ left = 0 /\ \A i \in 1 .. n : c[i].root = FALSE
  BY <1>7, <1>9 DEF LeavesAll
<1>11. b + 1 \in 1 .. n /\ b + 1 \in b + 1 .. n /\ c[b + 1].root BY <1>8
<1>12. left < n /\ c[left + 1].root = TRUE BY <1>10, <1>11
<1>13. left >= b
  <2>1. ASSUME left < b PROVE FALSE
    <3>1. b + 1 \in left + 2 .. n BY <1>8, <1>10, <2>1
    <3> QED BY <1>10, <1>11, <3>1
  <2> QED BY <1>8, <1>10, <2>1
<1>14. left = b
  <2>1. left + 1 \in b + 1 .. n BY <1>8, <1>10, <1>12, <1>13
  <2> QED BY <1>8, <1>10, <1>12, <2>1
<1>15. vm'[v].calls = SubSeq(c, 1, left) BY <1>6, <1>7 DEF Uncaught, Eff, Is
<1>16. Len(SubSeq(c, 1, left)) = left BY <1>7, <1>8, <1>10, PrefixIs
<1> QED BY <1>3, <1>7, <1>14, <1>15, <1>16

LEMMA StartFailsRestores ==
    ASSUME FInv, NEW v \in VMs, StartFails(v)
    PROVE  Len(vm'[Top.vm].calls) = Top.base
PROOF
<1>1. Shape BY DEF FInv, GInv
<1>2. vm'[v].calls = vm[v].calls BY <1>1, StartFailsEff DEF Eff, Is
<1>3. cstack # <<>> /\ Top.kind = "execute" /\ Top.mode = "startfail" /\ Top.vm = v BY <1>1, StartFailsEff
<1>4. Starting(Top) BY <1>3 DEF Starting
<1>5. Owns(vm[v].calls, vm[v].etraps, Top, Len(vm[v].calls)) BY <1>3, TopOwns
<1>6. Len(vm[v].calls) = Top.base BY <1>4, <1>5 DEF Owns
<1> QED BY <1>2, <1>3, <1>6
\* Every instruction but the one that leaves the root frame goes on in its Execute.
LEMMA InstructionRestores ==
    ASSUME Features = {}, FInv, NEW v \in VMs, Instruction(v), Len(cstack') < Len(cstack)
    PROVE  Len(vm'[Top.vm].calls) = Top.base
PROOF
<1>1. Shape BY DEF FInv, GInv
<1>2. ~OpThrow(v)
  <2>1. ASSUME OpThrow(v) PROVE FALSE
    <3>1. Running(v) /\ Throw BY <2>1 DEF OpThrow
    <3>2. cstack # <<>> BY <3>1, RunningTop
    <3> QED BY <3>1, <3>2, LongerStack
  <2> QED BY <2>1
<1>3. ~OpCall(v)
  <2>1. ASSUME OpCall(v) PROVE FALSE
    <3>1. cstack' = cstack BY <2>1 DEF OpCall
    <3> QED BY <3>1, LongerStack
  <2> QED BY <2>1
<1>4. ~OpCallOverflows(v) BY DEF OpCallOverflows, Full
<1>5. ~OpMeta(v)
  <2>1. ASSUME OpMeta(v) PROVE FALSE
    <3>1. PICK for, raise : for = "meta" /\ raise = FALSE OBVIOUS
    <3>2. Call(v, for, raise) /\ for \in Fors BY <2>1, <3>1 DEF OpMeta, Fors
    <3> QED BY <3>2, CallLonger
  <2> QED BY <2>1
<1>6. ASSUME NEW n \in Int, Running(v), cstack' = AddTraps(n) PROVE FALSE
  <2>1. cstack # <<>> BY <1>6, RunningTop
  <2> QED BY <1>6, <2>1, LongerStack
<1>7. ~OpPushTrap(v)
  <2>1. ASSUME OpPushTrap(v) PROVE FALSE
    <3>1. Running(v) /\ cstack' = AddTraps(1) BY <2>1 DEF OpPushTrap
    <3>2. 1 \in Int OBVIOUS
    <3> QED BY <1>6, <3>1, <3>2
  <2> QED BY <2>1
<1>8. ~OpPopTrap(v)
  <2>1. ASSUME OpPopTrap(v) PROVE FALSE
    <3>1. PICK x : x = -1 OBVIOUS
    <3>2. Running(v) /\ cstack' = AddTraps(x) BY <2>1, <3>1 DEF OpPopTrap
    <3>3. x \in Int BY <3>1
    <3> QED BY <1>6, <3>2, <3>3
  <2> QED BY <2>1
<1>9. ~OpYield(v)
  <2>1. ASSUME OpYield(v) PROVE FALSE
    <3>1. Running(v) BY <2>1 DEF OpYield
    <3>2. cstack # <<>> /\ v = Top.vm /\ Executing(Top) /\ ci(v) = vm[v].calls[Len(vm[v].calls)]
      BY <3>1, RunningTop
    <3>3. PICK c, n, e, x : c = vm[v].calls /\ n = Len(c) /\ e = c[n].etraps /\ x = -e OBVIOUS
    <3>4. c \in Seq(FrameG) /\ n \in 1 .. n /\ Fits(c, vm[v].alloc, vm[v].etraps)
      <4>1. ScriptTop(v, c, vm[v].etraps, n) BY <3>2, <3>3, TopScript
      <4> QED BY <4>1 DEF ScriptTop
    <3>5. e \in Nat /\ c[n].root \in BOOLEAN /\ (c[n].gen # None => ~c[n].root) BY <3>3, <3>4, FrameIn
    <3>6. (c[n].root = FALSE => cstack' = AddTraps(-e)) /\ c[n].gen # None BY <1>1, <2>1, <3>2, <3>3, OpYieldEff
    <3>7. cstack' = AddTraps(x) /\ x \in Int BY <3>3, <3>5, <3>6
    <3> QED BY <1>6, <3>1, <3>7
  <2> QED BY <2>1
<1>10. ASSUME NEW g \in Gens PROVE ~OpCallGenerator(v, g)
  <2>1. ASSUME OpCallGenerator(v, g) PROVE FALSE
    <3>1. cstack' = cstack BY <2>1 DEF OpCallGenerator
    <3> QED BY <3>1, LongerStack
  <2> QED BY <2>1
<1>11. ASSUME NEW g \in Gens PROVE ~OpResume(v, g)
  <2>1. ASSUME OpResume(v, g) PROVE FALSE
    <3>1. Running(v) /\ (Throw \/ cstack' = AddTraps(Len(gen[g].etraps))) BY <2>1 DEF OpResume, ResumeRefused
    <3>2. PICK e : e = Len(gen[g].etraps) OBVIOUS
    <3>3. GenShape(gen[g]) BY <1>1 DEF Shape
    <3>4. e \in Int BY <3>2, <3>3 DEF GenShape
    <3>5. CASE Throw
      <4>1. cstack # <<>> BY <3>1, RunningTop
      <4> QED BY <3>5, <4>1, LongerStack
    <3>6. CASE cstack' = AddTraps(e) BY <1>6, <3>1, <3>4, <3>6
    <3> QED BY <3>1, <3>2, <3>5, <3>6
  <2> QED BY <2>1
<1>12. ASSUME NEW g \in Gens PROVE ~OpForeach(v, g) BY DEF OpForeach
<1>13. ASSUME NEW fn \in NativeFns PROVE ~OpCallNative(v, fn)
  <2>1. ASSUME OpCallNative(v, fn) PROVE FALSE
    <3>1. PICK for, raise : for = "opcall" /\ raise = FALSE OBVIOUS
    <3>2. Call(v, for, raise) /\ for \in Fors BY <2>1, <3>1 DEF OpCallNative, Call, Fors
    <3> QED BY <3>2, CallLonger
  <2> QED BY <2>1
<1>14. OpReturn(v)
  BY <1>2, <1>3, <1>4, <1>5, <1>7, <1>8, <1>9, <1>10, <1>11, <1>12, <1>13 DEF Instruction
<1> QED BY <1>14, ReturnRestores

LEMMA ExceptionRestores ==
    ASSUME Features = {}, FInv, NEW v \in VMs, Exception(v), Len(cstack') < Len(cstack)
    PROVE  Len(vm'[Top.vm].calls) = Top.base
PROOF
<1>1. ~ErrorHandler(v)
  <2>1. ASSUME ErrorHandler(v) PROVE FALSE
    <3>1. PICK for, raise : for = "handler" /\ raise = FALSE OBVIOUS
    <3>2. Call(v, for, raise) /\ for \in Fors BY <2>1, <3>1 DEF ErrorHandler, Fors
    <3> QED BY <3>2, CallLonger
  <2> QED BY <2>1
<1> QED BY <1>1, UnwindRestores, StartFailsRestores DEF Exception

\* A tail call and a suspension return to _OP_CALL, other native functions as they began.
LEMMA NativeFnRestores ==
    ASSUME Features = {}, FInv, Native, Len(cstack') < Len(cstack), Top.for # "opcall"
    PROVE  Len(vm'[Top.vm].calls) = Top.base
PROOF
<1>1. Shape BY DEF FInv, GInv
<1>2. ~TailCall BY DEF TailCall
<1>3. ~ClosureCall
  <2>1. ASSUME ClosureCall PROVE FALSE
    <3>1. PICK for, raise, u : for = "host" /\ raise = TRUE /\ u = Top.vm OBVIOUS
    <3>2. Call(u, for, raise) /\ for \in Fors BY <2>1, <3>1 DEF ClosureCall, Fors
    <3>3. u \in VMs BY <1>1, <2>1, <3>1, RunsIs DEF ClosureCall
    <3> QED BY <3>2, <3>3, CallLonger
  <2> QED BY <2>1
<1>4. ASSUME NEW v \in VMs PROVE ~Suspend(v) BY DEF Suspend
<1>5. PICK ok \in BOOLEAN : NativeReturn(ok)
  <2>1. ASSUME NEW ok \in BOOLEAN, OtherReturn(ok) PROVE \E b \in BOOLEAN : NativeReturn(b) BY <2>1 DEF OtherReturn
  <2>2. CASE ClosureCallReturn
    <3>1. PICK ok : ok = (Top.mode = "done") OBVIOUS
    <3>2. ok \in BOOLEAN /\ NativeReturn(ok) BY <2>2, <3>1 DEF ClosureCallReturn
    <3> QED BY <3>2
  <2>3. ASSUME NEW v \in VMs, SuspendReturn(v) PROVE \E b \in BOOLEAN : NativeReturn(b)
    <3>1. PICK yes, no : yes = TRUE /\ no = FALSE OBVIOUS
    <3>2. NativeReturn(yes) \/ NativeReturn(no) BY <2>3, <3>1 DEF SuspendReturn
    <3>3. yes \in BOOLEAN /\ no \in BOOLEAN BY <3>1
    <3> QED BY <3>2, <3>3
  <2> QED BY <1>2, <1>3, <1>4, <2>1, <2>2, <2>3 DEF Native
<1> QED BY <1>5, NativeRestores

LEMMA ApiLonger ==
    ASSUME Features = {}, FInv, NEW u \in VMs, Api(u)
    PROVE  ~(Len(cstack') < Len(cstack))
PROOF
<1>1. Shape BY DEF FInv, GInv
<1>2. ASSUME NEW b \in BOOLEAN, ApiCall(u, b) PROVE ~(Len(cstack') < Len(cstack))
  <2>1. PICK for : for = "host" OBVIOUS
  <2>2. Call(u, for, b) /\ for \in Fors BY <1>2, <2>1 DEF ApiCall, Fors
  <2> QED BY <2>2, CallLonger
<1>3. ASSUME NEW b \in BOOLEAN, ApiWakeup(u, b) PROVE ~(Len(cstack') < Len(cstack))
  <2>1. \E a : cstack' = Append(cstack, a) BY <1>1, <1>3, WakeupEff
  <2> QED BY <2>1, LongerStack
<1>4. ASSUME NEW g \in Gens PROVE ~ApiResume(u, g) BY DEF ApiResume
<1> QED BY <1>2, <1>3, <1>4 DEF Api

LEMMA StepRestores ==
    ASSUME Features = {}, FInv, Next, Len(cstack') < Len(cstack), Top.for # "opcall"
    PROVE  Len(vm'[Top.vm].calls) = Top.base
PROOF
<1>1. CASE Native BY <1>1, NativeFnRestores
<1>2. ASSUME NEW v \in VMs, Instruction(v) PROVE Len(vm'[Top.vm].calls) = Top.base BY <1>2, InstructionRestores
<1>3. ASSUME NEW v \in VMs, Exception(v) PROVE Len(vm'[Top.vm].calls) = Top.base BY <1>3, ExceptionRestores
<1>4. ASSUME NEW v \in VMs, Api(v) PROVE FALSE BY <1>4, ApiLonger
<1> QED BY <1>1, <1>2, <1>3, <1>4 DEF Next

-----------------------------------------------------------------------------
(* Theorems.                                                               *)

\* Calls, exceptions, generators, suspension and wakeup keep the frames and
\* traps of every VM divided among what runs on its C++ stack.
THEOREM FramesInvariant ==
    ASSUME Features = {}
    PROVE  Spec => []FInv
PROOF
<1>1. Init => FInv BY InitFrames
<1>2. FInv /\ [Next]_vars => FInv' BY NextFrames
<1> QED BY <1>1, <1>2, PTL DEF Spec

\* Call stacks and counters stay within their limits (EnterFrame, Call); the
\* traps that exception_trap pops belong to the frames it finds them in, also
\* after Yield and Resume moved them; the local traps of an Execute is the
\* number it can still go to; and a running generator has its frame.
THEOREM FramesAreSound ==
    ASSUME Features = {}
    PROVE  Spec => []FramesSound
PROOF
<1>1. FInv => FramesSound
  <2>1. ASSUME FInv PROVE FramesSound
    <3>1. TrapsCounted
      <4>1. ASSUME Runs("execute"), Top.mode \in {"run", "raise", "unwind"} PROVE Top.traps = TrapsSince(Top)
        <5>1. cstack # <<>> /\ Executing(Top) BY <4>1 DEF Runs, Executing
        <5> QED BY <2>1, <5>1, FramesTrapsCounted
      <4> QED BY <4>1 DEF TrapsCounted
    <3> QED BY <2>1, <3>1, FramesTypeOK, FramesTrapsOwned, FramesRunningFramed DEF FramesSound
  <2> QED BY <2>1
<1> QED BY <1>1, FramesInvariant, PTL

\* GSVM::Suspend leaves a VM with nothing on the C++ stack and a script frame
\* on top, and nothing else disturbs it: thread.wakeup may come at any time.
THEOREM SuspendedVMsQuiet ==
    ASSUME Features = {}
    PROVE  Spec => []SuspendedQuiet
PROOF
<1>1. FInv => SuspendedQuiet BY FramesQuiet
<1> QED BY <1>1, FramesInvariant, PTL

\* The assert at the end of GSVM::Call: whatever the function called does,
\* and however it is left, the call stack is as deep as when it was called, and
\* of the frames that it had then; in programs that use none of the features,
\* with which it fails.
THEOREM CallsRestoreTheStack ==
    ASSUME Features = {}
    PROVE  Spec => CallRestoresStack
PROOF
<1> DEFINE A == /\ BelowKept
                /\ Len(cstack') < Len(cstack) /\ Top.for # "opcall" /\ ~vm'[Top.vm].suspended
                     => Len(vm'[Top.vm].calls) = Top.base
<1>1. ASSUME FInv, Next PROVE A BY <1>1, StepRestores, NextFrames
<1>2. FInv /\ [Next]_vars => [A]_vars BY <1>1
<1> QED BY <1>2, FramesInvariant, PTL DEF Spec, CallRestoresStack

\* exception_trap in Execute calls the error handler for the exceptions that
\* nobody in this Execute will catch, if it is to report them, and for no others.
THEOREM UncaughtAreHeard ==
    ASSUME Features = {}
    PROVE  Spec => HandlerHearsUncaught
PROOF
<1> DEFINE A == \A v \in VMs : ~NotifyAll =>
                    /\ ErrorHandler(v) /\ Top.mode = "raise" => Top.raise /\ TrapsSince(Top) = 0
                    /\ OpThrow(v) /\ Top.raise /\ TrapsSince(Top) = 0 => Last(cstack').mode = "raise"
<1>1. ASSUME FInv, ~NotifyAll, NEW v \in VMs, ErrorHandler(v), Top.mode = "raise"
      PROVE  Top.raise /\ TrapsSince(Top) = 0
  <2>1. Runs("execute") BY <1>1 DEF ErrorHandler
  <2>2. cstack # <<>> /\ Executing(Top) BY <1>1, <2>1 DEF Runs, Executing
  <2>3. PICK k : k = Len(cstack) - 1 OBVIOUS
  <2>4. ActOk(Top) BY <1>1, <2>2, <2>3, CallerIs
  <2>5. Top.traps = 0 /\ Top.raise BY <1>1, <2>4 DEF ActOk
  <2>6. Top.traps = TrapsSince(Top) BY <1>1, <2>2, FramesTrapsCounted
  <2> QED BY <2>5, <2>6
<1>2. ASSUME FInv, ~NotifyAll, NEW v \in VMs, OpThrow(v), Top.raise, TrapsSince(Top) = 0
      PROVE  Last(cstack').mode = "raise"
  <2>1. Running(v) /\ Throw BY <1>2 DEF OpThrow
  <2>2. Shape /\ cstack # <<>> /\ Executing(Top) /\ Top \in Act BY <1>2, <2>1, RunningTop
  <2>3. Top.traps = 0 BY <1>2, <2>2, FramesTrapsCounted
  <2>4. Thrown(Top) = "raise" BY <1>2, <2>3 DEF Thrown
  <2>5. PICK b : b = [Top EXCEPT !.mode = Thrown(Top)] OBVIOUS
  <2>6. cstack' \in Seq(Act) /\ Topped(cstack, cstack', b) BY <2>1, <2>2, <2>5, ThrowTop
  <2>7. Last(cstack') = b
    <3>1. Len(cstack') = Len(cstack) /\ cstack'[Len(cstack)] = b BY <2>6 DEF Topped
    <3> QED BY <3>1 DEF Last
  <2>8. b.mode = "raise" BY <2>2, <2>4, <2>5 DEF Act
  <2> QED BY <2>7, <2>8
<1>3. ASSUME FInv, Next PROVE A BY <1>1, <1>2, <1>3
<1>4. FInv /\ [Next]_vars => [A]_vars BY <1>3
<1> QED BY <1>4, FramesInvariant, PTL DEF Spec, HandlerHearsUncaught

=============================================================================
