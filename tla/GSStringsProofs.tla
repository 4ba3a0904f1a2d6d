--------------------------- MODULE GSStringsProofs --------------------------
(***************************************************************************)
(* Proofs about the string table and the host's references, for any        *)
(* number of objects, any texts, any number of first slots and any         *)
(* sampling of long texts.  Both tables are arrays of chains over hashes,  *)
(* so what adding, removing and moving do to such chains is proved once    *)
(* (Chained), for strings and for nodes.                                   *)
(***************************************************************************)
EXTENDS GSStrings, FiniteSetTheorems, WellFoundedInduction, TLAPS

-----------------------------------------------------------------------------
(* Numbers and sequences.                                                  *)

\* A set of numbers that is not empty has a least one.
LEMMA Least ==
    ASSUME NEW T, T \subseteq Nat, T # {}
    PROVE  \E x \in T : \A y \in T : x <= y
PROOF
<1>1. PICK R : R = {ss \in Nat \X Nat : ss[1] < ss[2]} OBVIOUS
<1>2. IsWellFoundedOn(OpToRel(<, Nat), Nat) BY NatLessThanWellFounded
<1>3. IsWellFoundedOn(R, Nat) BY <1>1, <1>2 DEF OpToRel
<1>4. PICK x \in T : \A y \in T : ~(<<y, x>> \in R) BY <1>3, WFMin
<1>5. ASSUME NEW y \in T PROVE x <= y
  <2>1. x \in Nat /\ y \in Nat OBVIOUS
  <2>2. <<y, x>> \notin R BY <1>4
  <2>3. <<y, x>> \in Nat \X Nat /\ <<y, x>>[1] = y /\ <<y, x>>[2] = x BY <2>1
  <2>4. ~(y < x) BY <1>1, <2>2, <2>3
  <2> QED BY <2>1, <2>4
<1> QED BY <1>5

\* A remainder is a slot.
LEMMA RemainderIs ==
    ASSUME NEW n \in Nat \ {0}, NEW h \in Nat
    PROVE  h % n \in 0 .. n - 1
OBVIOUS

LEMMA SlotsIs ==
    ASSUME NEW n \in Nat \ {0}, NEW ch, DOMAIN ch = 0 .. n - 1
    PROVE  Slots(ch) = n
PROOF
<1>1. Cardinality(0 .. n - 1) = n
  <2>1. PICK a, b : a = 0 /\ b = n - 1 OBVIOUS
  <2>2. a \in Int /\ b \in Int /\ a <= b /\ b - a + 1 = n BY <2>1
  <2>3. Cardinality(a .. b) = IF a > b THEN 0 ELSE b - a + 1 BY <2>2, FS_Interval
  <2> QED BY <2>1, <2>2, <2>3
<1> QED BY <1>1 DEF Slots

\* A head on a chain.
LEMMA ConsAt ==
    ASSUME NEW D, NEW s \in Seq(D), NEW x, NEW r, r = Cons(x, s)
    PROVE  \A j \in DOMAIN r : (j = 1 /\ r[j] = x) \/ \E i \in DOMAIN s : j = i + 1 /\ r[j] = s[i]
PROOF
<1>1. Len(r) = Len(s) + 1 /\ r[1] = x /\ r \in Seq(D \cup {x}) BY DEF Cons
<1>2. \A i \in 1 .. Len(s) : r[i + 1] = s[i] BY DEF Cons
<1>3. Len(s) \in Nat /\ DOMAIN s = 1 .. Len(s) /\ DOMAIN r = 1 .. Len(s) + 1 BY <1>1
<1>4. ASSUME NEW j \in DOMAIN r, j # 1 PROVE \E i \in DOMAIN s : j = i + 1 /\ r[j] = s[i]
  <2>1. PICK i : i = j - 1 OBVIOUS
  <2>2. i \in 1 .. Len(s) /\ i + 1 = j BY <1>3, <1>4, <2>1
  <2>3. r[j] = s[i] BY <1>2, <2>2
  <2> QED BY <1>3, <2>2, <2>3
<1> QED BY <1>1, <1>4

LEMMA ConsIs ==
    ASSUME NEW D, NEW s \in Seq(D), NEW x, NEW r, r = Cons(x, s)
    PROVE  /\ x \in Range(r) /\ Range(s) \subseteq Range(r)
           /\ \A y \in Range(r) : y = x \/ y \in Range(s)
PROOF
<1>1. Len(r) = Len(s) + 1 /\ r[1] = x /\ r \in Seq(D \cup {x}) BY DEF Cons
<1>2. \A i \in 1 .. Len(s) : r[i + 1] = s[i] BY DEF Cons
<1>3. Len(s) \in Nat /\ DOMAIN s = 1 .. Len(s) /\ DOMAIN r = 1 .. Len(s) + 1 BY <1>1
<1>4. ASSUME NEW y \in Range(r) PROVE y = x \/ y \in Range(s)
  <2>1. PICK j \in DOMAIN r : r[j] = y BY <1>4 DEF Range
  <2> QED BY <2>1, ConsAt DEF Range
<1>5. ASSUME NEW i \in DOMAIN s PROVE s[i] \in Range(r)
  <2>1. i + 1 \in DOMAIN r /\ r[i + 1] = s[i] BY <1>2, <1>3
  <2> QED BY <2>1 DEF Range
<1>6. x \in Range(r)
  <2>1. 1 \in DOMAIN r BY <1>3
  <2> QED BY <1>1, <2>1 DEF Range
<1> QED BY <1>1, <1>4, <1>5, <1>6 DEF Range

LEMMA ConsOnce ==
    ASSUME NEW D, NEW s \in Seq(D), IsInjective(s), NEW x, x \notin Range(s),
           NEW r, r = Cons(x, s)
    PROVE  IsInjective(r)
PROOF
<1>1. \A i \in DOMAIN s : s[i] # x BY DEF Range
<1>2. ASSUME NEW j \in DOMAIN r, NEW k \in DOMAIN r, r[j] = r[k] PROVE j = k
  <2>1. (j = 1 /\ r[j] = x) \/ \E i \in DOMAIN s : j = i + 1 /\ r[j] = s[i] BY ConsAt
  <2>2. (k = 1 /\ r[k] = x) \/ \E i \in DOMAIN s : k = i + 1 /\ r[k] = s[i] BY ConsAt
  <2> QED BY <1>1, <1>2, <2>1, <2>2 DEF IsInjective
<1> QED BY <1>2 DEF IsInjective

\* A chain without one of its elements.
LEMMA RemoveFirstIs ==
    ASSUME NEW D, NEW s \in Seq(D), IsInjective(s), NEW x \in Range(s),
           NEW r, r = RemoveFirst(s, x)
    PROVE  r \in Seq(D) /\ Range(r) = Range(s) \ {x} /\ IsInjective(r)
PROOF
<1>1. PICK l : l = Len(s) OBVIOUS
<1>2. l \in Nat /\ DOMAIN s = 1 .. l BY <1>1
<1>3. PICK I : I = {i \in 1 .. l : s[i] = x} OBVIOUS
<1>4. I \subseteq Nat /\ I # {} BY <1>2, <1>3 DEF Range
<1>5. PICK k : k = Min(I) OBVIOUS
<1>6. k \in I
  <2>1. \E i \in I : \A j \in I : i <= j BY <1>4, Least
  <2> QED BY <1>5, <2>1 DEF Min
<1>7. SelectInSeq(s, LAMBDA v : v = x) = k BY <1>1, <1>3, <1>4, <1>5 DEF SelectInSeq
<1>8. r = SubSeq(s, 1, k - 1) \o SubSeq(s, k + 1, l)
  <2>1. \E i \in 1 .. Len(s) : s[i] = x BY <1>1, <1>3, <1>6
  <2>2. r = RemoveAt(s, k) BY <1>7, <2>1 DEF RemoveFirst
  <2> QED BY <1>1, <2>2 DEF RemoveAt
<1>9. k \in 1 .. l /\ s[k] = x BY <1>3, <1>6
<1>10. PICK u, v : u = SubSeq(s, 1, k - 1) /\ v = SubSeq(s, k + 1, l) OBVIOUS
<1>11. u \in Seq(D) /\ Len(u) = k - 1 /\ \A i \in 1 .. k - 1 : u[i] = s[i]
  <2>1. \A i \in 1 .. k - 1 : s[i] \in D BY <1>1, <1>2, <1>9
  <2> QED BY <1>1, <1>2, <1>9, <1>10, <2>1
<1>12. v \in Seq(D) /\ Len(v) = l - k /\ \A i \in 1 .. l - k : v[i] = s[i + k]
  <2>1. \A i \in k + 1 .. l : s[i] \in D BY <1>1, <1>2, <1>9
  <2> QED BY <1>1, <1>2, <1>9, <1>10, <2>1
<1>13. r \in Seq(D) /\ Len(r) = l - 1 BY <1>2, <1>8, <1>9, <1>10, <1>11, <1>12
<1>14. \A i \in 1 .. l - 1 : r[i] = IF i < k THEN s[i] ELSE s[i + 1]
  <2>1. ASSUME NEW i \in 1 .. l - 1, i < k PROVE r[i] = s[i]
    <3>1. i \in 1 .. k - 1 BY <1>2, <1>9, <2>1
    <3>2. r[i] = u[i] BY <1>8, <1>10, <1>11, <1>12, <3>1
    <3> QED BY <1>11, <3>1, <3>2
  <2>2. ASSUME NEW i \in 1 .. l - 1, ~(i < k) PROVE r[i] = s[i + 1]
    <3>1. PICK j : j = i - (k - 1) OBVIOUS
    <3>2. j \in 1 .. l - k /\ j + k = i + 1 /\ i \in Nat /\ i > k - 1 BY <1>2, <1>9, <2>2, <3>1
    <3>3. r = u \o v /\ i \in 1 .. Len(u) + Len(v) /\ i > Len(u) /\ i - Len(u) = j
      BY <1>2, <1>8, <1>9, <1>10, <1>11, <1>12, <3>1, <3>2
    <3>4. r[i] = v[j] BY <1>11, <1>12, <3>3
    <3> QED BY <1>12, <3>2, <3>4
  <2> QED BY <2>1, <2>2
<1>15. DOMAIN r = 1 .. l - 1 BY <1>13
<1>16. Range(r) = Range(s) \ {x}
  <2>1. ASSUME NEW i \in DOMAIN r PROVE r[i] \in Range(s) /\ r[i] # x
    <3>1. PICK j : j = IF i < k THEN i ELSE i + 1 OBVIOUS
    <3>2. j \in 1 .. l /\ j # k BY <1>2, <1>9, <1>15, <3>1
    <3>3. r[i] = s[j] BY <1>14, <1>15, <3>1
    <3>4. s[j] # s[k] BY <1>2, <1>9, <3>2 DEF IsInjective
    <3> QED BY <1>2, <1>9, <3>2, <3>3, <3>4 DEF Range
  <2>2. ASSUME NEW j \in DOMAIN s, s[j] # x PROVE s[j] \in Range(r)
    <3>1. j # k BY <1>9, <2>2
    <3>2. PICK i : i = IF j < k THEN j ELSE j - 1 OBVIOUS
    <3>3. i \in 1 .. l - 1 BY <1>2, <1>9, <3>1, <3>2
    <3>4. r[i] = s[j]
      <4>1. CASE j < k BY <1>2, <1>9, <1>14, <3>2, <3>3, <4>1
      <4>2. CASE ~(j < k)
        <5>1. ~(i < k) /\ i + 1 = j BY <1>2, <1>9, <3>1, <3>2, <4>2
        <5> QED BY <1>14, <3>3, <5>1
      <4> QED BY <4>1, <4>2
    <3> QED BY <1>15, <3>3, <3>4 DEF Range
  <2> QED BY <2>1, <2>2 DEF Range
<1>17. IsInjective(r)
  <2>1. ASSUME NEW i \in DOMAIN r, NEW j \in DOMAIN r, r[i] = r[j] PROVE i = j
    <3>1. PICK a, b : a = (IF i < k THEN i ELSE i + 1) /\ b = (IF j < k THEN j ELSE j + 1) OBVIOUS
    <3>2. a \in DOMAIN s /\ b \in DOMAIN s BY <1>2, <1>9, <1>15, <3>1
    <3>3. s[a] = s[b] BY <1>14, <1>15, <2>1, <3>1
    <3>4. a = b BY <3>2, <3>3 DEF IsInjective
    <3>5. i \in Int /\ j \in Int /\ k \in Int BY <1>9, <1>15
    <3> QED BY <3>1, <3>4, <3>5
  <2> QED BY <2>1 DEF IsInjective
<1> QED BY <1>13, <1>16, <1>17

-----------------------------------------------------------------------------
(* Chains.                                                                 *)

\* Every element of D is on the chain of its hash, once, and nothing else is on one.
Chained(ch, n, D, hash) ==
    /\ n \in Nat \ {0} /\ ch \in [0 .. n - 1 -> Seq(D)]
    /\ \A h \in 0 .. n - 1 : IsInjective(ch[h])
    /\ \A x \in D : hash[x] \in Nat
    /\ \A h \in 0 .. n - 1 : \A x \in D : x \in Range(ch[h]) <=> hash[x] % n = h

LEMMA ChainIs ==
    ASSUME NEW ch, NEW n, NEW D, NEW hash, Chained(ch, n, D, hash), NEW h \in 0 .. n - 1
    PROVE  /\ ch[h] \in Seq(D) /\ IsInjective(ch[h])
           /\ Range(ch[h]) \subseteq D
           /\ Range(ch[h]) = {x \in D : hash[x] % n = h}
PROOF
<1>1. ch[h] \in Seq(D) /\ IsInjective(ch[h]) BY DEF Chained
<1>2. Range(ch[h]) \subseteq D BY <1>1 DEF Range
<1> QED BY <1>1, <1>2 DEF Chained

LEMMA NoneChained ==
    ASSUME NEW n \in Nat \ {0}, NEW hash
    PROVE  Chained(Chains(n), n, {}, hash)
PROOF
<1>1. PICK ch, none : ch = Chains(n) /\ none = {} OBVIOUS
<1>2. ch = [h \in 0 .. n - 1 |-> <<>>] BY <1>1 DEF Chains
<1>3. <<>> \in Seq(none) OBVIOUS
<1>4. ch \in [0 .. n - 1 -> Seq(none)] BY <1>2, <1>3
<1>5. \A h \in 0 .. n - 1 : IsInjective(ch[h]) BY <1>2 DEF IsInjective
<1>6. \A h \in 0 .. n - 1 : \A x \in none : x \in Range(ch[h]) <=> hash[x] % n = h BY <1>1
<1>7. \A x \in none : hash[x] \in Nat BY <1>1
<1>8. Chained(ch, n, none, hash) BY <1>4, <1>5, <1>6, <1>7 DEF Chained
<1> QED BY <1>1, <1>8

LEMMA SameChained ==
    ASSUME NEW ch, NEW n, NEW D, NEW hash, NEW hash2, Chained(ch, n, D, hash),
           \A x \in D : hash2[x] = hash[x]
    PROVE  Chained(ch, n, D, hash2)
BY DEF Chained

\* A new element goes to the head of the chain of its hash.
LEMMA PushChained ==
    ASSUME NEW ch, NEW n, NEW D, NEW hash, Chained(ch, n, D, hash),
           NEW x, x \notin D, hash[x] \in Nat,
           NEW h, h = hash[x] % n,
           NEW c, c = [ch EXCEPT ![h] = Cons(x, ch[h])],
           NEW E, E = D \cup {x}
    PROVE  Chained(c, n, E, hash)
PROOF
<1>1. n \in Nat \ {0} /\ ch \in [0 .. n - 1 -> Seq(D)] BY DEF Chained
<1>2. h \in 0 .. n - 1 BY <1>1, RemainderIs
<1>3. PICK s, r : s = ch[h] /\ r = Cons(x, s) OBVIOUS
<1>4. s \in Seq(D) /\ IsInjective(s) /\ Range(s) \subseteq D BY <1>2, <1>3, ChainIs
<1>5. r \in Seq(E) /\ Range(r) = Range(s) \cup {x} /\ IsInjective(r)
  <2>1. s \in Seq(D) /\ r = Cons(x, s) /\ D \subseteq E /\ x \in E BY <1>3, <1>4
  <2>2. r \in Seq(E) BY <2>1 DEF Cons
  <2>3. /\ x \in Range(r) /\ Range(s) \subseteq Range(r)
        /\ \A y \in Range(r) : y = x \/ y \in Range(s)
    BY ONLY <2>1, ConsIs
  <2>4. IsInjective(r) BY <1>3, <1>4, ConsOnce
  <2> QED BY <2>2, <2>3, <2>4
<1>6. c[h] = r /\ DOMAIN c = 0 .. n - 1 /\ \A g \in 0 .. n - 1 : g # h => c[g] = ch[g]
  BY <1>1, <1>2, <1>3
<1>7. ASSUME NEW g \in 0 .. n - 1
      PROVE  /\ c[g] \in Seq(E) /\ IsInjective(c[g])
             /\ \A y \in E : y \in Range(c[g]) <=> hash[y] % n = g
  <2>1. CASE g = h
    <3>1. c[g] \in Seq(E) /\ IsInjective(c[g]) BY <1>5, <1>6, <2>1
    <3>2. Range(c[g]) = Range(s) \cup {x} BY <1>5, <1>6, <2>1
    <3>3. \A y \in D : y \in Range(s) <=> hash[y] % n = g BY <1>2, <1>3, <2>1 DEF Chained
    <3> QED BY <2>1, <3>1, <3>2, <3>3
  <2>2. CASE g # h
    <3>1. c[g] = ch[g] BY <1>6, <2>2
    <3>2. ch[g] \in Seq(D) /\ IsInjective(ch[g]) /\ Range(ch[g]) \subseteq D BY ChainIs
    <3>3. ch[g] \in Seq(E)
      <4>1. D \subseteq E OBVIOUS
      <4> QED BY <3>2, <4>1
    <3>4. \A y \in D : y \in Range(ch[g]) <=> hash[y] % n = g BY DEF Chained
    <3>5. x \notin Range(ch[g]) BY <3>2
    <3> QED BY <2>2, <3>1, <3>2, <3>3, <3>4, <3>5
  <2> QED BY <2>1, <2>2
<1>8. c \in [0 .. n - 1 -> Seq(E)]
  <2>1. c = [g \in 0 .. n - 1 |-> c[g]] BY <1>1
  <2> QED BY <1>7, <2>1
<1>9. \A y \in E : hash[y] \in Nat BY DEF Chained
<1> QED BY <1>1, <1>7, <1>8, <1>9 DEF Chained

\* An element is taken from its chain.
LEMMA RemoveChained ==
    ASSUME NEW ch, NEW n, NEW D, NEW hash, Chained(ch, n, D, hash),
           NEW x \in D, NEW h, h = hash[x] % n,
           NEW c, c = [ch EXCEPT ![h] = RemoveFirst(ch[h], x)],
           NEW E, E = D \ {x}
    PROVE  Chained(c, n, E, hash)
PROOF
<1>1. n \in Nat \ {0} /\ ch \in [0 .. n - 1 -> Seq(D)] /\ hash[x] \in Nat BY DEF Chained
<1>2. h \in 0 .. n - 1 BY <1>1, RemainderIs
<1>3. PICK s, r : s = ch[h] /\ r = RemoveFirst(s, x) OBVIOUS
<1>4. s \in Seq(D) /\ IsInjective(s) /\ Range(s) \subseteq D BY <1>2, <1>3, ChainIs
<1>5. x \in Range(s) BY <1>2, <1>3 DEF Chained
<1>6. r \in Seq(D) /\ Range(r) = Range(s) \ {x} /\ IsInjective(r)
  BY <1>3, <1>4, <1>5, RemoveFirstIs
<1>7. c[h] = r /\ DOMAIN c = 0 .. n - 1 /\ \A g \in 0 .. n - 1 : g # h => c[g] = ch[g]
  BY <1>1, <1>2, <1>3
<1>8. ASSUME NEW g \in 0 .. n - 1
      PROVE  /\ c[g] \in Seq(D) /\ IsInjective(c[g]) /\ x \notin Range(c[g])
             /\ \A y \in E : y \in Range(c[g]) <=> hash[y] % n = g
  <2>1. CASE g = h
    <3>1. c[g] \in Seq(D) /\ IsInjective(c[g]) BY <1>6, <1>7, <2>1
    <3>2. Range(c[g]) = Range(s) \ {x} BY <1>6, <1>7, <2>1
    <3>3. \A y \in D : y \in Range(s) <=> hash[y] % n = g BY <1>2, <1>3, <2>1 DEF Chained
    <3> QED BY <3>1, <3>2, <3>3
  <2>2. CASE g # h
    <3>1. c[g] = ch[g] BY <1>7, <2>2
    <3>2. ch[g] \in Seq(D) /\ IsInjective(ch[g]) BY ChainIs
    <3>3. \A y \in D : y \in Range(ch[g]) <=> hash[y] % n = g BY DEF Chained
    <3>4. x \notin Range(ch[g]) BY <2>2, <3>3
    <3> QED BY <3>1, <3>2, <3>3, <3>4
  <2> QED BY <2>1, <2>2
<1>9. ASSUME NEW g \in 0 .. n - 1 PROVE c[g] \in Seq(E)
  <2>1. c[g] \in Seq(D) /\ x \notin Range(c[g]) BY <1>8
  <2>2. \A i \in 1 .. Len(c[g]) : c[g][i] \in D /\ c[g][i] \in Range(c[g]) BY <2>1 DEF Range
  <2>3. \A i \in 1 .. Len(c[g]) : c[g][i] \in E BY <2>1, <2>2
  <2> QED BY <2>1, <2>3
<1>10. c \in [0 .. n - 1 -> Seq(E)]
  <2>1. c = [g \in 0 .. n - 1 |-> c[g]] BY <1>1
  <2> QED BY <1>9, <2>1
<1>11. \A y \in E : hash[y] \in Nat BY DEF Chained
<1> QED BY <1>1, <1>8, <1>10, <1>11 DEF Chained

-----------------------------------------------------------------------------
(* Resize of the string table.                                             *)

LEMMA PushedChained ==
    ASSUME NEW ch, NEW n, NEW D, NEW hash, Chained(ch, n, D, hash),
           NEW x, x \notin D, hash[x] \in Nat,
           NEW E, E = D \cup {x}
    PROVE  Chained(Pushed(ch, x, hash[x]), n, E, hash)
PROOF
<1>1. n \in Nat \ {0} /\ DOMAIN ch = 0 .. n - 1 BY DEF Chained
<1>2. Slots(ch) = n BY <1>1, SlotsIs
<1>3. PICK h, c : h = hash[x] % n /\ c = [ch EXCEPT ![h] = Cons(x, ch[h])] OBVIOUS
<1>4. Pushed(ch, x, hash[x]) = c BY <1>2, <1>3 DEF Pushed, Cons
<1>5. Chained(c, n, E, hash) BY <1>3, PushChained
<1> QED BY <1>4, <1>5

\* f[j] are the chains after j steps of the inner loop of Resize, over the chain c.
IsMove(chain, c, strs, m, f) ==
    f = [j \in 0 .. m |-> IF j = 0 THEN chain ELSE Pushed(f[j - 1], c[j], strs[c[j]].hash)]

LEMMA MoveExists ==
    ASSUME NEW chain, NEW c, NEW strs, NEW n \in Nat
    PROVE  \E f : IsMove(chain, c, strs, n, f)
PROOF
<1>1. PICK T : T = {m \in Nat : ~\E f : IsMove(chain, c, strs, m, f)} OBVIOUS
<1>2. SUFFICES ASSUME T # {} PROVE FALSE BY <1>1
<1>3. T \subseteq Nat BY <1>1
<1>4. PICK m \in T : \A y \in T : m <= y BY <1>2, <1>3, Least
<1>5. m \in Nat /\ ~\E f : IsMove(chain, c, strs, m, f) BY <1>1
<1>6. CASE m = 0
  <2>1. PICK f : f = [j \in 0 .. 0 |-> chain] OBVIOUS
  <2>2. \A j \in 0 .. 0 :
           f[j] = IF j = 0 THEN chain ELSE Pushed(f[j - 1], c[j], strs[c[j]].hash)
    BY <2>1
  <2>3. f = [j \in 0 .. 0 |-> f[j]] BY <2>1
  <2>4. IsMove(chain, c, strs, 0, f) BY <2>2, <2>3 DEF IsMove
  <2> QED BY <1>5, <1>6, <2>4
<1>7. CASE m # 0
  <2>1. m - 1 \in Nat /\ m - 1 \notin T BY <1>4, <1>5, <1>7
  <2>2. PICK p : p = m - 1 OBVIOUS
  <2>3. PICK g : IsMove(chain, c, strs, p, g) BY <1>1, <2>1, <2>2
  <2>4. \A j \in 0 .. p :
           g[j] = IF j = 0 THEN chain ELSE Pushed(g[j - 1], c[j], strs[c[j]].hash)
    BY <2>3 DEF IsMove
  <2>5. PICK last : last = Pushed(g[m - 1], c[m], strs[c[m]].hash) OBVIOUS
  <2>6. PICK f : f = [j \in 0 .. m |-> IF j = m THEN last ELSE g[j]] OBVIOUS
  <2>7. \A j \in 0 .. p : f[j] = g[j] /\ j \in 0 .. m BY <1>5, <2>1, <2>2, <2>6
  <2>8. f[m] = last BY <1>5, <2>6
  <2>9. ASSUME NEW j \in 0 .. m
        PROVE  f[j] = IF j = 0 THEN chain ELSE Pushed(f[j - 1], c[j], strs[c[j]].hash)
    <3>1. CASE j = m
      <4>1. m - 1 \in 0 .. p BY <2>1, <2>2
      <4>2. f[m - 1] = g[m - 1] BY <2>7, <4>1
      <4> QED BY <1>7, <2>5, <2>8, <3>1, <4>2
    <3>2. CASE j # m
      <4>1. j \in 0 .. p /\ (j # 0 => j - 1 \in 0 .. p) BY <1>5, <2>1, <2>2, <3>2
      <4>2. f[j] = g[j] /\ (j # 0 => f[j - 1] = g[j - 1]) BY <2>7, <4>1
      <4> QED BY <2>4, <4>1, <4>2
    <3> QED BY <3>1, <3>2
  <2>10. f = [j \in 0 .. m |-> f[j]] BY <2>6
  <2>11. IsMove(chain, c, strs, m, f) BY <2>9, <2>10 DEF IsMove
  <2> QED BY <1>5, <2>11
<1> QED BY <1>6, <1>7

\* The strings of one old chain are added to the new chains.
LEMMA MovedChained ==
    ASSUME NEW ch, NEW n, NEW D, NEW hash, Chained(ch, n, D, hash),
           NEW strs, NEW C, NEW c \in Seq(C), IsInjective(c), Range(c) \cap D = {},
           \A x \in Range(c) : hash[x] \in Nat /\ hash[x] = strs[x].hash,
           NEW E, E = D \cup Range(c)
    PROVE  Chained(Moved(ch, c, strs), n, E, hash)
PROOF
<1>1. PICK l : l = Len(c) OBVIOUS
<1>2. l \in Nat /\ DOMAIN c = 1 .. l BY <1>1
<1>3. PICK f : f = CHOOSE g : IsMove(ch, c, strs, l, g) OBVIOUS
<1>4. IsMove(ch, c, strs, l, f) BY <1>2, <1>3, MoveExists
<1>5. Moved(ch, c, strs) = f[l] BY <1>1, <1>3 DEF Moved, IsMove
<1>6. \A j \in 0 .. l : f[j] = IF j = 0 THEN ch ELSE Pushed(f[j - 1], c[j], strs[c[j]].hash)
  BY <1>4 DEF IsMove
<1> DEFINE Below(j) == {c[i] : i \in 1 .. j}
           Ok(j) == Chained(f[j], n, D \cup Below(j), hash)
<1>7. Ok(0)
  <2>1. 0 \in 0 .. l /\ 1 .. 0 = {} BY <1>2
  <2>2. f[0] = ch BY <1>6, <2>1
  <2>3. D \cup Below(0) = D BY <2>1
  <2> QED BY <2>2, <2>3
<1>8. ASSUME NEW j \in 0 .. l, j # 0, Ok(j - 1) PROVE Ok(j)
  <2>1. PICK p, x : p = j - 1 /\ x = c[j] OBVIOUS
  <2>2. j \in 1 .. l /\ p \in Nat /\ p + 1 = j /\ j \in Nat BY <1>2, <1>8, <2>1
  <2>3. PICK B, b : B = D \cup Below(j) /\ b = D \cup Below(p) OBVIOUS
  <2>4. Below(j) = Below(p) \cup {x}
    <3>1. \A i \in 1 .. j : i = j \/ i \in 1 .. p BY <2>2
    <3>2. \A i \in 1 .. p : i \in 1 .. j BY <2>2
    <3> QED BY <2>1, <2>2, <3>1, <3>2
  <2>5. x \in Range(c) BY <1>2, <2>1, <2>2 DEF Range
  <2>6. x \notin b
    <3>1. x \notin D BY <2>5
    <3>2. ASSUME NEW i \in 1 .. p, c[i] = x PROVE FALSE
      <4>1. i \in DOMAIN c /\ j \in DOMAIN c /\ i # j BY <1>2, <2>2
      <4> QED BY <2>1, <3>2, <4>1 DEF IsInjective
    <3> QED BY <2>3, <3>1, <3>2
  <2>7. PICK g : g = f[p] OBVIOUS
  <2>8. Chained(g, n, b, hash) BY <1>8, <2>1, <2>3, <2>7
  <2>9. hash[x] \in Nat /\ hash[x] = strs[x].hash BY <2>5
  <2>10. B = b \cup {x} BY <2>3, <2>4
  <2>11. Chained(Pushed(g, x, hash[x]), n, B, hash) BY <2>6, <2>8, <2>9, <2>10, PushedChained
  <2>12. f[j] = Pushed(g, x, hash[x]) BY <1>6, <1>8, <2>1, <2>7, <2>9
  <2> QED BY <2>3, <2>11, <2>12
<1> HIDE DEF Ok
<1>9. PICK Bad : Bad = {j \in 0 .. l : ~Ok(j)} OBVIOUS
<1>10. Bad = {}
  <2>1. SUFFICES ASSUME Bad # {} PROVE FALSE OBVIOUS
  <2>2. Bad \subseteq Nat BY <1>9
  <2>3. PICK j \in Bad : \A y \in Bad : j <= y BY <2>1, <2>2, Least
  <2>4. j \in 0 .. l /\ ~Ok(j) BY <1>9
  <2>5. j # 0 BY <1>7, <2>4
  <2>6. j - 1 \notin Bad BY <2>3, <2>4, <2>5
  <2>7. Ok(j - 1) BY <1>2, <1>9, <2>4, <2>5, <2>6
  <2> QED BY <1>8, <2>4, <2>5, <2>7
<1>11. Ok(l)
  <2>1. l \in 0 .. l BY <1>2
  <2> QED BY <1>9, <1>10, <2>1
<1>12. D \cup Below(l) = E BY <1>2 DEF Range
<1> QED BY <1>5, <1>11, <1>12 DEF Ok

\* f[i] are the chains after i steps of the outer loop of Resize.
IsRehash(chain, strs, size, m, f) ==
    f = [i \in 0 .. m |-> IF i = 0 THEN Chains(2 * size) ELSE Moved(f[i - 1], chain[i - 1], strs)]

LEMMA RehashExists ==
    ASSUME NEW chain, NEW strs, NEW size, NEW n \in Nat
    PROVE  \E f : IsRehash(chain, strs, size, n, f)
PROOF
<1>1. PICK T : T = {m \in Nat : ~\E f : IsRehash(chain, strs, size, m, f)} OBVIOUS
<1>2. SUFFICES ASSUME T # {} PROVE FALSE BY <1>1
<1>3. T \subseteq Nat BY <1>1
<1>4. PICK m \in T : \A y \in T : m <= y BY <1>2, <1>3, Least
<1>5. m \in Nat /\ ~\E f : IsRehash(chain, strs, size, m, f) BY <1>1
<1>6. CASE m = 0
  <2>1. PICK f : f = [i \in 0 .. 0 |-> Chains(2 * size)] OBVIOUS
  <2>2. \A i \in 0 .. 0 :
           f[i] = IF i = 0 THEN Chains(2 * size) ELSE Moved(f[i - 1], chain[i - 1], strs)
    BY <2>1
  <2>3. f = [i \in 0 .. 0 |-> f[i]] BY <2>1
  <2>4. IsRehash(chain, strs, size, 0, f) BY <2>2, <2>3 DEF IsRehash
  <2> QED BY <1>5, <1>6, <2>4
<1>7. CASE m # 0
  <2>1. m - 1 \in Nat /\ m - 1 \notin T BY <1>4, <1>5, <1>7
  <2>2. PICK p : p = m - 1 OBVIOUS
  <2>3. PICK g : IsRehash(chain, strs, size, p, g) BY <1>1, <2>1, <2>2
  <2>4. \A i \in 0 .. p :
           g[i] = IF i = 0 THEN Chains(2 * size) ELSE Moved(g[i - 1], chain[i - 1], strs)
    BY <2>3 DEF IsRehash
  <2>5. PICK last : last = Moved(g[m - 1], chain[m - 1], strs) OBVIOUS
  <2>6. PICK f : f = [i \in 0 .. m |-> IF i = m THEN last ELSE g[i]] OBVIOUS
  <2>7. \A i \in 0 .. p : f[i] = g[i] /\ i \in 0 .. m BY <1>5, <2>1, <2>2, <2>6
  <2>8. f[m] = last BY <1>5, <2>6
  <2>9. ASSUME NEW i \in 0 .. m
        PROVE  f[i] = IF i = 0 THEN Chains(2 * size) ELSE Moved(f[i - 1], chain[i - 1], strs)
    <3>1. CASE i = m
      <4>1. m - 1 \in 0 .. p BY <2>1, <2>2
      <4>2. f[m - 1] = g[m - 1] BY <2>7, <4>1
      <4> QED BY <1>7, <2>5, <2>8, <3>1, <4>2
    <3>2. CASE i # m
      <4>1. i \in 0 .. p /\ (i # 0 => i - 1 \in 0 .. p) BY <1>5, <2>1, <2>2, <3>2
      <4>2. f[i] = g[i] /\ (i # 0 => f[i - 1] = g[i - 1]) BY <2>7, <4>1
      <4> QED BY <2>4, <4>1, <4>2
    <3> QED BY <3>1, <3>2
  <2>10. f = [i \in 0 .. m |-> f[i]] BY <2>6
  <2>11. IsRehash(chain, strs, size, m, f) BY <2>9, <2>10 DEF IsRehash
  <2> QED BY <1>5, <2>11
<1> QED BY <1>6, <1>7

\* Resize takes every string along.
LEMMA RehashedChained ==
    ASSUME NEW ch, NEW n, NEW D, NEW hash, Chained(ch, n, D, hash),
           NEW strs, \A x \in D : hash[x] = strs[x].hash,
           NEW N, N = 2 * n
    PROVE  Chained(Rehashed(ch, strs), N, D, hash)
PROOF
<1>1. n \in Nat \ {0} /\ DOMAIN ch = 0 .. n - 1 BY DEF Chained
<1>2. Slots(ch) = n BY <1>1, SlotsIs
<1>3. PICK f : f = CHOOSE g : IsRehash(ch, strs, n, n, g) OBVIOUS
<1>4. n \in Nat BY <1>1
<1>5. IsRehash(ch, strs, n, n, f) BY <1>3, <1>4, RehashExists
<1>6. Rehashed(ch, strs) = f[n] BY <1>2, <1>3 DEF Rehashed, IsRehash
<1>7. \A i \in 0 .. n : f[i] = IF i = 0 THEN Chains(N) ELSE Moved(f[i - 1], ch[i - 1], strs)
  BY <1>5 DEF IsRehash
<1> DEFINE Below(i) == {x \in D : hash[x] % n < i}
           Ok(i) == Chained(f[i], N, Below(i), hash)
<1>8. \A x \in D : hash[x] \in Nat /\ hash[x] % n \in 0 .. n - 1
  <2>1. ASSUME NEW x \in D PROVE hash[x] \in Nat /\ hash[x] % n \in 0 .. n - 1
    <3>1. hash[x] \in Nat BY DEF Chained
    <3> QED BY <1>1, <3>1, RemainderIs
  <2> QED BY <2>1
<1>9. Ok(0)
  <2>1. f[0] = Chains(N) BY <1>4, <1>7
  <2>2. N \in Nat \ {0} BY <1>1
  <2>3. Chained(Chains(N), N, {}, hash) BY <2>2, NoneChained
  <2>4. Below(0) = {} BY <1>1, <1>8
  <2> QED BY <2>1, <2>3, <2>4
<1>10. ASSUME NEW i \in 0 .. n, i # 0, Ok(i - 1) PROVE Ok(i)
  <2>1. PICK p, c : p = i - 1 /\ c = ch[p] OBVIOUS
  <2>2. p \in 0 .. n - 1 /\ p + 1 = i /\ i \in Nat BY <1>1, <1>10, <2>1
  <2>3. c \in Seq(D) /\ IsInjective(c) /\ Range(c) = {x \in D : hash[x] % n = p}
    BY <2>1, <2>2, ChainIs
  <2>4. PICK B, b : B = Below(i) /\ b = Below(p) OBVIOUS
  <2>5. Range(c) \cap b = {} BY <1>8, <2>2, <2>3, <2>4
  <2>6. B = b \cup Range(c)
    <3>1. \A x \in D : hash[x] % n < i <=> hash[x] % n < p \/ hash[x] % n = p
      BY <1>8, <2>2
    <3> QED BY <2>3, <2>4, <3>1
  <2>7. \A x \in Range(c) : hash[x] \in Nat /\ hash[x] = strs[x].hash BY <1>8, <2>3
  <2>8. PICK g : g = f[p] OBVIOUS
  <2>9. Chained(g, N, b, hash) BY <1>10, <2>1, <2>4, <2>8
  <2>10. Chained(Moved(g, c, strs), N, B, hash)
    BY <2>3, <2>5, <2>6, <2>7, <2>9, MovedChained
  <2>11. f[i] = Moved(g, c, strs) BY <1>7, <1>10, <2>1, <2>8
  <2> QED BY <2>4, <2>10, <2>11
<1> HIDE DEF Ok
<1>11. PICK Bad : Bad = {i \in 0 .. n : ~Ok(i)} OBVIOUS
<1>12. Bad = {}
  <2>1. SUFFICES ASSUME Bad # {} PROVE FALSE OBVIOUS
  <2>2. Bad \subseteq Nat BY <1>11
  <2>3. PICK i \in Bad : \A y \in Bad : i <= y BY <2>1, <2>2, Least
  <2>4. i \in 0 .. n /\ ~Ok(i) BY <1>11
  <2>5. i # 0 BY <1>9, <2>4
  <2>6. i - 1 \notin Bad BY <2>3, <2>4, <2>5
  <2>7. Ok(i - 1) BY <1>1, <1>11, <2>4, <2>5, <2>6
  <2> QED BY <1>10, <2>4, <2>5, <2>7
<1>13. Ok(n)
  <2>1. n \in 0 .. n BY <1>1
  <2> QED BY <1>11, <1>12, <2>1
<1>14. Below(n) = D BY <1>1, <1>8
<1> QED BY <1>6, <1>13, <1>14 DEF Ok

-----------------------------------------------------------------------------
(* Hashes.                                                                 *)

\* h[k] is the hash when k characters of a text of length l are behind.
IsHashing(seed, chars, l, step, m, h) ==
    h = [k \in 0 .. m |-> IF k < step THEN seed ELSE Mix(h[k - step], chars[l + step - k])]

LEMMA HashingExists ==
    ASSUME NEW seed, NEW chars, NEW l, NEW step \in Nat \ {0}, NEW n \in Nat
    PROVE  \E h : IsHashing(seed, chars, l, step, n, h)
PROOF
<1>1. PICK T : T = {m \in Nat : ~\E h : IsHashing(seed, chars, l, step, m, h)} OBVIOUS
<1>2. SUFFICES ASSUME T # {} PROVE FALSE BY <1>1
<1>3. T \subseteq Nat BY <1>1
<1>4. PICK m \in T : \A y \in T : m <= y BY <1>2, <1>3, Least
<1>5. m \in Nat /\ ~\E h : IsHashing(seed, chars, l, step, m, h) BY <1>1
<1>6. CASE m = 0
  <2>1. PICK h : h = [k \in 0 .. 0 |-> seed] OBVIOUS
  <2>2. \A k \in 0 .. 0 :
           h[k] = IF k < step THEN seed ELSE Mix(h[k - step], chars[l + step - k])
    BY <2>1
  <2>3. h = [k \in 0 .. 0 |-> h[k]] BY <2>1
  <2>4. IsHashing(seed, chars, l, step, 0, h) BY <2>2, <2>3 DEF IsHashing
  <2> QED BY <1>5, <1>6, <2>4
<1>7. CASE m # 0
  <2>1. m - 1 \in Nat /\ m - 1 \notin T BY <1>4, <1>5, <1>7
  <2>2. PICK p : p = m - 1 OBVIOUS
  <2>3. PICK g : IsHashing(seed, chars, l, step, p, g) BY <1>1, <2>1, <2>2
  <2>4. \A k \in 0 .. p :
           g[k] = IF k < step THEN seed ELSE Mix(g[k - step], chars[l + step - k])
    BY <2>3 DEF IsHashing
  <2>5. PICK last : last = IF m < step THEN seed ELSE Mix(g[m - step], chars[l + step - m]) OBVIOUS
  <2>6. PICK h : h = [k \in 0 .. m |-> IF k = m THEN last ELSE g[k]] OBVIOUS
  <2>7. \A k \in 0 .. p : h[k] = g[k] /\ k \in 0 .. m BY <1>5, <2>1, <2>2, <2>6
  <2>8. h[m] = last BY <1>5, <2>6
  <2>9. ASSUME NEW k \in 0 .. m
        PROVE  h[k] = IF k < step THEN seed ELSE Mix(h[k - step], chars[l + step - k])
    <3>1. CASE k = m
      <4>1. ~(m < step) => m - step \in 0 .. p BY <1>5, <2>1, <2>2
      <4>2. ~(m < step) => h[m - step] = g[m - step] BY <2>7, <4>1
      <4> QED BY <2>5, <2>8, <3>1, <4>2
    <3>2. CASE k # m
      <4>1. k \in 0 .. p /\ (~(k < step) => k - step \in 0 .. p) BY <1>5, <2>1, <2>2, <3>2
      <4>2. h[k] = g[k] /\ (~(k < step) => h[k - step] = g[k - step]) BY <2>7, <4>1
      <4> QED BY <2>4, <4>1, <4>2
    <3> QED BY <3>1, <3>2
  <2>10. h = [k \in 0 .. m |-> h[k]] BY <2>6
  <2>11. IsHashing(seed, chars, l, step, m, h) BY <2>9, <2>10 DEF IsHashing
  <2> QED BY <1>5, <2>11
<1> QED BY <1>6, <1>7

LEMMA MixIs ==
    ASSUME NEW h \in Nat, NEW c \in Nat
    PROVE  Mix(h, c) \in Nat
PROOF
<1>1. PICK q : q = h \div 4 OBVIOUS
<1>2. q \in Nat BY <1>1
<1>3. 33 * h + q + c \in Nat BY <1>2
<1> QED BY <1>1, <1>3 DEF Mix

LEMMA HashedIs ==
    ASSUME NEW seed \in Nat, NEW chars \in Seq(Nat)
    PROVE  Hashed(seed, chars) \in Nat
PROOF
<1>1. PICK l, q, step : l = Len(chars) /\ q = l \div SampledFrom /\ step = q + 1 OBVIOUS
<1>2. l \in Nat BY <1>1
<1>3. q \in Nat BY <1>1, <1>2, BoundsAssumption
<1>4. step \in Nat \ {0} BY <1>1, <1>3
<1>5. PICK h : h = CHOOSE g : IsHashing(seed, chars, l, step, l, g) OBVIOUS
<1>6. IsHashing(seed, chars, l, step, l, h) BY <1>2, <1>4, <1>5, HashingExists
<1>7. PICK e : e = l - (l % step) OBVIOUS
<1>8. Hashed(seed, chars) = h[e] BY <1>1, <1>5, <1>7 DEF Hashed, IsHashing
<1>9. e \in 0 .. l
  <2>1. PICK r : r = l % step OBVIOUS
  <2>2. r \in 0 .. step - 1 BY <1>2, <1>4, <2>1, RemainderIs
  <2>3. CASE l < step BY <1>2, <1>4, <1>7
  <2>4. CASE ~(l < step) BY <1>2, <1>4, <1>7, <2>1, <2>2, <2>4
  <2> QED BY <2>3, <2>4
<1>10. \A k \in 0 .. l : h[k] = IF k < step THEN seed ELSE Mix(h[k - step], chars[l + step - k])
  BY <1>6 DEF IsHashing
<1>11. PICK Bad : Bad = {k \in 0 .. l : h[k] \notin Nat} OBVIOUS
<1>12. Bad = {}
  <2>1. SUFFICES ASSUME Bad # {} PROVE FALSE OBVIOUS
  <2>2. Bad \subseteq Nat BY <1>11
  <2>3. PICK k \in Bad : \A y \in Bad : k <= y BY <2>1, <2>2, Least
  <2>4. k \in 0 .. l /\ h[k] \notin Nat BY <1>11
  <2>5. ~(k < step) BY <1>10, <2>4
  <2>6. PICK j, i : j = k - step /\ i = l + step - k OBVIOUS
  <2>7. j \in 0 .. l /\ j < k /\ i \in 1 .. l BY <1>2, <1>4, <2>4, <2>5, <2>6
  <2>8. j \notin Bad BY <1>2, <2>3, <2>4, <2>7
  <2>9. h[j] \in Nat BY <1>11, <2>7, <2>8
  <2>10. chars[i] \in Nat BY <1>1, <2>7
  <2>11. h[k] = Mix(h[j], chars[i]) BY <1>10, <2>4, <2>5, <2>6
  <2> QED BY <2>4, <2>9, <2>10, <2>11, MixIs
<1> QED BY <1>8, <1>9, <1>11, <1>12

LEMMA HashIs ==
    ASSUME NEW s \in Seq(Nat)
    PROVE  _hashstr(s) \in Nat
PROOF
<1>1. Len(s) \in Nat OBVIOUS
<1> QED BY <1>1, HashedIs DEF _hashstr

\* The hash of a concatenation is that of the string it makes.
LEMMA HashOfConcatenation ==
    ASSUME NEW a \in Seq(Nat), NEW b \in Seq(Nat)
    PROVE  _hashstr2(a, b) = _hashstr(a \o b)
PROOF
<1>1. Len(a) \in Nat /\ Len(b) \in Nat OBVIOUS
<1>2. PICK c, m : c = a \o b /\ m = Len(a) + Len(b) OBVIOUS
<1>3. c \in Seq(Nat) /\ Len(c) = m /\ m \in Nat BY <1>1, <1>2
<1>4. c = [i \in 1 .. m |-> c[i]] BY <1>3
<1>5. \A i \in 1 .. m : c[i] = IF i > Len(a) THEN b[i - Len(a)] ELSE a[i] BY <1>1, <1>2
<1>6. Joined(a, b) = [i \in 1 .. m |-> IF i > Len(a) THEN b[i - Len(a)] ELSE a[i]]
  BY <1>2 DEF Joined
<1>7. Joined(a, b) = c BY <1>4, <1>5, <1>6
<1> QED BY <1>2, <1>3, <1>7 DEF _hashstr, _hashstr2

-----------------------------------------------------------------------------
(* What every operation keeps of the strings.                              *)

LiveIn(strs) == {o \in Objs : strs[o] # None}
HashOf(strs) == [o \in LiveIn(strs) |-> strs[o].hash]

\* No text twice, and every hash the one that the text has.
StringsOk(strs) ==
    /\ strs \in [Objs -> [text : Seq(Nat), hash : Nat] \cup {None}]
    /\ IsFiniteSet(LiveIn(strs))
    /\ \A o \in LiveIn(strs) : strs[o].hash = _hashstr(strs[o].text)
    /\ \A o, p \in LiveIn(strs) : strs[o].text = strs[p].text => o = p

TableOk(t, strs) ==
    /\ t.used = Cardinality(LiveIn(strs))
    /\ \E n : Chained(t.chain, n, LiveIn(strs), HashOf(strs))

HeldOk(refd, strs) ==
    /\ refd \in [Objs -> Nat]
    /\ \A o \in Objs : refd[o] > 0 => o \in LiveIn(strs)

SInv == StringsOk(str) /\ TableOk(table, str) /\ HeldOk(held, str)

LEMMA StringIs ==
    ASSUME NEW strs, StringsOk(strs), NEW o \in LiveIn(strs)
    PROVE  /\ o \in Objs /\ strs[o] \in [text : Seq(Nat), hash : Nat]
           /\ strs[o].text \in Seq(Nat) /\ strs[o].hash \in Nat
           /\ HashOf(strs)[o] = strs[o].hash
BY DEF StringsOk, LiveIn, HashOf

\* The search of Add and Concat misses no string alive.
LEMMA FoundIs ==
    ASSUME SInv, NEW text \in Seq(Nat)
    PROVE  Found(text, _hashstr(text)) = {o \in Live : str[o].text = text}
PROOF
<1>1. PICK L, hash : L = LiveIn(str) /\ hash = HashOf(str) OBVIOUS
<1>2. Live = L BY <1>1 DEF Live, LiveIn
<1>3. PICK n : Chained(table.chain, n, L, hash) BY <1>1 DEF SInv, TableOk
<1>4. n \in Nat \ {0} /\ DOMAIN table.chain = 0 .. n - 1 BY <1>3 DEF Chained
<1>5. Slots(table.chain) = n BY <1>4, SlotsIs
<1>6. PICK k, h : k = _hashstr(text) /\ h = k % n OBVIOUS
<1>7. h \in 0 .. n - 1
  <2>1. k \in Nat BY <1>6, HashIs
  <2> QED BY <1>4, <1>6, <2>1, RemainderIs
<1>8. Range(table.chain[h]) = {o \in L : hash[o] % n = h} BY <1>3, <1>7, ChainIs
<1>9. Found(text, k) = {o \in Range(table.chain[h]) : str[o].text = text}
  BY <1>5, <1>6 DEF Found
<1>10. ASSUME NEW o \in L, str[o].text = text PROVE hash[o] % n = h
  <2>1. str[o].hash = _hashstr(str[o].text) BY <1>1 DEF SInv, StringsOk
  <2>2. hash[o] = str[o].hash BY <1>1 DEF HashOf
  <2> QED BY <1>6, <1>10, <2>1, <2>2
<1> QED BY <1>2, <1>6, <1>8, <1>9, <1>10

\* Every text is one object, and the table holds nothing that was freed.
LEMMA InvInterned == SInv => Interned
PROOF
<1> SUFFICES ASSUME SInv PROVE Interned OBVIOUS
<1>1. Live = LiveIn(str) BY DEF Live, LiveIn
<1>2. ASSUME NEW o \in Live PROVE Found(str[o].text, _hashstr(str[o].text)) = {o}
  <2>1. PICK text : text = str[o].text OBVIOUS
  <2>2. text \in Seq(Nat) BY <1>1, <2>1, StringIs DEF SInv
  <2>3. Found(text, _hashstr(text)) = {p \in Live : str[p].text = text} BY <2>2, FoundIs
  <2>4. \A p \in Live : str[p].text = text => p = o BY <1>1, <2>1 DEF SInv, StringsOk
  <2> QED BY <2>1, <2>3, <2>4
<1>3. ASSUME NEW h \in DOMAIN table.chain PROVE Range(table.chain[h]) \subseteq Live
  <2>1. PICK n : Chained(table.chain, n, LiveIn(str), HashOf(str)) BY DEF SInv, TableOk
  <2>2. h \in 0 .. n - 1 BY <2>1 DEF Chained
  <2> QED BY <1>1, <2>1, <2>2, ChainIs
<1>4. table.used = Cardinality(Live) BY <1>1 DEF SInv, TableOk
<1> QED BY <1>2, <1>3, <1>4 DEF Interned

\* A string goes, and its text may be made again.
LEMMA RemoveKeeps ==
    ASSUME SInv, NEW o \in LiveIn(str), RemoveString(o)
    PROVE  /\ StringsOk(str') /\ TableOk(table', str')
           /\ LiveIn(str') = LiveIn(str) \ {o}
           /\ \A p \in LiveIn(str') : str'[p] = str[p]
PROOF
<1>1. PICK L, hash : L = LiveIn(str) /\ hash = HashOf(str) OBVIOUS
<1>2. PICK strs : strs = [str EXCEPT ![o] = None] OBVIOUS
<1>3. str' = strs BY <1>2 DEF RemoveString
<1>4. str \in [Objs -> [text : Seq(Nat), hash : Nat] \cup {None}] BY DEF SInv, StringsOk
<1>5. /\ strs \in [Objs -> [text : Seq(Nat), hash : Nat] \cup {None}]
      /\ \A p \in Objs : strs[p] = IF p = o THEN None ELSE str[p]
  BY <1>2, <1>4
<1>6. PICK K : K = L \ {o} OBVIOUS
<1>7. LiveIn(strs) = K /\ \A p \in K : strs[p] = str[p] BY <1>1, <1>5, <1>6 DEF LiveIn
<1>8. IsFiniteSet(L) /\ o \in L BY <1>1 DEF SInv, StringsOk
<1>9. IsFiniteSet(K) /\ Cardinality(K) = Cardinality(L) - 1
  BY <1>6, <1>8, FS_RemoveElement
<1>10. StringsOk(strs)
  <2>1. \A p \in K : p \in L BY <1>6
  <2>2. \A p \in K : strs[p].hash = _hashstr(strs[p].text)
    BY <1>1, <1>7, <2>1 DEF SInv, StringsOk
  <2>3. \A p, q \in K : strs[p].text = strs[q].text => p = q
    BY <1>1, <1>7, <2>1 DEF SInv, StringsOk
  <2> QED BY <1>5, <1>7, <1>9, <2>2, <2>3 DEF StringsOk
<1>11. TableOk(table', strs)
  <2>1. PICK n : Chained(table.chain, n, L, hash) BY <1>1 DEF SInv, TableOk
  <2>2. n \in Nat \ {0} /\ DOMAIN table.chain = 0 .. n - 1 BY <2>1 DEF Chained
  <2>3. Slots(table.chain) = n BY <2>2, SlotsIs
  <2>4. hash[o] = str[o].hash BY <1>1 DEF HashOf
  <2>5. PICK ch, h, c : /\ ch = table.chain /\ h = hash[o] % n
                        /\ c = [ch EXCEPT ![h] = RemoveFirst(ch[h], o)]
    OBVIOUS
  <2>6. table'.chain = c /\ table'.used = table.used - 1
    BY <2>3, <2>4, <2>5 DEF RemoveString
  <2>7. Chained(c, n, K, hash) BY <1>6, <1>8, <2>1, <2>5, RemoveChained
  <2>8. \A p \in K : HashOf(strs)[p] = hash[p] BY <1>1, <1>6, <1>7 DEF HashOf
  <2>9. Chained(c, n, K, HashOf(strs)) BY <2>7, <2>8, SameChained
  <2>10. table.used = Cardinality(L) BY <1>1 DEF SInv, TableOk
  <2> QED BY <1>7, <1>9, <2>6, <2>9, <2>10 DEF TableOk
<1> QED BY <1>1, <1>3, <1>6, <1>7, <1>10, <1>11

\* The texts of the strings alive stay, and o is one of those alive.
Grown(old, new, o) ==
    /\ o \in Objs /\ LiveIn(new) = LiveIn(old) \cup {o}
    /\ \A p \in LiveIn(old) : new[p] = old[p]

\* A text that is not in the table is added, one that is gets one more reference.
LEMMA InternKeeps ==
    ASSUME SInv, NEW text \in Seq(Nat), Intern(text, _hashstr(text))
    PROVE  SInv' /\ refs' = refs /\ \E o \in Objs : Grown(str, str', o)
PROOF
<1>1. PICK L, hash, k : L = LiveIn(str) /\ hash = HashOf(str) /\ k = _hashstr(text) OBVIOUS
<1>2. k \in Nat BY <1>1, HashIs
<1>3. Live = L BY <1>1 DEF Live, LiveIn
<1>4. Found(text, k) = {o \in L : str[o].text = text} BY <1>1, <1>3, FoundIs
<1>5. held \in [Objs -> Nat] /\ \A o \in Objs : held[o] > 0 => o \in L
  BY <1>1 DEF SInv, HeldOk
<1>6. CASE \E o \in Found(text, k) :
              held' = [held EXCEPT ![o] = @ + 1] /\ UNCHANGED <<str, table, refs>>
  <2>1. PICK o \in Found(text, k) :
           held' = [held EXCEPT ![o] = @ + 1] /\ UNCHANGED <<str, table, refs>> BY <1>6
  <2>2. o \in L /\ o \in Objs BY <1>1, <1>4 DEF LiveIn
  <2>3. HeldOk(held', str')
    <3>1. held' \in [Objs -> Nat] BY <1>5, <2>1, <2>2
    <3>2. \A p \in Objs : p # o => held'[p] = held[p] BY <1>5, <2>1
    <3>3. LiveIn(str') = L BY <1>1, <2>1
    <3> QED BY <1>5, <2>2, <3>1, <3>2, <3>3 DEF HeldOk
  <2>4. StringsOk(str') /\ TableOk(table', str') BY <2>1 DEF SInv
  <2>5. SInv' BY <2>3, <2>4 DEF SInv
  <2>6. Grown(str, str', o) BY <1>1, <2>1, <2>2 DEF Grown
  <2> QED BY <2>1, <2>2, <2>5, <2>6
<1>7. CASE \E o \in Objs \ Live :
              LET strs == [str EXCEPT ![o] = [text |-> text, hash |-> k]]
                  chain == Pushed(table.chain, o, k)
                  used == table.used + 1
              IN  /\ Found(text, k) = {}
                  /\ str' = strs
                  /\ held' = [held EXCEPT ![o] = 1]
                  /\ table' = [chain |-> IF used > Slots(chain) THEN Rehashed(chain, strs) ELSE chain,
                               used |-> used]
                  /\ UNCHANGED refs
  <2>1. PICK o \in Objs \ Live :
              LET strs == [str EXCEPT ![o] = [text |-> text, hash |-> k]]
                  chain == Pushed(table.chain, o, k)
                  used == table.used + 1
              IN  /\ Found(text, k) = {}
                  /\ str' = strs
                  /\ held' = [held EXCEPT ![o] = 1]
                  /\ table' = [chain |-> IF used > Slots(chain) THEN Rehashed(chain, strs) ELSE chain,
                               used |-> used]
                  /\ UNCHANGED refs
    BY <1>7
  <2>2. PICK new, strs, chain, used :
              /\ new = [text |-> text, hash |-> k] /\ strs = [str EXCEPT ![o] = new]
              /\ chain = Pushed(table.chain, o, k) /\ used = table.used + 1
    OBVIOUS
  <2>3. /\ Found(text, k) = {} /\ str' = strs /\ held' = [held EXCEPT ![o] = 1] /\ refs' = refs
        /\ table' = [chain |-> IF used > Slots(chain) THEN Rehashed(chain, strs) ELSE chain,
                     used |-> used]
    BY <2>1, <2>2
  <2>4. str \in [Objs -> [text : Seq(Nat), hash : Nat] \cup {None}] BY DEF SInv, StringsOk
  <2>5. new \in [text : Seq(Nat), hash : Nat] /\ new # None /\ new.text = text /\ new.hash = k
    BY <1>2, <2>2, NoneAssumption
  <2>6. /\ strs \in [Objs -> [text : Seq(Nat), hash : Nat] \cup {None}]
        /\ \A p \in Objs : strs[p] = IF p = o THEN new ELSE str[p]
    BY <2>2, <2>4, <2>5
  <2>7. PICK K : K = L \cup {o} OBVIOUS
  <2>8. o \in Objs /\ o \notin L BY <1>3, <2>1
  <2>9. LiveIn(strs) = K BY <1>1, <2>5, <2>6, <2>7, <2>8 DEF LiveIn
  <2>10. strs[o] = new /\ \A p \in L : strs[p] = str[p] BY <1>1, <2>6, <2>8 DEF LiveIn
  <2>11. IsFiniteSet(L) BY <1>1 DEF SInv, StringsOk
  <2>12. IsFiniteSet(K) /\ Cardinality(K) = Cardinality(L) + 1
    BY <2>7, <2>8, <2>11, FS_AddElement
  <2>13. StringsOk(strs)
    <3>1. \A p \in K : p = o \/ p \in L BY <2>7
    <3>2. \A p \in L : str[p].hash = _hashstr(str[p].text) /\ str[p].text # text
      BY <1>1, <1>4, <2>3 DEF SInv, StringsOk
    <3>3. \A p, q \in L : str[p].text = str[q].text => p = q BY <1>1 DEF SInv, StringsOk
    <3>4. \A p \in K : strs[p].hash = _hashstr(strs[p].text) BY <1>1, <2>5, <2>10, <3>1, <3>2
    <3>5. \A p, q \in K : strs[p].text = strs[q].text => p = q
      BY <2>5, <2>10, <3>1, <3>2, <3>3
    <3> QED BY <2>6, <2>9, <2>12, <3>4, <3>5 DEF StringsOk
  <2>14. PICK hash2 : hash2 = HashOf(strs) OBVIOUS
  <2>15. hash2[o] = k /\ \A p \in L : hash2[p] = hash[p]
    BY <1>1, <2>5, <2>7, <2>9, <2>10, <2>14 DEF HashOf
  <2>16. PICK n : Chained(table.chain, n, L, hash) BY <1>1 DEF SInv, TableOk
  <2>17. Chained(table.chain, n, L, hash2) BY <2>15, <2>16, SameChained
  <2>18. Chained(Pushed(table.chain, o, hash2[o]), n, K, hash2)
    BY <1>2, <2>7, <2>8, <2>15, <2>17, PushedChained
  <2>19. Chained(chain, n, K, hash2) BY <2>2, <2>15, <2>18
  <2>20. \E m : Chained(table'.chain, m, K, hash2)
    <3>1. CASE used > Slots(chain)
      <4>1. table'.chain = Rehashed(chain, strs) BY <2>3, <3>1
      <4>2. PICK m : m = 2 * n OBVIOUS
      <4>3. \A p \in K : hash2[p] = strs[p].hash BY <2>9, <2>14 DEF HashOf
      <4>4. Chained(Rehashed(chain, strs), m, K, hash2) BY <2>19, <4>2, <4>3, RehashedChained
      <4> QED BY <4>1, <4>4
    <3>2. CASE ~(used > Slots(chain))
      <4>1. table'.chain = chain BY <2>3, <3>2
      <4> QED BY <2>19, <4>1
    <3> QED BY <3>1, <3>2
  <2>21. TableOk(table', strs)
    <3>1. table.used = Cardinality(L) BY <1>1 DEF SInv, TableOk
    <3>2. table'.used = Cardinality(K) BY <2>2, <2>3, <2>12, <3>1
    <3> QED BY <2>9, <2>14, <2>20, <3>2 DEF TableOk
  <2>22. HeldOk(held', strs)
    <3>1. held' \in [Objs -> Nat] BY <1>5, <2>3
    <3>2. \A p \in Objs : p # o => held'[p] = held[p] BY <1>5, <2>3
    <3> QED BY <1>5, <2>7, <2>9, <3>1, <3>2 DEF HeldOk
  <2>23. SInv' BY <2>3, <2>13, <2>21, <2>22 DEF SInv
  <2>24. Grown(str, str', o) BY <1>1, <2>3, <2>7, <2>8, <2>9, <2>10 DEF Grown
  <2> QED BY <2>3, <2>8, <2>23, <2>24
<1>8. Intern(text, k) BY <1>1
<1> QED BY <1>6, <1>7, <1>8 DEF Intern

LEMMA CreateKeeps ==
    ASSUME SInv, NEW text \in Texts, Create(text)
    PROVE  SInv' /\ refs' = refs /\ \E o \in Objs : Grown(str, str', o)
PROOF
<1>1. text \in Seq(Nat) BY TextsAssumption
<1> QED BY <1>1, InternKeeps DEF Create

LEMMA ConcatKeeps ==
    ASSUME SInv, NEW a \in Objs, NEW b \in Objs, Concat(a, b)
    PROVE  SInv' /\ refs' = refs /\ \E o \in Objs : Grown(str, str', o)
PROOF
<1>1. a \in LiveIn(str) /\ b \in LiveIn(str) BY DEF SInv, HeldOk, Concat
<1>2. PICK s, t : s = str[a].text /\ t = str[b].text OBVIOUS
<1>3. s \in Seq(Nat) /\ t \in Seq(Nat) BY <1>1, <1>2, StringIs DEF SInv
<1>4. PICK text : text = s \o t OBVIOUS
<1>5. text \in Seq(Nat) BY <1>3, <1>4
<1>6. _hashstr2(s, t) = _hashstr(text) BY <1>3, <1>4, HashOfConcatenation
<1>7. Intern(text, _hashstr(text)) BY <1>2, <1>4, <1>6 DEF Concat
<1> QED BY <1>5, <1>7, InternKeeps

-----------------------------------------------------------------------------
(* What every operation keeps of the references.                           *)

NodeT == [obj : Objs \cup {None}, count : Nat]
FreeNode == [obj |-> None, count |-> 0]

\* The nodes of an object, and the hashes of their objects.
OccIn(node) == {i \in DOMAIN node : node[i].obj # None}
NodeHash(node, strs) == [i \in OccIn(node) |-> strs[node[i].obj].hash]

\* What the nodes say: a count for each object that has one.
Counts(node) == {<<node[i].obj, node[i].count>> : i \in OccIn(node)}

NodesOk(node, strs) ==
    /\ node \in Seq(NodeT)
    /\ \A i \in OccIn(node) : node[i].obj \in LiveIn(strs) /\ node[i].count > 0
    /\ \A i, j \in OccIn(node) : node[i].obj = node[j].obj => i = j
    /\ \A i \in DOMAIN node : i \in OccIn(node) \/ node[i] = FreeNode

RefsOk(r, strs, n) ==
    /\ n \in Nat \ {0} /\ Len(r.node) = n
    /\ r = [node |-> r.node, bucket |-> r.bucket, free |-> r.free, used |-> r.used]
    /\ NodesOk(r.node, strs)
    /\ Chained(r.bucket, n, OccIn(r.node), NodeHash(r.node, strs))
    /\ r.free \in Seq(1 .. n) /\ IsInjective(r.free)
    /\ Range(r.free) = (1 .. n) \ OccIn(r.node)
    /\ r.used = Cardinality(OccIn(r.node))

RInv == \E n \in Nat : RefsOk(refs, str, n)

\* A sequence without its head.
LEMMA TailIs ==
    ASSUME NEW D, NEW s \in Seq(D), s # <<>>, IsInjective(s), NEW x, x = Head(s),
           NEW t, t = Tail(s)
    PROVE  /\ t \in Seq(D) /\ x \in Range(s)
           /\ IsInjective(t) /\ Range(t) = Range(s) \ {x}
PROOF
<1>1. PICK l : l = Len(s) OBVIOUS
<1>2. l \in Nat \ {0} /\ DOMAIN s = 1 .. l BY <1>1
<1>3. t \in Seq(D) /\ DOMAIN t = 1 .. l - 1 BY <1>1, <1>2
<1>4. \A i \in 1 .. l - 1 : t[i] = s[i + 1] BY <1>1, <1>2
<1>5. s[1] = x /\ 1 \in DOMAIN s BY <1>2
<1>6. \A i \in 1 .. l - 1 : i + 1 \in DOMAIN s /\ i + 1 # 1 BY <1>2
<1>7. IsInjective(t)
  <2>1. ASSUME NEW i \in DOMAIN t, NEW j \in DOMAIN t, t[i] = t[j] PROVE i = j
    <3>1. s[i + 1] = s[j + 1] BY <1>3, <1>4, <2>1
    <3>2. i + 1 = j + 1 BY <1>3, <1>6, <3>1 DEF IsInjective
    <3> QED BY <1>2, <1>3, <3>2
  <2> QED BY <2>1 DEF IsInjective
<1>8. Range(t) = Range(s) \ {x}
  <2>1. ASSUME NEW i \in DOMAIN t PROVE t[i] \in Range(s) /\ t[i] # x
    <3>1. t[i] = s[i + 1] /\ i + 1 \in DOMAIN s /\ i + 1 # 1 BY <1>3, <1>4, <1>6
    <3>2. s[i + 1] # s[1] BY <1>5, <3>1 DEF IsInjective
    <3> QED BY <1>5, <3>1, <3>2 DEF Range
  <2>2. ASSUME NEW j \in DOMAIN s, s[j] # x PROVE s[j] \in Range(t)
    <3>1. PICK i : i = j - 1 OBVIOUS
    <3>2. i \in 1 .. l - 1 /\ i + 1 = j BY <1>2, <1>5, <2>2, <3>1
    <3>3. t[i] = s[j] BY <1>4, <3>2
    <3> QED BY <1>3, <3>2, <3>3 DEF Range
  <2> QED BY <2>1, <2>2 DEF Range
<1>9. x \in Range(s) BY <1>5 DEF Range
<1> QED BY <1>3, <1>7, <1>8, <1>9

LEMMA OccFinite ==
    ASSUME NEW node, NEW n \in Nat, DOMAIN node = 1 .. n
    PROVE  /\ IsFiniteSet(OccIn(node)) /\ OccIn(node) \subseteq 1 .. n
           /\ Cardinality(OccIn(node)) \in Nat
           /\ OccIn(node) = 1 .. n => Cardinality(OccIn(node)) = n
PROOF
<1>1. PICK a, S : a = 1 /\ S = 1 .. n OBVIOUS
<1>2. OccIn(node) \subseteq S BY <1>1 DEF OccIn
<1>3. a \in Int /\ n \in Int BY <1>1
<1>4. IsFiniteSet(a .. n) /\ Cardinality(a .. n) = IF a > n THEN 0 ELSE n - a + 1
  BY <1>3, FS_Interval
<1>5. IsFiniteSet(S) /\ Cardinality(S) = n BY <1>1, <1>4
<1>6. IsFiniteSet(OccIn(node)) BY <1>2, <1>5, FS_Subset
<1> QED BY <1>1, <1>2, <1>5, <1>6, FS_CardinalityType

\* _slotused tells when the free list is empty.
LEMMA FreeIs ==
    ASSUME NEW r, NEW strs, NEW n, RefsOk(r, strs, n), r.used # n
    PROVE  r.free # <<>>
PROOF
<1>1. DOMAIN r.node = 1 .. n /\ n \in Nat BY DEF RefsOk, NodesOk
<1>2. SUFFICES ASSUME r.free = <<>> PROVE FALSE OBVIOUS
<1>3. Range(r.free) = {} BY <1>2 DEF Range
<1>4. OccIn(r.node) = 1 .. n
  <2>1. OccIn(r.node) \subseteq 1 .. n BY <1>1, OccFinite
  <2> QED BY <1>3, <2>1 DEF RefsOk
<1> QED BY <1>1, <1>4, OccFinite DEF RefsOk

LEMMA SetNodeIs ==
    ASSUME NEW node \in Seq(NodeT), NEW i \in DOMAIN node, NEW e \in NodeT,
           NEW new, new = [node EXCEPT ![i] = e]
    PROVE  /\ new \in Seq(NodeT) /\ Len(new) = Len(node) /\ DOMAIN new = DOMAIN node
           /\ new[i] = e /\ \A j \in DOMAIN node : j # i => new[j] = node[j]
PROOF
<1>1. DOMAIN new = DOMAIN node /\ new[i] = e /\ \A j \in DOMAIN node : j # i => new[j] = node[j]
  OBVIOUS
<1>2. DOMAIN node = 1 .. Len(node) /\ Len(node) \in Nat OBVIOUS
<1>3. \A j \in 1 .. Len(node) : new[j] \in NodeT BY <1>1, <1>2
<1>4. new = [j \in 1 .. Len(node) |-> new[j]] BY <1>2
<1>5. new \in Seq(NodeT) BY <1>2, <1>3, <1>4
<1>6. Len(new) = Len(node) BY <1>1, <1>2, <1>5
<1> QED BY <1>1, <1>5, <1>6

LEMMA NodesAre ==
    ASSUME NEW r, NEW strs, NEW n, RefsOk(r, strs, n)
    PROVE  /\ n \in Nat \ {0} /\ Len(r.node) = n /\ DOMAIN r.node = 1 .. n
           /\ r.node \in Seq(NodeT) /\ OccIn(r.node) \subseteq 1 .. n
           /\ \A i \in OccIn(r.node) : /\ r.node[i].obj \in LiveIn(strs) /\ r.node[i].obj \in Objs
                                       /\ r.node[i].count \in Nat /\ r.node[i].count > 0
PROOF
<1>1. n \in Nat \ {0} /\ Len(r.node) = n /\ r.node \in Seq(NodeT) BY DEF RefsOk, NodesOk
<1>2. DOMAIN r.node = 1 .. n BY <1>1
<1>3. OccIn(r.node) \subseteq 1 .. n BY <1>2 DEF OccIn
<1>4. ASSUME NEW i \in OccIn(r.node)
      PROVE  /\ r.node[i].obj \in LiveIn(strs) /\ r.node[i].obj \in Objs
             /\ r.node[i].count \in Nat /\ r.node[i].count > 0
  <2>1. r.node[i] \in NodeT BY <1>1, <1>2, <1>3
  <2>2. r.node[i].obj \in LiveIn(strs) /\ r.node[i].count > 0 BY DEF RefsOk, NodesOk
  <2> QED BY <2>1, <2>2 DEF NodeT, LiveIn
<1> QED BY <1>1, <1>2, <1>3, <1>4

\* A free node takes an object that has none.
LEMMA AddNodeIs ==
    ASSUME StringsOk(str), NEW r, NEW n, RefsOk(r, str, n), r.used # n,
           NEW o \in LiveIn(str), \A i \in OccIn(r.node) : r.node[i].obj # o,
           NEW c \in Nat, c > 0,
           NEW a, a = AddNode(r, o, c)
    PROVE  /\ RefsOk(a, str, n) /\ a.used = r.used + 1
           /\ Counts(a.node) = Counts(r.node) \cup {<<o, c>>}
PROOF
<1>1. /\ n \in Nat \ {0} /\ Len(r.node) = n /\ DOMAIN r.node = 1 .. n
      /\ r.node \in Seq(NodeT) /\ OccIn(r.node) \subseteq 1 .. n
  BY NodesAre
<1>2. PICK node, free, O : node = r.node /\ free = r.free /\ O = OccIn(node) OBVIOUS
<1>3. /\ free \in Seq(1 .. n) /\ IsInjective(free) /\ Range(free) = (1 .. n) \ O
      /\ r.used = Cardinality(O)
  BY <1>2 DEF RefsOk
<1>4. free # <<>> BY <1>2, FreeIs
<1>5. PICK i, t : i = Head(free) /\ t = Tail(free) OBVIOUS
<1>6. t \in Seq(1 .. n) /\ i \in Range(free) /\ IsInjective(t) /\ Range(t) = Range(free) \ {i}
  <2>1. PICK S : S = 1 .. n OBVIOUS
  <2>2. free \in Seq(S) /\ free # <<>> /\ IsInjective(free) BY <1>3, <1>4, <2>1
  <2>3. /\ t \in Seq(S) /\ i \in Range(free)
        /\ IsInjective(t) /\ Range(t) = Range(free) \ {i}
    BY ONLY <1>5, <2>2, TailIs
  <2> QED BY <2>1, <2>3
<1>7. i \in 1 .. n /\ i \notin O BY <1>3, <1>6
<1>8. PICK e, new : e = [obj |-> o, count |-> c] /\ new = [node EXCEPT ![i] = e] OBVIOUS
<1>9. o \in Objs /\ str[o].hash \in Nat BY StringIs
<1>10. e \in NodeT /\ e.obj = o /\ e.count = c /\ o # None
  BY <1>8, <1>9, NoneAssumption DEF NodeT
<1>11. /\ new \in Seq(NodeT) /\ Len(new) = Len(node) /\ DOMAIN new = DOMAIN node
       /\ new[i] = e /\ \A j \in DOMAIN node : j # i => new[j] = node[j]
  BY <1>1, <1>2, <1>7, <1>8, <1>10, SetNodeIs
<1>12. PICK P : P = OccIn(new) OBVIOUS
<1>13. P = O \cup {i} BY <1>1, <1>2, <1>7, <1>10, <1>11, <1>12 DEF OccIn
<1>14. \A j \in O : j \in 1 .. n /\ j # i /\ new[j] = node[j] BY <1>1, <1>2, <1>7, <1>11
<1>15. PICK h, b, bucket :
           h = str[o].hash % n /\ bucket = r.bucket /\ b = [bucket EXCEPT ![h] = Cons(i, bucket[h])]
  OBVIOUS
<1>16. a = [node |-> new, bucket |-> b, free |-> t, used |-> r.used + 1]
  BY <1>1, <1>2, <1>5, <1>8, <1>15 DEF AddNode, MainPos, Cons
<1>17. a.node = new /\ a.bucket = b /\ a.free = t /\ a.used = r.used + 1 BY <1>16
<1>18. NodesOk(new, str)
  <2>1. \A j \in P : new[j].obj \in LiveIn(str) /\ new[j].count > 0
    BY <1>2, <1>10, <1>11, <1>13, <1>14 DEF RefsOk, NodesOk
  <2>2. \A j, k \in O : node[j].obj = node[k].obj => j = k BY <1>2 DEF RefsOk, NodesOk
  <2>3. \A j \in O : node[j].obj # o BY <1>2
  <2>4. \A j, k \in P : new[j].obj = new[k].obj => j = k
    BY <1>10, <1>11, <1>13, <1>14, <2>2, <2>3
  <2>5. \A j \in DOMAIN node : j \in O \/ node[j] = FreeNode BY <1>2 DEF RefsOk, NodesOk
  <2>6. \A j \in DOMAIN new : j \in P \/ new[j] = FreeNode BY <1>11, <1>13, <2>5
  <2> QED BY <1>11, <1>12, <2>1, <2>4, <2>6 DEF NodesOk
<1>19. Chained(b, n, P, NodeHash(new, str))
  <2>1. PICK hash, hash2 : hash = NodeHash(node, str) /\ hash2 = NodeHash(new, str) OBVIOUS
  <2>2. \A j \in O : hash2[j] = hash[j]
    BY <1>2, <1>12, <1>13, <1>14, <2>1 DEF NodeHash
  <2>3. hash2[i] = str[o].hash BY <1>10, <1>11, <1>12, <1>13, <2>1 DEF NodeHash
  <2>4. Chained(bucket, n, O, hash) BY <1>2, <1>15, <2>1 DEF RefsOk
  <2>5. Chained(bucket, n, O, hash2) BY <2>2, <2>4, SameChained
  <2>6. Chained(b, n, P, hash2) BY <1>7, <1>9, <1>13, <1>15, <2>3, <2>5, PushChained
  <2> QED BY <2>1, <2>6
<1>20. Range(t) = (1 .. n) \ P BY <1>3, <1>6, <1>13
<1>21. Cardinality(P) = r.used + 1
  <2>1. IsFiniteSet(O) BY <1>1, <1>2, OccFinite
  <2> QED BY <1>3, <1>7, <1>13, <2>1, FS_AddElement
<1>22. RefsOk(a, str, n)
  BY <1>1, <1>2, <1>6, <1>11, <1>12, <1>16, <1>17, <1>18, <1>19, <1>20, <1>21 DEF RefsOk
<1>23. Counts(new) = Counts(node) \cup {<<o, c>>}
  <2>1. \A j \in O : <<new[j].obj, new[j].count>> = <<node[j].obj, node[j].count>> BY <1>14
  <2>2. <<new[i].obj, new[i].count>> = <<o, c>> BY <1>10, <1>11
  <2>3. Counts(node) = {<<node[j].obj, node[j].count>> : j \in O} BY <1>2 DEF Counts
  <2>4. Counts(new) = {<<new[j].obj, new[j].count>> : j \in P} BY <1>12 DEF Counts
  <2> QED BY <1>13, <2>1, <2>2, <2>3, <2>4
<1> QED BY <1>2, <1>17, <1>22, <1>23

LEMMA AllocIs ==
    ASSUME NEW n \in Nat \ {0}, NEW strs, NEW r, r = AllocNodes(n)
    PROVE  RefsOk(r, strs, n) /\ r.used = 0 /\ Counts(r.node) = {}
PROOF
<1>1. PICK node, free : node = [i \in 1 .. n |-> FreeNode] /\ free = [i \in 1 .. n |-> i] OBVIOUS
<1>2. r = [node |-> node, bucket |-> Chains(n), free |-> free, used |-> 0]
  BY <1>1 DEF AllocNodes, FreeNode
<1>3. r.node = node /\ r.bucket = Chains(n) /\ r.free = free /\ r.used = 0 BY <1>2
<1>4. FreeNode \in NodeT /\ FreeNode.obj = None BY DEF FreeNode, NodeT
<1>5. node \in Seq(NodeT) /\ Len(node) = n /\ DOMAIN node = 1 .. n BY <1>1, <1>4
<1>6. OccIn(node) = {} BY <1>1, <1>4, <1>5 DEF OccIn
<1>7. NodesOk(node, strs) BY <1>1, <1>5, <1>6 DEF NodesOk
<1>8. Chained(Chains(n), n, OccIn(node), NodeHash(node, strs)) BY <1>6, NoneChained
<1>9. free \in Seq(1 .. n) /\ DOMAIN free = 1 .. n BY <1>1
<1>10. IsInjective(free) BY <1>1 DEF IsInjective
<1>11. Range(free) = (1 .. n) \ OccIn(node) BY <1>1, <1>6 DEF Range
<1>12. Cardinality(OccIn(node)) = 0 BY <1>6, FS_EmptySet
<1>13. RefsOk(r, strs, n)
  BY <1>2, <1>3, <1>5, <1>7, <1>8, <1>9, <1>10, <1>11, <1>12 DEF RefsOk
<1>14. Counts(node) = {} BY <1>6 DEF Counts
<1> QED BY <1>3, <1>13, <1>14

\* f[i] are the references after i steps of the loop of Resize.
IsResize(r, size, m, f) ==
    f = [i \in 0 .. m |->
            IF i = 0 THEN AllocNodes(2 * size)
            ELSE IF r.node[i].obj = None THEN f[i - 1]
            ELSE AddNode(f[i - 1], r.node[i].obj, r.node[i].count)]

LEMMA ResizeExists ==
    ASSUME NEW r, NEW size, NEW n \in Nat
    PROVE  \E f : IsResize(r, size, n, f)
PROOF
<1>1. PICK T : T = {m \in Nat : ~\E f : IsResize(r, size, m, f)} OBVIOUS
<1>2. SUFFICES ASSUME T # {} PROVE FALSE BY <1>1
<1>3. T \subseteq Nat BY <1>1
<1>4. PICK m \in T : \A y \in T : m <= y BY <1>2, <1>3, Least
<1>5. m \in Nat /\ ~\E f : IsResize(r, size, m, f) BY <1>1
<1>6. CASE m = 0
  <2>1. PICK f : f = [i \in 0 .. 0 |-> AllocNodes(2 * size)] OBVIOUS
  <2>2. \A i \in 0 .. 0 : f[i] = IF i = 0 THEN AllocNodes(2 * size)
                                 ELSE IF r.node[i].obj = None THEN f[i - 1]
                                 ELSE AddNode(f[i - 1], r.node[i].obj, r.node[i].count)
    BY <2>1
  <2>3. f = [i \in 0 .. 0 |-> f[i]] BY <2>1
  <2>4. IsResize(r, size, 0, f) BY <2>2, <2>3 DEF IsResize
  <2> QED BY <1>5, <1>6, <2>4
<1>7. CASE m # 0
  <2>1. m - 1 \in Nat /\ m - 1 \notin T BY <1>4, <1>5, <1>7
  <2>2. PICK p : p = m - 1 OBVIOUS
  <2>3. PICK g : IsResize(r, size, p, g) BY <1>1, <2>1, <2>2
  <2>4. \A i \in 0 .. p : g[i] = IF i = 0 THEN AllocNodes(2 * size)
                                 ELSE IF r.node[i].obj = None THEN g[i - 1]
                                 ELSE AddNode(g[i - 1], r.node[i].obj, r.node[i].count)
    BY <2>3 DEF IsResize
  <2>5. PICK last : last = IF r.node[m].obj = None THEN g[m - 1]
                           ELSE AddNode(g[m - 1], r.node[m].obj, r.node[m].count)
    OBVIOUS
  <2>6. PICK f : f = [i \in 0 .. m |-> IF i = m THEN last ELSE g[i]] OBVIOUS
  <2>7. \A i \in 0 .. p : f[i] = g[i] /\ i \in 0 .. m BY <1>5, <2>1, <2>2, <2>6
  <2>8. f[m] = last BY <1>5, <2>6
  <2>9. ASSUME NEW i \in 0 .. m
        PROVE  f[i] = IF i = 0 THEN AllocNodes(2 * size)
                      ELSE IF r.node[i].obj = None THEN f[i - 1]
                      ELSE AddNode(f[i - 1], r.node[i].obj, r.node[i].count)
    <3>1. CASE i = m
      <4>1. m - 1 \in 0 .. p BY <2>1, <2>2
      <4>2. f[m - 1] = g[m - 1] BY <2>7, <4>1
      <4> QED BY <1>7, <2>5, <2>8, <3>1, <4>2
    <3>2. CASE i # m
      <4>1. i \in 0 .. p /\ (i # 0 => i - 1 \in 0 .. p) BY <1>5, <2>1, <2>2, <3>2
      <4>2. f[i] = g[i] /\ (i # 0 => f[i - 1] = g[i - 1]) BY <2>7, <4>1
      <4> QED BY <2>4, <4>1, <4>2
    <3> QED BY <3>1, <3>2
  <2>10. f = [i \in 0 .. m |-> f[i]] BY <2>6
  <2>11. IsResize(r, size, m, f) BY <2>9, <2>10 DEF IsResize
  <2> QED BY <1>5, <2>11
<1> QED BY <1>6, <1>7

\* What the first i nodes say.
OccBelow(node, i) == {j \in OccIn(node) : j <= i}
CountsBelow(node, i) == {<<node[j].obj, node[j].count>> : j \in OccBelow(node, i)}

LEMMA CountsStep ==
    ASSUME NEW n \in Nat, NEW node, DOMAIN node = 1 .. n, NEW i \in 1 .. n
    PROVE  /\ node[i].obj = None => CountsBelow(node, i) = CountsBelow(node, i - 1)
           /\ node[i].obj # None =>
                 CountsBelow(node, i) = CountsBelow(node, i - 1) \cup {<<node[i].obj, node[i].count>>}
PROOF
<1>1. \A j \in OccIn(node) : j \in Nat BY DEF OccIn
<1>2. \A j \in OccIn(node) : j <= i <=> j <= i - 1 \/ j = i BY <1>1
<1>3. i \in OccIn(node) <=> node[i].obj # None BY DEF OccIn
<1>4. node[i].obj = None => OccBelow(node, i) = OccBelow(node, i - 1)
  BY <1>2, <1>3 DEF OccBelow
<1>5. node[i].obj # None => OccBelow(node, i) = OccBelow(node, i - 1) \cup {i}
  BY <1>2, <1>3 DEF OccBelow
<1> QED BY <1>4, <1>5 DEF CountsBelow

\* Resize moves every object with its count.
LEMMA ResizedIs ==
    ASSUME StringsOk(str), NEW r, NEW n, RefsOk(r, str, n), NEW N, N = 2 * n,
           NEW a, a = Resized(r)
    PROVE  RefsOk(a, str, N) /\ Counts(a.node) = Counts(r.node) /\ a.used # N
PROOF
<1>1. /\ n \in Nat \ {0} /\ Len(r.node) = n /\ DOMAIN r.node = 1 .. n
      /\ r.node \in Seq(NodeT) /\ OccIn(r.node) \subseteq 1 .. n
      /\ \A i \in OccIn(r.node) : /\ r.node[i].obj \in LiveIn(str) /\ r.node[i].obj \in Objs
                                  /\ r.node[i].count \in Nat /\ r.node[i].count > 0
  BY NodesAre
<1>2. PICK node : node = r.node OBVIOUS
<1>3. PICK f : f = CHOOSE g : IsResize(r, n, n, g) OBVIOUS
<1>4. IsResize(r, n, n, f)
  <2>1. n \in Nat BY <1>1
  <2> QED BY <1>3, <2>1, ResizeExists
<1>5. a = f[n] BY <1>1, <1>3 DEF Resized, IsResize
<1>6. \A i \in 0 .. n : f[i] = IF i = 0 THEN AllocNodes(N)
                               ELSE IF node[i].obj = None THEN f[i - 1]
                               ELSE AddNode(f[i - 1], node[i].obj, node[i].count)
  BY <1>2, <1>4 DEF IsResize
<1> DEFINE Ok(i) == /\ RefsOk(f[i], str, N) /\ f[i].used \in Nat /\ f[i].used <= i
                    /\ Counts(f[i].node) = CountsBelow(node, i)
<1>7. Ok(0)
  <2>1. f[0] = AllocNodes(N) BY <1>1, <1>6
  <2>2. N \in Nat \ {0} BY <1>1
  <2>3. RefsOk(f[0], str, N) /\ f[0].used = 0 /\ Counts(f[0].node) = {}
    BY <2>1, <2>2, AllocIs
  <2>4. OccBelow(node, 0) = {}
    <3>1. \A j \in OccIn(node) : j \in 1 .. n BY <1>1, <1>2
    <3>2. \A j \in 1 .. n : ~(j <= 0) OBVIOUS
    <3> QED BY <3>1, <3>2 DEF OccBelow
  <2>5. CountsBelow(node, 0) = {} BY <2>4 DEF CountsBelow
  <2> QED BY <2>3, <2>5
<1>8. ASSUME NEW i \in 0 .. n, i # 0, Ok(i - 1) PROVE Ok(i)
  <2>1. PICK p, g : p = i - 1 /\ g = f[p] OBVIOUS
  <2>2. i \in 1 .. n /\ p \in Nat /\ p + 1 = i /\ p < n BY <1>1, <1>8, <2>1
  <2>3. /\ RefsOk(g, str, N) /\ g.used \in Nat /\ g.used <= p
        /\ Counts(g.node) = CountsBelow(node, p)
    BY <1>8, <2>1
  <2>4. /\ node[i].obj = None => CountsBelow(node, i) = CountsBelow(node, p)
        /\ node[i].obj # None =>
              CountsBelow(node, i) = CountsBelow(node, p) \cup {<<node[i].obj, node[i].count>>}
    BY <1>1, <1>2, <2>1, <2>2, CountsStep
  <2>5. CASE node[i].obj = None
    <3>1. f[i] = g BY <1>6, <1>8, <2>1, <2>5
    <3>2. CountsBelow(node, i) = CountsBelow(node, p) BY <2>4, <2>5
    <3> QED BY <2>2, <2>3, <3>1, <3>2
  <2>6. CASE node[i].obj # None
    <3>1. PICK o, c, b : o = node[i].obj /\ c = node[i].count /\ b = AddNode(g, o, c) OBVIOUS
    <3>2. f[i] = b BY <1>6, <1>8, <2>1, <2>6, <3>1
    <3>3. i \in OccIn(node) BY <1>1, <1>2, <2>2, <2>6 DEF OccIn
    <3>4. o \in LiveIn(str) /\ c \in Nat /\ c > 0 BY <1>1, <1>2, <3>1, <3>3
    <3>5. g.used # N BY <1>1, <2>2, <2>3
    <3>6. ASSUME NEW j \in OccIn(g.node), g.node[j].obj = o PROVE FALSE
      <4>1. <<g.node[j].obj, g.node[j].count>> \in CountsBelow(node, p)
        BY <2>3 DEF Counts
      <4>2. PICK k \in OccBelow(node, p) : node[k].obj = o BY <3>6, <4>1 DEF CountsBelow
      <4>3. k \in OccIn(node) /\ k <= p BY DEF OccBelow
      <4>4. k = i BY <1>2, <3>1, <3>3, <4>2, <4>3 DEF RefsOk, NodesOk
      <4> QED BY <2>2, <4>3, <4>4
    <3>7. /\ RefsOk(b, str, N) /\ b.used = g.used + 1
          /\ Counts(b.node) = Counts(g.node) \cup {<<o, c>>}
      BY <2>3, <3>1, <3>4, <3>5, <3>6, AddNodeIs
    <3>8. Counts(b.node) = CountsBelow(node, i) BY <2>3, <2>4, <2>6, <3>1, <3>7
    <3>9. b.used \in Nat /\ b.used <= i BY <2>2, <2>3, <3>7
    <3> QED BY <3>2, <3>7, <3>8, <3>9
  <2> QED BY <2>5, <2>6
<1> HIDE DEF Ok
<1>9. PICK Bad : Bad = {i \in 0 .. n : ~Ok(i)} OBVIOUS
<1>10. Bad = {}
  <2>1. SUFFICES ASSUME Bad # {} PROVE FALSE OBVIOUS
  <2>2. Bad \subseteq Nat BY <1>9
  <2>3. PICK i \in Bad : \A y \in Bad : i <= y BY <2>1, <2>2, Least
  <2>4. i \in 0 .. n /\ ~Ok(i) BY <1>9
  <2>5. i # 0 BY <1>7, <2>4
  <2>6. i - 1 \notin Bad BY <2>3, <2>4, <2>5
  <2>7. Ok(i - 1) BY <1>1, <1>9, <2>4, <2>5, <2>6
  <2> QED BY <1>8, <2>4, <2>5, <2>7
<1>11. Ok(n)
  <2>1. n \in 0 .. n BY <1>1
  <2> QED BY <1>9, <1>10, <2>1
<1>12. CountsBelow(node, n) = Counts(node)
  <2>1. \A j \in OccIn(node) : j \in 1 .. n BY <1>1, <1>2
  <2>2. \A j \in 1 .. n : j <= n OBVIOUS
  <2>3. OccBelow(node, n) = OccIn(node) BY <2>1, <2>2 DEF OccBelow
  <2> QED BY <2>3 DEF CountsBelow, Counts
<1>13. /\ RefsOk(f[n], str, N) /\ f[n].used \in Nat /\ f[n].used <= n
       /\ Counts(f[n].node) = CountsBelow(node, n)
  BY <1>11 DEF Ok
<1>14. f[n].used # N BY <1>1, <1>13
<1> QED BY <1>2, <1>5, <1>12, <1>13, <1>14

-----------------------------------------------------------------------------
(* The count of an object.                                                 *)

Tally(C, o) == IF \E c \in Nat : <<o, c>> \in C THEN CHOOSE c \in Nat : <<o, c>> \in C ELSE 0

LEMMA TallySame ==
    ASSUME NEW C, NEW D, NEW o, \A c \in Nat : <<o, c>> \in C <=> <<o, c>> \in D
    PROVE  Tally(C, o) = Tally(D, o)
PROOF
<1>1. (CHOOSE c \in Nat : <<o, c>> \in C) = (CHOOSE c \in Nat : <<o, c>> \in D) OBVIOUS
<1>2. (\E c \in Nat : <<o, c>> \in C) <=> (\E c \in Nat : <<o, c>> \in D) OBVIOUS
<1> QED BY <1>1, <1>2 DEF Tally

LEMMA TallyAt ==
    ASSUME NEW r, NEW strs, NEW n, RefsOk(r, strs, n)
    PROVE  /\ \A i \in OccIn(r.node) : Tally(Counts(r.node), r.node[i].obj) = r.node[i].count
           /\ \A o : (\A i \in OccIn(r.node) : r.node[i].obj # o) => Tally(Counts(r.node), o) = 0
PROOF
<1>1. PICK node, C : node = r.node /\ C = Counts(r.node) OBVIOUS
<1>2. C = {<<node[i].obj, node[i].count>> : i \in OccIn(node)} BY <1>1 DEF Counts
<1>3. \A i \in OccIn(node) : node[i].count \in Nat BY <1>1, NodesAre
<1>4. \A i, j \in OccIn(node) : node[i].obj = node[j].obj => i = j BY <1>1 DEF RefsOk, NodesOk
<1>5. ASSUME NEW i \in OccIn(node) PROVE Tally(C, node[i].obj) = node[i].count
  <2>1. PICK o, c : o = node[i].obj /\ c = node[i].count OBVIOUS
  <2>2. c \in Nat /\ <<o, c>> \in C BY <1>2, <1>3, <2>1
  <2>3. ASSUME NEW d \in Nat, <<o, d>> \in C PROVE d = c
    <3>1. PICK j \in OccIn(node) : node[j].obj = o /\ node[j].count = d BY <1>2, <2>3
    <3> QED BY <1>4, <2>1, <3>1
  <2>4. (CHOOSE d \in Nat : <<o, d>> \in C) = c BY <2>2, <2>3
  <2> QED BY <2>1, <2>2, <2>4 DEF Tally
<1>6. ASSUME NEW o, \A i \in OccIn(node) : node[i].obj # o PROVE Tally(C, o) = 0
  <2>1. \A c \in Nat : <<o, c>> \notin C BY <1>2, <1>6
  <2> QED BY <2>1 DEF Tally
<1> QED BY <1>1, <1>5, <1>6

\* A step at one node does not touch the count of an object that it never has.
LEMMA OtherTally ==
    ASSUME NEW node, NEW new, DOMAIN new = DOMAIN node,
           NEW i, \A j \in DOMAIN node : j # i => new[j] = node[j],
           NEW o, o # None, node[i].obj # o, new[i].obj # o
    PROVE  Tally(Counts(new), o) = Tally(Counts(node), o)
PROOF
<1>1. ASSUME NEW c \in Nat, <<o, c>> \in Counts(new) PROVE <<o, c>> \in Counts(node)
  <2>1. PICK j \in OccIn(new) : new[j].obj = o /\ new[j].count = c BY <1>1 DEF Counts
  <2>2. j \in DOMAIN node /\ new[j] = node[j] BY <2>1 DEF OccIn
  <2>3. j \in OccIn(node) BY <2>1, <2>2 DEF OccIn
  <2> QED BY <2>1, <2>2, <2>3 DEF Counts
<1>2. ASSUME NEW c \in Nat, <<o, c>> \in Counts(node) PROVE <<o, c>> \in Counts(new)
  <2>1. PICK j \in OccIn(node) : node[j].obj = o /\ node[j].count = c BY <1>2 DEF Counts
  <2>2. j \in DOMAIN node /\ new[j] = node[j] BY <2>1 DEF OccIn
  <2>3. j \in OccIn(new) BY <2>1, <2>2 DEF OccIn
  <2> QED BY <2>1, <2>2, <2>3 DEF Counts
<1> QED BY <1>1, <1>2, TallySame

\* The search of RefTable::Get.
NodesIn(r, strs, o) == {n \in Range(r.bucket[strs[o].hash % Len(r.node)]) : r.node[n].obj = o}

LEMMA NodesInIs ==
    ASSUME NEW strs, StringsOk(strs), NEW r, NEW n, RefsOk(r, strs, n), NEW o \in LiveIn(strs)
    PROVE  NodesIn(r, strs, o) = {i \in OccIn(r.node) : r.node[i].obj = o}
PROOF
<1>1. n \in Nat \ {0} /\ Len(r.node) = n BY NodesAre
<1>2. PICK O, hash, h : /\ O = OccIn(r.node) /\ hash = NodeHash(r.node, strs)
                        /\ h = strs[o].hash % n
  OBVIOUS
<1>3. h \in 0 .. n - 1
  <2>1. strs[o].hash \in Nat BY StringIs
  <2> QED BY <1>1, <1>2, <2>1, RemainderIs
<1>4. Chained(r.bucket, n, O, hash) BY <1>2 DEF RefsOk
<1>5. Range(r.bucket[h]) = {i \in O : hash[i] % n = h} BY <1>3, <1>4, ChainIs
<1>6. \A i \in O : r.node[i].obj = o => hash[i] % n = h BY <1>2 DEF NodeHash
<1>7. NodesIn(r, strs, o) = {i \in Range(r.bucket[h]) : r.node[i].obj = o}
  BY <1>1, <1>2 DEF NodesIn
<1> QED BY <1>2, <1>5, <1>6, <1>7

\* RefTable::GetRefCount
RefCount(r, strs, o) ==
    IF NodesIn(r, strs, o) = {} THEN 0 ELSE r.node[CHOOSE n \in NodesIn(r, strs, o) : TRUE].count

LEMMA RefCountIs ==
    ASSUME NEW strs, StringsOk(strs), NEW r, NEW n, RefsOk(r, strs, n), NEW o
    PROVE  (IF o \in LiveIn(strs) THEN RefCount(r, strs, o) ELSE 0) = Tally(Counts(r.node), o)
PROOF
<1>1. CASE o \notin LiveIn(strs)
  <2>1. \A i \in OccIn(r.node) : r.node[i].obj # o BY <1>1, NodesAre
  <2> QED BY <1>1, <2>1, TallyAt
<1>2. CASE o \in LiveIn(strs)
  <2>1. PICK M : M = NodesIn(r, strs, o) OBVIOUS
  <2>2. M = {i \in OccIn(r.node) : r.node[i].obj = o} BY <1>2, <2>1, NodesInIs
  <2>3. CASE M = {}
    <3>1. \A i \in OccIn(r.node) : r.node[i].obj # o BY <2>2, <2>3
    <3>2. Tally(Counts(r.node), o) = 0 BY <3>1, TallyAt
    <3> QED BY <1>2, <2>1, <2>3, <3>2 DEF RefCount
  <2>4. CASE M # {}
    <3>1. PICK i : i = CHOOSE m \in M : TRUE OBVIOUS
    <3>2. i \in M BY <2>4, <3>1
    <3>3. i \in OccIn(r.node) /\ r.node[i].obj = o BY <2>2, <3>2
    <3>4. Tally(Counts(r.node), o) = r.node[i].count BY <3>3, TallyAt
    <3> QED BY <1>2, <2>1, <2>4, <3>1, <3>4 DEF RefCount
  <2> QED BY <2>3, <2>4
<1> QED BY <1>1, <1>2

\* The count that the host asks for is the one that the nodes say.
LEMMA HostCountIs ==
    ASSUME SInv, RInv, NEW o
    PROVE  (IF o \in Live THEN GetRefCount(o) ELSE 0) = Tally(Counts(refs.node), o)
PROOF
<1>1. PICK n \in Nat : RefsOk(refs, str, n) BY DEF RInv
<1>2. StringsOk(str) BY DEF SInv
<1>3. (IF o \in LiveIn(str) THEN RefCount(refs, str, o) ELSE 0) = Tally(Counts(refs.node), o)
  BY <1>1, <1>2, RefCountIs
<1>4. Live = LiveIn(str) BY DEF Live, LiveIn
<1>5. GetRefCount(o) = RefCount(refs, str, o)
  BY DEF GetRefCount, RefCount, Nodes, NodesIn, MainPos
<1> QED BY <1>3, <1>4, <1>5

LEMMA HostCountNext ==
    ASSUME SInv', RInv', NEW o
    PROVE  (IF o \in Live THEN GetRefCount(o) ELSE 0)' = Tally(Counts(refs'.node), o)
PROOF
<1>1. PICK n \in Nat : RefsOk(refs', str', n) BY DEF RInv
<1>2. StringsOk(str') BY DEF SInv
<1>3. (IF o \in LiveIn(str') THEN RefCount(refs', str', o) ELSE 0) = Tally(Counts(refs'.node), o)
  BY <1>1, <1>2, RefCountIs
<1>4. Live' = LiveIn(str') BY DEF Live, LiveIn
<1>5. GetRefCount(o)' = RefCount(refs', str', o)
  BY DEF GetRefCount, RefCount, Nodes, NodesIn, MainPos
<1> QED BY <1>3, <1>4, <1>5

-----------------------------------------------------------------------------
(* The operations on references.                                           *)

LEMMA SameRefs ==
    ASSUME NEW r, NEW strs, NEW n, RefsOk(r, strs, n), NEW new,
           \A i \in OccIn(r.node) :
              r.node[i].obj \in LiveIn(new) /\ new[r.node[i].obj] = strs[r.node[i].obj]
    PROVE  RefsOk(r, new, n)
PROOF
<1>1. NodesOk(r.node, new) BY DEF RefsOk, NodesOk
<1>2. \A i \in OccIn(r.node) : NodeHash(r.node, new)[i] = NodeHash(r.node, strs)[i]
  BY DEF NodeHash
<1>3. Chained(r.bucket, n, OccIn(r.node), NodeHash(r.node, strs)) BY DEF RefsOk
<1>4. Chained(r.bucket, n, OccIn(r.node), NodeHash(r.node, new)) BY <1>2, <1>3, SameChained
<1> QED BY <1>1, <1>4 DEF RefsOk

SetCount(r, i, c) == [r EXCEPT !.node[i].count = c]

\* A node gets another count.
LEMMA CountedIs ==
    ASSUME NEW r, NEW strs, NEW n, RefsOk(r, strs, n), NEW i \in OccIn(r.node),
           NEW c \in Nat, c > 0,
           NEW a, a = SetCount(r, i, c),
           NEW o, o = r.node[i].obj
    PROVE  /\ RefsOk(a, strs, n) /\ Tally(Counts(a.node), o) = c
           /\ \A p \in Objs : p # o => Tally(Counts(a.node), p) = Tally(Counts(r.node), p)
PROOF
<1>1. /\ n \in Nat \ {0} /\ Len(r.node) = n /\ DOMAIN r.node = 1 .. n
      /\ r.node \in Seq(NodeT) /\ OccIn(r.node) \subseteq 1 .. n /\ o \in LiveIn(strs) /\ o \in Objs
  BY NodesAre
<1>2. PICK node, O, bucket, free, used :
        /\ node = r.node /\ O = OccIn(node)
        /\ bucket = r.bucket /\ free = r.free /\ used = r.used
  OBVIOUS
<1>3. r = [node |-> node, bucket |-> bucket, free |-> free, used |-> used] BY <1>2 DEF RefsOk
<1>4. PICK old, e, new : /\ old = node[i] /\ e = [obj |-> o, count |-> c]
                         /\ new = [node EXCEPT ![i] = e]
  OBVIOUS
<1>5. i \in DOMAIN node /\ old \in NodeT /\ o # None BY <1>1, <1>2, <1>4, NoneAssumption
<1>6. e \in NodeT /\ e.obj = o /\ e.count = c BY <1>1, <1>4 DEF NodeT
<1>7. [old EXCEPT !.count = c] = e
  <2>1. old = [obj |-> o, count |-> old.count] BY <1>2, <1>4, <1>5 DEF NodeT
  <2> QED BY <1>4, <2>1
<1>8. a = [node |-> new, bucket |-> bucket, free |-> free, used |-> used]
  <2>1. [node EXCEPT ![i].count = c] = new BY <1>4, <1>5, <1>7
  <2> QED BY <1>3, <2>1 DEF SetCount
<1>9. a.node = new /\ a.bucket = bucket /\ a.free = free /\ a.used = used BY <1>8
<1>10. /\ new \in Seq(NodeT) /\ Len(new) = Len(node) /\ DOMAIN new = DOMAIN node
       /\ new[i] = e /\ \A j \in DOMAIN node : j # i => new[j] = node[j]
  BY <1>1, <1>2, <1>4, <1>5, <1>6, SetNodeIs
<1>11. OccIn(new) = O BY <1>2, <1>5, <1>6, <1>10 DEF OccIn
<1>12. \A j \in O : j \in DOMAIN node /\ new[j].obj = node[j].obj
  <2>1. \A j \in O : j \in DOMAIN node BY <1>1, <1>2
  <2> QED BY <1>2, <1>6, <1>10, <2>1
<1>13. NodesOk(new, strs)
  <2>1. \A j \in O : new[j].obj \in LiveIn(strs) /\ new[j].count > 0
    <3>1. ASSUME NEW j \in O PROVE new[j].count > 0
      <4>1. CASE j = i BY <1>6, <1>10, <4>1
      <4>2. CASE j # i
        <5>1. new[j] = node[j] BY <1>10, <1>12, <4>2
        <5> QED BY <1>2, <5>1 DEF RefsOk, NodesOk
      <4> QED BY <4>1, <4>2
    <3>2. \A j \in O : node[j].obj \in LiveIn(strs) BY <1>2 DEF RefsOk, NodesOk
    <3> QED BY <1>12, <3>1, <3>2
  <2>2. \A j, k \in O : new[j].obj = new[k].obj => j = k BY <1>2, <1>12 DEF RefsOk, NodesOk
  <2>3. \A j \in DOMAIN new : j \in O \/ new[j] = FreeNode BY <1>2, <1>10 DEF RefsOk, NodesOk
  <2> QED BY <1>10, <1>11, <2>1, <2>2, <2>3 DEF NodesOk
<1>14. Chained(bucket, n, O, NodeHash(new, strs))
  <2>1. \A j \in O : NodeHash(new, strs)[j] = NodeHash(node, strs)[j]
    BY <1>2, <1>11, <1>12 DEF NodeHash
  <2>2. Chained(bucket, n, O, NodeHash(node, strs)) BY <1>2 DEF RefsOk
  <2> QED BY <2>1, <2>2, SameChained
<1>15. /\ free \in Seq(1 .. n) /\ IsInjective(free) /\ Range(free) = (1 .. n) \ O
       /\ used = Cardinality(O)
  BY <1>2 DEF RefsOk
<1>16. RefsOk(a, strs, n)
  BY <1>1, <1>2, <1>8, <1>9, <1>10, <1>11, <1>13, <1>14, <1>15 DEF RefsOk
<1>17. Tally(Counts(a.node), o) = c
  <2>1. i \in OccIn(a.node) /\ a.node[i].obj = o /\ a.node[i].count = c
    BY <1>2, <1>6, <1>9, <1>10, <1>11
  <2> QED BY <1>16, <2>1, TallyAt
<1>18. ASSUME NEW p \in Objs, p # o PROVE Tally(Counts(new), p) = Tally(Counts(node), p)
  <2>1. p # None /\ node[i].obj # p /\ new[i].obj # p
    BY <1>2, <1>6, <1>10, <1>18, NoneAssumption
  <2> QED BY <1>10, <2>1, OtherTally
<1> QED BY <1>2, <1>9, <1>16, <1>17, <1>18

\* The node of o is free again.
LEMMA UnlinkedIs ==
    ASSUME StringsOk(str), NEW n, RefsOk(refs, str, n), NEW i \in OccIn(refs.node),
           NEW o, o = refs.node[i].obj, NEW a, a = Unlinked(o, i)
    PROVE  /\ RefsOk(a, str, n) /\ Tally(Counts(a.node), o) = 0
           /\ \A j \in OccIn(a.node) : a.node[j].obj # o
           /\ \A p \in Objs : p # o => Tally(Counts(a.node), p) = Tally(Counts(refs.node), p)
PROOF
<1>1. /\ n \in Nat \ {0} /\ Len(refs.node) = n /\ DOMAIN refs.node = 1 .. n
      /\ refs.node \in Seq(NodeT) /\ OccIn(refs.node) \subseteq 1 .. n
      /\ o \in LiveIn(str) /\ o \in Objs
  BY NodesAre
<1>2. PICK node, O, bucket, free : /\ node = refs.node /\ O = OccIn(node)
                                   /\ bucket = refs.bucket /\ free = refs.free
  OBVIOUS
<1>3. PICK new, P, t : /\ new = [node EXCEPT ![i] = FreeNode] /\ P = OccIn(new)
                       /\ t = Cons(i, free)
  OBVIOUS
<1>4. FreeNode \in NodeT /\ FreeNode.obj = None BY DEF FreeNode, NodeT
<1>5. i \in DOMAIN node BY <1>1, <1>2
<1>6. /\ new \in Seq(NodeT) /\ Len(new) = Len(node) /\ DOMAIN new = DOMAIN node
      /\ new[i] = FreeNode /\ \A j \in DOMAIN node : j # i => new[j] = node[j]
  BY <1>1, <1>2, <1>3, <1>4, <1>5, SetNodeIs
<1>7. P = O \ {i} BY <1>2, <1>3, <1>4, <1>5, <1>6 DEF OccIn
<1>8. \A j \in P : j \in O /\ j \in DOMAIN node /\ j # i /\ new[j] = node[j]
  <2>1. \A j \in O : j \in DOMAIN node BY <1>1, <1>2
  <2> QED BY <1>6, <1>7, <2>1
<1>9. PICK h, b : h = str[o].hash % n /\ b = [bucket EXCEPT ![h] = RemoveFirst(bucket[h], i)]
  OBVIOUS
<1>10. a = [node |-> new, bucket |-> b, free |-> t, used |-> refs.used - 1]
  BY <1>1, <1>2, <1>3, <1>9 DEF Unlinked, MainPos, Cons, FreeNode
<1>11. a.node = new /\ a.bucket = b /\ a.free = t /\ a.used = refs.used - 1 BY <1>10
<1>12. NodesOk(new, str)
  <2>1. \A j \in P : new[j].obj \in LiveIn(str) /\ new[j].count > 0
    BY <1>2, <1>8 DEF RefsOk, NodesOk
  <2>2. \A j, k \in P : new[j].obj = new[k].obj => j = k BY <1>2, <1>8 DEF RefsOk, NodesOk
  <2>3. \A j \in DOMAIN node : j \in O \/ node[j] = FreeNode BY <1>2 DEF RefsOk, NodesOk
  <2>4. \A j \in DOMAIN new : j \in P \/ new[j] = FreeNode BY <1>6, <1>7, <2>3
  <2> QED BY <1>3, <1>6, <2>1, <2>2, <2>4 DEF NodesOk
<1>13. Chained(b, n, P, NodeHash(new, str))
  <2>1. PICK hash, hash2 : hash = NodeHash(node, str) /\ hash2 = NodeHash(new, str) OBVIOUS
  <2>2. \A j \in P : hash2[j] = hash[j] BY <1>2, <1>3, <1>8, <2>1 DEF NodeHash
  <2>3. i \in O /\ hash[i] = str[o].hash BY <1>2, <2>1 DEF NodeHash
  <2>4. Chained(bucket, n, O, hash) BY <1>2, <2>1 DEF RefsOk
  <2>5. h = hash[i] % n BY <1>9, <2>3
  <2>6. Chained(b, n, P, hash) BY <1>7, <1>9, <2>3, <2>4, <2>5, RemoveChained
  <2>7. Chained(b, n, P, hash2) BY <2>2, <2>6, SameChained
  <2> QED BY <2>1, <2>7
<1>14. free \in Seq(1 .. n) /\ IsInjective(free) /\ Range(free) = (1 .. n) \ O
  BY <1>2 DEF RefsOk
<1>15. t \in Seq(1 .. n) /\ IsInjective(t) /\ Range(t) = (1 .. n) \ P
  <2>1. PICK S : S = 1 .. n OBVIOUS
  <2>2. free \in Seq(S) /\ i \in S /\ i \in O BY <1>1, <1>2, <1>14, <2>1
  <2>3. t \in Seq(S) BY <1>3, <2>2 DEF Cons
  <2>4. i \notin Range(free) BY <1>14, <2>2
  <2>5. IsInjective(t) BY <1>3, <1>14, <2>2, <2>4, ConsOnce
  <2>6. /\ i \in Range(t) /\ Range(free) \subseteq Range(t)
        /\ \A y \in Range(t) : y = i \/ y \in Range(free)
    BY ONLY <1>3, <2>2, ConsIs
  <2>7. Range(t) = (1 .. n) \ P BY <1>7, <1>14, <2>1, <2>2, <2>6
  <2> QED BY <2>1, <2>3, <2>5, <2>7
<1>16. Cardinality(P) = refs.used - 1
  <2>1. IsFiniteSet(O) /\ i \in O /\ refs.used = Cardinality(O) BY <1>1, <1>2, OccFinite DEF RefsOk
  <2> QED BY <1>7, <2>1, FS_RemoveElement
<1>17. RefsOk(a, str, n)
  BY <1>1, <1>2, <1>3, <1>6, <1>10, <1>11, <1>12, <1>13, <1>15, <1>16 DEF RefsOk
<1>18. \A j \in P : new[j].obj # o
  <2>1. \A j \in O : node[j].obj = node[i].obj => j = i BY <1>2 DEF RefsOk, NodesOk
  <2> QED BY <1>2, <1>8, <2>1
<1>19. \A j \in OccIn(a.node) : a.node[j].obj # o BY <1>3, <1>11, <1>18
<1>20. Tally(Counts(a.node), o) = 0 BY <1>17, <1>19, TallyAt
<1>21. ASSUME NEW p \in Objs, p # o PROVE Tally(Counts(new), p) = Tally(Counts(node), p)
  <2>1. p # None /\ node[i].obj # p /\ new[i].obj # p BY <1>2, <1>4, <1>6, <1>21, NoneAssumption
  <2> QED BY <1>6, <2>1, OtherTally
<1> QED BY <1>2, <1>11, <1>17, <1>19, <1>20, <1>21

LEMMA AddRefIs ==
    ASSUME SInv, RInv, NEW o \in Objs, AddRef(o)
    PROVE  /\ SInv' /\ RInv' /\ o \in LiveIn(str) /\ str' = str
           /\ Tally(Counts(refs'.node), o) = Tally(Counts(refs.node), o) + 1
           /\ \A p \in Objs : p # o => Tally(Counts(refs'.node), p) = Tally(Counts(refs.node), p)
PROOF
<1>1. PICK n \in Nat : RefsOk(refs, str, n) BY DEF RInv
<1>2. StringsOk(str) BY DEF SInv
<1>3. o \in LiveIn(str) /\ str' = str /\ held' = held /\ table' = table
  BY DEF AddRef, Live, LiveIn
<1>4. SInv' BY <1>3 DEF SInv
<1>5. PICK O, M : O = OccIn(refs.node) /\ M = Nodes(refs, o) OBVIOUS
<1>6. M = {i \in O : refs.node[i].obj = o}
  <2>1. NodesIn(refs, str, o) = {i \in O : refs.node[i].obj = o} BY <1>1, <1>2, <1>3, <1>5, NodesInIs
  <2> QED BY <1>5, <2>1 DEF Nodes, NodesIn, MainPos
<1>7. CASE \E i \in M : refs' = [refs EXCEPT !.node[i].count = @ + 1]
  <2>1. PICK i \in M : refs' = [refs EXCEPT !.node[i].count = @ + 1] BY <1>7
  <2>2. i \in O /\ o = refs.node[i].obj BY <1>6
  <2>3. PICK old, c : old = refs.node[i].count /\ c = old + 1 OBVIOUS
  <2>4. old \in Nat BY <1>1, <1>5, <2>2, <2>3, NodesAre
  <2>5. c \in Nat /\ c > 0 BY <2>3, <2>4
  <2>6. PICK a : a = SetCount(refs, i, c) OBVIOUS
  <2>7. /\ RefsOk(refs', str, n) /\ Tally(Counts(refs'.node), o) = c
        /\ \A p \in Objs : p # o => Tally(Counts(refs'.node), p) = Tally(Counts(refs.node), p)
    <3>1. /\ RefsOk(a, str, n) /\ Tally(Counts(a.node), o) = c
          /\ \A p \in Objs : p # o => Tally(Counts(a.node), p) = Tally(Counts(refs.node), p)
      BY <1>1, <1>5, <2>2, <2>5, <2>6, CountedIs
    <3>2. refs' = a BY <2>1, <2>3, <2>6 DEF SetCount
    <3> QED BY <3>1, <3>2
  <2>8. Tally(Counts(refs.node), o) = old BY <1>1, <1>5, <2>2, <2>3, TallyAt
  <2>9. RInv' BY <1>3, <2>7 DEF RInv
  <2> QED BY <1>3, <1>4, <2>3, <2>7, <2>8, <2>9
<1>8. CASE /\ M = {}
           /\ refs' = AddNode(IF Len(refs.node) = refs.used THEN Resized(refs) ELSE refs, o, 1)
  <2>1. \A i \in O : refs.node[i].obj # o BY <1>6, <1>8
  <2>2. PICK r : r = IF Len(refs.node) = refs.used THEN Resized(refs) ELSE refs OBVIOUS
  <2>3. PICK m \in Nat : /\ RefsOk(r, str, m) /\ r.used # m
                         /\ Counts(r.node) = Counts(refs.node)
    <3>1. n = Len(refs.node) BY <1>1, NodesAre
    <3>2. CASE Len(refs.node) = refs.used
      <4>1. PICK m, a : m = 2 * n /\ a = Resized(refs) OBVIOUS
      <4>2. RefsOk(a, str, m) /\ Counts(a.node) = Counts(refs.node) /\ a.used # m
        BY <1>1, <1>2, <4>1, ResizedIs
      <4>3. r = a /\ m \in Nat BY <2>2, <3>2, <4>1
      <4> QED BY <4>2, <4>3
    <3>3. CASE Len(refs.node) # refs.used
      <4>1. r = refs BY <2>2, <3>3
      <4> QED BY <1>1, <3>1, <3>3, <4>1
    <3> QED BY <3>2, <3>3
  <2>4. \A i \in OccIn(r.node) : r.node[i].obj # o
    <3>1. ASSUME NEW i \in OccIn(r.node), r.node[i].obj = o PROVE FALSE
      <4>1. <<r.node[i].obj, r.node[i].count>> \in Counts(refs.node) BY <2>3 DEF Counts
      <4>2. \E j \in O : refs.node[j].obj = o BY <1>5, <3>1, <4>1 DEF Counts
      <4> QED BY <2>1, <4>2
    <3> QED BY <3>1
  <2>5. PICK one, a : one = 1 /\ a = AddNode(r, o, one) OBVIOUS
  <2>6. one \in Nat /\ one > 0 /\ refs' = a BY <1>8, <2>2, <2>5
  <2>7. /\ RefsOk(a, str, m)
        /\ Counts(a.node) = Counts(r.node) \cup {<<o, one>>}
    BY <1>2, <1>3, <2>3, <2>4, <2>5, <2>6, AddNodeIs
  <2>8. Tally(Counts(a.node), o) = one
    <3>1. <<o, one>> \in Counts(a.node) BY <2>7
    <3>2. PICK i \in OccIn(a.node) : a.node[i].obj = o /\ a.node[i].count = one
      BY <3>1 DEF Counts
    <3> QED BY <2>7, <3>2, TallyAt
  <2>9. Tally(Counts(refs.node), o) = 0 BY <1>1, <1>5, <2>1, TallyAt
  <2>10. ASSUME NEW p \in Objs, p # o
         PROVE  Tally(Counts(a.node), p) = Tally(Counts(refs.node), p)
    <3>1. \A c \in Nat : <<p, c>> \in Counts(a.node) <=> <<p, c>> \in Counts(refs.node)
      BY <2>3, <2>7, <2>10
    <3> QED BY <3>1, TallySame
  <2>11. RInv' BY <1>3, <2>6, <2>7 DEF RInv
  <2> QED BY <1>3, <1>4, <2>5, <2>6, <2>8, <2>9, <2>10, <2>11
<1> QED BY <1>5, <1>7, <1>8 DEF AddRef

LEMMA ReleaseIs ==
    ASSUME SInv, RInv, NEW o \in Objs, Release(o)
    PROVE  /\ SInv' /\ RInv'
           /\ Tally(Counts(refs.node), o) > 0
           /\ Tally(Counts(refs'.node), o) = Tally(Counts(refs.node), o) - 1
           /\ \A p \in Objs : p # o => Tally(Counts(refs'.node), p) = Tally(Counts(refs.node), p)
           /\ \/ LiveIn(str') = LiveIn(str)
              \/ Tally(Counts(refs.node), o) = 1 /\ LiveIn(str') = LiveIn(str) \ {o}
PROOF
<1>1. PICK n \in Nat : RefsOk(refs, str, n) BY DEF RInv
<1>2. StringsOk(str) BY DEF SInv
<1>3. o \in LiveIn(str) /\ held' = held BY DEF Release, Live, LiveIn
<1>4. PICK O, M : O = OccIn(refs.node) /\ M = Nodes(refs, o) OBVIOUS
<1>5. M = {i \in O : refs.node[i].obj = o}
  <2>1. NodesIn(refs, str, o) = {i \in O : refs.node[i].obj = o} BY <1>1, <1>2, <1>3, <1>4, NodesInIs
  <2> QED BY <1>4, <2>1 DEF Nodes, NodesIn, MainPos
<1>6. PICK i \in M :
          \/ /\ refs.node[i].count > 1
             /\ refs' = [refs EXCEPT !.node[i].count = @ - 1]
             /\ UNCHANGED <<str, table>>
          \/ /\ refs.node[i].count = 1
             /\ refs' = Unlinked(o, i)
             /\ IF held[o] = 0 THEN RemoveString(o) ELSE UNCHANGED <<str, table>>
  BY <1>4 DEF Release
<1>7. i \in O /\ o = refs.node[i].obj BY <1>5
<1>8. PICK old : old = refs.node[i].count OBVIOUS
<1>9. old \in Nat /\ old > 0 BY <1>1, <1>4, <1>7, <1>8, NodesAre
<1>10. Tally(Counts(refs.node), o) = old BY <1>1, <1>4, <1>7, <1>8, TallyAt
<1>11. CASE old > 1
  <2>1. refs' = [refs EXCEPT !.node[i].count = @ - 1] /\ str' = str /\ table' = table
    BY <1>6, <1>8, <1>11
  <2>2. PICK c : c = old - 1 OBVIOUS
  <2>3. c \in Nat /\ c > 0 BY <1>9, <1>11, <2>2
  <2>4. PICK a : a = SetCount(refs, i, c) OBVIOUS
  <2>5. /\ RefsOk(refs', str, n) /\ Tally(Counts(refs'.node), o) = c
        /\ \A p \in Objs : p # o => Tally(Counts(refs'.node), p) = Tally(Counts(refs.node), p)
    <3>1. /\ RefsOk(a, str, n) /\ Tally(Counts(a.node), o) = c
          /\ \A p \in Objs : p # o => Tally(Counts(a.node), p) = Tally(Counts(refs.node), p)
      BY <1>1, <1>4, <1>7, <2>3, <2>4, CountedIs
    <3>2. refs' = a BY <1>8, <2>1, <2>2, <2>4 DEF SetCount
    <3> QED BY <3>1, <3>2
  <2>6. SInv' BY <1>3, <2>1 DEF SInv
  <2>7. RInv' BY <2>1, <2>5 DEF RInv
  <2> QED BY <1>9, <1>10, <2>1, <2>2, <2>5, <2>6, <2>7
<1>12. CASE old = 1
  <2>1. refs' = Unlinked(o, i) /\ IF held[o] = 0 THEN RemoveString(o) ELSE UNCHANGED <<str, table>>
    BY <1>6, <1>8, <1>12
  <2>2. /\ RefsOk(refs', str, n) /\ Tally(Counts(refs'.node), o) = 0
        /\ \A j \in OccIn(refs'.node) : refs'.node[j].obj # o
        /\ \A p \in Objs : p # o => Tally(Counts(refs'.node), p) = Tally(Counts(refs.node), p)
    BY <1>1, <1>2, <1>4, <1>7, <2>1, UnlinkedIs
  <2>3. CASE held[o] = 0
    <3>1. RemoveString(o) BY <2>1, <2>3
    <3>2. /\ StringsOk(str') /\ TableOk(table', str')
          /\ LiveIn(str') = LiveIn(str) \ {o}
          /\ \A p \in LiveIn(str') : str'[p] = str[p]
      BY <1>3, <3>1, RemoveKeeps
    <3>3. HeldOk(held', str') BY <1>3, <2>3, <3>2 DEF SInv, HeldOk
    <3>4. SInv' BY <3>2, <3>3 DEF SInv
    <3>5. \A j \in OccIn(refs'.node) : refs'.node[j].obj \in LiveIn(str) BY <2>2, NodesAre
    <3>6. \A j \in OccIn(refs'.node) : /\ refs'.node[j].obj \in LiveIn(str')
                                       /\ str'[refs'.node[j].obj] = str[refs'.node[j].obj]
      BY <2>2, <3>2, <3>5
    <3>7. RefsOk(refs', str', n) BY <2>2, <3>6, SameRefs
    <3>8. RInv' BY <3>7 DEF RInv
    <3> QED BY <1>10, <1>12, <2>2, <3>2, <3>4, <3>8
  <2>4. CASE held[o] # 0
    <3>1. str' = str /\ table' = table BY <2>1, <2>4
    <3>2. SInv' BY <1>3, <3>1 DEF SInv
    <3>3. RInv' BY <2>2, <3>1 DEF RInv
    <3> QED BY <1>10, <1>12, <2>2, <3>1, <3>2, <3>3
  <2> QED BY <2>3, <2>4
<1> QED BY <1>9, <1>11, <1>12

LEMMA DropIs ==
    ASSUME SInv, RInv, NEW o \in Objs, Drop(o)
    PROVE  /\ SInv' /\ RInv' /\ refs' = refs
           /\ \/ LiveIn(str') = LiveIn(str)
              \/ Tally(Counts(refs.node), o) = 0 /\ LiveIn(str') = LiveIn(str) \ {o}
PROOF
<1>1. PICK n \in Nat : RefsOk(refs, str, n) BY DEF RInv
<1>2. /\ held[o] > 0 /\ held' = [held EXCEPT ![o] = @ - 1] /\ refs' = refs
      /\ IF held[o] = 1 /\ \A i \in DOMAIN refs.node : refs.node[i].obj # o
         THEN RemoveString(o) ELSE UNCHANGED <<str, table>>
  BY DEF Drop
<1>3. held \in [Objs -> Nat] /\ \A p \in Objs : held[p] > 0 => p \in LiveIn(str)
  BY DEF SInv, HeldOk
<1>4. o \in LiveIn(str) BY <1>2, <1>3
<1>5. /\ held' \in [Objs -> Nat] /\ held'[o] = held[o] - 1
      /\ \A p \in Objs : p # o => held'[p] = held[p]
  BY <1>2, <1>3
<1>6. CASE held[o] = 1 /\ \A i \in DOMAIN refs.node : refs.node[i].obj # o
  <2>1. RemoveString(o) BY <1>2, <1>6
  <2>2. /\ StringsOk(str') /\ TableOk(table', str')
        /\ LiveIn(str') = LiveIn(str) \ {o}
        /\ \A p \in LiveIn(str') : str'[p] = str[p]
    BY <1>4, <2>1, RemoveKeeps
  <2>3. HeldOk(held', str')
    <3>1. \A p \in Objs : held'[p] > 0 => p \in LiveIn(str')
      <4>1. ASSUME NEW p \in Objs, held'[p] > 0 PROVE p \in LiveIn(str) /\ p # o
        <5>1. CASE p = o BY <1>5, <1>6, <4>1, <5>1
        <5>2. CASE p # o BY <1>3, <1>5, <4>1, <5>2
        <5> QED BY <5>1, <5>2
      <4> QED BY <2>2, <4>1
    <3> QED BY <1>5, <3>1 DEF HeldOk
  <2>4. SInv' BY <2>2, <2>3 DEF SInv
  <2>5. \A j \in OccIn(refs.node) : refs.node[j].obj # o BY <1>6 DEF OccIn
  <2>6. \A j \in OccIn(refs.node) : refs.node[j].obj \in LiveIn(str) BY <1>1, NodesAre
  <2>7. \A j \in OccIn(refs.node) : /\ refs.node[j].obj \in LiveIn(str')
                                    /\ str'[refs.node[j].obj] = str[refs.node[j].obj]
    BY <2>2, <2>5, <2>6
  <2>8. RefsOk(refs, str', n) BY <1>1, <2>7, SameRefs
  <2>9. RInv' BY <1>2, <2>8 DEF RInv
  <2>10. Tally(Counts(refs.node), o) = 0 BY <1>1, <2>5, TallyAt
  <2> QED BY <1>2, <2>2, <2>4, <2>9, <2>10
<1>7. CASE ~(held[o] = 1 /\ \A i \in DOMAIN refs.node : refs.node[i].obj # o)
  <2>1. str' = str /\ table' = table BY <1>2, <1>7
  <2>2. \A p \in Objs : held'[p] > 0 => p \in LiveIn(str) BY <1>3, <1>4, <1>5
  <2>3. HeldOk(held', str') BY <1>5, <2>1, <2>2 DEF HeldOk
  <2>4. SInv' BY <2>1, <2>3 DEF SInv
  <2>5. RInv' BY <1>1, <1>2, <2>1 DEF RInv
  <2> QED BY <1>2, <2>1, <2>4, <2>5
<1> QED BY <1>6, <1>7

\* A string that is made does not disturb the references.
LEMMA GrownKeeps ==
    ASSUME RInv, refs' = refs, NEW o \in Objs, Grown(str, str', o)
    PROVE  RInv'
PROOF
<1>1. PICK n \in Nat : RefsOk(refs, str, n) BY DEF RInv
<1>2. \A j \in OccIn(refs.node) : refs.node[j].obj \in LiveIn(str) BY <1>1, NodesAre
<1>3. \A j \in OccIn(refs.node) : /\ refs.node[j].obj \in LiveIn(str')
                                  /\ str'[refs.node[j].obj] = str[refs.node[j].obj]
  BY <1>2 DEF Grown
<1>4. RefsOk(refs, str', n) BY <1>1, <1>3, SameRefs
<1> QED BY <1>4 DEF RInv

-----------------------------------------------------------------------------
(* The theorems.                                                           *)

\* The inductive invariant: both tables are chains over the hashes of what is alive,
\* no text is there twice, and every node of the references is chained or free.
IInv == SInv /\ RInv

LEMMA InitOk == Init => IInv /\ Live = {} /\ Counts(refs.node) = {}
PROOF
<1> SUFFICES ASSUME Init PROVE IInv /\ Live = {} /\ Counts(refs.node) = {} OBVIOUS
<1>1. PICK n : n = InitSlots OBVIOUS
<1>2. n \in Nat \ {0} BY <1>1, BoundsAssumption
<1>3. str = [o \in Objs |-> None] /\ held = [o \in Objs |-> 0] BY DEF Init
<1>4. LiveIn(str) = {} /\ Live = {} BY <1>3 DEF LiveIn, Live
<1>5. StringsOk(str)
  <2>1. str \in [Objs -> [text : Seq(Nat), hash : Nat] \cup {None}] BY <1>3
  <2>2. IsFiniteSet({}) BY FS_EmptySet
  <2> QED BY <1>4, <2>1, <2>2 DEF StringsOk
<1>6. TableOk(table, str)
  <2>1. table.chain = Chains(n) /\ table.used = 0 BY <1>1 DEF Init
  <2>2. Cardinality({}) = 0 BY FS_EmptySet
  <2>3. Chained(Chains(n), n, {}, HashOf(str)) BY <1>2, NoneChained
  <2> QED BY <1>4, <2>1, <2>2, <2>3 DEF TableOk
<1>7. HeldOk(held, str) BY <1>3 DEF HeldOk
<1>8. refs = AllocNodes(n) BY <1>1 DEF Init
<1>9. RefsOk(refs, str, n) /\ Counts(refs.node) = {}
  <2>1. PICK r : r = AllocNodes(n) OBVIOUS
  <2>2. RefsOk(r, str, n) /\ Counts(r.node) = {} BY <1>2, <2>1, AllocIs
  <2> QED BY <1>8, <2>1, <2>2
<1> QED BY <1>2, <1>4, <1>5, <1>6, <1>7, <1>9 DEF IInv, SInv, RInv

LEMMA StepKeeps == IInv /\ [Next]_vars => IInv'
PROOF
<1> SUFFICES ASSUME IInv, [Next]_vars PROVE IInv' OBVIOUS
<1>1. SInv /\ RInv BY DEF IInv
<1>2. ASSUME NEW text \in Texts, Create(text) PROVE IInv'
  BY <1>1, <1>2, CreateKeeps, GrownKeeps DEF IInv
<1>3. ASSUME NEW a \in Objs, NEW b \in Objs, Concat(a, b) PROVE IInv'
  BY <1>1, <1>3, ConcatKeeps, GrownKeeps DEF IInv
<1>4. ASSUME NEW o \in Objs, AddRef(o) PROVE IInv' BY <1>1, <1>4, AddRefIs DEF IInv
<1>5. ASSUME NEW o \in Objs, Release(o) PROVE IInv' BY <1>1, <1>5, ReleaseIs DEF IInv
<1>6. ASSUME NEW o \in Objs, Drop(o) PROVE IInv' BY <1>1, <1>6, DropIs DEF IInv
<1>7. CASE UNCHANGED vars BY <1>1, <1>7 DEF vars, IInv, SInv, RInv
<1> QED BY <1>2, <1>3, <1>4, <1>5, <1>6, <1>7 DEF Next

\* What every step keeps: the chains and counts of both tables.
THEOREM StringsInvariant == Spec => []IInv
PROOF
<1>1. Init => IInv BY InitOk
<1> QED BY <1>1, StepKeeps, PTL DEF Spec

\* A text is one object however it is made, and the string table finds that object after
\* any number of strings made, freed and rehashed.
THEOREM StringsAreInterned == Spec => []Interned
PROOF
<1>1. IInv => Interned BY InvInterned DEF IInv
<1> QED BY <1>1, StringsInvariant, PTL

LEMMA InvNodes == IInv => NodesPartitioned
PROOF
<1> SUFFICES ASSUME IInv PROVE NodesPartitioned OBVIOUS
<1>1. PICK n \in Nat : RefsOk(refs, str, n) BY DEF IInv, RInv
<1>2. PICK node, bucket, free, O : /\ node = refs.node /\ bucket = refs.bucket
                                   /\ free = refs.free /\ O = OccIn(refs.node)
  OBVIOUS
<1>3. /\ n \in Nat \ {0} /\ DOMAIN node = 1 .. n /\ O \subseteq 1 .. n
      /\ \A i \in O : /\ node[i].obj \in Objs /\ node[i].count > 0
  BY <1>1, <1>2, NodesAre
<1>4. PICK hash : hash = NodeHash(node, str) OBVIOUS
<1>5. Chained(bucket, n, O, hash) BY <1>1, <1>2, <1>4 DEF RefsOk
<1>6. DOMAIN bucket = 0 .. n - 1 BY <1>5 DEF Chained
<1>7. \A h \in 0 .. n - 1 : /\ IsInjective(bucket[h])
                            /\ Range(bucket[h]) = {x \in O : hash[x] % n = h}
  BY <1>5, ChainIs
<1>8. PICK chained : chained = UNION {Range(bucket[h]) : h \in DOMAIN bucket} OBVIOUS
<1>9. chained = O
  <2>1. \A x \in chained : x \in O BY <1>6, <1>7, <1>8
  <2>2. ASSUME NEW x \in O PROVE x \in chained
    <3>1. hash[x] \in Nat BY <1>5 DEF Chained
    <3>2. PICK h : h = hash[x] % n OBVIOUS
    <3>3. h \in 0 .. n - 1 BY <1>3, <3>1, <3>2, RemainderIs
    <3>4. x \in Range(bucket[h]) BY <1>7, <3>2, <3>3
    <3> QED BY <1>6, <1>8, <3>3, <3>4
  <2> QED BY <2>1, <2>2
<1>10. \A g, h \in DOMAIN bucket : g # h => Range(bucket[g]) \cap Range(bucket[h]) = {}
  BY <1>6, <1>7
<1>11. IsInjective(free) /\ Range(free) = (1 .. n) \ O BY <1>1, <1>2 DEF RefsOk
<1>12. chained \cap Range(free) = {} /\ chained \cup Range(free) = DOMAIN node
  BY <1>3, <1>9, <1>11
<1>13. refs.used = Cardinality(chained) BY <1>1, <1>2, <1>9 DEF RefsOk
<1>14. \A i \in chained : node[i].count > 0 /\ node[i].obj # None
  BY <1>3, <1>9, NoneAssumption
<1>15. \A i \in Range(free) : node[i] = [obj |-> None, count |-> 0]
  <2>1. \A i \in 1 .. n : i \in O \/ node[i] = FreeNode BY <1>1, <1>2, <1>3 DEF RefsOk, NodesOk
  <2>2. \A i \in Range(free) : i \in 1 .. n /\ i \notin O BY <1>11
  <2>3. \A i \in Range(free) : node[i] = FreeNode BY <2>1, <2>2
  <2> QED BY <2>3 DEF FreeNode
<1>16. \A h \in DOMAIN bucket : IsInjective(bucket[h]) BY <1>6, <1>7
<1>17. /\ \A h \in DOMAIN refs.bucket : IsInjective(refs.bucket[h])
       /\ \A g, h \in DOMAIN refs.bucket :
            g # h => Range(refs.bucket[g]) \cap Range(refs.bucket[h]) = {}
       /\ IsInjective(refs.free)
  BY ONLY <1>2, <1>10, <1>11, <1>16
<1>18. /\ chained \cap Range(refs.free) = {}
       /\ chained \cup Range(refs.free) = DOMAIN refs.node
       /\ \A i \in chained : refs.node[i].count > 0 /\ refs.node[i].obj # None
       /\ \A i \in Range(refs.free) : refs.node[i] = [obj |-> None, count |-> 0]
  BY ONLY <1>2, <1>12, <1>14, <1>15
<1>19. chained = UNION {Range(refs.bucket[h]) : h \in DOMAIN refs.bucket} BY ONLY <1>2, <1>8
<1> QED BY ONLY <1>13, <1>17, <1>18, <1>19, ZenonT(60) DEF NodesPartitioned

\* No node of the references is lost, used twice or freed with a count, however the
\* table grows.
THEOREM NodesArePartitioned == Spec => []NodesPartitioned
BY InvNodes, StringsInvariant, PTL

-----------------------------------------------------------------------------
(* Refinement.                                                             *)

\* What the host sees of the references.
HostCount == [o \in Objs |-> IF o \in Live THEN GetRefCount(o) ELSE 0]

LEMMA StepOfHost ==
    ASSUME IInv, [Next]_vars
    PROVE  [HostRefs!Next]_<<HostCount, Live>>
PROOF
<1>1. SInv /\ RInv /\ IInv' BY StepKeeps DEF IInv
<1>2. SInv' /\ RInv' BY <1>1 DEF IInv
<1>3. PICK C, D, L, K : /\ C = Counts(refs.node) /\ D = Counts(refs'.node)
                        /\ L = LiveIn(str) /\ K = LiveIn(str')
  OBVIOUS
<1>4. Live = L /\ Live' = K BY <1>3 DEF Live, LiveIn
<1>5. HostCount = [o \in Objs |-> Tally(C, o)]
  <2>1. \A o \in Objs : (IF o \in Live THEN GetRefCount(o) ELSE 0) = Tally(C, o)
    BY <1>1, <1>3, HostCountIs
  <2> QED BY <2>1 DEF HostCount
<1>6. HostCount' = [o \in Objs |-> Tally(D, o)]
  <2>1. \A o \in Objs : (IF o \in Live THEN GetRefCount(o) ELSE 0)' = Tally(D, o)
    BY <1>2, <1>3, HostCountNext
  <2> QED BY <2>1 DEF HostCount
<1>7. L \subseteq Objs BY <1>3 DEF LiveIn
<1>8. ASSUME refs' = refs, NEW o \in Objs, Grown(str, str', o) PROVE HostRefs!Scripts
  <2>1. HostCount' = HostCount BY <1>3, <1>5, <1>6, <1>8
  <2>2. K = L \cup {o} BY <1>3, <1>8 DEF Grown
  <2> QED BY <1>4, <2>1, <2>2 DEF HostRefs!Scripts, HostCount
<1>9. ASSUME NEW text \in Texts, Create(text) PROVE HostRefs!Next
  <2>1. refs' = refs /\ \E o \in Objs : Grown(str, str', o) BY <1>1, <1>9, CreateKeeps
  <2> QED BY <1>8, <2>1 DEF HostRefs!Next
<1>10. ASSUME NEW a \in Objs, NEW b \in Objs, Concat(a, b) PROVE HostRefs!Next
  <2>1. refs' = refs /\ \E o \in Objs : Grown(str, str', o) BY <1>1, <1>10, ConcatKeeps
  <2> QED BY <1>8, <2>1 DEF HostRefs!Next
<1>11. ASSUME NEW o \in Objs, AddRef(o) PROVE HostRefs!AddRef(o)
  <2>1. /\ o \in L /\ K = L /\ Tally(D, o) = Tally(C, o) + 1
        /\ \A p \in Objs : p # o => Tally(D, p) = Tally(C, p)
    BY <1>1, <1>3, <1>11, AddRefIs
  <2>2. HostCount' = [HostCount EXCEPT ![o] = @ + 1] BY <1>5, <1>6, <2>1
  <2> QED BY <1>4, <2>1, <2>2 DEF HostRefs!AddRef, HostCount
<1>12. ASSUME NEW o \in Objs, Release(o) PROVE HostRefs!Release(o)
  <2>1. /\ Tally(C, o) > 0 /\ Tally(D, o) = Tally(C, o) - 1
        /\ \A p \in Objs : p # o => Tally(D, p) = Tally(C, p)
        /\ K = L \/ (Tally(C, o) = 1 /\ K = L \ {o})
    BY <1>1, <1>3, <1>12, ReleaseIs
  <2>2. HostCount' = [HostCount EXCEPT ![o] = @ - 1] BY <1>5, <1>6, <2>1
  <2>3. HostCount[o] = Tally(C, o) BY <1>5
  <2> QED BY <1>4, <2>1, <2>2, <2>3 DEF HostRefs!Release, HostCount
<1>13. ASSUME NEW o \in Objs, Drop(o) PROVE HostRefs!Next \/ UNCHANGED <<HostCount, Live>>
  <2>1. refs' = refs /\ (K = L \/ (Tally(C, o) = 0 /\ K = L \ {o}))
    BY <1>1, <1>3, <1>13, DropIs
  <2>2. HostCount' = HostCount BY <1>3, <1>5, <1>6, <2>1
  <2>3. HostCount[o] = Tally(C, o) BY <1>5
  <2>4. CASE K = L BY <1>4, <2>2, <2>4
  <2>5. CASE Tally(C, o) = 0 /\ K = L \ {o}
    <3>1. HostRefs!Scripts BY <1>4, <2>2, <2>3, <2>5 DEF HostRefs!Scripts, HostCount
    <3> QED BY <3>1 DEF HostRefs!Next
  <2> QED BY <2>1, <2>4, <2>5
<1>14. CASE UNCHANGED vars
  <2>1. refs' = refs /\ str' = str BY <1>14 DEF vars
  <2>2. HostCount' = HostCount BY <1>3, <1>5, <1>6, <2>1
  <2> QED BY <1>3, <1>4, <2>1, <2>2
<1>15. HostRefs!Next \/ UNCHANGED <<HostCount, Live>>
  BY <1>9, <1>10, <1>11, <1>12, <1>13, <1>14 DEF Next, HostRefs!Next
<1> QED BY <1>15

\* The host has a count of its own for every object, through growing tables and shared
\* chains, and what it counts is not freed.
THEOREM ReferencesAreCounted == Spec => ImplementsHostRefs
PROOF
<1>1. Init => HostRefs!Init
  <2> SUFFICES ASSUME Init PROVE HostRefs!Init OBVIOUS
  <2>1. Live = {} BY InitOk
  <2>2. HostCount = [o \in Objs |-> 0] BY <2>1 DEF HostCount
  <2> QED BY <2>1, <2>2 DEF HostRefs!Init, HostCount
<1>2. IInv /\ [Next]_vars => [HostRefs!Next]_<<HostCount, Live>> BY StepOfHost
<1> QED BY <1>1, <1>2, StringsInvariant, PTL DEF Spec, ImplementsHostRefs, HostRefs!Spec, HostCount
=============================================================================
