---------------------------- MODULE GSTableProofs ---------------------------
(***************************************************************************)
(* Proofs about the hash table, for any keys, values and hashes, and any   *)
(* least number of nodes from four up.  The chains are described without   *)
(* following them: a node is on the chain that starts at another if every  *)
(* set of nodes that holds the start and is closed under next holds it     *)
(* too.  The invariant (Sound) says of the nodes what NewSlot relies on    *)
(* when it links a colliding key, and Copied what the loops of Rehash and  *)
(* Clone keep while they fill a fresh array.                               *)
(***************************************************************************)
EXTENDS GSTable, FiniteSetTheorems, WellFoundedInduction, TLAPS

-----------------------------------------------------------------------------
(* Numbers.                                                                *)

\* A set of numbers that is not empty has a least one.
LEMMA Least ==
    ASSUME NEW T, T \subseteq Nat, T # {}
    PROVE  \E x \in T : \A y \in T : x <= y
PROOF
<1>1. PICK R : R = {ss \in Nat \X Nat : ss[1] < ss[2]} OBVIOUS
<1>2. IsWellFoundedOn(OpToRel(<, Nat), Nat) BY NatLessThanWellFounded
<1>3. IsWellFoundedOn(R, Nat) BY <1>1, <1>2 DEF OpToRel
<1>4. PICK x \in T : \A y \in T : ~(<<y, x>> \in R) BY <1>3, WFMin
<1>5. ASSUME NEW y \in T PROVE x <= y
  <2>1. x \in Nat /\ y \in Nat OBVIOUS
  <2>2. <<y, x>> \notin R BY <1>4
  <2>3. <<y, x>> \in Nat \X Nat /\ <<y, x>>[1] = y /\ <<y, x>>[2] = x BY <2>1
  <2>4. ~(y < x) BY <1>1, <2>2, <2>3
  <2> QED BY <2>1, <2>4
<1> QED BY <1>5

LEMMA MinIs ==
    ASSUME NEW T, T \subseteq Nat, T # {}
    PROVE  Min(T) \in T /\ \A y \in T : Min(T) <= y
BY Least DEF Min

\* The largest number of a set is the least of the distances to a bound.
LEMMA MaxIs ==
    ASSUME NEW T, NEW b \in Nat, T \subseteq 0 .. b, T # {}
    PROVE  Max(T) \in T /\ \A y \in T : y <= Max(T)
PROOF
<1>1. PICK U : U = {x \in 0 .. b : b - x \in T} OBVIOUS
<1>2. PICK t : t \in T OBVIOUS
<1>3. b - t \in U BY <1>1, <1>2
<1>4. U \subseteq Nat /\ U # {} BY <1>1, <1>3
<1>5. PICK x \in U : \A y \in U : x <= y BY <1>4, Least
<1>6. b - x \in T BY <1>1
<1>7. ASSUME NEW y \in T PROVE b - x >= y
  <2>1. b - y \in U BY <1>1
  <2>2. x <= b - y BY <1>5, <2>1
  <2>3. x \in Nat /\ y \in Nat BY <1>1
  <2> QED BY <2>2, <2>3
<1>8. \E z \in T : \A y \in T : z >= y BY <1>6, <1>7
<1>9. PICK z : z = Max(T) OBVIOUS
<1>10. z \in T /\ \A y \in T : z >= y BY <1>8, <1>9 DEF Max
<1>11. z \in Nat BY <1>10
<1>12. ASSUME NEW y \in T PROVE y <= z
  <2>1. y \in Nat OBVIOUS
  <2> QED BY <1>10, <1>11, <2>1
<1> QED BY <1>9, <1>10, <1>12

-----------------------------------------------------------------------------
(* Walks along a chain.                                                    *)

\* f gives the result of a loop that follows next until it comes to a node of Stop.
IsWalk(f, D, Stop, next, val) ==
    /\ f = [n \in D |-> f[n]]
    /\ \A n \in D : f[n] = IF n \in Stop THEN val[n] ELSE f[next[n]]

\* A loop that follows next until it stops has a result at every node: the
\* value of the stop it comes to, if it comes to one.
LEMMA WalkExists ==
    ASSUME NEW D, NEW Stop \in SUBSET D, NEW next, NEW val,
           \A n \in D \ Stop : next[n] \in D
    PROVE  \E f : IsWalk(f, D, Stop, next, val)
PROOF
<1> DEFINE Cl(S) == \A j \in S \ Stop : next[j] \in S
           A(n) == {i \in Stop : \A S \in SUBSET D : n \in S /\ Cl(S) => i \in S}
           f == [n \in D |-> val[CHOOSE i : i \in A(n)]]
<1>1. ASSUME NEW n \in Stop PROVE A(n) = {n}
  <2>1. Cl({n}) OBVIOUS
  <2>2. {n} \in SUBSET D OBVIOUS
  <2>3. n \in A(n) OBVIOUS
  <2>4. ASSUME NEW i \in A(n) PROVE i = n BY <2>1, <2>2
  <2> QED BY <2>3, <2>4
<1>2. ASSUME NEW n \in D \ Stop PROVE A(n) = A(next[n])
  <2>1. ASSUME NEW i \in A(next[n]) PROVE i \in A(n) OBVIOUS
  <2>2. ASSUME NEW i \in A(n) PROVE i \in A(next[n])
    <3>1. ASSUME NEW S \in SUBSET D, next[n] \in S, Cl(S) PROVE i \in S
      <4>1. PICK S1 : S1 = S \cup {n} OBVIOUS
      <4>2. S1 \in SUBSET D /\ n \in S1 /\ Cl(S1) BY <3>1, <4>1
      <4>3. i \in S1 /\ i \in Stop BY <4>2
      <4> QED BY <4>1, <4>3
    <3> QED BY <3>1
  <2> QED BY <2>1, <2>2
<1> HIDE DEF A
<1>3. ASSUME NEW n \in Stop PROVE f[n] = val[n]
  <2>1. (CHOOSE i : i \in A(n)) = n BY <1>1
  <2> QED BY <2>1
<1>4. ASSUME NEW n \in D \ Stop PROVE f[n] = f[next[n]] BY <1>2
<1>5. \A n \in D : f[n] = IF n \in Stop THEN val[n] ELSE f[next[n]] BY <1>3, <1>4
<1>6. f = [n \in D |-> f[n]] OBVIOUS
<1> HIDE DEF f
<1> QED BY <1>5, <1>6 DEF IsWalk

-----------------------------------------------------------------------------
(* What the operations keep of the nodes.                                  *)

Node(n) == [key : Keys \cup {Null}, val : Vals \cup {Null}, next : -1 .. n - 1]
TableT(n) == [nodes : [0 .. n - 1 -> Node(n)], firstfree : 0 .. n - 1, used : Nat]

\* The main position of a key among n nodes.
Home(n, k) == (IF k = Null THEN 0 ELSE Hash[k]) % n

Occ(ns) == {i \in DOMAIN ns : ns[i].key # Null}

\* S is left only at the end of a chain.
Closed(ns, S) == \A i \in S : ns[i].next \in S \cup {Nil}

\* No set of nodes goes on for ever.
Acyclic(ns) ==
    \A S \in SUBSET DOMAIN ns : S # {} => \E i \in S : ns[i].next \notin S

\* No two chains run together.
OneLink(ns) ==
    \A i, j \in DOMAIN ns : ns[i].next = ns[j].next => ns[i].next = Nil \/ i = j

LinksAbove(ns, f) == \A i \in DOMAIN ns : ns[i].next = Nil \/ ns[i].next > f

KeysOnce(ns) ==
    \A i, j \in DOMAIN ns : ns[i].key = ns[j].key => ns[i].key = Null \/ i = j

\* Every key is on the chain of its main position.
OnChain(ns, n, i) ==
    \A S \in SUBSET DOMAIN ns : Home(n, ns[i].key) \in S /\ Closed(ns, S) => i \in S
Reached(ns, n) == \A i \in Occ(ns) : OnChain(ns, n, i)

\* The main position of a key is empty, or holds a key that belongs there: a guest
\* has been moved away.
Homed(ns, n) ==
    \A i \in Occ(ns) : LET h == Home(n, ns[i].key)
                       IN ns[h].key = Null \/ Home(n, ns[h].key) = h

Linked(ns, n) ==
    /\ Acyclic(ns) /\ OneLink(ns) /\ KeysOnce(ns)
    /\ Reached(ns, n) /\ Homed(ns, n)

Sound(t, n) ==
    /\ n \in Nat /\ n >= 4 /\ t \in TableT(n)
    /\ Linked(t.nodes, n) /\ LinksAbove(t.nodes, t.firstfree)
    /\ t.nodes[t.firstfree].key = Null /\ t.nodes[t.firstfree].next = Nil
    /\ t.used = Cardinality(Occ(t.nodes))

\* A table that is being filled: its empty nodes are the last free ones.
Fresh(t) ==
    \A i \in DOMAIN t.nodes :
        t.nodes[i].key = Null => t.nodes[i].next = Nil /\ i <= t.firstfree

LEMMA SizeIs ==
    ASSUME NEW n \in Nat, NEW t, DOMAIN t.nodes = 0 .. n - 1
    PROVE  Size(t) = n /\ \A k : MainPos(t, k) = Home(n, k)
PROOF
<1>1. Cardinality(0 .. n - 1) = n
  <2>1. 0 \in Int /\ n - 1 \in Int OBVIOUS
  <2>2. Cardinality(0 .. n - 1) = IF 0 > n - 1 THEN 0 ELSE n - 1 - 0 + 1
    BY ONLY <2>1, FS_Interval
  <2> QED BY <2>2
<1>2. Size(t) = n BY <1>1 DEF Size
<1> QED BY <1>2 DEF MainPos, Home

LEMMA HomeIs ==
    ASSUME NEW n \in Nat \ {0}, NEW k \in Keys \cup {Null}
    PROVE  Home(n, k) \in 0 .. n - 1
PROOF
<1>1. PICK h : h = IF k = Null THEN 0 ELSE Hash[k] OBVIOUS
<1>2. h \in Nat BY <1>1, HashAssumption
<1>3. h % n \in 0 .. n - 1 BY <1>2
<1> QED BY <1>1, <1>3 DEF Home

LEMMA NodesT ==
    ASSUME NEW n \in Nat, NEW ns \in [0 .. n - 1 -> Node(n)]
    PROVE  /\ DOMAIN ns = 0 .. n - 1
           /\ \A i \in 0 .. n - 1 :
                 /\ ns[i].key \in Keys \cup {Null} /\ ns[i].val \in Vals \cup {Null}
                 /\ ns[i].next \in -1 .. n - 1
BY DEF Node

LEMMA OccIs ==
    ASSUME NEW n \in Nat, NEW ns, DOMAIN ns = 0 .. n - 1
    PROVE  /\ IsFiniteSet(Occ(ns)) /\ Cardinality(Occ(ns)) \in Nat
           /\ Cardinality(Occ(ns)) <= n
           /\ Cardinality(Occ(ns)) = n => Occ(ns) = 0 .. n - 1
PROOF
<1>1. 0 \in Int /\ n - 1 \in Int OBVIOUS
<1>2. IsFiniteSet(0 .. n - 1) /\ Cardinality(0 .. n - 1) = IF 0 > n - 1 THEN 0 ELSE n - 1 - 0 + 1
  BY ONLY <1>1, FS_Interval
<1>3. Cardinality(0 .. n - 1) = n BY <1>2
<1>4. Occ(ns) \in SUBSET (0 .. n - 1) BY DEF Occ
<1>5. /\ IsFiniteSet(Occ(ns)) /\ Cardinality(Occ(ns)) <= Cardinality(0 .. n - 1)
      /\ Cardinality(0 .. n - 1) = Cardinality(Occ(ns)) => 0 .. n - 1 = Occ(ns)
  BY <1>2, <1>4, FS_Subset
<1>6. Cardinality(Occ(ns)) \in Nat BY <1>5, FS_CardinalityType
<1> QED BY <1>3, <1>5, <1>6

\* The links and the keys decide; taking keys out leaves the rest as it is.
LEMMA FewerKeys ==
    ASSUME NEW n \in Nat \ {0}, NEW ns \in [0 .. n - 1 -> Node(n)], Linked(ns, n),
           NEW ms, DOMAIN ms = 0 .. n - 1,
           \A i \in 0 .. n - 1 : ms[i].next = ns[i].next /\ ms[i].key \in {ns[i].key, Null}
    PROVE  Linked(ms, n) /\ \A f : LinksAbove(ns, f) => LinksAbove(ms, f)
PROOF
<1>1. DOMAIN ns = 0 .. n - 1 BY NodesT
<1>2. Acyclic(ms) BY <1>1 DEF Linked, Acyclic
<1>3. OneLink(ms) BY <1>1 DEF Linked, OneLink
<1>4. KeysOnce(ms) BY <1>1 DEF Linked, KeysOnce
<1>5. \A i \in Occ(ms) : i \in Occ(ns) /\ ms[i].key = ns[i].key BY <1>1 DEF Occ
<1>6. Reached(ms, n)
  <2>1. ASSUME NEW i \in Occ(ms), NEW S \in SUBSET DOMAIN ms, Home(n, ms[i].key) \in S, Closed(ms, S)
        PROVE  i \in S
    <3>1. Closed(ns, S) BY <2>1 DEF Closed
    <3>2. OnChain(ns, n, i) BY <1>5 DEF Linked, Reached
    <3> QED BY <1>1, <1>5, <2>1, <3>1, <3>2 DEF OnChain
  <2> QED BY <2>1 DEF Reached, OnChain
<1>7. Homed(ms, n)
  <2>1. ASSUME NEW i \in Occ(ms) PROVE LET h == Home(n, ms[i].key) IN ms[h].key = Null \/ Home(n, ms[h].key) = h
    <3>1. PICK h : h = Home(n, ns[i].key) OBVIOUS
    <3>2. i \in 0 .. n - 1 BY DEF Occ
    <3>3. h \in 0 .. n - 1 BY <3>1, <3>2, NodesT, HomeIs
    <3>4. ns[h].key = Null \/ Home(n, ns[h].key) = h BY <1>5, <3>1 DEF Linked, Homed
    <3>5. ms[h].key = Null \/ ms[h].key = ns[h].key BY <3>3
    <3>6. h = Home(n, ms[i].key) BY <1>5, <3>1
    <3>7. ms[h].key = Null \/ Home(n, ms[h].key) = h BY <3>4, <3>5
    <3> QED BY <3>6, <3>7
  <2> QED BY <2>1 DEF Homed
<1>8. \A f : LinksAbove(ns, f) => LinksAbove(ms, f) BY <1>1 DEF LinksAbove
<1> QED BY <1>2, <1>3, <1>4, <1>6, <1>7, <1>8 DEF Linked

-----------------------------------------------------------------------------
(* Lookups.                                                                *)

\* What _Get finds from every node on.
IsSearch(t, k, f) ==
    f = [n \in DOMAIN t.nodes |->
            IF t.nodes[n].key = k THEN n
            ELSE IF t.nodes[n].next = Nil THEN Nil ELSE f[t.nodes[n].next]]

LEMMA GetNodeIs ==
    ASSUME NEW n \in Nat, NEW t, t.nodes \in [0 .. n - 1 -> Node(n)], NEW k
    PROVE  \E f : /\ \A i \in 0 .. n - 1 :
                       f[i] = IF t.nodes[i].key = k THEN i
                              ELSE IF t.nodes[i].next = Nil THEN Nil ELSE f[t.nodes[i].next]
                  /\ GetNode(t, k) = f[Home(n, k)]
PROOF
<1>1. PICK D : D = 0 .. n - 1 OBVIOUS
<1>2. DOMAIN t.nodes = D BY <1>1, NodesT
<1>3. PICK Stop : Stop = {i \in D : t.nodes[i].key = k \/ t.nodes[i].next = Nil} OBVIOUS
<1>4. PICK next : next = [i \in D |-> t.nodes[i].next] OBVIOUS
<1>5. PICK val : val = [i \in D |-> IF t.nodes[i].key = k THEN i ELSE Nil] OBVIOUS
<1>6. ASSUME NEW i \in D \ Stop PROVE next[i] \in D
  <2>1. i \in 0 .. n - 1 /\ t.nodes[i].next # -1 /\ next[i] = t.nodes[i].next
    BY <1>1, <1>3, <1>4 DEF Nil
  <2>2. t.nodes[i].next \in -1 .. n - 1 BY <2>1, NodesT
  <2> QED BY <1>1, <2>1, <2>2
<1>7. Stop \in SUBSET D BY <1>3
<1>8. PICK f : IsWalk(f, D, Stop, next, val)
  BY <1>6, <1>7, WalkExists
<1>9. \A i \in D : f[i] = IF t.nodes[i].key = k THEN i
                           ELSE IF t.nodes[i].next = Nil THEN Nil ELSE f[t.nodes[i].next]
  BY <1>3, <1>4, <1>5, <1>8 DEF IsWalk
<1>10. IsSearch(t, k, f) BY <1>2, <1>8, <1>9 DEF IsSearch, IsWalk
<1>11. PICK g : g = CHOOSE e : IsSearch(t, k, e) OBVIOUS
<1>12. IsSearch(t, k, g) BY <1>10, <1>11
<1>13. GetNode(t, k) = g[MainPos(t, k)] BY <1>11 DEF GetNode, IsSearch
<1>14. MainPos(t, k) = Home(n, k) BY <1>1, <1>2, SizeIs
<1>15. \A i \in D : g[i] = IF t.nodes[i].key = k THEN i
                           ELSE IF t.nodes[i].next = Nil THEN Nil ELSE g[t.nodes[i].next]
  BY <1>2, <1>12 DEF IsSearch
<1> QED BY <1>1, <1>13, <1>14, <1>15

\* _Get ends, with a node that holds the key or with none.
LEMMA GetNodeEnds ==
    ASSUME NEW n \in Nat \ {0}, NEW t, t.nodes \in [0 .. n - 1 -> Node(n)], Acyclic(t.nodes),
           NEW k \in Keys \cup {Null}
    PROVE  \/ GetNode(t, k) = Nil
           \/ GetNode(t, k) \in 0 .. n - 1 /\ t.nodes[GetNode(t, k)].key = k
PROOF
<1>1. PICK ns : ns = t.nodes OBVIOUS
<1>2. PICK f : /\ \A i \in 0 .. n - 1 :
                     f[i] = IF t.nodes[i].key = k THEN i
                            ELSE IF t.nodes[i].next = Nil THEN Nil ELSE f[t.nodes[i].next]
               /\ GetNode(t, k) = f[Home(n, k)]
  BY GetNodeIs
<1>3. PICK Bad : Bad = {i \in 0 .. n - 1 : f[i] # Nil /\ (f[i] \in 0 .. n - 1 => ns[f[i]].key # k)}
  OBVIOUS
<1>4. ASSUME NEW i \in Bad PROVE ns[i].next \in Bad
  <2>1. ns[i].key # k /\ ns[i].next # Nil
    <3>1. i \in 0 .. n - 1 /\ f[i] # Nil BY <1>3
    <3>2. ns[i].key = k => f[i] = i BY <1>1, <1>2, <3>1
    <3>3. ns[i].key # k BY <1>3, <3>1, <3>2
    <3> QED BY <1>1, <1>2, <3>1, <3>3
  <2>2. ns[i].next \in 0 .. n - 1 BY <1>1, <1>3, <2>1, NodesT DEF Nil
  <2>3. f[i] = f[ns[i].next] BY <1>1, <1>2, <1>3, <2>1
  <2> QED BY <1>3, <2>2, <2>3
<1>5. Bad \in SUBSET DOMAIN ns BY <1>1, <1>3, NodesT
<1>6. Bad = {} BY <1>1, <1>4, <1>5 DEF Acyclic
<1>7. Home(n, k) \in 0 .. n - 1 BY HomeIs
<1> QED BY <1>1, <1>2, <1>3, <1>6, <1>7

\* _Get finds a key in its node.
LEMMA GetNodeFinds ==
    ASSUME NEW n \in Nat \ {0}, NEW t, t.nodes \in [0 .. n - 1 -> Node(n)], Linked(t.nodes, n),
           NEW i \in 0 .. n - 1, t.nodes[i].key # Null
    PROVE  GetNode(t, t.nodes[i].key) = i
PROOF
<1>1. PICK ns, k : ns = t.nodes /\ k = ns[i].key OBVIOUS
<1>2. DOMAIN ns = 0 .. n - 1 /\ k \in Keys BY <1>1, NodesT
<1>3. PICK f : /\ \A j \in 0 .. n - 1 :
                     f[j] = IF t.nodes[j].key = k THEN j
                            ELSE IF t.nodes[j].next = Nil THEN Nil ELSE f[t.nodes[j].next]
               /\ GetNode(t, k) = f[Home(n, k)]
  BY GetNodeIs
<1>4. PICK S : S = {j \in 0 .. n - 1 : f[j] # i} OBVIOUS
<1>5. f[i] = i
  <2>1. t.nodes[i].key = k BY <1>1
  <2> QED BY <1>3, <2>1
<1>6. ASSUME NEW j \in S PROVE ns[j].next \in S \cup {Nil}
  <2>1. ns[j].key # k
    <3>1. j # i BY <1>4, <1>5
    <3> QED BY <1>1, <1>2, <1>4, <3>1 DEF Linked, KeysOnce
  <2>2. CASE ns[j].next # Nil
    <3>1. ns[j].next \in 0 .. n - 1 BY <1>1, <1>4, <2>2, NodesT, SMTT(30) DEF Nil
    <3>2. f[j] = f[ns[j].next] BY <1>1, <1>3, <1>4, <2>1, <2>2
    <3> QED BY <1>4, <3>1, <3>2
  <2> QED BY <2>2
<1>7. Closed(ns, S) BY <1>6 DEF Closed
<1>8. OnChain(ns, n, i) BY <1>1, <1>2 DEF Linked, Reached, Occ
<1>9. S \in SUBSET DOMAIN ns BY <1>2, <1>4
<1>10. Home(n, k) \notin S BY <1>1, <1>4, <1>5, <1>7, <1>8, <1>9 DEF OnChain
<1>11. Home(n, k) \in 0 .. n - 1 BY <1>2, HomeIs
<1> QED BY <1>1, <1>3, <1>4, <1>10, <1>11

\* _Get finds no key that is not there.
LEMMA GetNodeMisses ==
    ASSUME NEW n \in Nat \ {0}, NEW t, t.nodes \in [0 .. n - 1 -> Node(n)], Acyclic(t.nodes),
           NEW k \in Keys, \A i \in 0 .. n - 1 : t.nodes[i].key # k
    PROVE  GetNode(t, k) = Nil
BY GetNodeEnds

\* What NewSlot's search for the previous node finds from every node on.
IsPrev(t, h, f) ==
    f = [n \in DOMAIN t.nodes |->
            IF t.nodes[n].next \in {h, Nil} THEN n ELSE f[t.nodes[n].next]]

\* The search finds the node before h, if h is further on the chain: the assert of
\* NewSlot holds.
LEMMA PreviousIs ==
    ASSUME NEW n \in Nat \ {0}, NEW t, t.nodes \in [0 .. n - 1 -> Node(n)], Acyclic(t.nodes),
           NEW h \in 0 .. n - 1, NEW g \in 0 .. n - 1, g # h,
           \A S \in SUBSET (0 .. n - 1) : g \in S /\ Closed(t.nodes, S) => h \in S
    PROVE  Previous(t, g, h) \in 0 .. n - 1 /\ t.nodes[Previous(t, g, h)].next = h
PROOF
<1>1. PICK D, ns : D = 0 .. n - 1 /\ ns = t.nodes OBVIOUS
<1>2. DOMAIN ns = D /\ \A i \in D : ns[i].next \in -1 .. n - 1 BY <1>1, NodesT
<1>3. PICK Stop : Stop = {i \in D : ns[i].next \in {h, Nil}} OBVIOUS
<1>4. PICK next : next = [i \in D |-> ns[i].next] OBVIOUS
<1>5. PICK val : val = [i \in D |-> i] OBVIOUS
<1>6. ASSUME NEW i \in D, ns[i].next \notin {h, Nil} PROVE ns[i].next \in D
  <2>1. ns[i].next \in -1 .. n - 1 /\ ns[i].next # -1 BY <1>2, <1>6 DEF Nil
  <2> QED BY <1>1, <2>1
<1>7. \A i \in D \ Stop : next[i] \in D BY <1>3, <1>4, <1>6
<1>8. Stop \in SUBSET D BY <1>3
<1>9. PICK e : IsWalk(e, D, Stop, next, val) BY <1>7, <1>8, WalkExists
<1>10. \A i \in D : e[i] = IF ns[i].next \in {h, Nil} THEN i ELSE e[ns[i].next]
  BY <1>3, <1>4, <1>5, <1>9 DEF IsWalk
<1>11. IsPrev(t, h, e) BY <1>1, <1>2, <1>9, <1>10 DEF IsPrev, IsWalk
<1>12. PICK f : f = CHOOSE x : IsPrev(t, h, x) OBVIOUS
<1>13. IsPrev(t, h, f) BY <1>11, <1>12
<1>14. Previous(t, g, h) = f[g] BY <1>12 DEF Previous, IsPrev
<1>15. \A i \in D : f[i] = IF ns[i].next \in {h, Nil} THEN i ELSE f[ns[i].next]
  BY <1>1, <1>2, <1>13 DEF IsPrev
<1>16. PICK Bad : Bad = {i \in D : f[i] \notin D} OBVIOUS
<1>17. ASSUME NEW i \in Bad PROVE ns[i].next \in Bad
  <2>1. i \in D /\ f[i] \notin D BY <1>16
  <2>2. ns[i].next \notin {h, Nil} BY <1>15, <2>1
  <2>3. f[i] = f[ns[i].next] BY <1>15, <2>1, <2>2
  <2> QED BY <1>6, <1>16, <2>1, <2>2, <2>3
<1>18. Bad \in SUBSET DOMAIN ns BY <1>2, <1>16
<1>19. Bad = {} BY <1>1, <1>17, <1>18 DEF Acyclic
<1>20. f[g] \in D BY <1>1, <1>16, <1>19
<1>21. PICK S : S = {i \in D : i # h /\ ns[f[i]].next # h} OBVIOUS
<1>22. ASSUME NEW i \in S PROVE ns[i].next \in S \cup {Nil}
  <2>1. i \in D /\ ns[f[i]].next # h BY <1>21
  <2>2. ns[i].next # h BY <1>15, <2>1
  <2>3. CASE ns[i].next # Nil
    <3>1. f[i] = f[ns[i].next] BY <1>15, <2>1, <2>2, <2>3
    <3> QED BY <1>6, <1>21, <2>1, <2>2, <2>3, <3>1
  <2> QED BY <2>3
<1>23. Closed(ns, S) /\ S \in SUBSET D /\ h \notin S BY <1>21, <1>22 DEF Closed
<1>24. g \notin S BY <1>1, <1>23
<1>25. ns[f[g]].next = h BY <1>1, <1>21, <1>24
<1> QED BY <1>1, <1>14, <1>20, <1>25

-----------------------------------------------------------------------------
(* Where NewSlot puts a key.                                               *)

\* The three ways, as Place writes them; f is the free node and h the main position.
PutHome(ns, ms, h, k) == ns[h].key = Null /\ ms = [ns EXCEPT ![h].key = k]
MoveGuest(ns, ms, h, f, prev, k) ==
    ms = [ns EXCEPT ![prev].next = f, ![f] = ns[h], ![h] = [FreeNode EXCEPT !.key = k]]
PutFree(ns, ms, h, f, k) ==
    ms = [ns EXCEPT ![f] = [@ EXCEPT !.key = k, !.next = ns[h].next], ![h].next = f]

\* Nobody's chain starts at or runs through a node that is free.
LEMMA FreeIsNobodys ==
    ASSUME NEW n, NEW t, Sound(t, n)
    PROVE  /\ \A i \in 0 .. n - 1 : t.nodes[i].next # t.firstfree
           /\ \A i \in Occ(t.nodes) : Home(n, t.nodes[i].key) # t.firstfree
PROOF
<1>1. PICK ns, f : ns = t.nodes /\ f = t.firstfree OBVIOUS
<1>2. n \in Nat /\ ns \in [0 .. n - 1 -> Node(n)] /\ f \in 0 .. n - 1 BY <1>1 DEF Sound, TableT
<1>3. DOMAIN ns = 0 .. n - 1 /\ \A i \in 0 .. n - 1 : ns[i].next \in -1 .. n - 1 BY <1>2, NodesT
<1>4. ASSUME NEW i \in 0 .. n - 1, ns[i].next = f PROVE FALSE
  <2>1. f = Nil \/ f > f BY <1>1, <1>3, <1>4 DEF Sound, LinksAbove
  <2> QED BY <1>2, <2>1 DEF Nil
<1>5. ASSUME NEW i \in Occ(ns), Home(n, ns[i].key) = f PROVE FALSE
  <2>1. Closed(ns, {f}) BY <1>1 DEF Sound, Closed
  <2>2. {f} \in SUBSET DOMAIN ns BY <1>2, <1>3
  <2>3. i \in {f} BY <1>1, <1>5, <2>1, <2>2 DEF Sound, Linked, Reached, OnChain
  <2> QED BY <1>1, <2>3 DEF Sound, Occ
<1> QED BY <1>1, <1>4, <1>5

LEMMA PlaceIs ==
    ASSUME NEW n, NEW t, Sound(t, n), NEW k \in Keys
    PROVE  LET ns == t.nodes
               f == t.firstfree
               h == Home(n, k)
               p == Place(t, k)
           IN \/ PutHome(ns, p.nodes, h, k) /\ p.at = h
              \/ /\ ns[h].key # Null /\ Home(n, ns[h].key) # h /\ h > f /\ p.at = h
                 /\ \E prev \in 0 .. n - 1 :
                       ns[prev].next = h /\ MoveGuest(ns, p.nodes, h, f, prev, k)
              \/ /\ ns[h].key # Null /\ Home(n, ns[h].key) = h /\ p.at = f
                 /\ PutFree(ns, p.nodes, h, f, k)
PROOF
<1>1. PICK ns, f, h : ns = t.nodes /\ f = t.firstfree /\ h = Home(n, k) OBVIOUS
<1>2. n \in Nat \ {0} /\ ns \in [0 .. n - 1 -> Node(n)] /\ f \in 0 .. n - 1
  BY <1>1 DEF Sound, TableT
<1>3. DOMAIN ns = 0 .. n - 1 BY <1>2, NodesT
<1>4. h \in 0 .. n - 1 BY <1>1, <1>2, HomeIs
<1>5. \A x : MainPos(t, x) = Home(n, x) BY <1>1, <1>2, <1>3, SizeIs
<1>6. PICK g : g = Home(n, ns[h].key) OBVIOUS
<1>7. g \in 0 .. n - 1
  <2>1. ns[h].key \in Keys \cup {Null} BY <1>2, <1>4, NodesT
  <2> QED BY <1>2, <1>6, <2>1, HomeIs
<1>8. CASE ns[h].key = Null
  <2>1. Place(t, k) = [nodes |-> [ns EXCEPT ![h].key = k], at |-> h]
    BY <1>1, <1>5, <1>8 DEF Place
  <2> QED BY <1>1, <1>8, <2>1 DEF PutHome
<1>9. CASE ns[h].key # Null /\ h > f /\ g # h
  <2>1. ASSUME NEW S \in SUBSET (0 .. n - 1), g \in S, Closed(ns, S) PROVE h \in S
    <3>1. h \in Occ(ns) BY <1>3, <1>4, <1>9 DEF Occ
    <3> QED BY <1>1, <1>3, <1>6, <2>1, <3>1 DEF Sound, Linked, Reached, OnChain
  <2>2. PICK prev : prev = Previous(t, g, h) OBVIOUS
  <2>3. Acyclic(t.nodes) BY DEF Sound, Linked
  <2>4. prev \in 0 .. n - 1 /\ ns[prev].next = h
    BY <1>1, <1>2, <1>4, <1>7, <1>9, <2>1, <2>2, <2>3, PreviousIs
  <2>5. Place(t, k) = [nodes |-> [ns EXCEPT ![prev].next = f, ![f] = ns[h],
                                            ![h] = [FreeNode EXCEPT !.key = k]],
                       at |-> h]
    BY <1>1, <1>5, <1>6, <1>9, <2>2 DEF Place
  <2>6. PICK p : p = Place(t, k) OBVIOUS
  <2>7. p.at = h /\ MoveGuest(ns, p.nodes, h, f, prev, k) BY <2>5, <2>6 DEF MoveGuest
  <2>8. \E x \in 0 .. n - 1 : ns[x].next = h /\ MoveGuest(ns, p.nodes, h, f, x, k)
    BY <2>4, <2>7
  <2> QED BY <1>1, <1>6, <1>9, <2>6, <2>7, <2>8
<1>10. CASE ns[h].key # Null /\ ~(h > f /\ g # h)
  <2>1. g = h
    <3>1. SUFFICES ASSUME g # h PROVE FALSE OBVIOUS
    <3>2. h <= f BY <1>2, <1>4, <1>10, <3>1
    <3>3. PICK S : S = (0 .. n - 1) \ {h} OBVIOUS
    <3>4. ASSUME NEW i \in S PROVE ns[i].next \in S \cup {Nil}
      <4>1. ns[i].next = Nil \/ ns[i].next > f BY <1>1, <1>3, <3>3 DEF Sound, LinksAbove
      <4>2. ns[i].next \in -1 .. n - 1 BY <1>2, <3>3, NodesT
      <4> QED BY <1>2, <1>4, <3>2, <3>3, <4>1, <4>2 DEF Nil
    <3>5. Closed(ns, S) BY <3>4 DEF Closed
    <3>6. h \in Occ(ns) BY <1>3, <1>4, <1>10 DEF Occ
    <3>7. S \in SUBSET DOMAIN ns /\ g \in S BY <1>3, <1>7, <3>1, <3>3
    <3>8. h \in S BY <1>1, <1>6, <3>5, <3>6, <3>7 DEF Sound, Linked, Reached, OnChain
    <3> QED BY <3>3, <3>8
  <2>2. Place(t, k) = [nodes |-> [ns EXCEPT ![f] = [@ EXCEPT !.key = k, !.next = ns[h].next],
                                            ![h].next = f],
                       at |-> f]
    BY <1>1, <1>5, <1>6, <1>10 DEF Place
  <2> QED BY <1>1, <1>6, <1>10, <2>1, <2>2 DEF PutFree
<1> QED BY <1>8, <1>9, <1>10

\* What all three ways keep, before NewSlot looks for the next free node.
Placed(ns, ms, n, f, k, at) ==
    /\ ms \in [0 .. n - 1 -> Node(n)] /\ Linked(ms, n)
    /\ \A g \in 0 .. n - 1 : g < f \/ (g = f /\ ms[f].key = Null) => LinksAbove(ms, g)
    /\ at \in 0 .. n - 1 /\ ms[at].key = k
    /\ \A i \in Occ(ms) : \/ i = at
                          \/ \E j \in Occ(ns) : ms[i].key = ns[j].key /\ ms[i].val = ns[j].val
    /\ \A j \in Occ(ns) :
          \E i \in Occ(ms) : i # at /\ ms[i].key = ns[j].key /\ ms[i].val = ns[j].val
    /\ \E x \in (0 .. n - 1) \ Occ(ns) : Occ(ms) = Occ(ns) \cup {x}
    /\ \A i \in 0 .. n - 1 :
          ms[i].key = Null => ns[i].key = Null /\ (ns[i].next = Nil => ms[i].next = Nil)

LEMMA PutHomePlaces ==
    ASSUME NEW n, NEW t, Sound(t, n), NEW k \in Keys, \A i \in 0 .. n - 1 : t.nodes[i].key # k,
           NEW ms, PutHome(t.nodes, ms, Home(n, k), k)
    PROVE  Placed(t.nodes, ms, n, t.firstfree, k, Home(n, k))
PROOF
<1>1. PICK ns, f, h : ns = t.nodes /\ f = t.firstfree /\ h = Home(n, k) OBVIOUS
<1>2. n \in Nat \ {0} /\ ns \in [0 .. n - 1 -> Node(n)] /\ f \in 0 .. n - 1 /\ Linked(ns, n)
      /\ LinksAbove(ns, f)
  BY <1>1 DEF Sound, TableT
<1>3. /\ DOMAIN ns = 0 .. n - 1
      /\ \A i \in 0 .. n - 1 : /\ ns[i].key \in Keys \cup {Null} /\ ns[i].val \in Vals \cup {Null}
                               /\ ns[i].next \in -1 .. n - 1
  BY <1>2, NodesT
<1>4. h \in 0 .. n - 1 BY <1>1, <1>2, HomeIs
<1>5. k # Null BY NullAssumption
<1>6. ns[h].key = Null /\ ms = [ns EXCEPT ![h].key = k] BY <1>1 DEF PutHome
<1>7. /\ DOMAIN ms = 0 .. n - 1
      /\ ms[h].key = k /\ ms[h].val = ns[h].val /\ ms[h].next = ns[h].next
      /\ \A i \in 0 .. n - 1 : i # h => ms[i] = ns[i]
  BY <1>2, <1>3, <1>4, <1>6 DEF Node
<1>8. ms \in [0 .. n - 1 -> Node(n)]
  <2>1. PICK r : r = [ns[h] EXCEPT !.key = k] OBVIOUS
  <2>2. ns[h] \in Node(n) BY <1>2, <1>4
  <2>3. r \in Node(n) BY <2>1, <2>2 DEF Node
  <2>4. ms = [ns EXCEPT ![h] = r] BY <1>6, <2>1
  <2> QED BY <1>2, <1>4, <2>3, <2>4
<1>9. \A i \in 0 .. n - 1 : ms[i].next = ns[i].next BY <1>7
<1>10. Acyclic(ms) /\ OneLink(ms) /\ \A g : LinksAbove(ns, g) => LinksAbove(ms, g)
  BY <1>2, <1>3, <1>7, <1>9 DEF Linked, Acyclic, OneLink, LinksAbove
<1>11. KeysOnce(ms)
  <2>1. \A i \in 0 .. n - 1 : i # h => ms[i].key # k BY <1>1, <1>7
  <2> QED BY <1>2, <1>3, <1>7, <2>1 DEF Linked, KeysOnce
<1>12. Occ(ms) = Occ(ns) \cup {h} /\ h \notin Occ(ns) BY <1>3, <1>4, <1>5, <1>6, <1>7 DEF Occ
<1>13. ASSUME NEW i \in Occ(ms), i # h PROVE i \in Occ(ns) /\ i \in 0 .. n - 1 /\ ms[i] = ns[i]
  BY <1>3, <1>7, <1>12, <1>13 DEF Occ
<1>14. Reached(ms, n)
  <2>1. ASSUME NEW i \in Occ(ms), NEW S \in SUBSET DOMAIN ms, Home(n, ms[i].key) \in S, Closed(ms, S)
        PROVE  i \in S
    <3>1. CASE i = h BY <1>1, <1>7, <2>1, <3>1
    <3>2. CASE i # h
      <4>1. Closed(ns, S) BY <1>7, <1>9, <2>1 DEF Closed
      <4>2. OnChain(ns, n, i) BY <1>2, <1>13, <3>2 DEF Linked, Reached
      <4> QED BY <1>3, <1>7, <1>13, <2>1, <3>2, <4>1, <4>2 DEF OnChain
    <3> QED BY <3>1, <3>2
  <2> QED BY <2>1 DEF Reached, OnChain
<1>15. Homed(ms, n)
  <2>1. ASSUME NEW i \in Occ(ms), NEW x, x = Home(n, ms[i].key)
        PROVE  ms[x].key = Null \/ Home(n, ms[x].key) = x
    <3>1. CASE i = h BY <1>1, <1>7, <2>1, <3>1
    <3>2. CASE i # h
      <4>1. x = Home(n, ns[i].key) /\ x \in 0 .. n - 1 BY <1>2, <1>3, <1>13, <2>1, <3>2, HomeIs
      <4>2. ns[x].key = Null \/ Home(n, ns[x].key) = x
        BY <1>2, <1>13, <3>2, <4>1 DEF Linked, Homed
      <4> QED BY <1>1, <1>7, <4>1, <4>2
    <3> QED BY <3>1, <3>2
  <2> QED BY <2>1 DEF Homed
<1>16. Linked(ms, n) BY <1>10, <1>11, <1>14, <1>15 DEF Linked
<1>17. \A g \in 0 .. n - 1 : g < f \/ (g = f /\ ms[f].key = Null) => LinksAbove(ms, g)
  BY <1>2, <1>3, <1>7, <1>9 DEF LinksAbove
<1>18. \A j \in Occ(ns) : j \in Occ(ms) /\ j # h /\ ms[j] = ns[j]
  <2>1. \A j \in Occ(ns) : j \in 0 .. n - 1 BY <1>3 DEF Occ
  <2> QED BY <1>7, <1>12, <2>1
<1>19. \A i \in 0 .. n - 1 :
         ms[i].key = Null => ns[i].key = Null /\ (ns[i].next = Nil => ms[i].next = Nil)
  BY <1>5, <1>7
<1> QED BY <1>1, <1>4, <1>7, <1>8, <1>12, <1>13, <1>16, <1>17, <1>18, <1>19 DEF Placed

LEMMA PutFreePlaces ==
    ASSUME NEW n, NEW t, Sound(t, n), NEW k \in Keys, \A i \in 0 .. n - 1 : t.nodes[i].key # k,
           NEW ms, PutFree(t.nodes, ms, Home(n, k), t.firstfree, k),
           t.nodes[Home(n, k)].key # Null, Home(n, t.nodes[Home(n, k)].key) = Home(n, k)
    PROVE  Placed(t.nodes, ms, n, t.firstfree, k, t.firstfree)
PROOF
<1>1. PICK ns, f, h : ns = t.nodes /\ f = t.firstfree /\ h = Home(n, k) OBVIOUS
<1>2. n \in Nat \ {0} /\ ns \in [0 .. n - 1 -> Node(n)] /\ f \in 0 .. n - 1 /\ Linked(ns, n)
      /\ LinksAbove(ns, f) /\ ns[f].key = Null /\ ns[f].next = Nil
  BY <1>1 DEF Sound, TableT
<1>3. /\ DOMAIN ns = 0 .. n - 1
      /\ \A i \in 0 .. n - 1 : /\ ns[i].key \in Keys \cup {Null} /\ ns[i].val \in Vals \cup {Null}
                               /\ ns[i].next \in -1 .. n - 1
  BY <1>2, NodesT
<1>4. h \in 0 .. n - 1 /\ h # f /\ ns[h].key # Null BY <1>1, <1>2, HomeIs
<1>5. k # Null BY NullAssumption
<1>6. ms = [ns EXCEPT ![f] = [@ EXCEPT !.key = k, !.next = ns[h].next], ![h].next = f]
  BY <1>1 DEF PutFree
<1>7. PICK r : r = [ns[f] EXCEPT !.key = k, !.next = ns[h].next] OBVIOUS
<1>8. PICK q : q = [ns[h] EXCEPT !.next = f] OBVIOUS
<1>9. ms = [ns EXCEPT ![f] = r, ![h] = q] BY <1>2, <1>3, <1>4, <1>6, <1>7, <1>8
<1>10. ns[f] \in Node(n) /\ ns[h] \in Node(n) /\ ns[h].next \in -1 .. n - 1 /\ f \in -1 .. n - 1
  BY <1>2, <1>3, <1>4
<1>11. r \in Node(n) /\ r.key = k /\ r.val = ns[f].val /\ r.next = ns[h].next
  BY <1>7, <1>10 DEF Node
<1>12. q \in Node(n) /\ q.key = ns[h].key /\ q.val = ns[h].val /\ q.next = f
  BY <1>8, <1>10 DEF Node
<1>13. DOMAIN ms = 0 .. n - 1 /\ ms[f] = r /\ ms[h] = q
       /\ \A i \in 0 .. n - 1 : i # h /\ i # f => ms[i] = ns[i]
  BY <1>2, <1>3, <1>4, <1>9
<1>14. /\ DOMAIN ms = 0 .. n - 1
      /\ ms[f].key = k /\ ms[f].val = ns[f].val /\ ms[f].next = ns[h].next
      /\ ms[h].key = ns[h].key /\ ms[h].val = ns[h].val /\ ms[h].next = f
      /\ \A i \in 0 .. n - 1 : i # h /\ i # f => ms[i] = ns[i]
  BY <1>11, <1>12, <1>13
<1>15. ms \in [0 .. n - 1 -> Node(n)] BY <1>2, <1>4, <1>9, <1>11, <1>12
<1>16. \A i \in 0 .. n - 1 : ns[i].next # f BY <1>1, FreeIsNobodys
<1>17. ASSUME NEW S \in SUBSET (0 .. n - 1), Closed(ms, S)
       PROVE  Closed(ns, S \ {f}) /\ (h \in S => f \in S)
  <2>1. \A i \in S : ms[i].next \in S \cup {Nil} BY <1>17 DEF Closed
  <2>2. h \in S => f \in S
    <3>1. h \in S => f \in S \cup {Nil} BY <1>14, <2>1
    <3>2. f # Nil BY <1>2 DEF Nil
    <3> QED BY <3>1, <3>2
  <2>3. ASSUME NEW i \in S \ {f} PROVE ns[i].next \in (S \ {f}) \cup {Nil}
    <3>1. CASE i = h
      <4>1. ms[f].next \in S \cup {Nil} BY <2>1, <2>2, <3>1
      <4> QED BY <1>4, <1>14, <1>16, <3>1, <4>1
    <3>2. CASE i # h
      <4>1. ms[i] = ns[i] BY <1>14, <3>2
      <4> QED BY <1>16, <2>1, <4>1
    <3> QED BY <3>1, <3>2
  <2> QED BY <2>2, <2>3 DEF Closed
<1>18. Acyclic(ms)
  <2>1. ASSUME NEW S \in SUBSET (0 .. n - 1), S # {}, \A i \in S : ms[i].next \in S PROVE FALSE
    <3>1. S \ {f} # {}
      <4>1. f \in S => ns[h].next \in S BY <1>14, <2>1
      <4> QED BY <1>4, <1>16, <2>1, <4>1
    <3>2. PICK U : U = S \ {f} OBVIOUS
    <3>3. U \in SUBSET DOMAIN ns /\ U # {} BY <1>3, <3>1, <3>2
    <3>4. PICK i \in U : ns[i].next \notin U BY <1>2, <3>3 DEF Linked, Acyclic
    <3>5. Closed(ns, U) BY <1>17, <2>1, <3>2 DEF Closed
    <3>6. ns[i].next = Nil BY <3>4, <3>5 DEF Closed
    <3>7. i \in S /\ i # f /\ i \in 0 .. n - 1 BY <3>2
    <3>8. Nil \notin S BY DEF Nil
    <3>9. CASE i = h
      <4>1. ms[h].next \in S /\ ms[f].next \in S BY <1>14, <2>1, <3>7, <3>9
      <4>2. ms[f].next = Nil BY <1>14, <3>6, <3>9
      <4> QED BY <3>8, <4>1, <4>2
    <3>10. CASE i # h
      <4>1. ms[i] = ns[i] BY <1>14, <3>7, <3>10
      <4> QED BY <2>1, <3>6, <3>7, <3>8, <4>1
    <3> QED BY <3>9, <3>10
  <2> QED BY <1>14, <2>1 DEF Acyclic
<1>19. OneLink(ms)
  <2>1. \A i \in 0 .. n - 1 : ms[i].next = IF i = f THEN ns[h].next ELSE IF i = h THEN f ELSE ns[i].next
    BY <1>14
  <2>2. \A i, j \in 0 .. n - 1 : ns[i].next = ns[j].next => ns[i].next = Nil \/ i = j
    BY <1>2, <1>3 DEF Linked, OneLink
  <2>3. ASSUME NEW i \in 0 .. n - 1, NEW j \in 0 .. n - 1, ms[i].next = ms[j].next, i # j
        PROVE  ms[i].next = Nil
    <3>1. CASE i = h \/ j = h BY <1>4, <1>16, <2>1, <2>3, <3>1
    <3>2. CASE i # h /\ j # h
      <4>1. CASE i = f
        <5>1. ns[h].next = ns[j].next BY <2>1, <2>3, <3>2, <4>1
        <5>2. ns[h].next = Nil BY <1>4, <2>2, <3>2, <5>1
        <5> QED BY <2>1, <4>1, <5>2
      <4>2. CASE j = f
        <5>1. ns[h].next = ns[i].next BY <2>1, <2>3, <3>2, <4>2
        <5>2. ns[h].next = Nil BY <1>4, <2>2, <3>2, <5>1
        <5> QED BY <2>1, <2>3, <4>2, <5>2
      <4>3. CASE i # f /\ j # f BY <2>1, <2>2, <2>3, <3>2, <4>3
      <4> QED BY <4>1, <4>2, <4>3
    <3> QED BY <3>1, <3>2
  <2> QED BY <1>14, <2>3 DEF OneLink
<1>20. \A i \in 0 .. n - 1 : ms[i].key = IF i = f THEN k ELSE ns[i].key BY <1>14
<1>21. KeysOnce(ms)
  <2>1. \A i \in 0 .. n - 1 : i # f => ms[i].key # k BY <1>1, <1>20
  <2> QED BY <1>2, <1>3, <1>14, <1>20, <2>1 DEF Linked, KeysOnce
<1>22. Occ(ms) = Occ(ns) \cup {f} /\ f \notin Occ(ns) BY <1>2, <1>3, <1>5, <1>14, <1>20 DEF Occ
<1>23. ASSUME NEW i \in Occ(ns)
       PROVE i \in Occ(ms) /\ i # f /\ i \in 0 .. n - 1 /\ ms[i].key = ns[i].key /\ ms[i].val = ns[i].val
  <2>1. i \in 0 .. n - 1 /\ i # f BY <1>3, <1>22 DEF Occ
  <2>2. i = h \/ ms[i] = ns[i] BY <1>14, <2>1
  <2> QED BY <1>14, <1>22, <2>1, <2>2
<1>24. Reached(ms, n)
  <2>1. ASSUME NEW i \in Occ(ms), NEW S \in SUBSET DOMAIN ms, Home(n, ms[i].key) \in S, Closed(ms, S)
        PROVE  i \in S
    <3>1. Closed(ns, S \ {f}) /\ (h \in S => f \in S) BY <1>14, <1>17, <2>1
    <3>2. CASE i = f BY <1>1, <1>14, <2>1, <3>1, <3>2
    <3>3. CASE i # f
      <4>1. i \in Occ(ns) /\ ms[i].key = ns[i].key BY <1>22, <1>23, <3>3
      <4>2. OnChain(ns, n, i) BY <1>2, <4>1 DEF Linked, Reached
      <4>3. Home(n, ns[i].key) # f BY <1>1, <4>1, FreeIsNobodys
      <4>4. PICK U : U = S \ {f} OBVIOUS
      <4>5. U \in SUBSET DOMAIN ns /\ Home(n, ns[i].key) \in U BY <1>3, <1>14, <2>1, <4>1, <4>3, <4>4
      <4>6. i \in U BY <3>1, <4>2, <4>4, <4>5 DEF OnChain
      <4> QED BY <4>4, <4>6
    <3> QED BY <3>2, <3>3
  <2> QED BY <2>1 DEF Reached, OnChain
<1>25. Homed(ms, n)
  <2>1. ASSUME NEW i \in Occ(ms), NEW x, x = Home(n, ms[i].key)
        PROVE  ms[x].key = Null \/ Home(n, ms[x].key) = x
    <3>1. CASE i = f
      <4>1. x = h /\ ms[x].key = ns[h].key BY <1>1, <1>14, <2>1, <3>1
      <4> QED BY <1>1, <4>1
    <3>2. CASE i # f
      <4>1. i \in Occ(ns) /\ ms[i].key = ns[i].key BY <1>22, <1>23, <3>2
      <4>2. x = Home(n, ns[i].key) /\ x \in 0 .. n - 1 BY <1>2, <1>3, <1>23, <2>1, <4>1, HomeIs
      <4>3. x # f BY <1>1, <4>1, <4>2, FreeIsNobodys
      <4>4. ns[x].key = Null \/ Home(n, ns[x].key) = x BY <1>2, <4>1, <4>2 DEF Linked, Homed
      <4>5. ms[x].key = ns[x].key BY <1>20, <4>2, <4>3
      <4> QED BY <4>4, <4>5
    <3> QED BY <3>1, <3>2
  <2> QED BY <2>1 DEF Homed
<1>26. Linked(ms, n) BY <1>18, <1>19, <1>21, <1>24, <1>25 DEF Linked
<1>27. ASSUME NEW g \in 0 .. n - 1, g < f \/ (g = f /\ ms[f].key = Null) PROVE LinksAbove(ms, g)
  <2>1. g < f BY <1>5, <1>14, <1>27
  <2>2. ASSUME NEW i \in 0 .. n - 1 PROVE ms[i].next = Nil \/ ms[i].next > g
    <3>1. \A j \in 0 .. n - 1 : ns[j].next = Nil \/ ns[j].next > f BY <1>2, <1>3 DEF LinksAbove
    <3>2. \A j \in 0 .. n - 1 : ns[j].next = Nil \/ ns[j].next > g
      <4>1. ASSUME NEW j \in 0 .. n - 1 PROVE ns[j].next = Nil \/ ns[j].next > g
        <5>1. ns[j].next \in -1 .. n - 1 /\ f \in Nat /\ g \in Nat BY <1>2, <1>3
        <5> QED BY <2>1, <3>1, <5>1
      <4> QED BY <4>1
    <3>3. ms[i].next = f \/ \E j \in 0 .. n - 1 : ms[i].next = ns[j].next BY <1>4, <1>14
    <3> QED BY <1>2, <2>1, <3>2, <3>3
  <2> QED BY <1>14, <2>2 DEF LinksAbove
<1>28. \A i \in Occ(ms) : i # f => i \in Occ(ns) /\ ms[i].key = ns[i].key /\ ms[i].val = ns[i].val
  BY <1>22, <1>23
<1>29. \A i \in 0 .. n - 1 :
         ms[i].key = Null => ns[i].key = Null /\ (ns[i].next = Nil => ms[i].next = Nil)
  <2>1. ASSUME NEW i \in 0 .. n - 1, ms[i].key = Null PROVE ms[i] = ns[i]
    <3>1. i # f /\ i # h BY <1>4, <1>5, <1>14, <2>1
    <3> QED BY <1>14, <3>1
  <2> QED BY <2>1
<1> QED BY <1>1, <1>2, <1>14, <1>15, <1>22, <1>23, <1>26, <1>27, <1>28, <1>29 DEF Placed

LEMMA MoveGuestPlaces ==
    ASSUME NEW n, NEW t, Sound(t, n), NEW k \in Keys, \A i \in 0 .. n - 1 : t.nodes[i].key # k,
           NEW prev \in 0 .. n - 1, t.nodes[prev].next = Home(n, k),
           NEW ms, MoveGuest(t.nodes, ms, Home(n, k), t.firstfree, prev, k),
           t.nodes[Home(n, k)].key # Null, Home(n, t.nodes[Home(n, k)].key) # Home(n, k),
           Home(n, k) > t.firstfree
    PROVE  Placed(t.nodes, ms, n, t.firstfree, k, Home(n, k))
PROOF
<1>1. PICK ns, f, h : ns = t.nodes /\ f = t.firstfree /\ h = Home(n, k) OBVIOUS
<1>2. n \in Nat \ {0} /\ ns \in [0 .. n - 1 -> Node(n)] /\ f \in 0 .. n - 1 /\ Linked(ns, n)
      /\ LinksAbove(ns, f) /\ ns[f].key = Null /\ ns[f].next = Nil
  BY <1>1 DEF Sound, TableT
<1>3. /\ DOMAIN ns = 0 .. n - 1
      /\ \A i \in 0 .. n - 1 : /\ ns[i].key \in Keys \cup {Null} /\ ns[i].val \in Vals \cup {Null}
                               /\ ns[i].next \in -1 .. n - 1
  BY <1>2, NodesT
<1>4. h \in 0 .. n - 1 /\ h # f /\ ns[h].key # Null BY <1>1, <1>2, HomeIs
<1>5. k # Null BY NullAssumption
<1>6. ms = [ns EXCEPT ![prev].next = f, ![f] = ns[h], ![h] = [FreeNode EXCEPT !.key = k]]
  BY <1>1 DEF MoveGuest
<1>7. \A i \in 0 .. n - 1 : ns[i].next # f BY <1>1, FreeIsNobodys
<1>8. ns[h].next # h
  <2>1. {h} \in SUBSET DOMAIN ns BY <1>3, <1>4
  <2>2. \E i \in {h} : ns[i].next \notin {h} BY <1>2, <2>1 DEF Linked, Acyclic
  <2> QED BY <2>2
<1>9. prev # h /\ prev # f /\ h # Nil /\ f # Nil BY <1>1, <1>2, <1>4, <1>8 DEF Nil
<1>10. \A i \in 0 .. n - 1 : i # prev => ns[i].next # h
  BY <1>1, <1>2, <1>3, <1>9, SMTT(20) DEF Linked, OneLink
<1>11. PICK new : new = [FreeNode EXCEPT !.key = k] OBVIOUS
<1>12. new.key = k /\ new.next = Nil /\ new \in Node(n)
  <2>1. new = [key |-> k, val |-> Null, next |-> -1] BY <1>11 DEF FreeNode, Nil
  <2>2. PICK m : m = -1 OBVIOUS
  <2>3. m \in -1 .. n - 1 BY <1>2, <2>2
  <2>4. [key |-> k, val |-> Null, next |-> m] \in Node(n) BY <2>3 DEF Node
  <2> QED BY <2>1, <2>2, <2>4 DEF Nil
<1>13. PICK q : q = [ns[prev] EXCEPT !.next = f] OBVIOUS
<1>14. q \in Node(n) /\ q.key = ns[prev].key /\ q.val = ns[prev].val /\ q.next = f
  <2>1. ns[prev] \in Node(n) /\ f \in -1 .. n - 1 BY <1>2
  <2> QED BY <1>13, <2>1 DEF Node
<1>15. ms = [ns EXCEPT ![prev] = q, ![f] = ns[h], ![h] = new] BY <1>3, <1>6, <1>11, <1>13
<1>16. /\ DOMAIN ms = 0 .. n - 1
       /\ ms[h] = new /\ ms[f] = ns[h] /\ ms[prev] = q
       /\ \A i \in 0 .. n - 1 : i # h /\ i # f /\ i # prev => ms[i] = ns[i]
  BY <1>2, <1>3, <1>4, <1>9, <1>15
<1>17. ms \in [0 .. n - 1 -> Node(n)] BY <1>2, <1>4, <1>12, <1>14, <1>15
<1>18. \A i \in 0 .. n - 1 :
         ms[i].next = IF i = h THEN Nil ELSE IF i = f THEN ns[h].next
                      ELSE IF i = prev THEN f ELSE ns[i].next
  BY <1>4, <1>9, <1>12, <1>14, <1>16
<1>19. \A i \in 0 .. n - 1 :
         /\ ms[i].key = IF i = h THEN k ELSE IF i = f THEN ns[h].key ELSE ns[i].key
         /\ i # h => ms[i].val = IF i = f THEN ns[h].val ELSE ns[i].val
  BY <1>4, <1>9, <1>12, <1>14, <1>16
\* Closed sets of the new nodes are closed in the old ones, with f in the place of h.
<1> DEFINE Old(S) == {i \in 0 .. n - 1 : IF i = h THEN f \in S ELSE i \in S /\ i # f}
<1>20. ASSUME NEW S \in SUBSET (0 .. n - 1), Closed(ms, S)
       PROVE  Closed(ns, Old(S))
  <2>1. \A i \in S : ms[i].next \in S \cup {Nil} BY <1>20 DEF Closed
  <2>2. ASSUME NEW i \in Old(S) PROVE ns[i].next \in Old(S) \cup {Nil}
    <3>1. i \in 0 .. n - 1 /\ ns[i].next \in -1 .. n - 1 BY <1>3
    <3>2. CASE i = h
      <4>1. f \in S BY <3>2
      <4>2. ns[h].next \in S \cup {Nil} BY <1>2, <1>4, <1>18, <2>1, <4>1
      <4> QED BY <1>4, <1>7, <1>8, <3>2, <4>2
    <3>3. CASE i = prev
      <4>1. i \in S BY <1>9, <3>3
      <4>2. f \in S \cup {Nil} BY <1>9, <1>18, <2>1, <3>3, <4>1
      <4>3. f \in S BY <1>9, <4>2
      <4>4. h \in Old(S) BY <1>4, <4>3
      <4>5. ns[i].next = h BY <1>1, <3>3
      <4> QED BY <4>4, <4>5
    <3>4. CASE i # h /\ i # prev
      <4>1. i \in S /\ i # f BY <3>4
      <4>2. ns[i].next \in S \cup {Nil} BY <1>18, <2>1, <3>1, <3>4, <4>1
      <4>3. ns[i].next # f /\ ns[i].next # h BY <1>7, <1>10, <3>1, <3>4
      <4> QED BY <4>2, <4>3
    <3> QED BY <3>2, <3>3, <3>4
  <2> HIDE DEF Old
  <2> QED BY <2>2 DEF Closed
<1>21. Acyclic(ms)
  <2>1. ASSUME NEW S \in SUBSET (0 .. n - 1), S # {}, \A i \in S : ms[i].next \in S PROVE FALSE
    <3>1. Nil \notin S BY DEF Nil
    <3>2. h \notin S BY <1>4, <1>18, <2>1, <3>1
    <3>3. Old(S) # {}
      <4>1. PICK i : i \in S BY <2>1
      <4>2. i # f => i \in Old(S) BY <3>2, <4>1
      <4>3. i = f => h \in Old(S) BY <1>4, <4>1
      <4> QED BY <4>2, <4>3
    <3>4. Closed(ns, Old(S)) BY <1>20, <2>1 DEF Closed
    <3>5. Old(S) \in SUBSET DOMAIN ns BY <1>3
    <3>6. PICK i \in Old(S) : ns[i].next \notin Old(S) BY <1>2, <3>3, <3>5 DEF Linked, Acyclic
    <3>7. i \in 0 .. n - 1 /\ IF i = h THEN f \in S ELSE i \in S /\ i # f OBVIOUS
    <3> HIDE DEF Old
    <3>8. ns[i].next = Nil BY <3>4, <3>6 DEF Closed
    <3>9. CASE i = h
      <4>1. ms[f].next = Nil BY <1>2, <1>4, <1>18, <3>8, <3>9
      <4> QED BY <2>1, <3>1, <3>7, <3>9, <4>1
    <3>10. CASE i # h
      <4>1. i # prev BY <1>1, <1>9, <3>8
      <4>2. ms[i].next = Nil BY <1>18, <3>7, <3>8, <3>10, <4>1
      <4> QED BY <2>1, <3>1, <3>7, <3>10, <4>2
    <3> QED BY <3>9, <3>10
  <2> QED BY <1>16, <2>1 DEF Acyclic
<1>22. OneLink(ms)
  <2>1. \A i, j \in 0 .. n - 1 : ns[i].next = ns[j].next => ns[i].next = Nil \/ i = j
    BY <1>2, <1>3 DEF Linked, OneLink
  <2>2. ASSUME NEW i \in 0 .. n - 1, NEW j \in 0 .. n - 1, ms[i].next = ms[j].next, i # j
        PROVE  ms[i].next = Nil
    <3>1. CASE i = h \/ j = h BY <1>4, <1>18, <2>2, <3>1
    <3>2. CASE i # h /\ j # h /\ (i = prev \/ j = prev)
      <4>1. ns[h].next # f BY <1>4, <1>7
      <4> QED BY <1>4, <1>7, <1>9, <1>18, <2>2, <3>2, <4>1
    <3>3. CASE i # h /\ j # h /\ i # prev /\ j # prev
      <4>1. CASE i = f
        <5>1. ns[h].next = ns[j].next BY <1>18, <2>2, <3>3, <4>1
        <5>2. ns[h].next = Nil BY <1>4, <2>1, <3>3, <5>1
        <5> QED BY <1>18, <3>3, <4>1, <5>2
      <4>2. CASE j = f
        <5>1. ns[h].next = ns[i].next BY <1>18, <2>2, <3>3, <4>2
        <5>2. ns[h].next = Nil BY <1>4, <2>1, <3>3, <5>1
        <5> QED BY <1>18, <2>2, <3>3, <4>2, <5>2
      <4>3. CASE i # f /\ j # f BY <1>18, <2>1, <2>2, <3>3, <4>3
      <4> QED BY <4>1, <4>2, <4>3
    <3> QED BY <3>1, <3>2, <3>3
  <2> QED BY <1>16, <2>2 DEF OneLink
<1>23. KeysOnce(ms)
  <2>1. \A i \in 0 .. n - 1 : ns[i].key # k BY <1>1
  <2>2. \A i, j \in 0 .. n - 1 : ns[i].key = ns[j].key => ns[i].key = Null \/ i = j
    BY <1>2, <1>3 DEF Linked, KeysOnce
  <2>3. ASSUME NEW i \in 0 .. n - 1, NEW j \in 0 .. n - 1, ms[i].key = ms[j].key, i # j
        PROVE  ms[i].key = Null
    <3>1. CASE i = h \/ j = h
      <4>1. \A x \in 0 .. n - 1 : x # h => ms[x].key # k BY <1>4, <1>19, <2>1
      <4>2. ms[h].key = k BY <1>4, <1>19
      <4> QED BY <2>3, <3>1, <4>1, <4>2
    <3>2. CASE i # h /\ j # h
      <4>1. PICK x : x = IF i = f THEN h ELSE i OBVIOUS
      <4>2. PICK y : y = IF j = f THEN h ELSE j OBVIOUS
      <4>3. x \in 0 .. n - 1 /\ y \in 0 .. n - 1 /\ x # y BY <1>4, <2>3, <3>2, <4>1, <4>2
      <4>4. ms[i].key = ns[x].key /\ ms[j].key = ns[y].key BY <1>19, <3>2, <4>1, <4>2
      <4> QED BY <2>2, <2>3, <4>3, <4>4
    <3> QED BY <3>1, <3>2
  <2> QED BY <1>16, <2>3 DEF KeysOnce
<1>24. Occ(ms) = Occ(ns) \cup {f} /\ f \notin Occ(ns)
  <2>1. \A i \in 0 .. n - 1 : ms[i].key # Null <=> i = f \/ ns[i].key # Null BY <1>4, <1>5, <1>19
  <2> QED BY <1>2, <1>3, <1>16, <2>1 DEF Occ
<1>25. ASSUME NEW i \in Occ(ms), i # h
       PROVE  \E j \in Occ(ns) : /\ ms[i].key = ns[j].key /\ ms[i].val = ns[j].val
                                 /\ j = IF i = f THEN h ELSE i
  <2>1. i \in 0 .. n - 1 /\ ms[i].key # Null BY <1>16 DEF Occ
  <2>2. h \in Occ(ns) BY <1>3, <1>4 DEF Occ
  <2>3. i # f => i \in Occ(ns) BY <1>24
  <2> QED BY <1>19, <1>25, <2>1, <2>2, <2>3
<1>26. ASSUME NEW j \in Occ(ns)
       PROVE  \E i \in Occ(ms) : i # h /\ ms[i].key = ns[j].key /\ ms[i].val = ns[j].val
  <2>1. j \in 0 .. n - 1 /\ j # f BY <1>3, <1>24 DEF Occ
  <2>2. f \in Occ(ms) /\ j \in Occ(ms) BY <1>24
  <2>3. CASE j = h BY <1>2, <1>4, <1>19, <2>2, <2>3
  <2>4. CASE j # h BY <1>19, <2>1, <2>2, <2>4
  <2> QED BY <2>3, <2>4
\* Nothing else starts at h, whose key was a guest, nor at f.
<1>27. ASSUME NEW j \in Occ(ns)
       PROVE  /\ Home(n, ns[j].key) # h /\ Home(n, ns[j].key) # f
              /\ Home(n, ns[j].key) \in 0 .. n - 1
  <2>1. j \in 0 .. n - 1 BY <1>3 DEF Occ
  <2>2. Home(n, ns[j].key) # h BY <1>1, <1>2, <1>4 DEF Linked, Homed
  <2>3. Home(n, ns[j].key) # f BY <1>1, FreeIsNobodys
  <2>4. Home(n, ns[j].key) \in 0 .. n - 1 BY <1>2, <1>3, <2>1, HomeIs
  <2> QED BY <2>2, <2>3, <2>4
<1>28. Reached(ms, n)
  <2>1. ASSUME NEW i \in Occ(ms), NEW S \in SUBSET DOMAIN ms, Home(n, ms[i].key) \in S, Closed(ms, S)
        PROVE  i \in S
    <3>1. CASE i = h BY <1>1, <1>12, <1>16, <2>1, <3>1
    <3>2. CASE i # h
      <4>1. PICK j \in Occ(ns) : ms[i].key = ns[j].key /\ j = IF i = f THEN h ELSE i
        BY <1>25, <3>2
      <4>2. OnChain(ns, n, j) BY <1>2, <4>1 DEF Linked, Reached
      <4>3. Closed(ns, Old(S)) BY <1>16, <1>20, <2>1
      <4>4. Home(n, ns[j].key) \in Old(S) BY <1>27, <2>1, <4>1
      <4>5. Old(S) \in SUBSET DOMAIN ns BY <1>3
      <4> HIDE DEF Old
      <4>6. j \in Old(S) BY <4>2, <4>3, <4>4, <4>5 DEF OnChain
      <4> USE DEF Old
      <4> QED BY <3>2, <4>1, <4>6
    <3> QED BY <3>1, <3>2
  <2> QED BY <2>1 DEF Reached, OnChain
<1>29. Homed(ms, n)
  <2>1. ASSUME NEW i \in Occ(ms), NEW x, x = Home(n, ms[i].key)
        PROVE  ms[x].key = Null \/ Home(n, ms[x].key) = x
    <3>1. CASE i = h BY <1>1, <1>12, <1>16, <2>1, <3>1
    <3>2. CASE i # h
      <4>1. PICK j \in Occ(ns) : ms[i].key = ns[j].key BY <1>25, <3>2
      <4>2. x = Home(n, ns[j].key) /\ x # h /\ x # f /\ x \in 0 .. n - 1 BY <1>27, <2>1, <4>1
      <4>3. ns[x].key = Null \/ Home(n, ns[x].key) = x BY <1>2, <4>1, <4>2 DEF Linked, Homed
      <4>4. ms[x].key = ns[x].key BY <1>19, <4>2
      <4> QED BY <4>3, <4>4
    <3> QED BY <3>1, <3>2
  <2> QED BY <2>1 DEF Homed
<1>30. Linked(ms, n) BY <1>21, <1>22, <1>23, <1>28, <1>29 DEF Linked
<1>31. ASSUME NEW g \in 0 .. n - 1, g < f \/ (g = f /\ ms[f].key = Null) PROVE LinksAbove(ms, g)
  <2>1. ms[f].key # Null BY <1>4, <1>16
  <2>2. g < f BY <1>31, <2>1
  <2>3. \A j \in 0 .. n - 1 : ns[j].next = Nil \/ ns[j].next > f BY <1>2, <1>3 DEF LinksAbove
  <2>4. ASSUME NEW j \in 0 .. n - 1 PROVE ns[j].next = Nil \/ ns[j].next > g
    <3>1. ns[j].next \in -1 .. n - 1 /\ f \in Nat /\ g \in Nat BY <1>2, <1>3
    <3> QED BY <2>2, <2>3, <3>1
  <2>5. ASSUME NEW i \in 0 .. n - 1 PROVE ms[i].next = Nil \/ ms[i].next > g
    <3>1. ms[i].next \in {Nil, f} \/ \E j \in 0 .. n - 1 : ms[i].next = ns[j].next BY <1>4, <1>18
    <3> QED BY <1>2, <2>2, <2>4, <3>1
  <2> QED BY <1>16, <2>5 DEF LinksAbove
<1>32. ASSUME NEW i \in 0 .. n - 1, ms[i].key = Null
       PROVE  ns[i].key = Null /\ (ns[i].next = Nil => ms[i].next = Nil)
  <2>1. i # h /\ i # f BY <1>4, <1>5, <1>19, <1>32
  <2>2. ns[i].key = Null BY <1>19, <1>32, <2>1
  <2>3. ns[i].next = Nil => i # prev BY <1>1, <1>9
  <2> QED BY <1>18, <2>1, <2>2, <2>3
<1>33. \A i \in Occ(ms) : \/ i = h
                          \/ \E j \in Occ(ns) : ms[i].key = ns[j].key /\ ms[i].val = ns[j].val
  BY <1>25
<1>34. \A j \in Occ(ns) :
         \E i \in Occ(ms) : i # h /\ ms[i].key = ns[j].key /\ ms[i].val = ns[j].val
  BY <1>26
<1>35. ms[h].key = k BY <1>12, <1>16
<1> QED BY <1>1, <1>2, <1>4, <1>17, <1>24, <1>30, <1>31, <1>32, <1>33, <1>34, <1>35, SMTT(30) DEF Placed

LEMMA PlacePlaces ==
    ASSUME NEW n, NEW t, Sound(t, n), NEW k \in Keys, \A i \in 0 .. n - 1 : t.nodes[i].key # k
    PROVE  Placed(t.nodes, Place(t, k).nodes, n, t.firstfree, k, Place(t, k).at)
PROOF
<1>1. PICK h, p : h = Home(n, k) /\ p = Place(t, k) OBVIOUS
<1>2. CASE PutHome(t.nodes, p.nodes, h, k) /\ p.at = h BY <1>1, <1>2, PutHomePlaces
<1>3. CASE /\ t.nodes[h].key # Null /\ Home(n, t.nodes[h].key) # h /\ h > t.firstfree /\ p.at = h
           /\ \E prev \in 0 .. n - 1 :
                 t.nodes[prev].next = h /\ MoveGuest(t.nodes, p.nodes, h, t.firstfree, prev, k)
  BY <1>1, <1>3, MoveGuestPlaces
<1>4. CASE /\ t.nodes[h].key # Null /\ Home(n, t.nodes[h].key) = h /\ p.at = t.firstfree
           /\ PutFree(t.nodes, p.nodes, h, t.firstfree, k)
  BY <1>1, <1>4, PutFreePlaces
<1> QED BY <1>1, <1>2, <1>3, <1>4, PlaceIs

WithVal(ms, at, v) == [ms EXCEPT ![at].val = v]

Added(P, k, v) == P \cup {<<k, v>>}

\* The keys of the nodes with their values.
Pairs(ns) == {<<ns[i].key, ns[i].val>> : i \in Occ(ns)}

\* A new key and its value are in the nodes, and everything else is as it was.
LEMMA PlacePairs ==
    ASSUME NEW n \in Nat, NEW ns, NEW ms, NEW f, NEW k, NEW at, Placed(ns, ms, n, f, k, at), k # Null,
           NEW v
    PROVE  Pairs(WithVal(ms, at, v)) = Added(Pairs(ns), k, v)
PROOF
<1> DEFINE new == WithVal(ms, at, v)
<1>1. ms \in [0 .. n - 1 -> Node(n)] /\ at \in 0 .. n - 1 /\ ms[at].key = k BY DEF Placed
<1>2. DOMAIN ms = 0 .. n - 1 BY <1>1, NodesT
<1>3. /\ DOMAIN new = 0 .. n - 1 /\ new[at].val = v
      /\ \A i \in 0 .. n - 1 : new[i].key = ms[i].key /\ (i # at => new[i].val = ms[i].val)
  BY <1>1, <1>2 DEF Node, WithVal
<1> HIDE DEF new
<1>4. Occ(new) = Occ(ms) BY <1>2, <1>3 DEF Occ
<1>5. \A i \in Occ(ms) : i \in 0 .. n - 1 BY <1>2 DEF Occ
<1>6. ASSUME NEW i \in Occ(ms) PROVE <<new[i].key, new[i].val>> \in Pairs(ns) \cup {<<k, v>>}
  <2>1. CASE i = at BY <1>1, <1>3, <2>1
  <2>2. CASE i # at
    <3>1. PICK j \in Occ(ns) : ms[i].key = ns[j].key /\ ms[i].val = ns[j].val BY <2>2 DEF Placed
    <3>2. new[i].key = ns[j].key /\ new[i].val = ns[j].val BY <1>3, <1>5, <2>2, <3>1
    <3>3. <<ns[j].key, ns[j].val>> \in Pairs(ns) BY DEF Pairs
    <3> QED BY <3>2, <3>3
  <2> QED BY <2>1, <2>2
<1>7. ASSUME NEW j \in Occ(ns) PROVE <<ns[j].key, ns[j].val>> \in Pairs(new)
  <2>1. PICK i \in Occ(ms) : i # at /\ ms[i].key = ns[j].key /\ ms[i].val = ns[j].val BY DEF Placed
  <2>2. new[i].key = ns[j].key /\ new[i].val = ns[j].val BY <1>3, <1>5, <2>1
  <2>3. <<new[i].key, new[i].val>> \in Pairs(new) BY <1>4 DEF Pairs
  <2> QED BY <2>2, <2>3
<1>8. <<k, v>> \in Pairs(new)
  <2>1. at \in Occ(new) BY <1>1, <1>2, <1>4 DEF Occ
  <2>2. <<new[at].key, new[at].val>> \in Pairs(new) BY <2>1 DEF Pairs
  <2> QED BY <1>1, <1>3, <2>2
<1>9. Pairs(new) \subseteq Pairs(ns) \cup {<<k, v>>} BY <1>4, <1>6 DEF Pairs
<1>10. Pairs(ns) \subseteq Pairs(new) BY <1>7 DEF Pairs
<1> QED BY <1>8, <1>9, <1>10 DEF new, Added

\* A table that has no free node left for NewSlot's next key: its nodes are as they
\* should be, but the new key is not counted and has no value yet.
Full(t, n) ==
    /\ n \in Nat /\ n >= 4 /\ t \in TableT(n)
    /\ Linked(t.nodes, n) /\ Cardinality(Occ(t.nodes)) = t.used + 1

LEMMA InsertIs ==
    ASSUME NEW n, NEW t, Sound(t, n), NEW k \in Keys, NEW v \in Vals \cup {Null},
           \A i \in 0 .. n - 1 : t.nodes[i].key # k
    PROVE  LET ins == Insert(t, k, v)
           IN /\ ins.fits \in BOOLEAN
              /\ ins.fits => /\ Sound(ins.table, n) /\ ins.table.used = t.used + 1
                             /\ Pairs(ins.table.nodes) = Added(Pairs(t.nodes), k, v)
              /\ ~ins.fits => /\ Full(ins.table, n)
                              /\ \E x : Pairs(ins.table.nodes) = Added(Pairs(t.nodes), k, x)
              /\ Fresh(t) /\ t.used + 1 < n => ins.fits /\ Fresh(ins.table)
PROOF
<1>1. PICK ns, f : ns = t.nodes /\ f = t.firstfree OBVIOUS
<1>2. n \in Nat \ {0} /\ n >= 4 /\ ns \in [0 .. n - 1 -> Node(n)] /\ f \in 0 .. n - 1
  BY <1>1 DEF Sound, TableT
<1>3. PICK p : p = Place(t, k) OBVIOUS
<1>4. PICK ms, at : ms = p.nodes /\ at = p.at OBVIOUS
<1>5. Placed(ns, ms, n, f, k, at) BY <1>1, <1>3, <1>4, PlacePlaces
<1>6. PICK free : free = {i \in 0 .. f : ms[i].key = Null /\ ms[i].next = Nil} OBVIOUS
<1>7. PICK new : new = [ms EXCEPT ![at].val = v] OBVIOUS
<1>8. ms \in [0 .. n - 1 -> Node(n)] /\ Linked(ms, n) /\ at \in 0 .. n - 1 /\ ms[at].key = k
  BY <1>5 DEF Placed
<1>9. k # Null BY NullAssumption
<1>10. DOMAIN ms = 0 .. n - 1 /\ DOMAIN ns = 0 .. n - 1 BY <1>2, <1>8, NodesT
<1>11. /\ DOMAIN new = 0 .. n - 1
       /\ \A i \in 0 .. n - 1 : new[i].key = ms[i].key /\ new[i].next = ms[i].next
  BY <1>7, <1>8, <1>10 DEF Node
<1>12. new \in [0 .. n - 1 -> Node(n)]
  <2>1. PICK q : q = [ms[at] EXCEPT !.val = v] OBVIOUS
  <2>2. ms[at] \in Node(n) BY <1>8
  <2>3. q \in Node(n) BY <2>1, <2>2 DEF Node
  <2>4. new = [ms EXCEPT ![at] = q] BY <1>7, <1>8, <1>10, <2>1
  <2> QED BY <1>8, <2>3, <2>4
<1>13. Linked(new, n) /\ \A g : LinksAbove(ms, g) => LinksAbove(new, g)
  BY <1>2, <1>8, <1>11, FewerKeys
<1>14. Occ(new) = Occ(ms) BY <1>10, <1>11 DEF Occ
<1>15. Cardinality(Occ(ms)) = t.used + 1 /\ t.used \in Nat
  <2>1. PICK x \in (0 .. n - 1) \ Occ(ns) : Occ(ms) = Occ(ns) \cup {x} BY <1>5 DEF Placed
  <2>2. IsFiniteSet(Occ(ns)) BY <1>2, <1>10, OccIs
  <2>3. Cardinality(Occ(ns) \cup {x}) =
          IF x \in Occ(ns) THEN Cardinality(Occ(ns)) ELSE Cardinality(Occ(ns)) + 1
    BY <2>2, FS_AddElement
  <2>4. t.used = Cardinality(Occ(ns)) /\ t.used \in Nat BY <1>1 DEF Sound, TableT
  <2> QED BY <2>1, <2>3, <2>4
<1>16. Pairs(new) = Added(Pairs(ns), k, v)
  <2>1. Pairs(WithVal(ms, at, v)) = Added(Pairs(ns), k, v) BY <1>2, <1>5, <1>9, PlacePairs
  <2>2. new = WithVal(ms, at, v) BY <1>7 DEF WithVal
  <2> QED BY <2>1, <2>2
<1>17. PICK ins : ins = Insert(t, k, v) OBVIOUS
<1>18. CASE free # {}
  <2>1. ins = [fits |-> TRUE, table |-> [nodes |-> new, firstfree |-> Max(free), used |-> t.used + 1]]
    BY <1>1, <1>3, <1>4, <1>6, <1>7, <1>17, <1>18 DEF Insert
  <2>2. PICK m : m = Max(free) OBVIOUS
  <2>3. free \subseteq 0 .. f BY <1>6
  <2>4. m \in free /\ \A y \in free : y <= m
    <3>1. f \in Nat BY <1>2
    <3> QED BY <1>18, <2>2, <2>3, <3>1, MaxIs
  <2>5. m \in 0 .. n - 1 /\ m <= f /\ ms[m].key = Null /\ ms[m].next = Nil BY <1>2, <1>6, <2>4
  <2>6. PICK s : s = ins.table OBVIOUS
  <2>7. s = [nodes |-> new, firstfree |-> m, used |-> t.used + 1] BY <2>1, <2>2, <2>6
  <2>8. s.nodes = new /\ s.firstfree = m /\ s.used = t.used + 1 BY <2>7
  <2>9. s \in TableT(n)
    <3>1. PICK u : u = t.used + 1 OBVIOUS
    <3>2. u \in Nat BY <1>15, <3>1
    <3>3. s = [nodes |-> new, firstfree |-> m, used |-> u] BY <2>7, <3>1
    <3> QED BY <1>12, <2>5, <3>2, <3>3 DEF TableT
  <2>10. LinksAbove(new, m)
    <3>1. m < f \/ m = f BY <1>2, <2>5
    <3>2. LinksAbove(ms, m) BY <1>5, <2>5, <3>1 DEF Placed
    <3> QED BY <1>13, <3>2
  <2>11. new[m].key = Null /\ new[m].next = Nil BY <1>11, <2>5
  <2>12. s.used = Cardinality(Occ(new)) BY <1>14, <1>15, <2>8
  <2>13. Sound(s, n) BY <1>2, <1>13, <2>8, <2>9, <2>10, <2>11, <2>12 DEF Sound
  <2>14. ins.fits = TRUE BY <2>1
  <2>15. ASSUME Fresh(t) PROVE Fresh(s)
    <3>1. ASSUME NEW i \in 0 .. n - 1, new[i].key = Null PROVE new[i].next = Nil /\ i <= m
      <4>1. ns[i].key = Null /\ (ns[i].next = Nil => ms[i].next = Nil)
        BY <1>5, <1>11, <3>1 DEF Placed
      <4>2. ns[i].next = Nil /\ i <= f BY <1>1, <1>10, <2>15, <4>1 DEF Fresh
      <4>3. ms[i].key = Null /\ ms[i].next = Nil BY <1>11, <3>1, <4>1, <4>2
      <4>4. i \in free BY <1>2, <1>6, <4>2, <4>3
      <4> QED BY <1>11, <2>4, <4>3, <4>4
    <3> QED BY <1>11, <2>8, <3>1 DEF Fresh
  <2> QED BY <1>1, <1>16, <1>17, <2>6, <2>8, <2>13, <2>14, <2>15
<1>19. CASE free = {}
  <2>1. ins = [fits |-> FALSE, table |-> [t EXCEPT !.nodes = ms, !.firstfree = 0]]
    BY <1>1, <1>3, <1>4, <1>6, <1>7, <1>17, <1>19 DEF Insert
  <2>2. PICK s : s = ins.table OBVIOUS
  <2>3. PICK z : z = 0 OBVIOUS
  <2>4. s = [t EXCEPT !.nodes = ms, !.firstfree = z] BY <2>1, <2>2, <2>3
  <2>5. t \in TableT(n) /\ z \in 0 .. n - 1 BY <1>2, <2>3 DEF Sound
  <2>6. s \in TableT(n) /\ s.nodes = ms /\ s.used = t.used BY <1>8, <2>4, <2>5 DEF TableT
  <2>7. Full(s, n) BY <1>2, <1>8, <1>15, <2>6 DEF Full
  <2>8. \E x : Pairs(ms) = Added(Pairs(ns), k, x)
    <3>1. PICK x : x = ms[at].val OBVIOUS
    <3>2. ms = WithVal(ms, at, x) BY <1>8, <1>10, <3>1 DEF Node, WithVal
    <3>3. Pairs(WithVal(ms, at, x)) = Added(Pairs(ns), k, x) BY <1>2, <1>5, <1>9, PlacePairs
    <3> QED BY <3>2, <3>3
  <2>9. ASSUME Fresh(t), t.used + 1 < n PROVE FALSE
    <3>1. Cardinality(Occ(ms)) # n BY <1>2, <1>15, <2>9
    <3>2. Occ(ms) # 0 .. n - 1
      <4>1. 0 \in Int /\ n - 1 \in Int BY <1>2
      <4>2. Cardinality(0 .. n - 1) = IF 0 > n - 1 THEN 0 ELSE n - 1 - 0 + 1 BY ONLY <4>1, FS_Interval
      <4> QED BY <1>2, <3>1, <4>2
    <3>3. PICK i \in 0 .. n - 1 : ms[i].key = Null BY <1>10, <3>2 DEF Occ
    <3>4. ns[i].key = Null /\ (ns[i].next = Nil => ms[i].next = Nil) BY <1>5, <3>3 DEF Placed
    <3>5. ns[i].next = Nil /\ i <= f BY <1>1, <1>10, <2>9, <3>4 DEF Fresh
    <3>6. i \in free BY <1>2, <1>6, <3>3, <3>4, <3>5
    <3> QED BY <1>19, <3>6
  <2>10. ins.fits = FALSE BY <2>1
  <2> QED BY <1>1, <1>17, <2>2, <2>6, <2>7, <2>8, <2>9, <2>10
<1> QED BY <1>18, <1>19

-----------------------------------------------------------------------------
(* The loops that fill a fresh array.                                      *)

OccBelow(ns, i) == {j \in Occ(ns) : j < i}
PairsBelow(ns, i) == {<<ns[j].key, ns[j].val>> : j \in OccBelow(ns, i)}

\* c holds what the nodes of ns before i hold.
Copied(c, size, ns, i) ==
    /\ Sound(c, size) /\ Fresh(c)
    /\ c.used = Cardinality(OccBelow(ns, i))
    /\ Pairs(c.nodes) = PairsBelow(ns, i)

LEMMA AllocIs ==
    ASSUME NEW n \in Nat, n >= 4
    PROVE  /\ Sound(AllocNodes(n), n) /\ Fresh(AllocNodes(n))
           /\ AllocNodes(n).used = 0 /\ Pairs(AllocNodes(n).nodes) = {}
PROOF
<1>1. PICK c, z, m : c = AllocNodes(n) /\ z = 0 /\ m = n - 1 OBVIOUS
<1>2. c = [nodes |-> [i \in 0 .. n - 1 |-> FreeNode], firstfree |-> m, used |-> z]
  BY <1>1 DEF AllocNodes
<1>3. PICK ns : ns = c.nodes OBVIOUS
<1>4. /\ ns = [i \in 0 .. n - 1 |-> FreeNode] /\ c.firstfree = m /\ c.used = z
      /\ m \in 0 .. n - 1 /\ z \in Nat
  BY <1>1, <1>2, <1>3
<1>5. FreeNode \in Node(n) /\ FreeNode.key = Null /\ FreeNode.next = Nil
  <2>1. PICK b : b = -1 OBVIOUS
  <2>2. b \in -1 .. n - 1 BY <2>1
  <2>3. FreeNode = [key |-> Null, val |-> Null, next |-> b] BY <2>1 DEF FreeNode, Nil
  <2> QED BY <2>1, <2>2, <2>3 DEF Node, Nil
<1>6. ns \in [0 .. n - 1 -> Node(n)] BY <1>4, <1>5
<1>7. c \in TableT(n) BY <1>2, <1>3, <1>4, <1>6 DEF TableT
<1>8. DOMAIN ns = 0 .. n - 1 /\ \A i \in 0 .. n - 1 : ns[i].key = Null /\ ns[i].next = Nil
  BY <1>4, <1>5
<1>9. Occ(ns) = {} BY <1>8 DEF Occ
<1>10. Acyclic(ns)
  <2>1. ASSUME NEW S \in SUBSET DOMAIN ns, S # {} PROVE \E i \in S : ns[i].next \notin S
    <3>1. PICK i : i \in S BY <2>1
    <3>2. ns[i].next = Nil /\ Nil \notin S BY <1>8, <3>1 DEF Nil
    <3> QED BY <3>1, <3>2
  <2> QED BY <2>1 DEF Acyclic
<1>11. OneLink(ns) /\ KeysOnce(ns) BY <1>8 DEF OneLink, KeysOnce
<1>12. Reached(ns, n) /\ Homed(ns, n) BY <1>9 DEF Reached, Homed
<1>13. Linked(ns, n) BY <1>10, <1>11, <1>12 DEF Linked
<1>14. LinksAbove(ns, m) BY <1>8 DEF LinksAbove
<1>15. Cardinality(Occ(ns)) = z BY <1>1, <1>9, FS_EmptySet
<1>16. Sound(c, n) BY <1>3, <1>4, <1>7, <1>8, <1>13, <1>14, <1>15 DEF Sound
<1>17. \A i \in 0 .. n - 1 : i <= m BY <1>1
<1>18. Fresh(c) BY <1>3, <1>4, <1>8, <1>17 DEF Fresh
<1>19. Pairs(ns) = {} BY <1>9 DEF Pairs
<1> QED BY <1>1, <1>3, <1>4, <1>16, <1>18, <1>19

LEMMA BelowIs ==
    ASSUME NEW n \in Nat, NEW ns \in [0 .. n - 1 -> Node(n)]
    PROVE  /\ OccBelow(ns, 0) = {} /\ PairsBelow(ns, 0) = {}
           /\ OccBelow(ns, n) = Occ(ns) /\ PairsBelow(ns, n) = Pairs(ns)
           /\ \A i \in 0 .. n - 1 :
                 IF ns[i].key = Null
                   THEN /\ OccBelow(ns, i + 1) = OccBelow(ns, i)
                        /\ PairsBelow(ns, i + 1) = PairsBelow(ns, i)
                   ELSE /\ OccBelow(ns, i + 1) = OccBelow(ns, i) \cup {i}
                        /\ PairsBelow(ns, i + 1) = PairsBelow(ns, i) \cup {<<ns[i].key, ns[i].val>>}
PROOF
<1>1. DOMAIN ns = 0 .. n - 1 BY NodesT
<1>2. \A j \in Occ(ns) : j \in 0 .. n - 1 BY <1>1 DEF Occ
<1>3. OccBelow(ns, 0) = {} /\ OccBelow(ns, n) = Occ(ns) BY <1>2 DEF OccBelow
<1>4. PairsBelow(ns, 0) = {} /\ PairsBelow(ns, n) = Pairs(ns) BY <1>3 DEF PairsBelow, Pairs
<1>5. ASSUME NEW i \in 0 .. n - 1, ns[i].key = Null
      PROVE  OccBelow(ns, i + 1) = OccBelow(ns, i) /\ PairsBelow(ns, i + 1) = PairsBelow(ns, i)
  <2>1. i \notin Occ(ns) BY <1>5 DEF Occ
  <2>2. \A j \in Occ(ns) : j < i + 1 <=> j < i BY <1>2, <2>1
  <2>3. OccBelow(ns, i + 1) = OccBelow(ns, i) BY <2>2 DEF OccBelow
  <2> QED BY <2>3 DEF PairsBelow
<1>6. ASSUME NEW i \in 0 .. n - 1, ns[i].key # Null
      PROVE  /\ OccBelow(ns, i + 1) = OccBelow(ns, i) \cup {i}
             /\ PairsBelow(ns, i + 1) = PairsBelow(ns, i) \cup {<<ns[i].key, ns[i].val>>}
  <2>1. i \in Occ(ns) BY <1>1, <1>6 DEF Occ
  <2>2. \A j \in Occ(ns) : j < i + 1 <=> j < i \/ j = i BY <1>2
  <2>3. i < i + 1 OBVIOUS
  <2>4. OccBelow(ns, i + 1) = OccBelow(ns, i) \cup {i} BY <2>1, <2>2, <2>3 DEF OccBelow
  <2> QED BY <2>4 DEF PairsBelow
<1> QED BY <1>3, <1>4, <1>5, <1>6

\* One slot is copied: its key is not in the new nodes yet, and there is room for it.
LEMMA CopyStep ==
    ASSUME NEW n \in Nat, NEW ns \in [0 .. n - 1 -> Node(n)], KeysOnce(ns),
           NEW size, Cardinality(Occ(ns)) < size,
           NEW i \in 0 .. n - 1, NEW c, Copied(c, size, ns, i)
    PROVE  IF ns[i].key = Null THEN Copied(c, size, ns, i + 1)
           ELSE /\ GetNode(c, ns[i].key) = Nil /\ Insert(c, ns[i].key, ns[i].val).fits
                /\ Copied(Insert(c, ns[i].key, ns[i].val).table, size, ns, i + 1)
PROOF
<1>1. /\ DOMAIN ns = 0 .. n - 1
      /\ ns[i].key \in Keys \cup {Null} /\ ns[i].val \in Vals \cup {Null}
  BY NodesT
<1>2. CASE ns[i].key = Null BY <1>2, BelowIs DEF Copied
<1>3. CASE ns[i].key # Null
  <2>1. PICK k, v : k = ns[i].key /\ v = ns[i].val OBVIOUS
  <2>2. k \in Keys /\ v \in Vals \cup {Null} BY <1>1, <1>3, <2>1
  <2>3. Sound(c, size) /\ Fresh(c) /\ c.used = Cardinality(OccBelow(ns, i))
        /\ Pairs(c.nodes) = PairsBelow(ns, i)
    BY DEF Copied
  <2>4. size \in Nat \ {0} /\ c.nodes \in [0 .. size - 1 -> Node(size)] /\ Acyclic(c.nodes)
    BY <2>3 DEF Sound, TableT, Linked
  <2>5. DOMAIN c.nodes = 0 .. size - 1 BY <2>4, NodesT
  <2>6. ASSUME NEW j \in 0 .. size - 1, c.nodes[j].key = k PROVE FALSE
    <3>1. j \in Occ(c.nodes) BY <1>3, <2>1, <2>5, <2>6 DEF Occ
    <3>2. <<c.nodes[j].key, c.nodes[j].val>> \in PairsBelow(ns, i) BY <2>3, <3>1 DEF Pairs
    <3>3. PICK x \in OccBelow(ns, i) : <<c.nodes[j].key, c.nodes[j].val>> = <<ns[x].key, ns[x].val>>
      BY <3>2 DEF PairsBelow
    <3>4. ns[x].key = ns[i].key BY <2>1, <2>6, <3>3
    <3>5. x \in 0 .. n - 1 /\ x < i BY <1>1, <3>3 DEF OccBelow, Occ
    <3>6. x = i BY <1>1, <1>3, <3>4, <3>5 DEF KeysOnce
    <3> QED BY <3>5, <3>6
  <2>7. GetNode(c, k) = Nil BY <2>2, <2>4, <2>6, GetNodeMisses
  <2>8. /\ OccBelow(ns, i + 1) = OccBelow(ns, i) \cup {i}
        /\ PairsBelow(ns, i + 1) = PairsBelow(ns, i) \cup {<<k, v>>}
    BY <1>3, <2>1, BelowIs
  <2>9. IsFiniteSet(Occ(ns)) /\ Cardinality(Occ(ns)) \in Nat BY <1>1, OccIs
  <2>10. OccBelow(ns, i) \in SUBSET Occ(ns) /\ OccBelow(ns, i + 1) \in SUBSET Occ(ns) BY DEF OccBelow
  <2>11. IsFiniteSet(OccBelow(ns, i)) BY <2>9, <2>10, FS_Subset
  <2>12. Cardinality(OccBelow(ns, i) \cup {i}) =
           IF i \in OccBelow(ns, i) THEN Cardinality(OccBelow(ns, i))
           ELSE Cardinality(OccBelow(ns, i)) + 1
    BY <2>11, FS_AddElement
  <2>13. i \notin OccBelow(ns, i) BY DEF OccBelow
  <2>14. Cardinality(OccBelow(ns, i + 1)) = c.used + 1 BY <2>3, <2>8, <2>12, <2>13
  <2>15. Cardinality(OccBelow(ns, i + 1)) <= Cardinality(Occ(ns)) BY <2>9, <2>10, FS_Subset
  <2>16. c.used \in Nat BY <2>3 DEF Sound, TableT
  <2>17. c.used + 1 < size BY <2>4, <2>9, <2>14, <2>15, <2>16
  <2>18. PICK ins : ins = Insert(c, k, v) OBVIOUS
  <2>19. /\ ins.fits /\ Fresh(ins.table) /\ Sound(ins.table, size) /\ ins.table.used = c.used + 1
         /\ Pairs(ins.table.nodes) = Added(Pairs(c.nodes), k, v)
    BY <2>2, <2>3, <2>6, <2>17, <2>18, InsertIs
  <2>20. Copied(ins.table, size, ns, i + 1) BY <2>3, <2>8, <2>14, <2>19 DEF Copied, Added
  <2> QED BY <1>3, <2>1, <2>7, <2>18, <2>19, <2>20
<1> QED BY <1>2, <1>3

\* f[i] is the new table after i steps of the loop of Rehash.
IsReinsert(t, size, m, f) ==
    f = [i \in 0 .. m |->
            IF i = 0 THEN AllocNodes(size)
            ELSE IF t.nodes[i-1].key = Null THEN f[i-1]
            ELSE Insert(f[i-1], t.nodes[i-1].key, t.nodes[i-1].val).table]

LEMMA ReinsertExists ==
    ASSUME NEW t, NEW size, NEW n \in Nat
    PROVE  \E f : IsReinsert(t, size, n, f)
PROOF
<1>1. PICK T : T = {m \in Nat : ~\E f : IsReinsert(t, size, m, f)} OBVIOUS
<1>2. SUFFICES ASSUME T # {} PROVE FALSE BY <1>1
<1>3. T \subseteq Nat BY <1>1
<1>4. PICK m \in T : \A y \in T : m <= y BY <1>2, <1>3, Least
<1>5. m \in Nat /\ ~\E f : IsReinsert(t, size, m, f) BY <1>1
<1>6. CASE m = 0
  <2>1. PICK f : f = [i \in 0 .. 0 |-> AllocNodes(size)] OBVIOUS
  <2>2. \A i \in 0 .. 0 : f[i] = IF i = 0 THEN AllocNodes(size)
                                 ELSE IF t.nodes[i-1].key = Null THEN f[i-1]
                                 ELSE Insert(f[i-1], t.nodes[i-1].key, t.nodes[i-1].val).table
    BY <2>1
  <2>3. f = [i \in 0 .. 0 |-> f[i]] BY <2>1
  <2>4. IsReinsert(t, size, 0, f) BY <2>2, <2>3 DEF IsReinsert
  <2> QED BY <1>5, <1>6, <2>4
<1>7. CASE m # 0
  <2>1. m - 1 \in Nat /\ m - 1 \notin T BY <1>4, <1>5, <1>7
  <2>2. PICK p : p = m - 1 OBVIOUS
  <2>3. PICK g : IsReinsert(t, size, p, g) BY <1>1, <2>1, <2>2
  <2>4. \A i \in 0 .. p : g[i] = IF i = 0 THEN AllocNodes(size)
                                 ELSE IF t.nodes[i-1].key = Null THEN g[i-1]
                                 ELSE Insert(g[i-1], t.nodes[i-1].key, t.nodes[i-1].val).table
    BY <2>3 DEF IsReinsert
  <2>5. PICK last : last = IF t.nodes[m-1].key = Null THEN g[m-1]
                           ELSE Insert(g[m-1], t.nodes[m-1].key, t.nodes[m-1].val).table
    OBVIOUS
  <2>6. PICK f : f = [i \in 0 .. m |-> IF i = m THEN last ELSE g[i]] OBVIOUS
  <2>7. \A i \in 0 .. p : f[i] = g[i] /\ i \in 0 .. m BY <1>5, <2>1, <2>2, <2>6
  <2>8. f[m] = last BY <1>5, <2>6
  <2>9. ASSUME NEW i \in 0 .. m
        PROVE  f[i] = IF i = 0 THEN AllocNodes(size)
                      ELSE IF t.nodes[i-1].key = Null THEN f[i-1]
                      ELSE Insert(f[i-1], t.nodes[i-1].key, t.nodes[i-1].val).table
    <3>1. CASE i = m
      <4>1. m - 1 \in 0 .. p BY <2>1, <2>2
      <4>2. f[m-1] = g[m-1] BY <2>7, <4>1
      <4> QED BY <1>7, <2>5, <2>8, <3>1, <4>2
    <3>2. CASE i # m
      <4>1. i \in 0 .. p /\ (i # 0 => i - 1 \in 0 .. p) BY <1>5, <2>1, <2>2, <3>2
      <4>2. f[i] = g[i] /\ (i # 0 => f[i-1] = g[i-1]) BY <2>7, <4>1
      <4> QED BY <2>4, <4>1, <4>2
    <3> QED BY <3>1, <3>2
  <2>10. f = [i \in 0 .. m |-> f[i]] BY <2>6
  <2>11. IsReinsert(t, size, m, f) BY <2>9, <2>10 DEF IsReinsert
  <2> QED BY <1>5, <2>11
<1> QED BY <1>6, <1>7

\* f are the tables of a loop that inserts the slots ns, one after the other, into size
\* fresh nodes; of NewSlot it is said only what it does for a new key that fits.
Copying(f, ns, n, size) ==
    /\ f[0] = AllocNodes(size)
    /\ \A j \in 0 .. n - 1 :
          IF ns[j].key = Null THEN f[j+1] = f[j]
          ELSE GetNode(f[j], ns[j].key) = Nil /\ Insert(f[j], ns[j].key, ns[j].val).fits
               => f[j+1] = Insert(f[j], ns[j].key, ns[j].val).table

\* The loop copies all the slots, and never runs out of nodes, if the new array has one
\* to spare.
LEMMA CopyLoop ==
    ASSUME NEW n \in Nat, NEW ns \in [0 .. n - 1 -> Node(n)], KeysOnce(ns),
           NEW size \in Nat, size >= 4, Cardinality(Occ(ns)) < size,
           NEW f, Copying(f, ns, n, size)
    PROVE  Sound(f[n], size) /\ Pairs(f[n].nodes) = Pairs(ns)
PROOF
<1> DEFINE Ok(i) == Copied(f[i], size, ns, i)
<1>1. Ok(0)
  <2>1. OccBelow(ns, 0) = {} /\ PairsBelow(ns, 0) = {} BY BelowIs
  <2>2. Cardinality({}) = 0 BY FS_EmptySet
  <2> QED BY <2>1, <2>2, AllocIs DEF Copied, Copying
<1>2. ASSUME NEW j \in 0 .. n - 1, Ok(j) PROVE Ok(j + 1)
  <2>1. PICK c, k, v : c = f[j] /\ k = ns[j].key /\ v = ns[j].val OBVIOUS
  <2>2. Copied(c, size, ns, j) BY <1>2, <2>1
  <2>3. IF ns[j].key = Null THEN Copied(c, size, ns, j + 1)
        ELSE /\ GetNode(c, ns[j].key) = Nil /\ Insert(c, ns[j].key, ns[j].val).fits
             /\ Copied(Insert(c, ns[j].key, ns[j].val).table, size, ns, j + 1)
    BY <2>2, CopyStep
  <2>4. IF k = Null THEN f[j+1] = c
        ELSE GetNode(c, k) = Nil /\ Insert(c, k, v).fits => f[j+1] = Insert(c, k, v).table
    BY <2>1 DEF Copying
  <2> QED BY <2>1, <2>3, <2>4
<1> HIDE DEF Ok
<1>3. PICK Bad : Bad = {i \in 0 .. n : ~Ok(i)} OBVIOUS
<1>4. Bad = {}
  <2>1. SUFFICES ASSUME Bad # {} PROVE FALSE OBVIOUS
  <2>2. Bad \subseteq Nat BY <1>3
  <2>3. PICK i \in Bad : \A y \in Bad : i <= y BY <2>1, <2>2, Least
  <2>4. i \in 0 .. n /\ ~Ok(i) BY <1>3
  <2>5. PICK j : j = i - 1 OBVIOUS
  <2>6. j \in 0 .. n - 1 /\ j + 1 = i BY <1>1, <2>4, <2>5
  <2>7. j \notin Bad BY <2>3, <2>6
  <2>8. Ok(j) BY <1>3, <2>6, <2>7
  <2> QED BY <1>2, <2>4, <2>6, <2>8
<1>5. Copied(f[n], size, ns, n) BY <1>3, <1>4 DEF Ok
<1>6. Pairs(f[n].nodes) = Pairs(ns) BY <1>5, BelowIs DEF Copied
<1> QED BY <1>5, <1>6 DEF Copied

\* Rehash loses no slot.
LEMMA ReinsertIs ==
    ASSUME NEW n \in Nat \ {0}, NEW t, t.nodes \in [0 .. n - 1 -> Node(n)], KeysOnce(t.nodes),
           NEW size \in Nat, size >= 4, Cardinality(Occ(t.nodes)) < size
    PROVE  /\ Sound(Reinsert(t, size), size)
           /\ Pairs(Reinsert(t, size).nodes) = Pairs(t.nodes)
PROOF
<1>1. PICK ns : ns = t.nodes OBVIOUS
<1>2. DOMAIN ns = 0 .. n - 1 /\ Size(t) = n BY <1>1, NodesT, SizeIs
<1>3. PICK f : f = CHOOSE g : IsReinsert(t, size, n, g) OBVIOUS
<1>4. IsReinsert(t, size, n, f) BY <1>3, ReinsertExists
<1>5. Reinsert(t, size) = f[n] BY <1>2, <1>3 DEF Reinsert, IsReinsert
<1>6. \A i \in 0 .. n : f[i] = IF i = 0 THEN AllocNodes(size)
                               ELSE IF ns[i-1].key = Null THEN f[i-1]
                               ELSE Insert(f[i-1], ns[i-1].key, ns[i-1].val).table
  BY <1>1, <1>4 DEF IsReinsert
<1>7. ASSUME NEW j \in 0 .. n - 1
      PROVE  f[j+1] = IF ns[j].key = Null THEN f[j] ELSE Insert(f[j], ns[j].key, ns[j].val).table
  <2>1. j + 1 \in 0 .. n /\ j + 1 # 0 /\ (j + 1) - 1 = j OBVIOUS
  <2> QED BY <1>6, <2>1
<1>8. Copying(f, ns, n, size)
  <2>1. 0 \in 0 .. n OBVIOUS
  <2>2. f[0] = AllocNodes(size) BY <1>6, <2>1
  <2> QED BY <1>7, <2>2 DEF Copying
<1>9. Sound(f[n], size) /\ Pairs(f[n].nodes) = Pairs(ns) BY <1>1, <1>8, CopyLoop
<1> QED BY <1>1, <1>5, <1>9

\* f[i] is the new table after i steps of the loop of Clone.
IsClone(t, m, f) ==
    f = [i \in 0 .. m |->
            IF i = 0 THEN AllocNodes(Size(t))
            ELSE IF t.nodes[i-1].key = Null THEN f[i-1]
            ELSE NewSlot(f[i-1], t.nodes[i-1].key, t.nodes[i-1].val).table]

LEMMA CloneExists ==
    ASSUME NEW t, NEW n \in Nat
    PROVE  \E f : IsClone(t, n, f)
PROOF
<1>1. PICK T : T = {m \in Nat : ~\E f : IsClone(t, m, f)} OBVIOUS
<1>2. SUFFICES ASSUME T # {} PROVE FALSE BY <1>1
<1>3. T \subseteq Nat BY <1>1
<1>4. PICK m \in T : \A y \in T : m <= y BY <1>2, <1>3, Least
<1>5. m \in Nat /\ ~\E f : IsClone(t, m, f) BY <1>1
<1>6. CASE m = 0
  <2>1. PICK f : f = [i \in 0 .. 0 |-> AllocNodes(Size(t))] OBVIOUS
  <2>2. \A i \in 0 .. 0 : f[i] = IF i = 0 THEN AllocNodes(Size(t))
                                 ELSE IF t.nodes[i-1].key = Null THEN f[i-1]
                                 ELSE NewSlot(f[i-1], t.nodes[i-1].key, t.nodes[i-1].val).table
    BY <2>1
  <2>3. f = [i \in 0 .. 0 |-> f[i]] BY <2>1
  <2>4. IsClone(t, 0, f) BY <2>2, <2>3 DEF IsClone
  <2> QED BY <1>5, <1>6, <2>4
<1>7. CASE m # 0
  <2>1. m - 1 \in Nat /\ m - 1 \notin T BY <1>4, <1>5, <1>7
  <2>2. PICK p : p = m - 1 OBVIOUS
  <2>3. PICK g : IsClone(t, p, g) BY <1>1, <2>1, <2>2
  <2>4. \A i \in 0 .. p : g[i] = IF i = 0 THEN AllocNodes(Size(t))
                                 ELSE IF t.nodes[i-1].key = Null THEN g[i-1]
                                 ELSE NewSlot(g[i-1], t.nodes[i-1].key, t.nodes[i-1].val).table
    BY <2>3 DEF IsClone
  <2>5. PICK last : last = IF t.nodes[m-1].key = Null THEN g[m-1]
                           ELSE NewSlot(g[m-1], t.nodes[m-1].key, t.nodes[m-1].val).table
    OBVIOUS
  <2>6. PICK f : f = [i \in 0 .. m |-> IF i = m THEN last ELSE g[i]] OBVIOUS
  <2>7. \A i \in 0 .. p : f[i] = g[i] /\ i \in 0 .. m BY <1>5, <2>1, <2>2, <2>6
  <2>8. f[m] = last BY <1>5, <2>6
  <2>9. ASSUME NEW i \in 0 .. m
        PROVE  f[i] = IF i = 0 THEN AllocNodes(Size(t))
                      ELSE IF t.nodes[i-1].key = Null THEN f[i-1]
                      ELSE NewSlot(f[i-1], t.nodes[i-1].key, t.nodes[i-1].val).table
    <3>1. CASE i = m
      <4>1. m - 1 \in 0 .. p BY <2>1, <2>2
      <4>2. f[m-1] = g[m-1] BY <2>7, <4>1
      <4> QED BY <1>7, <2>5, <2>8, <3>1, <4>2
    <3>2. CASE i # m
      <4>1. i \in 0 .. p /\ (i # 0 => i - 1 \in 0 .. p) BY <1>5, <2>1, <2>2, <3>2
      <4>2. f[i] = g[i] /\ (i # 0 => f[i-1] = g[i-1]) BY <2>7, <4>1
      <4> QED BY <2>4, <4>1, <4>2
    <3> QED BY <3>1, <3>2
  <2>10. f = [i \in 0 .. m |-> f[i]] BY <2>6
  <2>11. IsClone(t, m, f) BY <2>9, <2>10 DEF IsClone
  <2> QED BY <1>5, <2>11
<1> QED BY <1>6, <1>7

\* A clone has the slots of the table; a table is never full, so the new one is not either.
LEMMA CloneIs ==
    ASSUME NEW n, NEW t, Sound(t, n)
    PROVE  Sound(Clone(t), n) /\ Pairs(Clone(t).nodes) = Pairs(t.nodes)
PROOF
<1>1. PICK ns : ns = t.nodes OBVIOUS
<1>2. n \in Nat \ {0} /\ n >= 4 /\ ns \in [0 .. n - 1 -> Node(n)] /\ KeysOnce(ns)
  BY <1>1 DEF Sound, TableT, Linked
<1>3. DOMAIN ns = 0 .. n - 1 /\ Size(t) = n BY <1>1, <1>2, NodesT, SizeIs
<1>4. PICK f : f = CHOOSE g : IsClone(t, n, g) OBVIOUS
<1>5. IsClone(t, n, f) BY <1>2, <1>4, CloneExists
<1>6. Clone(t) = f[n] BY <1>3, <1>4 DEF Clone, IsClone
<1>7. \A i \in 0 .. n : f[i] = IF i = 0 THEN AllocNodes(n)
                               ELSE IF ns[i-1].key = Null THEN f[i-1]
                               ELSE NewSlot(f[i-1], ns[i-1].key, ns[i-1].val).table
  BY <1>1, <1>3, <1>5 DEF IsClone
<1>8. ASSUME NEW j \in 0 .. n - 1
      PROVE  IF ns[j].key = Null THEN f[j+1] = f[j]
             ELSE GetNode(f[j], ns[j].key) = Nil /\ Insert(f[j], ns[j].key, ns[j].val).fits
                  => f[j+1] = Insert(f[j], ns[j].key, ns[j].val).table
  <2>1. j + 1 \in 0 .. n /\ j + 1 # 0 /\ (j + 1) - 1 = j BY <1>2
  <2>2. f[j+1] = IF ns[j].key = Null THEN f[j] ELSE NewSlot(f[j], ns[j].key, ns[j].val).table
    BY <1>7, <2>1
  <2>3. PICK c, k, v : c = f[j] /\ k = ns[j].key /\ v = ns[j].val OBVIOUS
  <2>4. GetNode(c, k) = Nil /\ Insert(c, k, v).fits => NewSlot(c, k, v).table = Insert(c, k, v).table
    BY DEF NewSlot
  <2> QED BY <2>2, <2>3, <2>4
<1>9. Copying(f, ns, n, n)
  <2>1. 0 \in 0 .. n BY <1>2
  <2>2. f[0] = AllocNodes(n) BY <1>7, <2>1
  <2> QED BY <1>8, <2>2 DEF Copying
<1>10. Cardinality(Occ(ns)) < n
  <2>1. t.firstfree \in 0 .. n - 1 /\ t.firstfree \notin Occ(ns) BY <1>1 DEF Sound, TableT, Occ
  <2> QED BY <1>2, <1>3, <2>1, OccIs
<1>11. n \in Nat BY <1>2
<1>12. Sound(f[n], n) /\ Pairs(f[n].nodes) = Pairs(ns)
  BY <1>2, <1>9, <1>10, <1>11, CopyLoop
<1> QED BY <1>1, <1>6, <1>12

-----------------------------------------------------------------------------
(* Sizes.                                                                  *)

IsDoubling(n, f) == f = [p \in 0 .. n |-> IF p = 0 THEN MINPOWER2 ELSE 2 * f[p-1]]

LEMMA DoublingExists ==
    ASSUME NEW n \in Nat
    PROVE  \E f : IsDoubling(n, f)
PROOF
<1>1. PICK T : T = {m \in Nat : ~\E f : IsDoubling(m, f)} OBVIOUS
<1>2. SUFFICES ASSUME T # {} PROVE FALSE BY <1>1
<1>3. T \subseteq Nat BY <1>1
<1>4. PICK m \in T : \A y \in T : m <= y BY <1>2, <1>3, Least
<1>5. m \in Nat /\ ~\E f : IsDoubling(m, f) BY <1>1
<1>6. CASE m = 0
  <2>1. PICK f : f = [p \in 0 .. 0 |-> MINPOWER2] OBVIOUS
  <2>2. \A p \in 0 .. 0 : f[p] = IF p = 0 THEN MINPOWER2 ELSE 2 * f[p-1] BY <2>1
  <2>3. f = [p \in 0 .. 0 |-> f[p]] BY <2>1
  <2>4. IsDoubling(0, f) BY <2>2, <2>3 DEF IsDoubling
  <2> QED BY <1>5, <1>6, <2>4
<1>7. CASE m # 0
  <2>1. m - 1 \in Nat /\ m - 1 \notin T BY <1>4, <1>5, <1>7
  <2>2. PICK l : l = m - 1 OBVIOUS
  <2>3. PICK g : IsDoubling(l, g) BY <1>1, <2>1, <2>2
  <2>4. \A p \in 0 .. l : g[p] = IF p = 0 THEN MINPOWER2 ELSE 2 * g[p-1] BY <2>3 DEF IsDoubling
  <2>5. PICK f : f = [p \in 0 .. m |-> IF p = m THEN 2 * g[m-1] ELSE g[p]] OBVIOUS
  <2>6. \A p \in 0 .. l : f[p] = g[p] BY <1>5, <2>1, <2>2, <2>5
  <2>7. f[m] = 2 * g[m-1] BY <1>5, <2>5
  <2>8. ASSUME NEW p \in 0 .. m PROVE f[p] = IF p = 0 THEN MINPOWER2 ELSE 2 * f[p-1]
    <3>1. CASE p = m
      <4>1. f[m-1] = g[m-1] BY <2>1, <2>2, <2>6
      <4> QED BY <1>7, <2>7, <3>1, <4>1
    <3>2. CASE p # m
      <4>1. p \in 0 .. l /\ (p # 0 => p - 1 \in 0 .. l) BY <1>5, <2>1, <2>2, <3>2
      <4>2. f[p] = g[p] /\ (p # 0 => f[p-1] = g[p-1]) BY <2>6, <4>1
      <4> QED BY <2>4, <4>1, <4>2
    <3> QED BY <3>1, <3>2
  <2>9. f = [p \in 0 .. m |-> f[p]] BY <2>5
  <2>10. IsDoubling(m, f) BY <2>8, <2>9 DEF IsDoubling
  <2> QED BY <1>5, <2>10
<1> QED BY <1>6, <1>7

LEMMA DoublingIs ==
    ASSUME NEW n \in Nat, NEW f, IsDoubling(n, f), NEW m \in Nat, NEW g, IsDoubling(m, g)
    PROVE  \A p \in 0 .. n : /\ f[p] \in Nat /\ f[p] >= p + 1 /\ f[p] >= MINPOWER2
                             /\ p \in 0 .. m => f[p] = g[p]
PROOF
<1>1. \A p \in 0 .. n : f[p] = IF p = 0 THEN MINPOWER2 ELSE 2 * f[p-1] BY DEF IsDoubling
<1>2. \A p \in 0 .. m : g[p] = IF p = 0 THEN MINPOWER2 ELSE 2 * g[p-1] BY DEF IsDoubling
<1> DEFINE Ok(p) == /\ f[p] \in Nat /\ f[p] >= p + 1 /\ f[p] >= MINPOWER2
                    /\ p \in 0 .. m => f[p] = g[p]
<1>3. Ok(0)
  <2>1. f[0] = MINPOWER2 /\ g[0] = MINPOWER2 BY <1>1, <1>2
  <2> QED BY <2>1, SizeAssumption
<1>4. ASSUME NEW p \in 0 .. n, p # 0, Ok(p - 1) PROVE Ok(p)
  <2>1. PICK q, a : q = p - 1 /\ a = f[q] OBVIOUS
  <2>2. p \in Nat /\ q \in Nat /\ p = q + 1 /\ a \in Nat /\ a >= q + 1 /\ a >= MINPOWER2
    BY <1>4, <2>1
  <2>3. f[p] = 2 * a BY <1>1, <1>4, <2>1
  <2>4. 2 * a \in Nat /\ 2 * a >= p + 1 BY <2>2
  <2>5. 2 * a >= MINPOWER2 BY <2>2, SizeAssumption
  <2>6. ASSUME p \in 0 .. m PROVE f[p] = g[p]
    <3>1. q \in 0 .. m /\ g[p] = 2 * g[q] BY <1>2, <1>4, <2>1, <2>2, <2>6
    <3>2. a = g[q] BY <1>4, <2>1, <3>1
    <3> QED BY <2>3, <3>1, <3>2
  <2> QED BY <2>3, <2>4, <2>5, <2>6
<1> HIDE DEF Ok
<1>5. PICK Bad : Bad = {p \in 0 .. n : ~Ok(p)} OBVIOUS
<1>6. Bad = {}
  <2>1. SUFFICES ASSUME Bad # {} PROVE FALSE OBVIOUS
  <2>2. Bad \subseteq Nat BY <1>5
  <2>3. PICK p \in Bad : \A y \in Bad : p <= y BY <2>1, <2>2, Least
  <2>4. p \in 0 .. n /\ ~Ok(p) BY <1>5
  <2>5. p # 0 BY <1>3, <2>4
  <2>6. p - 1 \notin Bad BY <2>3, <2>4, <2>5
  <2>7. Ok(p - 1) BY <1>5, <2>4, <2>5, <2>6
  <2> QED BY <1>4, <2>4, <2>5, <2>7
<1>7. \A p \in 0 .. n : Ok(p) BY <1>5, <1>6
<1> QED BY <1>7 DEF Ok

\* Doubled without the recursion in it.
LEMMA DoubledIs ==
    ASSUME NEW n \in Nat
    PROVE  Doubled(n) <=> \E m \in Nat : \E f : \E p \in 0 .. m : IsDoubling(m, f) /\ f[p] = n
PROOF
<1>1. PICK d : d = CHOOSE f : IsDoubling(n, f) OBVIOUS
<1>2. IsDoubling(n, d) BY <1>1, DoublingExists
<1>3. Doubled(n) <=> \E p \in 0 .. n : d[p] = n BY <1>1 DEF Doubled, IsDoubling
<1>4. ASSUME NEW m \in Nat, NEW f, NEW p \in 0 .. m, IsDoubling(m, f), f[p] = n
      PROVE  Doubled(n)
  <2>1. \A q \in 0 .. m : /\ f[q] \in Nat /\ f[q] >= q + 1
                          /\ q \in 0 .. n => f[q] = d[q]
    BY <1>2, <1>4, DoublingIs
  <2>2. p \in 0 .. n BY <1>4, <2>1
  <2> QED BY <1>3, <1>4, <2>1, <2>2
<1> QED BY <1>2, <1>3, <1>4

LEMMA DoubledSizes ==
    /\ Doubled(MINPOWER2)
    /\ \A n \in Nat : Doubled(n) => n >= MINPOWER2 /\ Doubled(2 * n)
    /\ \A n \in Nat : Doubled(n) /\ n > MINPOWER2 =>
          \E h \in Nat : n = 2 * h /\ Doubled(h) /\ h >= MINPOWER2
PROOF
<1>1. MINPOWER2 \in Nat BY SizeAssumption
<1>2. Doubled(MINPOWER2)
  <2>1. 0 \in Nat /\ 0 \in 0 .. 0 OBVIOUS
  <2>2. PICK f : IsDoubling(0, f) BY <2>1, DoublingExists
  <2>3. f[0] = MINPOWER2 BY <2>2 DEF IsDoubling
  <2> QED BY <1>1, <2>1, <2>2, <2>3, DoubledIs
<1>3. ASSUME NEW n \in Nat, Doubled(n)
      PROVE  /\ n >= MINPOWER2 /\ Doubled(2 * n)
             /\ n > MINPOWER2 => \E h \in Nat : n = 2 * h /\ Doubled(h) /\ h >= MINPOWER2
  <2>1. PICK m \in Nat : \E f : \E p \in 0 .. m : IsDoubling(m, f) /\ f[p] = n BY <1>3, DoubledIs
  <2>2. PICK f : \E p \in 0 .. m : IsDoubling(m, f) /\ f[p] = n BY <2>1
  <2>3. PICK p \in 0 .. m : IsDoubling(m, f) /\ f[p] = n BY <2>2
  <2>4. \A q \in 0 .. m : f[q] \in Nat /\ f[q] >= MINPOWER2 BY <2>3, DoublingIs
  <2>5. n >= MINPOWER2 BY <2>3, <2>4
  <2>6. PICK l, e : l = m + 1 /\ IsDoubling(l, e) BY DoublingExists
  <2>7. l \in Nat BY <2>6
  <2>8. \A q \in 0 .. m : q \in 0 .. l => f[q] = e[q] BY <2>3, <2>6, <2>7, DoublingIs
  <2>9. p + 1 \in 0 .. l /\ p \in 0 .. l /\ p + 1 # 0 /\ (p + 1) - 1 = p BY <2>6
  <2>10. e[p + 1] = 2 * e[p] BY <2>6, <2>9 DEF IsDoubling
  <2>11. e[p + 1] = 2 * n BY <2>3, <2>8, <2>9, <2>10
  <2>12. PICK nn : nn = 2 * n OBVIOUS
  <2>13. nn \in Nat BY <2>12
  <2>14. Doubled(nn) BY <2>6, <2>7, <2>9, <2>11, <2>12, <2>13, DoubledIs
  <2>15. ASSUME n > MINPOWER2 PROVE \E h \in Nat : n = 2 * h /\ Doubled(h) /\ h >= MINPOWER2
    <3>1. p # 0
      <4>1. p = 0 => f[p] = MINPOWER2 BY <2>3 DEF IsDoubling
      <4> QED BY <1>1, <2>3, <2>15, <4>1
    <3>2. f[p] = 2 * f[p - 1] BY <2>3, <3>1 DEF IsDoubling
    <3>3. PICK q, h : q = p - 1 /\ h = f[q] OBVIOUS
    <3>4. q \in 0 .. m BY <3>1, <3>3
    <3>5. h \in Nat /\ h >= MINPOWER2 BY <2>4, <3>3, <3>4
    <3>6. Doubled(h) BY <2>3, <3>3, <3>4, <3>5, DoubledIs
    <3> QED BY <2>3, <3>2, <3>3, <3>5, <3>6
  <2> QED BY <2>5, <2>12, <2>14, <2>15
<1> QED BY <1>2, <1>3

\* Rehash leaves the table as it is, or copies all of its slots into an array that has
\* room for them and a size the hashes can be cut to.
LEMMA RehashIs ==
    ASSUME NEW n \in Nat, n >= 4, Doubled(n), NEW t, t.nodes \in [0 .. n - 1 -> Node(n)],
           KeysOnce(t.nodes), t.used \in Nat,
           Cardinality(Occ(t.nodes)) \in {t.used, t.used + 1}, NEW force \in BOOLEAN
    PROVE  \/ ~force /\ Rehash(t, force) = t
           \/ \E m \in Nat : /\ Sound(Rehash(t, force), m) /\ Doubled(m)
                             /\ Pairs(Rehash(t, force).nodes) = Pairs(t.nodes)
                             /\ m # n \/ force
PROOF
<1>1. PICK c, u, r : c = Cardinality(Occ(t.nodes)) /\ u = t.used /\ r = Rehash(t, force) OBVIOUS
<1>2. DOMAIN t.nodes = 0 .. n - 1 /\ Size(t) = n /\ n \in Nat \ {0} BY NodesT, SizeIs
<1>3. c \in Nat /\ c <= n /\ u \in Nat /\ c <= u + 1 BY <1>1, <1>2, OccIs
<1>4. PICK old : old = Max({n, 4}) OBVIOUS
<1>5. old = n
  <2>1. {n, 4} \subseteq 0 .. n /\ {n, 4} # {} BY <1>2
  <2>2. old \in {n, 4} /\ \A y \in {n, 4} : y <= old BY <1>4, <2>1, MaxIs
  <2> QED BY <2>2
<1>6. r = IF u >= n - n \div 4 THEN Reinsert(t, n * 2)
          ELSE IF u <= n \div 4 /\ n > MINPOWER2 THEN Reinsert(t, n \div 2)
          ELSE IF force THEN Reinsert(t, n)
          ELSE t
  BY <1>1, <1>2, <1>4, <1>5 DEF Rehash
<1>7. n >= MINPOWER2 /\ Doubled(2 * n) BY DoubledSizes
<1>8. PICK q : q = n \div 4 OBVIOUS
<1>9. q \in Nat /\ 4 * q <= n /\ n < 4 * q + 4 /\ q >= 1 BY <1>2, <1>8
<1>10. ASSUME NEW m \in Nat, m >= 4, c < m, Doubled(m), m # n \/ force, r = Reinsert(t, m)
       PROVE  \E x \in Nat : /\ Sound(r, x) /\ Doubled(x) /\ Pairs(r.nodes) = Pairs(t.nodes)
                             /\ x # n \/ force
  <2>1. Sound(Reinsert(t, m), m) /\ Pairs(Reinsert(t, m).nodes) = Pairs(t.nodes)
    BY <1>1, <1>2, <1>10, ReinsertIs
  <2> QED BY <1>10, <2>1
<1>11. CASE u >= n - q
  <2>1. PICK m : m = 2 * n OBVIOUS
  <2>2. m \in Nat /\ m >= 4 /\ c < m /\ m # n /\ n * 2 = m BY <1>2, <1>3, <2>1
  <2>3. r = Reinsert(t, m) BY <1>6, <1>8, <1>11, <2>2
  <2> QED BY <1>1, <1>7, <1>10, <2>1, <2>2, <2>3
<1>12. CASE ~(u >= n - q) /\ u <= q /\ n > MINPOWER2
  <2>1. PICK h \in Nat : n = 2 * h /\ Doubled(h) /\ h >= MINPOWER2 BY <1>12, DoubledSizes
  <2>2. h >= 4 /\ h # n BY <1>2, <2>1, SizeAssumption
  <2>3. n \div 2 = h BY <2>1
  <2>4. c <= q + 1 BY <1>3, <1>9, <1>12
  <2>5. 4 * q <= 2 * h BY <1>9, <2>1
  <2>6. q + 1 < h BY <1>9, <2>2, <2>5
  <2>7. c < h BY <1>3, <1>9, <2>4, <2>6
  <2>8. r = Reinsert(t, h) BY <1>6, <1>8, <1>12, <2>3
  <2> QED BY <1>1, <1>10, <2>1, <2>2, <2>7, <2>8
<1>13. CASE ~(u >= n - q) /\ ~(u <= q /\ n > MINPOWER2) /\ force
  <2>1. c < n BY <1>3, <1>9, <1>13
  <2>2. r = Reinsert(t, n) BY <1>6, <1>8, <1>13
  <2> QED BY <1>1, <1>10, <1>13, <2>1, <2>2
<1>14. CASE ~(u >= n - q) /\ ~(u <= q /\ n > MINPOWER2) /\ ~force BY <1>1, <1>6, <1>8, <1>14
<1> QED BY <1>11, <1>12, <1>13, <1>14

-----------------------------------------------------------------------------
(* The operations.                                                         *)

\* The keys of a table, and what it holds for them.
LEMMA PairsAre ==
    ASSUME NEW n, NEW t, Sound(t, n)
    PROVE  /\ Present(t) = {p[1] : p \in Pairs(t.nodes)} /\ Present(t) \subseteq Keys
           /\ \A i \in Occ(t.nodes) : t.nodes[GetNode(t, t.nodes[i].key)].val = t.nodes[i].val
PROOF
<1>1. n \in Nat \ {0} /\ t.nodes \in [0 .. n - 1 -> Node(n)] /\ Linked(t.nodes, n)
  BY DEF Sound, TableT
<1>2. DOMAIN t.nodes = 0 .. n - 1 /\ \A i \in 0 .. n - 1 : t.nodes[i].key \in Keys \cup {Null}
  BY <1>1, NodesT
<1>3. ASSUME NEW i \in Occ(t.nodes) PROVE GetNode(t, t.nodes[i].key) = i
  <2>1. i \in 0 .. n - 1 /\ t.nodes[i].key # Null BY <1>2 DEF Occ
  <2> QED BY <1>1, <2>1, GetNodeFinds
<1>4. Present(t) = {t.nodes[i].key : i \in Occ(t.nodes)} BY DEF Present, Occ
<1>5. ASSUME NEW x PROVE x \in Present(t) <=> x \in {p[1] : p \in Pairs(t.nodes)}
  <2>1. ASSUME x \in Present(t) PROVE \E p \in Pairs(t.nodes) : p[1] = x
    <3>1. PICK i \in Occ(t.nodes) : x = t.nodes[i].key BY <1>4, <2>1
    <3>2. <<t.nodes[i].key, t.nodes[i].val>> \in Pairs(t.nodes) BY DEF Pairs
    <3> QED BY <3>1, <3>2
  <2>2. ASSUME NEW p \in Pairs(t.nodes), x = p[1] PROVE x \in Present(t)
    <3>1. PICK i \in Occ(t.nodes) : p = <<t.nodes[i].key, t.nodes[i].val>> BY DEF Pairs
    <3> QED BY <1>4, <2>2, <3>1
  <2> QED BY <2>1, <2>2
<1>6. Present(t) \subseteq Keys BY <1>2 DEF Present
<1> QED BY <1>3, <1>5, <1>6

Without(P, k) == {p \in P : p[1] # k}
Overwritten(P, k, v) == Without(P, k) \cup {<<k, v>>}

\* Writing a value into a node changes no key and no link.
LEMMA SetNodeIs ==
    ASSUME NEW n, NEW t, Sound(t, n), NEW i \in 0 .. n - 1, NEW v \in Vals
    PROVE  /\ Sound(SetNode(t, i, v), n)
           /\ \A j \in 0 .. n - 1 : SetNode(t, i, v).nodes[j].key = t.nodes[j].key
           /\ t.nodes[i].key = Null => Pairs(SetNode(t, i, v).nodes) = Pairs(t.nodes)
           /\ t.nodes[i].key # Null =>
                 Pairs(SetNode(t, i, v).nodes) = Overwritten(Pairs(t.nodes), t.nodes[i].key, v)
PROOF
<1>1. PICK ns, s, ms : ns = t.nodes /\ s = SetNode(t, i, v) /\ ms = s.nodes OBVIOUS
<1>2. n \in Nat \ {0} /\ ns \in [0 .. n - 1 -> Node(n)] /\ t \in TableT(n) /\ Linked(ns, n)
  BY <1>1 DEF Sound, TableT
<1>3. DOMAIN ns = 0 .. n - 1 BY <1>2, NodesT
<1>4. PICK q : q = [ns[i] EXCEPT !.val = v] OBVIOUS
<1>5. q \in Node(n) /\ q.key = ns[i].key /\ q.val = v /\ q.next = ns[i].next
  <2>1. ns[i] \in Node(n) BY <1>2
  <2> QED BY <1>4, <2>1 DEF Node
<1>6. s = [t EXCEPT !.nodes = [ns EXCEPT ![i] = q]] BY <1>1, <1>2, <1>4 DEF SetNode
<1>7. ms = [ns EXCEPT ![i] = q] /\ s.firstfree = t.firstfree /\ s.used = t.used
  BY <1>1, <1>2, <1>6 DEF TableT
<1>8. ms \in [0 .. n - 1 -> Node(n)] BY <1>2, <1>5, <1>7
<1>9. s \in TableT(n)
  <2>1. s = [t EXCEPT !.nodes = ms] BY <1>6, <1>7
  <2> QED BY <1>2, <1>8, <2>1 DEF TableT
<1>10. /\ DOMAIN ms = 0 .. n - 1 /\ ms[i] = q
       /\ \A j \in 0 .. n - 1 : j # i => ms[j] = ns[j]
  BY <1>3, <1>7
<1>11. \A j \in 0 .. n - 1 : ms[j].key = ns[j].key /\ ms[j].next = ns[j].next BY <1>5, <1>10
<1>12. Linked(ms, n) /\ \A f : LinksAbove(ns, f) => LinksAbove(ms, f)
  BY <1>2, <1>10, <1>11, FewerKeys
<1>13. Occ(ms) = Occ(ns) BY <1>3, <1>10, <1>11 DEF Occ
<1>14. Sound(s, n)
  <2>1. t.firstfree \in 0 .. n - 1 BY <1>2 DEF TableT
  <2>2. ms[t.firstfree].key = Null /\ ms[t.firstfree].next = Nil BY <1>1, <1>11, <2>1 DEF Sound
  <2> QED BY <1>1, <1>7, <1>9, <1>12, <1>13, <2>2 DEF Sound
<1>15. CASE ns[i].key = Null
  <2>1. \A j \in Occ(ns) : j \in 0 .. n - 1 /\ j # i BY <1>3, <1>15 DEF Occ
  <2>2. \A j \in Occ(ns) : ms[j] = ns[j] BY <1>10, <2>1
  <2>3. Pairs(ms) = Pairs(ns) BY <1>13, <2>2 DEF Pairs
  <2> QED BY <1>1, <1>11, <1>14, <1>15, <2>3
<1>16. CASE ns[i].key # Null
  <2>1. i \in Occ(ns) BY <1>3, <1>16 DEF Occ
  <2>2. \A j \in Occ(ns) : j \in 0 .. n - 1 BY <1>3 DEF Occ
  <2>3. ASSUME NEW j \in Occ(ns), j # i PROVE ms[j] = ns[j] /\ ns[j].key # ns[i].key
    BY <1>2, <1>3, <1>10, <1>16, <2>2, <2>3 DEF Linked, KeysOnce
  <2>4. ASSUME NEW j \in Occ(ns)
        PROVE  <<ms[j].key, ms[j].val>> \in Without(Pairs(ns), ns[i].key) \cup {<<ns[i].key, v>>}
    <3>1. CASE j = i BY <1>5, <1>10, <3>1
    <3>2. CASE j # i
      <4>1. PICK p : p = <<ns[j].key, ns[j].val>> OBVIOUS
      <4>2. p \in Pairs(ns) /\ p[1] # ns[i].key BY <2>3, <3>2, <4>1 DEF Pairs
      <4>3. <<ms[j].key, ms[j].val>> = p BY <2>3, <3>2, <4>1
      <4> QED BY <4>2, <4>3 DEF Without
    <3> QED BY <3>1, <3>2
  <2>5. ASSUME NEW p \in Without(Pairs(ns), ns[i].key) PROVE p \in Pairs(ms)
    <3>1. PICK j \in Occ(ns) : p = <<ns[j].key, ns[j].val>> BY DEF Without, Pairs
    <3>2. p[1] # ns[i].key BY DEF Without
    <3>3. j # i BY <3>1, <3>2
    <3>4. p = <<ms[j].key, ms[j].val>> BY <2>3, <3>1, <3>3
    <3> QED BY <1>13, <3>4 DEF Pairs
  <2>6. <<ns[i].key, v>> \in Pairs(ms)
    <3>1. <<ms[i].key, ms[i].val>> \in Pairs(ms) BY <1>13, <2>1 DEF Pairs
    <3> QED BY <1>5, <1>10, <3>1
  <2>7. Pairs(ms) \subseteq Without(Pairs(ns), ns[i].key) \cup {<<ns[i].key, v>>}
    BY <1>13, <2>4 DEF Pairs
  <2>8. Pairs(ms) = Without(Pairs(ns), ns[i].key) \cup {<<ns[i].key, v>>} BY <2>5, <2>6, <2>7
  <2> QED BY <1>1, <1>11, <1>14, <1>16, <2>8 DEF Overwritten
<1> QED BY <1>15, <1>16

\* A key that is in no pair is in no node.
LEMMA AbsentIs ==
    ASSUME NEW n, NEW t, Sound(t, n), NEW k \in Keys
    PROVE  \/ /\ GetNode(t, k) = Nil /\ k \notin Present(t)
              /\ \A i \in 0 .. n - 1 : t.nodes[i].key # k
              /\ Without(Pairs(t.nodes), k) = Pairs(t.nodes)
           \/ /\ GetNode(t, k) \in 0 .. n - 1 /\ t.nodes[GetNode(t, k)].key = k
              /\ k \in Present(t) /\ GetNode(t, k) # Nil
PROOF
<1>1. n \in Nat \ {0} /\ t.nodes \in [0 .. n - 1 -> Node(n)] /\ Linked(t.nodes, n)
  BY DEF Sound, TableT
<1>2. DOMAIN t.nodes = 0 .. n - 1 /\ k # Null BY <1>1, NodesT, NullAssumption
<1>3. CASE \A i \in 0 .. n - 1 : t.nodes[i].key # k
  <2>1. GetNode(t, k) = Nil BY <1>1, <1>3, GetNodeMisses DEF Linked
  <2>2. k \notin Present(t) BY <1>2, <1>3 DEF Present
  <2>3. ASSUME NEW p \in Pairs(t.nodes) PROVE p[1] # k
    <3>1. PICK i \in Occ(t.nodes) : p = <<t.nodes[i].key, t.nodes[i].val>> BY DEF Pairs
    <3>2. i \in 0 .. n - 1 /\ p[1] = t.nodes[i].key BY <1>2, <3>1 DEF Occ
    <3> QED BY <1>3, <3>2
  <2>4. Without(Pairs(t.nodes), k) = Pairs(t.nodes) BY <2>3 DEF Without
  <2> QED BY <1>3, <2>1, <2>2, <2>4
<1>4. CASE \E i \in 0 .. n - 1 : t.nodes[i].key = k
  <2>1. PICK i \in 0 .. n - 1 : t.nodes[i].key = k BY <1>4
  <2>2. GetNode(t, t.nodes[i].key) = i BY <1>1, <1>2, <2>1, GetNodeFinds
  <2>3. k \in Present(t) BY <1>2, <2>1 DEF Present
  <2> QED BY <2>1, <2>2, <2>3 DEF Nil
<1> QED BY <1>3, <1>4

\* NewSlot creates the slot or overwrites it, whether a free node is left or the table
\* has to be rehashed first; if the key was there, no node gets another key.
LEMMA NewSlotIs ==
    ASSUME NEW n, NEW t, Sound(t, n), Doubled(n), NEW k \in Keys, NEW v \in Vals
    PROVE  LET r == NewSlot(t, k, v)
           IN /\ r.created \in BOOLEAN
              /\ \E m \in Nat : Sound(r.table, m) /\ Doubled(m)
              /\ Pairs(r.table.nodes) = Overwritten(Pairs(t.nodes), k, v)
              /\ k \in Present(t) =>
                    /\ Sound(r.table, n)
                    /\ \A i \in 0 .. n - 1 : r.table.nodes[i].key = t.nodes[i].key
PROOF
<1>1. PICK r, g : r = NewSlot(t, k, v) /\ g = GetNode(t, k) OBVIOUS
<1>2. n \in Nat /\ n >= 4 BY DEF Sound
<1>3. k # Null /\ v \in Vals \cup {Null} BY NullAssumption
<1>4. PICK ins : ins = Insert(t, k, v) OBVIOUS
<1>5. PICK again : again = Rehash(ins.table, TRUE) OBVIOUS
<1>6. r = IF g # Nil THEN [table |-> SetNode(t, g, v), created |-> FALSE]
          ELSE IF ins.fits THEN [table |-> ins.table, created |-> TRUE]
          ELSE [table |-> SetNode(again, GetNode(again, k), v), created |-> FALSE]
  BY <1>1, <1>4, <1>5 DEF NewSlot
<1>7. CASE g # Nil
  <2>1. g \in 0 .. n - 1 /\ t.nodes[g].key = k BY <1>1, <1>7, AbsentIs
  <2>2. PICK s : s = SetNode(t, g, v) OBVIOUS
  <2>3. /\ Sound(s, n) /\ \A j \in 0 .. n - 1 : s.nodes[j].key = t.nodes[j].key
        /\ Pairs(s.nodes) = Overwritten(Pairs(t.nodes), k, v)
    <3>1. /\ Sound(SetNode(t, g, v), n)
          /\ \A j \in 0 .. n - 1 : SetNode(t, g, v).nodes[j].key = t.nodes[j].key
          /\ t.nodes[g].key # Null =>
                Pairs(SetNode(t, g, v).nodes) = Overwritten(Pairs(t.nodes), t.nodes[g].key, v)
      BY <2>1, SetNodeIs
    <3> QED BY <1>3, <2>1, <2>2, <3>1
  <2>4. r.table = s /\ r.created = FALSE BY <1>6, <1>7, <2>2
  <2> QED BY <1>1, <1>2, <2>3, <2>4
<1>8. CASE g = Nil
  <2>1. /\ k \notin Present(t) /\ \A i \in 0 .. n - 1 : t.nodes[i].key # k
        /\ Without(Pairs(t.nodes), k) = Pairs(t.nodes)
    BY <1>1, <1>8, AbsentIs
  <2>2. /\ ins.fits \in BOOLEAN
        /\ ins.fits => /\ Sound(ins.table, n) /\ ins.table.used = t.used + 1
                       /\ Pairs(ins.table.nodes) = Added(Pairs(t.nodes), k, v)
        /\ ~ins.fits => /\ Full(ins.table, n)
                        /\ \E x : Pairs(ins.table.nodes) = Added(Pairs(t.nodes), k, x)
    <3>1. \A i \in 0 .. n - 1 : t.nodes[i].key # k BY <2>1
    <3>2. v \in Vals \cup {Null} BY <1>3
    <3>3. /\ Insert(t, k, v).fits \in BOOLEAN
          /\ Insert(t, k, v).fits =>
                /\ Sound(Insert(t, k, v).table, n) /\ Insert(t, k, v).table.used = t.used + 1
                /\ Pairs(Insert(t, k, v).table.nodes) = Added(Pairs(t.nodes), k, v)
          /\ ~Insert(t, k, v).fits =>
                /\ Full(Insert(t, k, v).table, n)
                /\ \E x : Pairs(Insert(t, k, v).table.nodes) = Added(Pairs(t.nodes), k, x)
      BY <3>1, <3>2, InsertIs
    <3> QED BY <1>4, <3>3
  <2>3. CASE ins.fits
    <3>1. r.table = ins.table /\ r.created = TRUE BY <1>6, <1>8, <2>3
    <3>2. Added(Pairs(t.nodes), k, v) = Overwritten(Pairs(t.nodes), k, v)
      BY <2>1 DEF Added, Overwritten
    <3> QED BY <1>1, <1>2, <2>1, <2>2, <2>3, <3>1, <3>2
  <2>4. CASE ~ins.fits
    <3>1. PICK s : s = ins.table OBVIOUS
    <3>2. Full(s, n) BY <2>2, <2>4, <3>1
    <3>3. PICK x : Pairs(s.nodes) = Added(Pairs(t.nodes), k, x) BY <2>2, <2>4, <3>1
    <3>4. /\ s.nodes \in [0 .. n - 1 -> Node(n)] /\ KeysOnce(s.nodes) /\ s.used \in Nat
          /\ Cardinality(Occ(s.nodes)) \in {s.used, s.used + 1}
      BY <3>2 DEF Full, TableT, Linked
    <3>5. PICK yes : yes = TRUE OBVIOUS
    <3>6. \/ ~yes /\ Rehash(s, yes) = s
          \/ \E m \in Nat : /\ Sound(Rehash(s, yes), m) /\ Doubled(m)
                            /\ Pairs(Rehash(s, yes).nodes) = Pairs(s.nodes)
                            /\ m # n \/ yes
      BY <1>2, <3>4, <3>5, RehashIs
    <3>7. PICK m \in Nat : Sound(again, m) /\ Doubled(m) /\ Pairs(again.nodes) = Pairs(s.nodes)
      BY <1>5, <3>1, <3>5, <3>6
    <3>8. PICK i : i = GetNode(again, k) OBVIOUS
    <3>9. i \in 0 .. m - 1 /\ again.nodes[i].key = k
      <4>1. <<k, x>> \in Pairs(again.nodes) BY <3>3, <3>7 DEF Added
      <4>2. k \in {p[1] : p \in Pairs(again.nodes)} BY <4>1
      <4>3. k \in Present(again) BY <3>7, <4>2, PairsAre
      <4> QED BY <3>7, <3>8, <4>3, AbsentIs
    <3>10. PICK e : e = SetNode(again, i, v) OBVIOUS
    <3>11. /\ Sound(e, m)
           /\ Pairs(e.nodes) = Overwritten(Pairs(again.nodes), k, v)
      <4>1. /\ Sound(SetNode(again, i, v), m)
            /\ again.nodes[i].key # Null =>
                  Pairs(SetNode(again, i, v).nodes)
                    = Overwritten(Pairs(again.nodes), again.nodes[i].key, v)
        BY <3>7, <3>9, SetNodeIs
      <4> QED BY <1>3, <3>9, <3>10, <4>1
    <3>12. Overwritten(Pairs(again.nodes), k, v) = Overwritten(Pairs(t.nodes), k, v)
      <4>1. Without(Added(Pairs(t.nodes), k, x), k) = Without(Pairs(t.nodes), k)
        BY DEF Without, Added
      <4> QED BY <2>1, <3>3, <3>7, <4>1 DEF Overwritten
    <3>13. r.table = e /\ r.created = FALSE BY <1>6, <1>8, <2>4, <3>8, <3>10
    <3> QED BY <1>1, <2>1, <3>7, <3>11, <3>12, <3>13
  <2> QED BY <2>2, <2>3, <2>4
<1> QED BY <1>7, <1>8

\* Remove leaves its node in the chain; a rehash, if there is one, changes the size.
LEMMA RemoveIs ==
    ASSUME NEW n, NEW t, Sound(t, n), Doubled(n), NEW k \in Keys
    PROVE  /\ Pairs(Remove(t, k).nodes) = Without(Pairs(t.nodes), k)
           /\ \/ /\ Sound(Remove(t, k), n)
                 /\ \A i \in 0 .. n - 1 : Remove(t, k).nodes[i].key \in {t.nodes[i].key, Null}
              \/ \E m \in Nat \ {n} : Sound(Remove(t, k), m) /\ Doubled(m)
PROOF
<1>1. PICK r, g : r = Remove(t, k) /\ g = GetNode(t, k) OBVIOUS
<1>2. CASE g = Nil
  <2>1. r = t BY <1>1, <1>2 DEF Remove
  <2>2. Without(Pairs(t.nodes), k) = Pairs(t.nodes) BY <1>1, <1>2, AbsentIs
  <2> QED BY <1>1, <2>1, <2>2
<1>3. CASE g # Nil
  <2>1. g \in 0 .. n - 1 /\ t.nodes[g].key = k BY <1>1, <1>3, AbsentIs
  <2>2. k # Null BY NullAssumption
  <2>3. PICK ns : ns = t.nodes OBVIOUS
  <2>4. n \in Nat \ {0} /\ n >= 4 /\ ns \in [0 .. n - 1 -> Node(n)] /\ t \in TableT(n) /\ Linked(ns, n)
    BY <2>3 DEF Sound, TableT
  <2>5. DOMAIN ns = 0 .. n - 1 BY <2>4, NodesT
  <2>6. PICK s : s = [t EXCEPT !.nodes[g].key = Null, !.nodes[g].val = Null, !.used = @ - 1] OBVIOUS
  <2>7. r = Rehash(s, FALSE) BY <1>1, <1>3, <2>6 DEF Remove
  <2>8. PICK ms, u : ms = s.nodes /\ u = t.used - 1 OBVIOUS
  <2>9. PICK q : q = [ns[g] EXCEPT !.key = Null, !.val = Null] OBVIOUS
  <2>10. q \in Node(n) /\ q.key = Null /\ q.next = ns[g].next
    <3>1. ns[g] \in Node(n) BY <2>1, <2>4
    <3> QED BY <2>9, <3>1 DEF Node
  <2>11. ms = [ns EXCEPT ![g] = q] /\ s.firstfree = t.firstfree /\ s.used = u
         /\ s = [t EXCEPT !.nodes = ms, !.used = u]
    <3>1. PICK t1 : t1 = [t EXCEPT !.nodes[g].key = Null] OBVIOUS
    <3>2. PICK t2 : t2 = [t1 EXCEPT !.nodes[g].val = Null] OBVIOUS
    <3>3. s = [t2 EXCEPT !.used = @ - 1] BY <2>6, <3>1, <3>2
    <3>4. PICK q1 : q1 = [ns[g] EXCEPT !.key = Null] OBVIOUS
    <3>5. PICK ns1 : ns1 = [ns EXCEPT ![g] = q1] OBVIOUS
    <3>6. t1 = [t EXCEPT !.nodes = ns1] BY <2>3, <2>4, <3>1, <3>4, <3>5 DEF TableT
    <3>7. t1.nodes = ns1 /\ t1.firstfree = t.firstfree /\ t1.used = t.used
      BY <2>4, <3>6 DEF TableT
    <3>8. ns1[g] = q1 /\ DOMAIN ns1 = 0 .. n - 1 BY <2>1, <2>5, <3>5
    <3>9. q = [q1 EXCEPT !.val = Null]
      <4>1. ns[g] \in Node(n) BY <2>1, <2>4
      <4> QED BY <2>9, <3>4, <4>1 DEF Node
    <3>10. [ns1 EXCEPT ![g] = q] = [ns EXCEPT ![g] = q] BY <2>1, <2>5, <3>5
    <3>11. t2 = [t1 EXCEPT !.nodes = [ns1 EXCEPT ![g] = q]] BY <3>2, <3>7, <3>8, <3>9
    <3>12. t2 = [t EXCEPT !.nodes = [ns EXCEPT ![g] = q]] BY <2>4, <3>6, <3>10, <3>11 DEF TableT
    <3>13. t2.used = t.used BY <2>4, <3>12 DEF TableT
    <3>14. s = [t EXCEPT !.nodes = [ns EXCEPT ![g] = q], !.used = u]
      BY <2>4, <2>8, <3>3, <3>12, <3>13 DEF TableT
    <3> QED BY <2>4, <2>8, <3>14 DEF TableT
  <2>12. ms \in [0 .. n - 1 -> Node(n)] BY <2>1, <2>4, <2>10, <2>11
  <2>13. /\ DOMAIN ms = 0 .. n - 1 /\ ms[g] = q
         /\ \A j \in 0 .. n - 1 : j # g => ms[j] = ns[j]
    BY <2>1, <2>5, <2>11
  <2>14. \A j \in 0 .. n - 1 : ms[j].next = ns[j].next /\ ms[j].key \in {ns[j].key, Null}
    BY <2>10, <2>13
  <2>15. Linked(ms, n) /\ \A f : LinksAbove(ns, f) => LinksAbove(ms, f)
    BY <2>4, <2>13, <2>14, FewerKeys
  <2>16. g \in Occ(ns) /\ Occ(ms) = Occ(ns) \ {g}
    BY <2>1, <2>2, <2>3, <2>5, <2>10, <2>13 DEF Occ
  <2>17. Cardinality(Occ(ms)) = u /\ u \in Nat
    <3>1. IsFiniteSet(Occ(ns)) /\ Cardinality(Occ(ns)) \in Nat BY <2>4, <2>5, OccIs
    <3>2. Cardinality(Occ(ns) \ {g}) =
            IF g \in Occ(ns) THEN Cardinality(Occ(ns)) - 1 ELSE Cardinality(Occ(ns))
      BY <3>1, FS_RemoveElement
    <3>3. Cardinality(Occ(ms)) \in Nat BY <2>4, <2>13, OccIs
    <3>4. t.used = Cardinality(Occ(ns)) BY <2>3 DEF Sound
    <3> QED BY <2>8, <2>16, <3>2, <3>3, <3>4
  <2>18. s \in TableT(n) BY <2>4, <2>11, <2>12, <2>17 DEF TableT
  <2>19. Sound(s, n)
    <3>1. t.firstfree \in 0 .. n - 1 BY <2>4 DEF TableT
    <3>2. ns[t.firstfree].key = Null /\ ns[t.firstfree].next = Nil BY <2>3 DEF Sound
    <3>3. ms[t.firstfree].key = Null /\ ms[t.firstfree].next = Nil BY <2>14, <3>1, <3>2
    <3>4. LinksAbove(ms, t.firstfree) BY <2>3, <2>15 DEF Sound
    <3>5. s.nodes = ms BY <2>8
    <3>6. n \in Nat /\ n >= 4 BY <2>4
    <3> QED BY <2>11, <2>15, <2>17, <2>18, <3>3, <3>4, <3>5, <3>6 DEF Sound
  <2>20. Pairs(ms) = Without(Pairs(ns), k)
    <3>1. \A j \in Occ(ns) : j \in 0 .. n - 1 BY <2>5 DEF Occ
    <3>2. ASSUME NEW j \in Occ(ns), j # g PROVE ms[j] = ns[j] /\ ns[j].key # k
      BY <2>1, <2>2, <2>3, <2>4, <2>5, <2>13, <3>1, <3>2 DEF Linked, KeysOnce
    <3>3. ASSUME NEW j \in Occ(ms) PROVE <<ms[j].key, ms[j].val>> \in Without(Pairs(ns), k)
      <4>1. j \in Occ(ns) /\ j # g BY <2>16
      <4>2. PICK p : p = <<ns[j].key, ns[j].val>> OBVIOUS
      <4>3. p \in Pairs(ns) /\ p[1] # k BY <3>2, <4>1, <4>2 DEF Pairs
      <4> QED BY <3>2, <4>1, <4>2, <4>3 DEF Without
    <3>4. ASSUME NEW p \in Without(Pairs(ns), k) PROVE p \in Pairs(ms)
      <4>1. PICK j \in Occ(ns) : p = <<ns[j].key, ns[j].val>> BY DEF Without, Pairs
      <4>2. p[1] # k BY DEF Without
      <4>3. j # g BY <2>1, <2>3, <4>1, <4>2
      <4>4. p = <<ms[j].key, ms[j].val>> /\ j \in Occ(ms) BY <2>16, <3>2, <4>1, <4>3
      <4> QED BY <4>4 DEF Pairs
    <3>5. Pairs(ms) \subseteq Without(Pairs(ns), k) BY <3>3 DEF Pairs
    <3> QED BY <3>4, <3>5
  <2>21. PICK no : no = FALSE OBVIOUS
  <2>22. KeysOnce(s.nodes) /\ s.nodes \in [0 .. n - 1 -> Node(n)] /\ n \in Nat /\ s.used \in Nat
         /\ Cardinality(Occ(s.nodes)) \in {s.used, s.used + 1} /\ no \in BOOLEAN
    BY <2>4, <2>8, <2>11, <2>12, <2>15, <2>17, <2>21 DEF Linked
  <2>23. \/ ~no /\ Rehash(s, no) = s
         \/ \E m \in Nat : /\ Sound(Rehash(s, no), m) /\ Doubled(m)
                           /\ Pairs(Rehash(s, no).nodes) = Pairs(s.nodes)
                           /\ m # n \/ no
    BY <2>4, <2>22, RehashIs
  <2>24. CASE r = s
    <3>1. \A i \in 0 .. n - 1 : r.nodes[i].key \in {t.nodes[i].key, Null}
      BY <2>3, <2>8, <2>14, <2>24
    <3> QED BY <1>1, <2>3, <2>8, <2>19, <2>20, <2>24, <3>1
  <2>25. CASE \E m \in Nat : Sound(r, m) /\ Doubled(m) /\ Pairs(r.nodes) = Pairs(ms) /\ m # n
    BY <1>1, <2>3, <2>20, <2>25
  <2> QED BY <2>7, <2>8, <2>21, <2>23, <2>24, <2>25
<1> QED BY <1>2, <1>3

LEMMA ClearIs ==
    ASSUME NEW n, NEW t, Sound(t, n), Doubled(n)
    PROVE  /\ \E m \in Nat : Sound(Clear(t), m) /\ Doubled(m)
           /\ Pairs(Clear(t).nodes) = {}
PROOF
<1>1. PICK ns, z : ns = t.nodes /\ z = 0 OBVIOUS
<1>2. n \in Nat /\ n >= 4 /\ ns \in [0 .. n - 1 -> Node(n)] /\ t \in TableT(n)
  BY <1>1 DEF Sound, TableT
<1>3. DOMAIN ns = 0 .. n - 1 BY <1>2, NodesT
<1>4. PICK ms : ms = [i \in DOMAIN ns |-> [ns[i] EXCEPT !.key = Null, !.val = Null]] OBVIOUS
<1>5. PICK s : s = [t EXCEPT !.nodes = ms, !.used = z] OBVIOUS
<1>6. Clear(t) = Rehash(s, TRUE) BY <1>1, <1>4, <1>5, <1>2 DEF Clear, TableT
<1>7. s.nodes = ms /\ s.used = z BY <1>2, <1>5 DEF TableT
<1>8. ms \in [0 .. n - 1 -> Node(n)] /\ \A i \in 0 .. n - 1 : ms[i].key = Null
  <2>1. ASSUME NEW i \in 0 .. n - 1 PROVE ms[i] \in Node(n) /\ ms[i].key = Null
    <3>1. ns[i] \in Node(n) BY <1>2
    <3>2. ms[i] = [ns[i] EXCEPT !.key = Null, !.val = Null] BY <1>3, <1>4
    <3> QED BY <3>1, <3>2 DEF Node
  <2>2. DOMAIN ms = 0 .. n - 1 /\ ms = [i \in 0 .. n - 1 |-> ms[i]] BY <1>3, <1>4
  <2> QED BY <2>1, <2>2
<1>9. DOMAIN ms = 0 .. n - 1 BY <1>3, <1>4
<1>10. Occ(ms) = {} /\ KeysOnce(ms) BY <1>8, <1>9 DEF Occ, KeysOnce
<1>11. Pairs(ms) = {} BY <1>10 DEF Pairs
<1>12. Cardinality(Occ(ms)) = z BY <1>1, <1>10, FS_EmptySet
<1>13. PICK yes : yes = TRUE OBVIOUS
<1>14. KeysOnce(s.nodes) /\ s.nodes \in [0 .. n - 1 -> Node(n)] /\ s.used \in Nat
       /\ Cardinality(Occ(s.nodes)) \in {s.used, s.used + 1} /\ yes \in BOOLEAN
  BY <1>1, <1>7, <1>8, <1>10, <1>12, <1>13
<1>15. \/ ~yes /\ Rehash(s, yes) = s
       \/ \E m \in Nat : /\ Sound(Rehash(s, yes), m) /\ Doubled(m)
                         /\ Pairs(Rehash(s, yes).nodes) = Pairs(s.nodes)
                         /\ m # n \/ yes
  BY <1>2, <1>14, RehashIs
<1> QED BY <1>6, <1>7, <1>11, <1>13, <1>15

-----------------------------------------------------------------------------
(* The invariant.                                                          *)

KeysFrom(ns, n, p) == {ns[i].key : i \in {j \in 0 .. n - 1 : j >= p /\ ns[j].key # Null}}

\* The loop has yet to see the keys from its position on; it has seen none of those,
\* and all the others that were always there.
IterOk(ns, n, it) ==
    /\ it \in [pos : 0 .. n \cup {Done}, seen : SUBSET Keys, again : BOOLEAN, kept : SUBSET Keys]
    /\ it.again = FALSE
    /\ it.pos = Done => it.kept \subseteq it.seen
    /\ it.pos # Done => /\ it.kept \subseteq it.seen \cup KeysFrom(ns, n, it.pos)
                        /\ it.seen \cap KeysFrom(ns, n, it.pos) = {}

TableOk(n) == Sound(table, n) /\ Doubled(n) /\ IterOk(table.nodes, n, iter)

TInv == ret \in BOOLEAN /\ \E n \in Nat : TableOk(n)

LEMMA NoLoopOk ==
    ASSUME NEW n \in Nat, NEW ns
    PROVE  IterOk(ns, n, NoLoop)
PROOF
<1>1. PICK no, d : no = FALSE /\ d = Done OBVIOUS
<1>2. NoLoop = [pos |-> d, seen |-> {}, again |-> no, kept |-> {}] BY <1>1 DEF NoLoop
<1>3. d \in 0 .. n \cup {Done} /\ no \in BOOLEAN BY <1>1
<1>4. NoLoop \in [pos : 0 .. n \cup {Done}, seen : SUBSET Keys, again : BOOLEAN, kept : SUBSET Keys]
  BY <1>2, <1>3
<1>5. NoLoop.pos = Done /\ NoLoop.kept = {} /\ NoLoop.again = FALSE BY <1>1, <1>2
<1> QED BY <1>4, <1>5 DEF IterOk

\* What the body of a loop does to the table does not confuse the loop.
LEMMA DisturbIs ==
    ASSUME NEW n, Sound(table, n), IterOk(table.nodes, n, iter),
           NEW t, NEW m, Sound(t, m), NEW still \in BOOLEAN, Disturb(t, still),
           still => /\ m = n
                    /\ \A i \in 0 .. n - 1 : t.nodes[i].key \in {table.nodes[i].key, Null}
    PROVE  IterOk(t.nodes, m, iter')
PROOF
<1>1. n \in Nat /\ m \in Nat BY DEF Sound
<1>2. CASE iter.pos = Done \/ ~still
  <2>1. iter' = NoLoop BY <1>2 DEF Disturb
  <2> QED BY <1>1, <2>1, NoLoopOk
<1>3. CASE iter.pos # Done /\ still
  <2>1. PICK kept : kept = iter.kept \cap Present(t) OBVIOUS
  <2>2. iter' = [iter EXCEPT !.kept = kept] BY <1>3, <2>1 DEF Disturb
  <2>3. iter \in [pos : 0 .. n \cup {Done}, seen : SUBSET Keys, again : BOOLEAN, kept : SUBSET Keys]
    BY DEF IterOk
  <2>4. kept \in SUBSET Keys BY <2>1, <2>3
  <2>5. /\ iter' \in [pos : 0 .. n \cup {Done}, seen : SUBSET Keys, again : BOOLEAN, kept : SUBSET Keys]
        /\ iter'.pos = iter.pos /\ iter'.seen = iter.seen /\ iter'.again = iter.again
        /\ iter'.kept = kept
    BY <2>2, <2>3, <2>4
  <2>6. m = n /\ \A i \in 0 .. n - 1 : t.nodes[i].key \in {table.nodes[i].key, Null} BY <1>3
  <2>7. PICK ns, ms, p : ns = table.nodes /\ ms = t.nodes /\ p = iter.pos OBVIOUS
  <2>8. DOMAIN ns = 0 .. n - 1 /\ DOMAIN ms = 0 .. n - 1 /\ KeysOnce(ns)
    BY <2>6, <2>7 DEF Sound, TableT, Linked
  <2>9. ASSUME NEW x \in KeysFrom(ms, n, p) PROVE x \in KeysFrom(ns, n, p)
    <3>1. PICK i \in 0 .. n - 1 : i >= p /\ ms[i].key # Null /\ x = ms[i].key BY DEF KeysFrom
    <3>2. ns[i].key = ms[i].key BY <2>6, <2>7, <3>1
    <3> QED BY <3>1, <3>2 DEF KeysFrom
  <2>10. ASSUME NEW x \in kept, x \notin iter.seen PROVE x \in KeysFrom(ms, n, p)
    <3>1. x \in KeysFrom(ns, n, p) BY <1>3, <2>1, <2>7, <2>10 DEF IterOk
    <3>2. PICK i \in 0 .. n - 1 : i >= p /\ ns[i].key # Null /\ x = ns[i].key BY <3>1 DEF KeysFrom
    <3>3. PICK j \in 0 .. n - 1 : ms[j].key = x /\ x # Null BY <2>1, <2>7, <2>8 DEF Present
    <3>4. ns[j].key = x BY <2>6, <2>7, <3>3
    <3>5. j = i BY <2>8, <3>2, <3>3, <3>4 DEF KeysOnce
    <3> QED BY <3>2, <3>3, <3>5 DEF KeysFrom
  <2>11. iter.seen \cap KeysFrom(ns, n, p) = {} /\ iter.again = FALSE BY <1>3, <2>7 DEF IterOk
  <2>12. IterOk(ms, n, iter') BY <1>3, <2>5, <2>7, <2>9, <2>10, <2>11 DEF IterOk
  <2> QED BY <2>6, <2>7, <2>12
<1> QED BY <1>2, <1>3

LEMMA IterStartIs ==
    ASSUME NEW n, TableOk(n), IterStart
    PROVE  TableOk(n)'
PROOF
<1>1. n \in Nat /\ Sound(table, n) /\ Doubled(n) BY DEF TableOk, Sound
<1>2. UNCHANGED table /\ iter' = [NoLoop EXCEPT !.pos = 0, !.kept = Present(table)] BY DEF IterStart
<1>3. PICK z, no, P : z = 0 /\ no = FALSE /\ P = Present(table) OBVIOUS
<1>4. iter' = [pos |-> z, seen |-> {}, again |-> no, kept |-> P] BY <1>2, <1>3 DEF NoLoop
<1>5. z \in 0 .. n /\ no \in BOOLEAN
  <2>1. z \in 0 .. n BY <1>1, <1>3
  <2>2. no \in BOOLEAN BY <1>3
  <2> QED BY <2>1, <2>2
<1>6. P \in SUBSET Keys BY <1>1, <1>3, PairsAre
<1>7. iter' \in [pos : 0 .. n \cup {Done}, seen : SUBSET Keys, again : BOOLEAN, kept : SUBSET Keys]
  BY <1>4, <1>5, <1>6
<1>8. /\ iter'.pos = 0 /\ iter'.seen = {} /\ iter'.again = FALSE /\ iter'.kept = P
  BY <1>3, <1>4
<1>9. PICK ns : ns = table.nodes OBVIOUS
<1>10. DOMAIN ns = 0 .. n - 1 BY <1>1, <1>9 DEF Sound, TableT
<1>11. P \subseteq KeysFrom(ns, n, 0)
  <2>1. ASSUME NEW x \in P PROVE x \in KeysFrom(ns, n, 0)
    <3>1. PICK i \in 0 .. n - 1 : x = ns[i].key /\ x # Null BY <1>3, <1>9, <1>10 DEF Present
    <3>2. i >= 0 OBVIOUS
    <3> QED BY <3>1, <3>2 DEF KeysFrom
  <2> QED BY <2>1
<1>12. 0 # Done BY DEF Done
<1>13. IterOk(ns, n, iter') BY <1>7, <1>8, <1>11, <1>12 DEF IterOk
<1> QED BY <1>1, <1>2, <1>9, <1>13 DEF TableOk

LEMMA IterNextIs ==
    ASSUME NEW n, TableOk(n), IterNext
    PROVE  TableOk(n)'
PROOF
<1>1. n \in Nat /\ Sound(table, n) /\ Doubled(n) /\ IterOk(table.nodes, n, iter)
  BY DEF TableOk, Sound
<1>2. PICK ns, p : ns = table.nodes /\ p = iter.pos OBVIOUS
<1>3. /\ iter \in [pos : 0 .. n \cup {Done}, seen : SUBSET Keys, again : BOOLEAN, kept : SUBSET Keys]
      /\ p # Done /\ iter.again = FALSE
      /\ iter.kept \subseteq iter.seen \cup KeysFrom(ns, n, p)
      /\ iter.seen \cap KeysFrom(ns, n, p) = {}
  BY <1>1, <1>2 DEF IterOk, IterNext
<1>4. p \in 0 .. n BY <1>2, <1>3
<1>5. DOMAIN ns = 0 .. n - 1 /\ KeysOnce(ns) /\ ns \in [0 .. n - 1 -> Node(n)]
  BY <1>1, <1>2 DEF Sound, TableT, Linked
<1>6. Size(table) = n BY <1>1, <1>2, <1>5, SizeIs
<1>7. PICK found : found = {i \in p .. n - 1 : ns[i].key # Null} OBVIOUS
<1>8. PICK m : m = NextNode(table, p) OBVIOUS
<1>9. m = IF found = {} THEN Nil ELSE Min(found) BY <1>2, <1>6, <1>7, <1>8 DEF NextNode
<1>10. UNCHANGED table
       /\ iter' = IF m = Nil THEN [iter EXCEPT !.pos = Done]
                  ELSE [iter EXCEPT !.pos = m + 1, !.seen = @ \cup {ns[m].key},
                                    !.again = @ \/ ns[m].key \in iter.seen]
  BY <1>2, <1>8 DEF IterNext
<1>11. CASE found = {}
  <2>1. KeysFrom(ns, n, p) = {}
    <3>1. ASSUME NEW i \in 0 .. n - 1, i >= p, ns[i].key # Null PROVE FALSE
      <4>1. i \in p .. n - 1 BY <1>1, <1>4, <3>1
      <4> QED BY <1>7, <1>11, <3>1, <4>1
    <3> QED BY <3>1 DEF KeysFrom
  <2>2. PICK d : d = Done OBVIOUS
  <2>3. iter' = [iter EXCEPT !.pos = d] BY <1>9, <1>10, <1>11, <2>2
  <2>4. /\ iter' \in [pos : 0 .. n \cup {Done}, seen : SUBSET Keys, again : BOOLEAN, kept : SUBSET Keys]
        /\ iter'.pos = Done /\ iter'.seen = iter.seen /\ iter'.again = iter.again
        /\ iter'.kept = iter.kept
    BY <1>3, <2>2, <2>3
  <2>5. IterOk(ns, n, iter') BY <1>3, <2>1, <2>4 DEF IterOk
  <2> QED BY <1>1, <1>2, <1>10, <2>5 DEF TableOk
<1>12. CASE found # {}
  <2>1. found \subseteq Nat BY <1>1, <1>4, <1>7
  <2>2. m \in found /\ \A y \in found : m <= y BY <1>9, <1>12, <2>1, MinIs
  <2>3. m \in 0 .. n - 1 /\ m >= p /\ ns[m].key # Null BY <1>1, <1>4, <1>7, <2>2
  <2>4. m # Nil BY <2>3 DEF Nil
  <2>5. PICK k : k = ns[m].key OBVIOUS
  <2>6. k \in KeysFrom(ns, n, p) BY <2>3, <2>5 DEF KeysFrom
  <2>7. k \notin iter.seen BY <1>3, <2>6
  <2>8. k \in Keys BY <1>1, <1>5, <2>3, <2>5, NodesT
  <2>9. PICK q, sn, ag : q = m + 1 /\ sn = iter.seen \cup {k} /\ ag = (iter.again \/ k \in iter.seen)
    OBVIOUS
  <2>10. q \in 0 .. n /\ sn \in SUBSET Keys /\ ag = FALSE BY <1>1, <1>3, <2>3, <2>7, <2>8, <2>9
  <2>11. iter' = [iter EXCEPT !.pos = q, !.seen = sn, !.again = ag]
    BY <1>3, <1>10, <2>4, <2>5, <2>9
  <2>12. /\ iter' \in [pos : 0 .. n \cup {Done}, seen : SUBSET Keys, again : BOOLEAN, kept : SUBSET Keys]
         /\ iter'.pos = q /\ iter'.seen = sn /\ iter'.again = ag /\ iter'.kept = iter.kept
    BY <1>3, <2>10, <2>11
  <2>13. ASSUME NEW x \in KeysFrom(ns, n, p) PROVE x = k \/ x \in KeysFrom(ns, n, q)
    <3>1. PICK i \in 0 .. n - 1 : i >= p /\ ns[i].key # Null /\ x = ns[i].key BY DEF KeysFrom
    <3>2. i \in found BY <1>1, <1>4, <1>7, <3>1
    <3>3. m <= i BY <2>2, <3>2
    <3>4. i = m \/ i >= q BY <2>3, <2>9, <3>3
    <3> QED BY <2>5, <3>1, <3>4 DEF KeysFrom
  <2>14. ASSUME NEW x \in KeysFrom(ns, n, q) PROVE x # k /\ x \in KeysFrom(ns, n, p)
    <3>1. PICK i \in 0 .. n - 1 : i >= q /\ ns[i].key # Null /\ x = ns[i].key BY DEF KeysFrom
    <3>2. i # m /\ i >= p BY <1>4, <2>3, <2>9, <3>1
    <3>3. x # k BY <1>5, <2>3, <2>5, <3>1, <3>2 DEF KeysOnce
    <3> QED BY <3>1, <3>2, <3>3 DEF KeysFrom
  <2>15. iter.kept \subseteq sn \cup KeysFrom(ns, n, q) BY <1>3, <2>9, <2>13
  <2>16. sn \cap KeysFrom(ns, n, q) = {} BY <1>3, <2>9, <2>14
  <2>17. q # Done BY <2>3, <2>9 DEF Done
  <2>18. IterOk(ns, n, iter') BY <2>10, <2>12, <2>15, <2>16, <2>17 DEF IterOk
  <2> QED BY <1>1, <1>2, <1>10, <2>18 DEF TableOk
<1> QED BY <1>11, <1>12


-----------------------------------------------------------------------------
(* Every step keeps the invariant, and does to the pairs of keys and values *)
(* what its operation says.                                                 *)

LEMMA NewSlotKeeps ==
    ASSUME NEW n, TableOk(n), NEW k \in Keys, NEW v \in Vals, DoNewSlot(k, v)
    PROVE  /\ ret' \in BOOLEAN /\ \E m \in Nat : TableOk(m)'
           /\ Pairs(table.nodes)' = Overwritten(Pairs(table.nodes), k, v)
PROOF
<1>1. n \in Nat /\ Sound(table, n) /\ Doubled(n) /\ IterOk(table.nodes, n, iter)
  BY DEF TableOk, Sound
<1>2. PICK r : r = NewSlot(table, k, v) OBVIOUS
<1>3. /\ r.created \in BOOLEAN
      /\ \E m \in Nat : Sound(r.table, m) /\ Doubled(m)
      /\ Pairs(r.table.nodes) = Overwritten(Pairs(table.nodes), k, v)
      /\ k \in Present(table) =>
            /\ Sound(r.table, n)
            /\ \A i \in 0 .. n - 1 : r.table.nodes[i].key = table.nodes[i].key
  BY <1>1, <1>2, NewSlotIs
<1>4. table' = r.table /\ ret' = r.created /\ Disturb(r.table, k \in Present(table))
  BY <1>2 DEF DoNewSlot
<1>5. PICK still : still = (k \in Present(table)) OBVIOUS
<1>6. CASE k \in Present(table)
  <2>1. still \in BOOLEAN /\ Disturb(r.table, still) BY <1>4, <1>5, <1>6
  <2>2. Sound(r.table, n) /\ \A i \in 0 .. n - 1 : r.table.nodes[i].key \in {table.nodes[i].key, Null}
    BY <1>3, <1>6
  <2>3. IterOk(r.table.nodes, n, iter') BY <1>1, <2>1, <2>2, DisturbIs
  <2>4. TableOk(n)' BY <1>1, <1>4, <2>2, <2>3 DEF TableOk
  <2> QED BY <1>1, <1>3, <1>4, <2>4
<1>7. CASE k \notin Present(table)
  <2>1. ~still BY <1>5, <1>7
  <2>2. still \in BOOLEAN BY <1>5
  <2>3. Disturb(r.table, still) BY <1>4, <1>5
  <2>4. PICK m \in Nat : Sound(r.table, m) /\ Doubled(m) BY <1>3
  <2>5. IterOk(r.table.nodes, m, iter') BY <1>1, <2>1, <2>2, <2>3, <2>4, DisturbIs
  <2>6. TableOk(m)' BY <1>4, <2>4, <2>5 DEF TableOk
  <2> QED BY <1>3, <1>4, <2>6
<1> QED BY <1>6, <1>7

LEMMA SetKeeps ==
    ASSUME NEW n, TableOk(n), NEW k \in Keys \cup {Null}, NEW v \in Vals, DoSet(k, v)
    PROVE  /\ ret' \in BOOLEAN /\ TableOk(n)'
           /\ \/ Pairs(table.nodes)' = Pairs(table.nodes)
              \/ k \in Present(table) /\ Pairs(table.nodes)' = Overwritten(Pairs(table.nodes), k, v)
PROOF
<1>1. n \in Nat \ {0} /\ Sound(table, n) /\ Doubled(n) /\ IterOk(table.nodes, n, iter)
  BY DEF TableOk, Sound
<1>2. PICK g, yes : g = GetNode(table, k) /\ yes = TRUE OBVIOUS
<1>3. /\ table' = IF g = Nil THEN table ELSE SetNode(table, g, v)
      /\ ret' = (g # Nil) /\ Disturb(table', yes)
  BY <1>2 DEF DoSet
<1>4. PICK ns : ns = table.nodes OBVIOUS
<1>5. ns \in [0 .. n - 1 -> Node(n)] /\ Acyclic(ns) BY <1>1, <1>4 DEF Sound, TableT, Linked
<1>6. g = Nil \/ (g \in 0 .. n - 1 /\ ns[g].key = k) BY <1>1, <1>2, <1>4, <1>5, GetNodeEnds
<1>7. ret' \in BOOLEAN BY <1>3
<1>8. PICK t : t = table' OBVIOUS
<1>9. /\ Sound(t, n) /\ \A i \in 0 .. n - 1 : t.nodes[i].key \in {table.nodes[i].key, Null}
      /\ \/ Pairs(t.nodes) = Pairs(table.nodes)
         \/ k \in Present(table) /\ Pairs(t.nodes) = Overwritten(Pairs(table.nodes), k, v)
  <2>1. CASE g = Nil BY <1>1, <1>3, <1>8, <2>1
  <2>2. CASE g # Nil
    <3>1. g \in 0 .. n - 1 /\ ns[g].key = k BY <1>6, <2>2
    <3>2. t = SetNode(table, g, v) BY <1>3, <1>8, <2>2
    <3>3. /\ Sound(SetNode(table, g, v), n)
          /\ \A j \in 0 .. n - 1 : SetNode(table, g, v).nodes[j].key = table.nodes[j].key
          /\ table.nodes[g].key = Null => Pairs(SetNode(table, g, v).nodes) = Pairs(table.nodes)
          /\ table.nodes[g].key # Null =>
                Pairs(SetNode(table, g, v).nodes) = Overwritten(Pairs(table.nodes), table.nodes[g].key, v)
      BY <1>1, <3>1, SetNodeIs, SMTT(30)
    <3>4. DOMAIN ns = 0 .. n - 1 BY <1>5
    <3>5. k # Null => k \in Present(table) BY <1>4, <3>1, <3>4 DEF Present
    <3> QED BY <1>4, <3>1, <3>2, <3>3, <3>5
  <2> QED BY <2>1, <2>2
<1>10. IterOk(t.nodes, n, iter')
  <2>1. yes \in BOOLEAN /\ Disturb(t, yes) BY <1>2, <1>3, <1>8
  <2> QED BY <1>1, <1>9, <2>1, DisturbIs
<1>11. TableOk(n)' BY <1>1, <1>8, <1>9, <1>10 DEF TableOk
<1> QED BY <1>7, <1>8, <1>9, <1>11

LEMMA RemoveKeeps ==
    ASSUME NEW n, TableOk(n), NEW k \in Keys, DoRemove(k)
    PROVE  /\ \E m \in Nat : TableOk(m)'
           /\ Pairs(table.nodes)' = Without(Pairs(table.nodes), k)
PROOF
<1>1. n \in Nat /\ Sound(table, n) /\ Doubled(n) /\ IterOk(table.nodes, n, iter)
  BY DEF TableOk, Sound
<1>2. PICK t : t = Remove(table, k) OBVIOUS
<1>3. /\ Pairs(t.nodes) = Without(Pairs(table.nodes), k)
      /\ \/ /\ Sound(t, n)
            /\ \A i \in 0 .. n - 1 : t.nodes[i].key \in {table.nodes[i].key, Null}
         \/ \E m \in Nat \ {n} : Sound(t, m) /\ Doubled(m)
  BY <1>1, <1>2, RemoveIs
<1>4. table' = t /\ Disturb(t, Size(t) = Size(table)) BY <1>2 DEF DoRemove
<1>5. DOMAIN table.nodes = 0 .. n - 1 BY <1>1 DEF Sound, TableT
<1>6. Size(table) = n BY <1>1, <1>5, SizeIs
<1>7. PICK no, yes : no = FALSE /\ yes = TRUE OBVIOUS
<1>8. CASE /\ Sound(t, n)
           /\ \A i \in 0 .. n - 1 : t.nodes[i].key \in {table.nodes[i].key, Null}
  <2>1. DOMAIN t.nodes = 0 .. n - 1 BY <1>8 DEF Sound, TableT
  <2>2. Size(t) = n BY <1>1, <2>1, SizeIs
  <2>3. yes \in BOOLEAN /\ Disturb(t, yes) BY <1>4, <1>6, <1>7, <2>2
  <2>4. IterOk(t.nodes, n, iter') BY <1>1, <1>8, <2>3, DisturbIs
  <2>5. TableOk(n)' BY <1>1, <1>4, <1>8, <2>4 DEF TableOk
  <2> QED BY <1>1, <1>3, <1>4, <2>5
<1>9. CASE \E m \in Nat \ {n} : Sound(t, m) /\ Doubled(m)
  <2>1. PICK m \in Nat : m # n /\ Sound(t, m) /\ Doubled(m) BY <1>9
  <2>2. DOMAIN t.nodes = 0 .. m - 1 BY <2>1 DEF Sound, TableT
  <2>3. Size(t) = m BY <2>1, <2>2, SizeIs
  <2>4. no \in BOOLEAN /\ ~no /\ Disturb(t, no) BY <1>4, <1>6, <1>7, <2>1, <2>3
  <2>5. IterOk(t.nodes, m, iter') BY <1>1, <2>1, <2>4, DisturbIs
  <2>6. TableOk(m)' BY <1>4, <2>1, <2>5 DEF TableOk
  <2> QED BY <1>3, <1>4, <2>6
<1> QED BY <1>3, <1>8, <1>9

LEMMA ClearKeeps ==
    ASSUME NEW n, TableOk(n), DoClear
    PROVE  (\E m \in Nat : TableOk(m)') /\ Pairs(table.nodes)' = {}
PROOF
<1>1. n \in Nat /\ Sound(table, n) /\ Doubled(n) /\ IterOk(table.nodes, n, iter)
  BY DEF TableOk, Sound
<1>2. PICK t, no : t = Clear(table) /\ no = FALSE OBVIOUS
<1>3. (\E m \in Nat : Sound(t, m) /\ Doubled(m)) /\ Pairs(t.nodes) = {} BY <1>1, <1>2, ClearIs
<1>4. table' = t /\ Disturb(t, no) /\ no \in BOOLEAN BY <1>2 DEF DoClear
<1>5. PICK m \in Nat : Sound(t, m) /\ Doubled(m) BY <1>3
<1>6. IterOk(t.nodes, m, iter') BY <1>1, <1>2, <1>4, <1>5, DisturbIs
<1>7. TableOk(m)' BY <1>4, <1>5, <1>6 DEF TableOk
<1> QED BY <1>3, <1>4, <1>7

LEMMA CloneKeeps ==
    ASSUME NEW n, TableOk(n), DoClone
    PROVE  TableOk(n)' /\ Pairs(table.nodes)' = Pairs(table.nodes)
PROOF
<1>1. n \in Nat /\ Sound(table, n) /\ Doubled(n) BY DEF TableOk, Sound
<1>2. PICK t : t = Clone(table) OBVIOUS
<1>3. Sound(t, n) /\ Pairs(t.nodes) = Pairs(table.nodes) BY <1>1, <1>2, CloneIs
<1>4. table' = t /\ iter' = NoLoop BY <1>2 DEF DoClone
<1>5. IterOk(t.nodes, n, iter') BY <1>1, <1>4, NoLoopOk
<1> QED BY <1>1, <1>3, <1>4, <1>5 DEF TableOk

LEMMA InitOk == Init => TInv /\ Pairs(table.nodes) = {}
PROOF
<1> SUFFICES ASSUME Init PROVE TInv /\ Pairs(table.nodes) = {} OBVIOUS
<1>1. table = AllocNodes(MINPOWER2) /\ ret = TRUE /\ iter = NoLoop BY DEF Init
<1>2. MINPOWER2 \in Nat /\ MINPOWER2 >= 4 BY SizeAssumption
<1>3. Sound(table, MINPOWER2) /\ Pairs(table.nodes) = {} BY <1>1, <1>2, AllocIs
<1>4. Doubled(MINPOWER2) BY DoubledSizes
<1>5. IterOk(table.nodes, MINPOWER2, iter) BY <1>1, <1>2, NoLoopOk
<1>6. TableOk(MINPOWER2) BY <1>3, <1>4, <1>5 DEF TableOk
<1>7. ret \in BOOLEAN BY <1>1
<1> QED BY <1>2, <1>3, <1>6, <1>7 DEF TInv

LEMMA StepKeeps == TInv /\ [Next]_vars => TInv'
PROOF
<1> SUFFICES ASSUME TInv, [Next]_vars PROVE TInv' OBVIOUS
<1>1. PICK n \in Nat : TableOk(n) BY DEF TInv
<1>2. ret \in BOOLEAN BY DEF TInv
<1>3. ASSUME NEW k \in Keys, NEW v \in Vals, DoNewSlot(k, v) PROVE TInv'
  BY <1>1, <1>3, NewSlotKeeps DEF TInv
<1>4. ASSUME NEW k \in Keys \cup {Null}, NEW v \in Vals, DoSet(k, v) PROVE TInv'
  BY <1>1, <1>4, SetKeeps DEF TInv
<1>5. ASSUME NEW k \in Keys, DoRemove(k) PROVE TInv'
  <2>1. \E m \in Nat : TableOk(m)' BY <1>1, <1>5, RemoveKeeps
  <2>2. ret' = ret BY <1>5 DEF DoRemove
  <2> QED BY <1>2, <2>1, <2>2 DEF TInv
<1>6. CASE DoClear
  <2>1. \E m \in Nat : TableOk(m)' BY <1>1, <1>6, ClearKeeps
  <2>2. ret' = ret BY <1>6 DEF DoClear
  <2> QED BY <1>2, <2>1, <2>2 DEF TInv
<1>7. CASE DoClone
  <2>1. TableOk(n)' BY <1>1, <1>7, CloneKeeps
  <2>2. ret' = ret BY <1>7 DEF DoClone
  <2> QED BY <1>1, <1>2, <2>1, <2>2 DEF TInv
<1>8. CASE IterStart
  <2>1. TableOk(n)' BY <1>1, <1>8, IterStartIs
  <2>2. ret' = ret BY <1>8 DEF IterStart
  <2> QED BY <1>1, <1>2, <2>1, <2>2 DEF TInv
<1>9. CASE IterNext
  <2>1. TableOk(n)' BY <1>1, <1>9, IterNextIs
  <2>2. ret' = ret BY <1>9 DEF IterNext
  <2> QED BY <1>1, <1>2, <2>1, <2>2 DEF TInv
<1>10. CASE UNCHANGED vars
  <2>1. table' = table /\ ret' = ret /\ iter' = iter BY <1>10 DEF vars
  <2>2. TableOk(n)' BY <1>1, <2>1 DEF TableOk
  <2> QED BY <1>1, <1>2, <2>1, <2>2 DEF TInv
<1> QED BY <1>3, <1>4, <1>5, <1>6, <1>7, <1>8, <1>9, <1>10 DEF Next, Ops

\* Between any two operations the chains, the count and the loop are as the invariant
\* says, whatever the keys hash to and whatever was inserted, removed and rehashed.
THEOREM TableInvariant == Spec => []TInv
PROOF
<1>1. Init => TInv BY InitOk
<1>2. TInv /\ [Next]_vars => TInv' BY StepKeeps
<1> QED BY <1>1, <1>2, PTL DEF Spec

-----------------------------------------------------------------------------
(* What the invariant says of lookups and loops.                           *)

LEMMA InvNodesSound == TInv => NodesSound
PROOF
<1> SUFFICES ASSUME TInv PROVE NodesSound OBVIOUS
<1>1. PICK n \in Nat : Sound(table, n) /\ Doubled(n) /\ IterOk(table.nodes, n, iter)
  BY DEF TInv, TableOk
<1>2. PICK ns : ns = table.nodes OBVIOUS
<1>3. /\ ns \in [0 .. n - 1 -> Node(n)] /\ Acyclic(ns) /\ table.firstfree \in 0 .. n - 1
      /\ table.used \in Nat /\ table.used = Cardinality(Occ(ns))
      /\ ns[table.firstfree].key = Null /\ ns[table.firstfree].next = Nil
  BY <1>1, <1>2 DEF Sound, TableT, Linked
<1>4. DOMAIN ns = 0 .. n - 1 BY <1>3
<1>5. Size(table) = n BY <1>2, <1>4, SizeIs
<1>6. TypeOK
  <2>1. ASSUME NEW i \in 0 .. n - 1
        PROVE  ns[i] \in [key : Keys \cup {Null}, val : Vals \cup {Null}, next : DOMAIN ns \cup {Nil}]
    <3>1. -1 .. n - 1 = 0 .. n - 1 \cup {Nil} BY <1>4 DEF Nil
    <3>2. ns[i] \in Node(n) BY <1>3
    <3> QED BY <1>4, <3>1, <3>2 DEF Node
  <2>2. iter \in [pos : 0 .. n \cup {Done}, seen : SUBSET Keys, again : BOOLEAN, kept : SUBSET Keys]
    BY <1>1 DEF IterOk
  <2>3. ret \in BOOLEAN BY DEF TInv
  <2> QED BY <1>1, <1>2, <1>3, <1>4, <1>5, <2>1, <2>2, <2>3 DEF TypeOK
<1>7. ChainsEnd BY <1>2, <1>3 DEF ChainsEnd, Acyclic
<1>8. UsedNodesExact BY <1>2, <1>3 DEF UsedNodesExact, Occ
<1>9. FirstFreeIsFree
  <2>1. \A i \in 0 .. n - 1 : table.nodes[i].next # table.firstfree BY <1>1, FreeIsNobodys
  <2> QED BY <1>2, <1>3, <1>4, <2>1 DEF FirstFreeIsFree
<1> QED BY <1>6, <1>7, <1>8, <1>9 DEF NodesSound

LEMMA InvKeysFindable == TInv => KeysFindable
PROOF
<1> SUFFICES ASSUME TInv PROVE KeysFindable OBVIOUS
<1>1. PICK n \in Nat : Sound(table, n) BY DEF TInv, TableOk
<1>2. /\ n \in Nat \ {0} /\ table.nodes \in [0 .. n - 1 -> Node(n)] /\ Linked(table.nodes, n)
      /\ DOMAIN table.nodes = 0 .. n - 1
  BY <1>1 DEF Sound, TableT
<1>3. ASSUME NEW i \in 0 .. n - 1, table.nodes[i].key # Null
      PROVE  GetNode(table, table.nodes[i].key) = i
  BY <1>2, <1>3, GetNodeFinds
<1> QED BY <1>2, <1>3 DEF KeysFindable

LEMMA InvForeach == TInv => ForeachVisitsAll
BY DEF TInv, TableOk, IterOk, ForeachVisitsAll

\* The links and the next free node are nodes of the array, chains end, and the count
\* is the number of keys, after any operations on any keys.
THEOREM ChainsAreSound == Spec => []NodesSound
BY TableInvariant, InvNodesSound, PTL

\* _Get finds every key where it is.
THEOREM KeysAreFindable == Spec => []KeysFindable
BY TableInvariant, InvKeysFindable, PTL

\* A foreach loop over a table that is not rebuilt visits what stays in it, once.
THEOREM ForeachIsComplete == Spec => []ForeachVisitsAll
BY TableInvariant, InvForeach, PTL

-----------------------------------------------------------------------------
(* A table is a finite map.                                                *)

\* c maps every key of the pairs P to its value.
IsMapOf(c, P) ==
    /\ c = [k \in {p[1] : p \in P} |-> c[k]]
    /\ \A p \in P : c[p[1]] = p[2]

ContentsOf(t) == [k \in Present(t) |-> t.nodes[GetNode(t, k)].val]

LEMMA ContentsAre ==
    ASSUME NEW n, NEW t, Sound(t, n)
    PROVE  IsMapOf(ContentsOf(t), Pairs(t.nodes))
PROOF
<1>1. PICK c, P : c = ContentsOf(t) /\ P = Pairs(t.nodes) OBVIOUS
<1>2. Present(t) = {p[1] : p \in P} BY <1>1, PairsAre
<1>3. c = [k \in {p[1] : p \in P} |-> c[k]] BY <1>1, <1>2 DEF ContentsOf
<1>4. ASSUME NEW p \in P PROVE c[p[1]] = p[2]
  <2>1. PICK i \in Occ(t.nodes) : p = <<t.nodes[i].key, t.nodes[i].val>> BY <1>1 DEF Pairs
  <2>2. t.nodes[GetNode(t, t.nodes[i].key)].val = t.nodes[i].val BY <2>1, PairsAre
  <2>3. p[1] = t.nodes[i].key /\ p[2] = t.nodes[i].val BY <2>1
  <2>4. p[1] \in Present(t) BY <1>2
  <2>5. c[p[1]] = t.nodes[GetNode(t, p[1])].val BY <1>1, <2>4 DEF ContentsOf
  <2> QED BY <2>2, <2>3, <2>5
<1> QED BY <1>1, <1>3, <1>4 DEF IsMapOf

\* Two maps of the same pairs are the same.
LEMMA SameMap ==
    ASSUME NEW P, NEW c, IsMapOf(c, P), NEW d, IsMapOf(d, P)
    PROVE  d = c
PROOF
<1>1. PICK D : D = {p[1] : p \in P} OBVIOUS
<1>2. c = [k \in D |-> c[k]] /\ d = [k \in D |-> d[k]] BY <1>1 DEF IsMapOf
<1>3. ASSUME NEW k \in D PROVE c[k] = d[k]
  <2>1. PICK p \in P : k = p[1] BY <1>1
  <2> QED BY <2>1 DEF IsMapOf
<1> QED BY <1>2, <1>3

LEMMA EmptyMap ==
    ASSUME NEW c, IsMapOf(c, {})
    PROVE  c = <<>>
PROOF
<1>1. PICK D : D = {p[1] : p \in {}} OBVIOUS
<1>2. D = {} BY <1>1
<1>3. c = [k \in D |-> c[k]] BY <1>1 DEF IsMapOf
<1>4. c = [k \in {} |-> c[k]] BY <1>2, <1>3
<1>5. 1 .. 0 = {} OBVIOUS
<1> QED BY <1>4, <1>5

LEMMA OverwrittenMap ==
    ASSUME NEW P, NEW k, NEW v, NEW c, IsMapOf(c, P), NEW d, IsMapOf(d, Overwritten(P, k, v))
    PROVE  d = [j \in DOMAIN c \cup {k} |-> IF j = k THEN v ELSE c[j]]
PROOF
<1>1. PICK Q, q : Q = Overwritten(P, k, v) /\ q = <<k, v>> OBVIOUS
<1>2. q[1] = k /\ q[2] = v /\ q \in Q BY <1>1 DEF Overwritten
<1>3. PICK D, E : D = {p[1] : p \in P} /\ E = {p[1] : p \in Q} OBVIOUS
<1>4. c = [j \in D |-> c[j]] /\ d = [j \in E |-> d[j]] BY <1>1, <1>3 DEF IsMapOf
<1>5. DOMAIN c = D BY <1>4
<1>6. ASSUME NEW p \in P, p[1] # k PROVE p \in Q BY <1>1, <1>6 DEF Overwritten, Without
<1>7. ASSUME NEW p \in Q PROVE p = q \/ (p \in P /\ p[1] # k)
  BY <1>1 DEF Overwritten, Without
<1>8. E = D \cup {k} BY <1>2, <1>3, <1>6, <1>7
<1>9. d[k] = v BY <1>1, <1>2 DEF IsMapOf
<1>10. ASSUME NEW j \in D, j # k PROVE d[j] = c[j]
  <2>1. PICK p \in P : j = p[1] BY <1>3
  <2>2. p \in Q BY <1>6, <1>10, <2>1
  <2>3. c[j] = p[2] BY <2>1 DEF IsMapOf
  <2>4. d[j] = p[2] BY <1>1, <2>1, <2>2 DEF IsMapOf
  <2> QED BY <2>3, <2>4
<1>11. \A j \in E : d[j] = IF j = k THEN v ELSE c[j] BY <1>8, <1>9, <1>10
<1>12. d = [j \in E |-> IF j = k THEN v ELSE c[j]] BY <1>4, <1>11
<1> QED BY <1>5, <1>8, <1>12

LEMMA WithoutMap ==
    ASSUME NEW P, NEW k, NEW c, IsMapOf(c, P), NEW d, IsMapOf(d, Without(P, k))
    PROVE  d = [j \in DOMAIN c \ {k} |-> c[j]]
PROOF
<1>1. PICK Q : Q = Without(P, k) OBVIOUS
<1>2. PICK D, E : D = {p[1] : p \in P} /\ E = {p[1] : p \in Q} OBVIOUS
<1>3. c = [j \in D |-> c[j]] /\ d = [j \in E |-> d[j]] BY <1>1, <1>2 DEF IsMapOf
<1>4. DOMAIN c = D BY <1>3
<1>5. \A p : p \in Q <=> p \in P /\ p[1] # k BY <1>1 DEF Without
<1>6. E = D \ {k} BY <1>2, <1>5
<1>7. ASSUME NEW j \in E PROVE d[j] = c[j]
  <2>1. PICK p \in Q : j = p[1] BY <1>2
  <2> QED BY <1>1, <1>5, <2>1 DEF IsMapOf
<1> QED BY <1>3, <1>4, <1>6, <1>7

LEMMA StepOfMap ==
    ASSUME TInv, [Next]_vars
    PROVE  [Dict!Next]_Contents
PROOF
<1>1. PICK n \in Nat : TableOk(n) BY DEF TInv
<1>2. Sound(table, n) BY <1>1 DEF TableOk
<1>3. PICK P, c : P = Pairs(table.nodes) /\ c = Contents OBVIOUS
<1>4. IsMapOf(c, P) BY <1>2, <1>3, ContentsAre DEF Contents, ContentsOf
<1>5. DOMAIN c = Present(table) BY <1>3 DEF Contents
<1>6. TInv' BY StepKeeps
<1>7. PICK m \in Nat : Sound(table', m) BY <1>6 DEF TInv, TableOk
<1>8. PICK Q, d : Q = Pairs(table.nodes)' /\ d = Contents' OBVIOUS
<1>9. IsMapOf(d, Q) BY <1>7, <1>8, ContentsAre DEF Contents, ContentsOf
<1>10. ASSUME Q = P PROVE UNCHANGED Contents BY <1>3, <1>4, <1>8, <1>9, <1>10, SameMap
<1>11. ASSUME NEW k \in Keys, NEW v \in Vals, DoNewSlot(k, v) PROVE Dict!Put(k, v)
  <2>1. Q = Overwritten(P, k, v) BY <1>1, <1>3, <1>8, <1>11, NewSlotKeeps
  <2>2. d = [j \in DOMAIN c \cup {k} |-> IF j = k THEN v ELSE c[j]]
    BY <1>4, <1>9, <2>1, OverwrittenMap
  <2> QED BY <1>3, <1>8, <2>2 DEF Dict!Put
<1>12. ASSUME NEW k \in Keys \cup {Null}, NEW v \in Vals, DoSet(k, v)
       PROVE  (k \in Keys /\ Dict!Assign(k, v)) \/ UNCHANGED Contents
  <2>1. Q = P \/ (k \in Present(table) /\ Q = Overwritten(P, k, v))
    BY <1>1, <1>3, <1>8, <1>12, SetKeeps
  <2>2. ASSUME k \in Present(table), Q = Overwritten(P, k, v) PROVE k \in Keys /\ Dict!Assign(k, v)
    <3>1. k \in Keys BY <1>2, <2>2, PairsAre
    <3>2. k \in DOMAIN c BY <1>5, <2>2
    <3>3. d = [j \in DOMAIN c \cup {k} |-> IF j = k THEN v ELSE c[j]]
      BY <1>4, <1>9, <2>2, OverwrittenMap
    <3>4. c = [j \in DOMAIN c |-> c[j]] BY <1>3 DEF Contents
    <3>5. d = [c EXCEPT ![k] = v] BY <3>2, <3>3, <3>4
    <3> QED BY <1>3, <1>8, <3>1, <3>2, <3>5 DEF Dict!Assign
  <2> QED BY <1>10, <2>1, <2>2
<1>13. ASSUME NEW k \in Keys, DoRemove(k) PROVE Dict!Delete(k)
  <2>1. Q = Without(P, k) BY <1>1, <1>3, <1>8, <1>13, RemoveKeeps
  <2>2. d = [j \in DOMAIN c \ {k} |-> c[j]] BY <1>4, <1>9, <2>1, WithoutMap
  <2> QED BY <1>3, <1>8, <2>2 DEF Dict!Delete
<1>14. CASE DoClear
  <2>1. Q = {} BY <1>1, <1>8, <1>14, ClearKeeps
  <2>2. d = <<>> BY <1>9, <2>1, EmptyMap
  <2>3. Dict!Clear BY <1>8, <2>2 DEF Dict!Clear
  <2> QED BY <2>3 DEF Dict!Next
<1>15. CASE DoClone
  <2>1. Q = P BY <1>1, <1>3, <1>8, <1>15, CloneKeeps
  <2> QED BY <1>10, <2>1
<1>16. CASE IterStart \/ IterNext \/ UNCHANGED vars
  <2>1. table' = table BY <1>16 DEF IterStart, IterNext, vars
  <2> QED BY <1>3, <1>8, <1>10, <2>1
<1> QED BY <1>11, <1>12, <1>13, <1>14, <1>15, <1>16 DEF Next, Ops, Dict!Next

\* Hashing, collisions, deleted nodes, rehashing and cloning do not show: what scripts
\* see of a table changes as a finite map does, one operation of the map for each call.
THEOREM TableIsDict == Spec => RefinesDict
PROOF
<1>1. Init => Dict!Init
  <2> SUFFICES ASSUME Init PROVE Dict!Init OBVIOUS
  <2>1. TInv /\ Pairs(table.nodes) = {} BY InitOk
  <2>2. PICK n \in Nat : Sound(table, n) BY <2>1 DEF TInv, TableOk
  <2>3. IsMapOf(ContentsOf(table), {}) BY <2>1, <2>2, ContentsAre
  <2>4. ContentsOf(table) = <<>> BY <2>3, EmptyMap
  <2> QED BY <2>4 DEF Dict!Init, Contents, ContentsOf
<1>2. TInv /\ [Next]_vars => [Dict!Next]_Contents BY StepOfMap
<1> QED BY <1>1, <1>2, TableInvariant, PTL DEF Spec, RefinesDict, Dict!Spec
=============================================================================
