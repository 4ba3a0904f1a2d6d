------------------------------ MODULE GSTable -------------------------------
(***************************************************************************)
(* The hash table of GameScript (GStable.h, GStable.cpp): a chained        *)
(* scatter table.  Every node is in one array; a colliding key is put in   *)
(* the highest free node and linked into the chain of its main position.   *)
(* A table value is a record                                               *)
(*    nodes      _nodes: 0 .. _numofnodes-1 -> [key, val, next]            *)
(*    firstfree  _firstfree, as an index; it only ever moves down          *)
(*    used       _usednodes                                                *)
(* and every function of the class that changes the table is an operator   *)
(* from table values to table values.  The actions apply them to the one   *)
(* table of the model, with a foreach loop over it in progress.            *)
(***************************************************************************)
EXTENDS Integers, FiniteSets, FiniteSetsExt

CONSTANTS
    Keys,       \* the keys scripts use; null is not one of them
    Vals,       \* the values scripts store; null is not one of them
    Hash,       \* HashObj: a hash for every key
    Null,       \* the null object: the key of an empty node, its value too
    MINPOWER2   \* least number of nodes (4 in GSobject.h)

ASSUME HashAssumption == Hash \in [Keys -> Nat]
ASSUME NullAssumption == Null \notin Keys \cup Vals
ASSUME SizeAssumption == MINPOWER2 \in Nat /\ MINPOWER2 >= 4

VARIABLES
    table,      \* the table
    ret,        \* what the last NewSlot or Set returned
    iter        \* a foreach loop over the table: see IterStart

vars == <<table, ret, iter>>

Nil == -1   \* the NULL of a node pointer
Done == -1  \* what Next returns when there is nothing left

-----------------------------------------------------------------------------
(* The functions of the class, on table values.                            *)

Size(t) == Cardinality(DOMAIN t.nodes)   \* _numofnodes

FreeNode == [key |-> Null, val |-> Null, next |-> Nil]

\* _usednodes is cleared by both callers of AllocNodes.
AllocNodes(n) ==
    [nodes |-> [i \in 0 .. n-1 |-> FreeNode], firstfree |-> n - 1, used |-> 0]

\* hash & (_numofnodes - 1); the null object hashes to 0.
MainPos(t, k) == (IF k = Null THEN 0 ELSE Hash[k]) % Size(t)

\* _Get: the first node of the key's chain that holds it.
GetNode(t, k) ==
    LET from[n \in DOMAIN t.nodes] ==
            IF t.nodes[n].key = k THEN n
            ELSE IF t.nodes[n].next = Nil THEN Nil ELSE from[t.nodes[n].next]
    IN from[MainPos(t, k)]

\* The node before mp in the chain from node i ("find previous"); the assert of the
\* code ends the search at the end of the chain.
Previous(t, i, mp) ==
    LET from[n \in DOMAIN t.nodes] ==
            IF t.nodes[n].next \in {mp, Nil} THEN n ELSE from[t.nodes[n].next]
    IN from[i]

Present(t) == {t.nodes[i].key : i \in DOMAIN t.nodes} \ {Null}

Mut_Place(t, k) ==
    LET h == MainPos(t, k)
        n == t.firstfree
    IN IF t.nodes[h].key = Null
         THEN [nodes |-> [t.nodes EXCEPT ![h].key = k], at |-> h]
         ELSE [nodes |-> [t.nodes EXCEPT ![n].key = k, ![h].next = n], at |-> n]

\* NewSlot up to "mp->key = key": where a key that is not in the table goes.
\* The main position if it is empty; otherwise either the colliding node
\* moves to the free node (it is there only as a guest of another chain), or
\* the new key takes the free node, second in the chain.
Place(t, k) ==
    LET h == MainPos(t, k)
        n == t.firstfree
        mp == t.nodes[h]
        othern == MainPos(t, mp.key)
    IN IF mp.key = Null
         THEN [nodes |-> [t.nodes EXCEPT ![h].key = k], at |-> h]
       ELSE IF h > n /\ othern # h
         THEN LET prev == Previous(t, othern, h)
              IN [nodes |-> [t.nodes EXCEPT ![prev].next = n, ![n] = mp,
                                            ![h] = [FreeNode EXCEPT !.key = k]],
                  at |-> h]
         ELSE [nodes |-> [t.nodes EXCEPT ![n] = [@ EXCEPT !.key = k, !.next = mp.next],
                                         ![h].next = n],
               at |-> n]

Mut_Insert(t, k, v) ==
    LET p == Place(t, k)
    IN [fits |-> t.used + 1 < Size(t),
        table |-> [nodes |-> [p.nodes EXCEPT ![p.at].val = v],
                   firstfree |-> IF p.at = t.firstfree /\ t.firstfree > 0
                                   THEN t.firstfree - 1 ELSE t.firstfree,
                   used |-> t.used + 1]]

\* The rest of NewSlot for a new key: move _firstfree down to a node that is
\* empty and unlinked.  If there is none the key is in its node without its
\* value, and is not counted.
Insert(t, k, v) ==
    LET p == Place(t, k)
        free == {i \in 0 .. t.firstfree :
                    p.nodes[i].key = Null /\ p.nodes[i].next = Nil}
    IN IF free # {}
         THEN [fits |-> TRUE,
               table |-> [nodes |-> [p.nodes EXCEPT ![p.at].val = v],
                          firstfree |-> Max(free), used |-> t.used + 1]]
         ELSE [fits |-> FALSE,
               table |-> [t EXCEPT !.nodes = p.nodes, !.firstfree = 0]]

Mut_Reinsert(t, size) ==
    LET ins[i \in 0 .. Size(t) - 1] ==
            IF i = 0 THEN AllocNodes(size)
            ELSE IF t.nodes[i].key = Null THEN ins[i-1]
            ELSE Insert(ins[i-1], t.nodes[i].key, t.nodes[i].val).table
    IN ins[Size(t) - 1]

\* Copy every slot of t, in node order, into size fresh nodes.  NewSlot is
\* never short of a free node here: UsedNodesExact would fail if it were.
Reinsert(t, size) ==
    LET ins[i \in 0 .. Size(t)] ==
            IF i = 0 THEN AllocNodes(size)
            ELSE IF t.nodes[i-1].key = Null THEN ins[i-1]
            ELSE Insert(ins[i-1], t.nodes[i-1].key, t.nodes[i-1].val).table
    IN ins[Size(t)]

Rehash(t, force) ==
    LET old == Max({Size(t), 4})
        nelems == t.used
    IN IF nelems >= old - old \div 4 THEN Reinsert(t, old * 2)
       ELSE IF nelems <= old \div 4 /\ old > MINPOWER2 THEN Reinsert(t, old \div 2)
       ELSE IF force THEN Reinsert(t, old)
       ELSE t

SetNode(t, i, v) == [t EXCEPT !.nodes[i].val = v]

\* NewSlot.  When no free node is left it rehashes with the key already in
\* the nodes, and then calls itself, which finds the key there.
NewSlot(t, k, v) ==
    LET n == GetNode(t, k)
        ins == Insert(t, k, v)
        again == Rehash(ins.table, TRUE)
    IN IF n # Nil THEN [table |-> SetNode(t, n, v), created |-> FALSE]
       ELSE IF ins.fits THEN [table |-> ins.table, created |-> TRUE]
       ELSE [table |-> SetNode(again, GetNode(again, k), v), created |-> FALSE]

\* The node keeps its next: it stays in the chain, empty.
Remove(t, k) ==
    LET n == GetNode(t, k)
    IN IF n = Nil THEN t
       ELSE Rehash([t EXCEPT !.nodes[n].key = Null, !.nodes[n].val = Null,
                             !.used = @ - 1], FALSE)

Clear(t) ==
    Rehash([t EXCEPT !.nodes = [i \in DOMAIN @ |-> [@[i] EXCEPT !.key = Null, !.val = Null]],
                     !.used = 0], TRUE)

\* The slow path of Clone (_FAST_CLONE is never defined): Next and NewSlot
\* into a new table of the same number of nodes.
Clone(t) ==
    LET cp[i \in 0 .. Size(t)] ==
            IF i = 0 THEN AllocNodes(Size(t))
            ELSE IF t.nodes[i-1].key = Null THEN cp[i-1]
            ELSE NewSlot(cp[i-1], t.nodes[i-1].key, t.nodes[i-1].val).table
    IN cp[Size(t)]

Mut_NextNode(t, pos) ==
    LET found == {i \in pos + 1 .. Size(t) - 1 : t.nodes[i].key # Null}
    IN IF found = {} THEN Nil ELSE Min(found)

\* Next: the first occupied node at or after a position.
NextNode(t, pos) ==
    LET found == {i \in pos .. Size(t) - 1 : t.nodes[i].key # Null}
    IN IF found = {} THEN Nil ELSE Min(found)

-----------------------------------------------------------------------------
(* The operations of a script on its table.  A foreach loop may be in      *)
(* progress: its body runs between two calls of Next and is any sequence   *)
(* of operations.  iter.pos is the position the loop keeps; the rest are   *)
(* history variables: seen, the keys visited so far; again, whether one    *)
(* was visited twice; kept, the keys in the table ever since the loop      *)
(* started.  A loop whose body adds a key or has the nodes reallocated may *)
(* skip and repeat keys, and is not followed any further.                  *)

NoLoop == [pos |-> Done, seen |-> {}, again |-> FALSE, kept |-> {}]

Init ==
    /\ table = AllocNodes(MINPOWER2)
    /\ ret = TRUE
    /\ iter = NoLoop

\* The body of the loop changed the table to t; still: the nodes are those of
\* before, with no key added.
Disturb(t, still) ==
    iter' = IF iter.pos = Done \/ ~still THEN NoLoop
            ELSE [iter EXCEPT !.kept = @ \cap Present(t)]

DoNewSlot(k, v) ==
    LET r == NewSlot(table, k, v)
    IN /\ table' = r.table
       /\ ret' = r.created
       /\ Disturb(r.table, k \in Present(table))

\* Set: unlike NewSlot and Get it has no test for the null key, and the null
\* key equals the key of an empty node.
DoSet(k, v) ==
    LET n == GetNode(table, k)
    IN /\ table' = IF n = Nil THEN table ELSE SetNode(table, n, v)
       /\ ret' = (n # Nil)
       /\ Disturb(table', TRUE)

DoRemove(k) ==
    LET t == Remove(table, k)
    IN /\ table' = t
       /\ Disturb(t, Size(t) = Size(table))
       /\ UNCHANGED ret

DoClear ==
    /\ table' = Clear(table)
    /\ Disturb(table', FALSE)
    /\ UNCHANGED ret

\* t = clone t, outside a loop.
DoClone ==
    /\ iter.pos = Done
    /\ table' = Clone(table)
    /\ iter' = NoLoop
    /\ UNCHANGED ret

IterStart ==
    /\ iter.pos = Done
    /\ iter' = [NoLoop EXCEPT !.pos = 0, !.kept = Present(table)]
    /\ UNCHANGED <<table, ret>>

IterNext ==
    /\ iter.pos # Done
    /\ LET n == NextNode(table, iter.pos)
           k == table.nodes[n].key
       IN iter' = IF n = Nil THEN [iter EXCEPT !.pos = Done]
                  ELSE [iter EXCEPT !.pos = n + 1, !.seen = @ \cup {k},
                                    !.again = @ \/ k \in iter.seen]
    /\ UNCHANGED <<table, ret>>

\* What a script may do outside a loop, or in the body of one.
Ops ==
    \/ \E k \in Keys, v \in Vals : DoNewSlot(k, v)
    \/ \E k \in Keys \cup {Null}, v \in Vals : DoSet(k, v)
    \/ \E k \in Keys : DoRemove(k)
    \/ DoClear
    \/ DoClone

Next == Ops \/ IterStart \/ IterNext

Spec == Init /\ [][Next]_vars

-----------------------------------------------------------------------------
(* Properties.                                                             *)

\* MINPOWER2 times a power of two: the code takes the remainder by hash & (n - 1).
Doubled(n) ==
    LET doubling[p \in 0 .. n] == IF p = 0 THEN MINPOWER2 ELSE 2 * doubling[p - 1]
    IN \E p \in 0 .. n : doubling[p] = n

\* Every field has its type: _firstfree and the links are nodes of the
\* current array, whatever was reallocated, and its size stays a power of two.
TypeOK ==
    /\ Doubled(Size(table))
    /\ DOMAIN table.nodes = 0 .. Size(table) - 1
    /\ \A i \in DOMAIN table.nodes :
          table.nodes[i] \in [key : Keys \cup {Null}, val : Vals \cup {Null},
                              next : DOMAIN table.nodes \cup {Nil}]
    /\ table.firstfree \in DOMAIN table.nodes
    /\ table.used \in Nat
    /\ ret \in BOOLEAN
    /\ iter \in [pos : 0 .. Size(table) \cup {Done}, seen : SUBSET Keys,
                 again : BOOLEAN, kept : SUBSET Keys]

\* _Get finds every key that is in the nodes, and finds it where it is: no
\* key is lost from its chain by a collision, a tombstone or a move, and no
\* key is in two nodes.  It is also why the assert in NewSlot's search for
\* the previous node holds.
KeysFindable ==
    \A i \in DOMAIN table.nodes :
        table.nodes[i].key # Null => GetNode(table, table.nodes[i].key) = i

\* _usednodes, on which growing and shrinking depend, is the number of
\* occupied nodes.
UsedNodesExact ==
    table.used = Cardinality({i \in DOMAIN table.nodes : table.nodes[i].key # Null})

\* NewSlot writes into _firstfree without looking: between two operations it
\* is empty, ends no chain that goes on, and is in nobody's chain.
FirstFreeIsFree ==
    /\ table.nodes[table.firstfree].key = Null
    /\ table.nodes[table.firstfree].next = Nil
    /\ \A i \in DOMAIN table.nodes : table.nodes[i].next # table.firstfree

\* No nodes lead to each other in a circle: the do-while loops of _Get and GetStr
\* end for a key that is not in the table.
ChainsEnd ==
    \A S \in SUBSET DOMAIN table.nodes :
        S # {} => \E i \in S : table.nodes[i].next \notin S

\* The nodes are well formed between any two operations: their links and
\* _firstfree, which Rehash, Remove and NewSlot each set apart, stay in the current
\* array, lookups end, the count is exact and the next free node really is free.
NodesSound == TypeOK /\ ChainsEnd /\ UsedNodesExact /\ FirstFreeIsFree

\* A loop whose body added no key and made no reallocation (it assigned, or
\* deleted few) has, when it ends, visited every key that stayed in the
\* table, and none twice.
ForeachVisitsAll ==
    iter.pos = Done => iter.kept \subseteq iter.seen /\ ~iter.again

\* What scripts see of the table.
Contents == [k \in Present(table) |-> table.nodes[GetNode(table, k)].val]

\* A table is a finite map: hashing, collisions, tombstones, rehashing and
\* cloning are invisible.
Dict == INSTANCE GSDict WITH dict <- Contents

RefinesDict == Dict!Spec
=============================================================================
