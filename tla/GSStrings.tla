----------------------------- MODULE GSStrings ------------------------------
(***************************************************************************)
(* The string table, in which every text is one object (GSStringTable),    *)
(* and the host's references, which keep objects alive (RefTable), both of *)
(* the shared state (GSstate.cpp, GSstring.h, GSapi.cpp).  The objects of  *)
(* the references are strings here; the table only asks for their hash.    *)
(*    str[o]      text and _hash of the string o, None if there is no o    *)
(*    held[o]     the references that scripts have, _uiRef less that of a  *)
(*                node                                                     *)
(*    table       GSStringTable: _strings, a chain for each hash, and      *)
(*                _slotused                                                *)
(*    refs        RefTable: _nodes, of an object and its count; _buckets,  *)
(*                a chain of nodes for each hash; _freelist; _slotused     *)
(***************************************************************************)
EXTENDS Integers, Sequences, FiniteSets, SequencesExt

CONSTANTS
    Objs, None,
    Texts,       \* what programs write, sequences of numbers; concatenation makes more
    MaxLen,      \* bound: length of a text
    MaxCount,    \* bound: references of one kind to an object
    SampledFrom, \* 32 (l >> 5) in GSstring.h: of texts this long not all is hashed
    InitSlots    \* 4 in GSstate.cpp, for both tables; for powers of two a mask is a remainder

ASSUME TextsAssumption == Texts \subseteq Seq(Nat)
ASSUME BoundsAssumption ==
    {MaxLen, MaxCount} \subseteq Nat /\ {SampledFrom, InitSlots} \subseteq Nat \ {0}
ASSUME NoneAssumption == None \notin Objs /\ None \notin [text : Seq(Nat), hash : Nat]

VARIABLES str, held, table, refs
vars == <<str, held, table, refs>>

Live == {o \in Objs : str[o] # None}
Chains(size) == [h \in 0..(size - 1) |-> <<>>]

-----------------------------------------------------------------------------
(* Hashes. *)

\* h ^ ((h << 5) + (h >> 2) + c), as some function of both.
Mix(h, c) == (33 * h + (h \div 4) + c) % 64

\* The hash of the characters chars, from the last one on; of a long text only every
\* step-th.  h[k] is the hash when k characters are behind.
Hashed(seed, chars) ==
    LET l == Len(chars)
        step == (l \div SampledFrom) + 1
        h[k \in 0..l] == IF k < step THEN seed ELSE Mix(h[k - step], chars[l + step - k])
    IN  h[l - (l % step)]

_hashstr(s) == Hashed(Len(s), s)

\* The characters of two texts as the index runs from the end of the second to the
\* beginning of the first.
Joined(a, b) == [i \in 1..(Len(a) + Len(b)) |-> IF i > Len(a) THEN b[i - Len(a)] ELSE a[i]]

\* The seed is the length of the second text.
Mut_hashstr2(a, b) == Hashed(Len(b), Joined(a, b))

\* The hash of a concatenation that is not there yet.
_hashstr2(a, b) == Hashed(Len(a) + Len(b), Joined(a, b))

-----------------------------------------------------------------------------
(* The string table. *)

Slots(chain) == Cardinality(DOMAIN chain)

\* o at the head of the chain of its hash h
Pushed(chain, o, h) == [chain EXCEPT ![h % Slots(chain)] = <<o>> \o @]

\* The strings of the chain c, moved one after the other to new chains.
Moved(chain, c, strs) ==
    LET into[j \in 0..Len(c)] ==
            IF j = 0 THEN chain ELSE Pushed(into[j - 1], c[j], strs[c[j]].hash)
    IN  into[Len(c)]

\* Resize, to twice the size
Rehashed(chain, strs) ==
    LET size == Slots(chain)
        moved[i \in 0..size] ==
            IF i = 0 THEN Chains(2 * size) ELSE Moved(moved[i - 1], chain[i - 1], strs)
    IN  moved[size]

\* The strings that Add and Concat find for a text of hash h.
Found(text, h) == {o \in Range(table.chain[h % Slots(table.chain)]) : str[o].text = text}

\* Add, or Concat: the string with this text, new if none is found, goes to a script.
Intern(text, h) ==
    \/ \E o \in Found(text, h) :
          /\ held[o] < MaxCount
          /\ held' = [held EXCEPT ![o] = @ + 1]
          /\ UNCHANGED <<str, table, refs>>
    \/ \E o \in Objs \ Live :
          LET strs == [str EXCEPT ![o] = [text |-> text, hash |-> h]]
              chain == Pushed(table.chain, o, h)
              used == table.used + 1
          IN  /\ Found(text, h) = {}
              /\ str' = strs
              /\ held' = [held EXCEPT ![o] = 1]
              /\ table' = [chain |-> IF used > Slots(chain) THEN Rehashed(chain, strs) ELSE chain,
                           used |-> used]
              /\ UNCHANGED refs

Create(text) == Intern(text, _hashstr(text))
Concat(a, b) ==
    /\ held[a] > 0 /\ held[b] > 0 /\ Len(str[a].text) + Len(str[b].text) <= MaxLen
    /\ Intern(str[a].text \o str[b].text, _hashstr2(str[a].text, str[b].text))

\* GSString::Release, when the last reference to o is gone
RemoveString(o) ==
    /\ str' = [str EXCEPT ![o] = None]
    /\ table' = [chain |-> [table.chain EXCEPT ![str[o].hash % Slots(table.chain)] = RemoveFirst(@, o)],
                 used |-> table.used - 1]

-----------------------------------------------------------------------------
(* The references of the host. *)

AllocNodes(size) ==
    [node |-> [n \in 1..size |-> [obj |-> None, count |-> 0]],
     bucket |-> Chains(size),
     free |-> [n \in 1..size |-> n],
     used |-> 0]

MainPos(r, o) == str[o].hash % Len(r.node)

\* RefTable::Add
AddNode(r, o, n) ==
    LET new == Head(r.free)
    IN  [node |-> [r.node EXCEPT ![new] = [obj |-> o, count |-> n]],
         bucket |-> [r.bucket EXCEPT ![MainPos(r, o)] = <<new>> \o @],
         free |-> Tail(r.free),
         used |-> r.used + 1]

\* The objects are moved with new counts.
Mut_Resized(r) ==
    LET size == Len(r.node)
        added[i \in 0..size] ==
            IF i = 0 THEN AllocNodes(2 * size)
            ELSE IF r.node[i].obj = None THEN added[i - 1]
            ELSE AddNode(added[i - 1], r.node[i].obj, 1)
    IN  added[size]

\* RefTable::Resize, to twice the size
Resized(r) ==
    LET size == Len(r.node)
        added[i \in 0..size] ==
            IF i = 0 THEN AllocNodes(2 * size)
            ELSE IF r.node[i].obj = None THEN added[i - 1]
            ELSE AddNode(added[i - 1], r.node[i].obj, r.node[i].count)
    IN  added[size]

\* RefTable::Get: the nodes of o
Nodes(r, o) == {n \in Range(r.bucket[MainPos(r, o)]) : r.node[n].obj = o}

GetRefCount(o) ==
    IF Nodes(refs, o) = {} THEN 0 ELSE refs.node[CHOOSE n \in Nodes(refs, o) : TRUE].count

\* GS_addref, of an object that the host sees on the stack or has a reference to
AddRef(o) ==
    /\ o \in Live /\ GetRefCount(o) < MaxCount
    /\ \/ \E n \in Nodes(refs, o) : refs' = [refs EXCEPT !.node[n].count = @ + 1]
       \/ /\ Nodes(refs, o) = {}
          /\ refs' = AddNode(IF Len(refs.node) = refs.used THEN Resized(refs) ELSE refs, o, 1)
    /\ UNCHANGED <<str, held, table>>

\* The slot stays counted.
Mut_UnlinkedCount(o, n) ==
    [node |-> [refs.node EXCEPT ![n] = [obj |-> None, count |-> 0]],
     bucket |-> [refs.bucket EXCEPT ![MainPos(refs, o)] = RemoveFirst(@, n)],
     free |-> <<n>> \o refs.free,
     used |-> refs.used]

\* RefTable::Release of the last reference: the node n of o is free.
Unlinked(o, n) ==
    [node |-> [refs.node EXCEPT ![n] = [obj |-> None, count |-> 0]],
     bucket |-> [refs.bucket EXCEPT ![MainPos(refs, o)] = RemoveFirst(@, n)],
     free |-> <<n>> \o refs.free,
     used |-> refs.used - 1]

\* GS_release, of a reference that the host has
Release(o) ==
    /\ o \in Live
    /\ \E n \in Nodes(refs, o) :
          \/ /\ refs.node[n].count > 1
             /\ refs' = [refs EXCEPT !.node[n].count = @ - 1]
             /\ UNCHANGED <<str, table>>
          \/ /\ refs.node[n].count = 1
             /\ refs' = Unlinked(o, n)
             /\ IF held[o] = 0 THEN RemoveString(o) ELSE UNCHANGED <<str, table>>
    /\ UNCHANGED held

\* A script lets go of a string: a node of the references counts as one more.
Drop(o) ==
    /\ held[o] > 0
    /\ held' = [held EXCEPT ![o] = @ - 1]
    /\ IF held[o] = 1 /\ \A n \in DOMAIN refs.node : refs.node[n].obj # o
       THEN RemoveString(o) ELSE UNCHANGED <<str, table>>
    /\ UNCHANGED refs

-----------------------------------------------------------------------------
Init ==
    /\ str = [o \in Objs |-> None]
    /\ held = [o \in Objs |-> 0]
    /\ table = [chain |-> Chains(InitSlots), used |-> 0]
    /\ refs = AllocNodes(InitSlots)

Next ==
    \/ \E text \in Texts : Create(text)
    \/ \E a, b \in Objs : Concat(a, b)
    \/ \E o \in Objs : AddRef(o) \/ Release(o) \/ Drop(o)

Spec == Init /\ [][Next]_vars

-----------------------------------------------------------------------------
(* Properties. *)

\* Strings are compared by address, so a text must be found by whoever makes it
\* again, by Add and by Concat and after any Resize: for every string alive, the
\* table finds that string and no other, and holds nothing that was freed.
Interned ==
    /\ \A o \in Live : Found(str[o].text, _hashstr(str[o].text)) = {o}
    /\ \A h \in DOMAIN table.chain : Range(table.chain[h]) \subseteq Live
    /\ table.used = Cardinality(Live)

\* Every node of the references is either in one chain, once, with a count, or in
\* the free list, with none: so _slotused tells when the free list is empty, which
\* the assert of RefTable::Get relies on, and Add takes a node that is free.
NodesPartitioned ==
    LET node == refs.node
        bucket == refs.bucket
        chained == UNION {Range(bucket[h]) : h \in DOMAIN bucket}
    IN  /\ \A h \in DOMAIN bucket : IsInjective(bucket[h])
        /\ \A g, h \in DOMAIN bucket : g # h => Range(bucket[g]) \cap Range(bucket[h]) = {}
        /\ IsInjective(refs.free)
        /\ chained \cap Range(refs.free) = {} /\ chained \cup Range(refs.free) = DOMAIN node
        /\ refs.used = Cardinality(chained)
        /\ \A n \in chained : node[n].count > 0 /\ node[n].obj # None
        /\ \A n \in Range(refs.free) : node[n] = [obj |-> None, count |-> 0]

\* The host has a count of its own for every object, and no object is freed that it
\* counts, whatever shares a chain with it and however the table grows.
HostRefs == INSTANCE GSHostRefs WITH
    count <- [o \in Objs |-> IF o \in Live THEN GetRefCount(o) ELSE 0], alive <- Live
ImplementsHostRefs == HostRefs!Spec
=============================================================================
