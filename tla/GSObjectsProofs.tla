--------------------------- MODULE GSObjectsProofs ---------------------------
(***************************************************************************)
(* Classes and instances are maps, though kept as arrays, and what is      *)
(* written is what is read, for any number of classes, instances and       *)
(* tables and any names and values.                                        *)
(*                                                                         *)
(* The numbering carries the first part: within a class no two members     *)
(* have the same number, every number lies in its array, and a class with  *)
(* instances is locked, so that the array of defaults stays as long as     *)
(* those of its instances.  A step then changes one slot.  The second part *)
(* is about paths of delegates: Set and Get take the same one.             *)
(***************************************************************************)
EXTENDS GSObjects, FiniteSetTheorems, SequenceTheorems, WellFoundedInduction, TLAPS

-----------------------------------------------------------------------------
(* The invariant.                                                          *)

\* The array that has the member of that name.
Array(c, key) == IF IsField(c, key) THEN c.defaults ELSE c.methods

Numbered(c) ==
    /\ \A key \in DOMAIN c.members : c.members[key].idx \in 1 .. Len(Array(c, key))
    /\ \A j, k \in DOMAIN c.members :
          c.members[j].kind = c.members[k].kind /\ c.members[j].idx = c.members[k].idx => j = k
    /\ c.ctor \in 0 .. Len(c.methods)
    /\ ("constructor" \in DOMAIN c.members /\ ~IsField(c, "constructor")) =>
          c.ctor = c.members["constructor"].idx

ClassOk(c) ==
    /\ c \in ClassT(DOMAIN c.members, DOMAIN c.metas)
    /\ DOMAIN c.members \subseteq Names /\ DOMAIN c.metas \subseteq MetaNames
    /\ Numbered(c)

\* An instance is of a locked class with as many fields as it has values.
InstanceOk(x) ==
    /\ x \in InstanceT /\ cls[x.class] # None /\ cls[x.class].locked
    /\ Len(x.values) = Len(cls[x.class].defaults)

TableOk(t) ==
    /\ t \in TableT(DOMAIN t.slots) /\ DOMAIN t.slots \subseteq Names
    /\ t.delegate # None => tab[t.delegate] # None

ObjectsOk ==
    /\ DOMAIN cls = Classes /\ DOMAIN inst = Instances
    /\ \A c \in Classes : cls[c] # None =>
          ClassOk(cls[c]) /\ (cls[c].base # None => cls[cls[c].base] # None)
    /\ \A i \in Instances : inst[i] # None => InstanceOk(inst[i])

TablesOk ==
    /\ DOMAIN tab = Tables
    /\ \A t \in Tables : tab[t] # None => TableOk(tab[t])
    /\ root \in Tables /\ tab[root] # None /\ croot \in Tables /\ tab[croot] # None

OInv == ObjectsOk /\ TablesOk /\ world \in Worlds

-----------------------------------------------------------------------------
(* Types.                                                                  *)

MemberT == [kind : {"field", "static"}, idx : Nat]

\* The fields of a class, one by one.
Typed(c) ==
    /\ c.base \in Classes \cup {None} /\ c.locked \in BOOLEAN /\ c.attrs \in Attrs /\ c.ctor \in Nat
    /\ c.members \in [DOMAIN c.members -> MemberT] /\ DOMAIN c.members \subseteq Names
    /\ c.defaults \in Seq(Entry) /\ c.methods \in Seq(Entry)
    /\ c.metas \in [DOMAIN c.metas -> AllValues] /\ DOMAIN c.metas \subseteq MetaNames

IsRecord(c) ==
    c = [base |-> c.base, locked |-> c.locked, attrs |-> c.attrs, ctor |-> c.ctor,
         members |-> c.members, defaults |-> c.defaults, methods |-> c.methods, metas |-> c.metas]

LEMMA ClassIs ==
    ASSUME NEW c
    PROVE  ClassOk(c) <=> IsRecord(c) /\ Typed(c) /\ Numbered(c)
PROOF
<1>1. ASSUME ClassOk(c) PROVE IsRecord(c) /\ Typed(c) /\ Numbered(c)
  <2>1. c \in ClassT(DOMAIN c.members, DOMAIN c.metas) BY <1>1 DEF ClassOk
  <2>2. IsRecord(c) BY <2>1 DEF ClassT, IsRecord
  <2>3. Typed(c) BY <1>1, <2>1 DEF ClassOk, ClassT, Typed, MemberT
  <2> QED BY <1>1, <2>2, <2>3 DEF ClassOk
<1>2. ASSUME IsRecord(c), Typed(c), Numbered(c) PROVE ClassOk(c)
  <2>1. PICK D, M : D = DOMAIN c.members /\ M = DOMAIN c.metas OBVIOUS
  <2>2. [base |-> c.base, locked |-> c.locked, attrs |-> c.attrs, ctor |-> c.ctor,
         members |-> c.members, defaults |-> c.defaults, methods |-> c.methods, metas |-> c.metas]
        \in ClassT(D, M)
    BY <1>2, <2>1 DEF Typed, ClassT, MemberT
  <2>3. c \in ClassT(D, M) BY <1>2, <2>2 DEF IsRecord
  <2> QED BY <1>2, <2>1, <2>3 DEF ClassOk, Typed
<1> QED BY <1>1, <1>2

\* A class is not None, nor is what a script sees of it.
LEMMA ClassNotNone ==
    ASSUME NEW c, ClassOk(c)
    PROVE  c # None
PROOF
<1>1. c \in ClassT(DOMAIN c.members, DOMAIN c.metas) BY DEF ClassOk
<1>2. DOMAIN c.members \in SUBSET Names /\ DOMAIN c.metas \in SUBSET MetaNames BY DEF ClassOk
<1> QED BY <1>1, <1>2, TypesAssumption

\* Changed fields.
NewDefault(c, d, n, e) ==
    /\ Len(d.defaults) = Len(c.defaults)
    /\ d.defaults[n] = e /\ \A m \in 1 .. Len(c.defaults) : m # n => d.defaults[m] = c.defaults[m]
    /\ d.base = c.base /\ d.locked = c.locked /\ d.members = c.members /\ d.methods = c.methods
NewMethod(c, d, n, e) ==
    /\ d.methods[n] = e /\ \A m \in 1 .. Len(c.methods) : m # n => d.methods[m] = c.methods[m]
    /\ d.base = c.base /\ d.locked = c.locked /\ d.members = c.members /\ d.defaults = c.defaults

LEMMA DefaultsChanged ==
    ASSUME NEW c, ClassOk(c), NEW n \in 1 .. Len(c.defaults), NEW e \in Entry,
           NEW d, d = [c EXCEPT !.defaults[n] = e]
    PROVE  ClassOk(d) /\ NewDefault(c, d, n, e)
PROOF
<1>1. IsRecord(c) /\ Typed(c) /\ Numbered(c) BY ClassIs
<1>2. PICK s : s = [c.defaults EXCEPT ![n] = e] OBVIOUS
<1>3. c.defaults \in Seq(Entry) BY <1>1 DEF Typed
<1>4. s \in Seq(Entry) /\ Len(s) = Len(c.defaults) BY <1>2, <1>3
<1>5. s[n] = e /\ \A m \in 1 .. Len(c.defaults) : m # n => s[m] = c.defaults[m] BY <1>2, <1>3
<1>6. d = [c EXCEPT !.defaults = s] BY <1>2
<1>7. /\ d.base = c.base /\ d.locked = c.locked /\ d.attrs = c.attrs /\ d.ctor = c.ctor
      /\ d.members = c.members /\ d.methods = c.methods /\ d.metas = c.metas /\ d.defaults = s
  BY <1>1, <1>6 DEF IsRecord
<1>8. IsRecord(d)
  <2>1. d = [base |-> c.base, locked |-> c.locked, attrs |-> c.attrs, ctor |-> c.ctor,
             members |-> c.members, defaults |-> s, methods |-> c.methods, metas |-> c.metas]
    BY <1>1, <1>6 DEF IsRecord
  <2> QED BY <1>7, <2>1 DEF IsRecord
<1>9. Typed(d) BY <1>1, <1>4, <1>7 DEF Typed
<1>10. Numbered(d) BY <1>1, <1>4, <1>7 DEF Numbered, Array, IsField
<1>11. ClassOk(d) BY <1>8, <1>9, <1>10, ClassIs
<1> QED BY <1>4, <1>5, <1>7, <1>11 DEF NewDefault

LEMMA MethodsChanged ==
    ASSUME NEW c, ClassOk(c), NEW n \in 1 .. Len(c.methods), NEW e \in Entry,
           NEW d, d = [c EXCEPT !.methods[n] = e]
    PROVE  ClassOk(d) /\ NewMethod(c, d, n, e)
PROOF
<1>1. IsRecord(c) /\ Typed(c) /\ Numbered(c) BY ClassIs
<1>2. PICK s : s = [c.methods EXCEPT ![n] = e] OBVIOUS
<1>3. c.methods \in Seq(Entry) BY <1>1 DEF Typed
<1>4. s \in Seq(Entry) /\ Len(s) = Len(c.methods) BY <1>2, <1>3
<1>5. s[n] = e /\ \A m \in 1 .. Len(c.methods) : m # n => s[m] = c.methods[m] BY <1>2, <1>3
<1>6. d = [c EXCEPT !.methods = s] BY <1>2
<1>7. /\ d.base = c.base /\ d.locked = c.locked /\ d.attrs = c.attrs /\ d.ctor = c.ctor
      /\ d.members = c.members /\ d.methods = s /\ d.metas = c.metas /\ d.defaults = c.defaults
  BY <1>1, <1>6 DEF IsRecord
<1>8. IsRecord(d)
  <2>1. d = [base |-> c.base, locked |-> c.locked, attrs |-> c.attrs, ctor |-> c.ctor,
             members |-> c.members, defaults |-> c.defaults, methods |-> s, metas |-> c.metas]
    BY <1>1, <1>6 DEF IsRecord
  <2> QED BY <1>7, <2>1 DEF IsRecord
<1>9. Typed(d) BY <1>1, <1>4, <1>7 DEF Typed
<1>10. Numbered(d) BY <1>1, <1>4, <1>7 DEF Numbered, Array, IsField
<1>11. ClassOk(d) BY <1>8, <1>9, <1>10, ClassIs
<1> QED BY <1>5, <1>7, <1>11 DEF NewMethod

\* Put one name into a map.
LEMMA PutTyped ==
    ASSUME NEW f, NEW T, f \in [DOMAIN f -> T], NEW k, NEW x \in T
    PROVE  Put(f, k, x) \in [DOMAIN Put(f, k, x) -> T]
BY DEF Put

FieldPut(c, d, key, n, e) ==
    /\ d.members = Put(c.members, key, [kind |-> "field", idx |-> n]) /\ d.defaults[n] = e
    /\ \A m \in 1 .. Len(c.defaults) : d.defaults[m] = c.defaults[m]
    /\ d.base = c.base /\ d.locked = c.locked /\ d.methods = c.methods
StaticPut(c, d, key, n, e) ==
    /\ d.members = Put(c.members, key, [kind |-> "static", idx |-> n]) /\ d.methods[n] = e
    /\ \A m \in 1 .. Len(c.methods) : d.methods[m] = c.methods[m]
    /\ d.base = c.base /\ d.locked = c.locked /\ d.defaults = c.defaults
WithField(c, key, n, e) ==
    [c EXCEPT !.members = Put(@, key, [kind |-> "field", idx |-> n]), !.defaults = Append(@, e)]
WithStatic(c, key, n, e) ==
    [c EXCEPT !.members = Put(@, key, [kind |-> "static", idx |-> n]), !.methods = Append(@, e),
              !.ctor = IF key = "constructor" THEN n ELSE @]
WithRest(c, b, l, a, ms) == [c EXCEPT !.base = b, !.locked = l, !.attrs = a, !.metas = ms]
RestIs(c, d, b, l) ==
    /\ d.base = b /\ d.locked = l
    /\ d.members = c.members /\ d.defaults = c.defaults /\ d.methods = c.methods

\* A new member with the next number of its array, and its value at the end.
LEMMA FieldAdded ==
    ASSUME NEW c, ClassOk(c), NEW key \in Names, ~IsField(c, key), NEW e \in Entry,
           NEW n, n = Len(c.defaults) + 1,
           NEW d, d = WithField(c, key, n, e)
    PROVE  ClassOk(d) /\ FieldPut(c, d, key, n, e)
PROOF
<1>1. IsRecord(c) /\ Typed(c) /\ Numbered(c) BY ClassIs
<1>2. PICK s : s = Append(c.defaults, e) OBVIOUS
<1>3. PICK p : p = [kind |-> "field", idx |-> n] OBVIOUS
<1>4. PICK m : m = Put(c.members, key, p) OBVIOUS
<1>5. c.defaults \in Seq(Entry) /\ Len(c.defaults) \in Nat BY <1>1 DEF Typed
<1>6. s \in Seq(Entry) /\ Len(s) = n /\ n \in Nat /\ s[n] = e BY <1>2, <1>5
<1>7. \A j \in 1 .. Len(c.defaults) : s[j] = c.defaults[j] BY <1>2, <1>5
<1>8. d = [c EXCEPT !.members = m, !.defaults = s] BY <1>2, <1>3, <1>4 DEF WithField
<1>9. /\ d.base = c.base /\ d.locked = c.locked /\ d.attrs = c.attrs /\ d.ctor = c.ctor
      /\ d.members = m /\ d.methods = c.methods /\ d.metas = c.metas /\ d.defaults = s
  BY <1>1, <1>8 DEF IsRecord
<1>10. IsRecord(d)
  <2>1. d = [base |-> c.base, locked |-> c.locked, attrs |-> c.attrs, ctor |-> c.ctor,
             members |-> m, defaults |-> s, methods |-> c.methods, metas |-> c.metas]
    BY <1>1, <1>8 DEF IsRecord
  <2> QED BY <1>9, <2>1 DEF IsRecord
<1>11. p \in MemberT /\ p.kind = "field" /\ p.idx = n BY <1>3, <1>6 DEF MemberT
<1>12. /\ DOMAIN m = DOMAIN c.members \cup {key} /\ m[key] = p
       /\ \A j \in DOMAIN c.members : j # key => m[j] = c.members[j]
  BY <1>4 DEF Put
<1>13. m \in [DOMAIN m -> MemberT]
  <2>1. c.members \in [DOMAIN c.members -> MemberT] BY <1>1 DEF Typed
  <2> QED BY <1>4, <1>11, <2>1, PutTyped
<1>14. Typed(d) BY <1>1, <1>6, <1>9, <1>12, <1>13 DEF Typed
<1>15. Numbered(d)
  <2>1. \A j \in DOMAIN c.members : j # key => (IsField(d, j) <=> IsField(c, j)) BY <1>9, <1>12 DEF IsField
  <2>2. IsField(d, key) BY <1>9, <1>11, <1>12 DEF IsField
  <2>3. ASSUME NEW j \in DOMAIN d.members PROVE d.members[j].idx \in 1 .. Len(Array(d, j))
    <3>1. CASE j = key BY <1>6, <1>9, <1>11, <1>12, <2>2, <3>1 DEF Array
    <3>2. CASE j # key
      <4>1. j \in DOMAIN c.members /\ c.members[j].idx \in 1 .. Len(Array(c, j))
        BY <1>1, <1>9, <1>12, <3>2 DEF Numbered
      <4>2. Len(Array(c, j)) \in Nat /\ Len(Array(d, j)) \in Nat /\ Len(Array(c, j)) <= Len(Array(d, j))
        <5>1. c.methods \in Seq(Entry) BY <1>1 DEF Typed
        <5> QED BY <1>5, <1>6, <1>9, <2>1, <3>2, <4>1, <5>1 DEF Array
      <4> QED BY <1>9, <1>12, <3>2, <4>1, <4>2
    <3> QED BY <3>1, <3>2
  <2>4. \A j \in DOMAIN c.members : IsField(c, j) => c.members[j].idx # n
    <3>1. SUFFICES ASSUME NEW j \in DOMAIN c.members, IsField(c, j) PROVE c.members[j].idx # n OBVIOUS
    <3>2. c.members[j].idx \in 1 .. Len(c.defaults) BY <1>1, <3>1 DEF Numbered, Array
    <3> QED BY <1>5, <3>2
  <2>5. ASSUME NEW j \in DOMAIN d.members, NEW k \in DOMAIN d.members,
               d.members[j].kind = d.members[k].kind, d.members[j].idx = d.members[k].idx, j # k
        PROVE  FALSE
    <3>1. CASE j # key /\ k # key BY <1>1, <1>9, <1>12, <2>5, <3>1 DEF Numbered
    <3>2. CASE j = key
      <4>1. k \in DOMAIN c.members /\ k # key BY <1>9, <1>12, <2>5, <3>2
      <4> QED BY <1>9, <1>11, <1>12, <2>4, <2>5, <3>2, <4>1 DEF IsField
    <3>3. CASE k = key
      <4>1. j \in DOMAIN c.members /\ j # key BY <1>9, <1>12, <2>5, <3>3
      <4> QED BY <1>9, <1>11, <1>12, <2>4, <2>5, <3>3, <4>1 DEF IsField
    <3> QED BY <3>1, <3>2, <3>3
  <2>6. d.ctor \in 0 .. Len(d.methods) BY <1>1, <1>9 DEF Numbered
  <2>7. ("constructor" \in DOMAIN d.members /\ ~IsField(d, "constructor")) =>
            d.ctor = d.members["constructor"].idx
    BY <1>1, <1>9, <1>12, <2>1, <2>2 DEF Numbered
  <2> QED BY <2>3, <2>5, <2>6, <2>7 DEF Numbered
<1>16. ClassOk(d) BY <1>10, <1>14, <1>15, ClassIs
<1>17. d.members = Put(c.members, key, [kind |-> "field", idx |-> n]) BY <1>3, <1>4, <1>9
<1>18. d.defaults[n] = e /\ \A j \in 1 .. Len(c.defaults) : d.defaults[j] = c.defaults[j]
  BY <1>6, <1>7, <1>9
<1> QED BY <1>9, <1>16, <1>17, <1>18 DEF FieldPut

LEMMA StaticAdded ==
    ASSUME NEW c, ClassOk(c), NEW key \in Names, key \notin DOMAIN c.members, NEW e \in Entry,
           NEW n, n = Len(c.methods) + 1,
           NEW d, d = WithStatic(c, key, n, e)
    PROVE  ClassOk(d) /\ StaticPut(c, d, key, n, e)
PROOF
<1>1. IsRecord(c) /\ Typed(c) /\ Numbered(c) BY ClassIs
<1>2. PICK s : s = Append(c.methods, e) OBVIOUS
<1>3. PICK p : p = [kind |-> "static", idx |-> n] OBVIOUS
<1>4. PICK m : m = Put(c.members, key, p) OBVIOUS
<1>5. c.methods \in Seq(Entry) /\ Len(c.methods) \in Nat BY <1>1 DEF Typed
<1>6. s \in Seq(Entry) /\ Len(s) = n /\ n \in Nat /\ s[n] = e BY <1>2, <1>5
<1>7. \A j \in 1 .. Len(c.methods) : s[j] = c.methods[j] BY <1>2, <1>5
<1>8. PICK x : x = IF key = "constructor" THEN n ELSE c.ctor OBVIOUS
<1>9. d = [c EXCEPT !.members = m, !.methods = s, !.ctor = x] BY <1>2, <1>3, <1>4, <1>8 DEF WithStatic
<1>10. /\ d.base = c.base /\ d.locked = c.locked /\ d.attrs = c.attrs /\ d.ctor = x
       /\ d.members = m /\ d.methods = s /\ d.metas = c.metas /\ d.defaults = c.defaults
  BY <1>1, <1>9 DEF IsRecord
<1>11. IsRecord(d)
  <2>1. d = [base |-> c.base, locked |-> c.locked, attrs |-> c.attrs, ctor |-> x,
             members |-> m, defaults |-> c.defaults, methods |-> s, metas |-> c.metas]
    BY <1>1, <1>9 DEF IsRecord
  <2> QED BY <1>10, <2>1 DEF IsRecord
<1>12. p \in MemberT /\ p.kind = "static" /\ p.idx = n BY <1>3, <1>6 DEF MemberT
<1>13. /\ DOMAIN m = DOMAIN c.members \cup {key} /\ m[key] = p
       /\ \A j \in DOMAIN c.members : j # key /\ m[j] = c.members[j]
  BY <1>4 DEF Put
<1>14. m \in [DOMAIN m -> MemberT]
  <2>1. c.members \in [DOMAIN c.members -> MemberT] BY <1>1 DEF Typed
  <2> QED BY <1>4, <1>12, <2>1, PutTyped
<1>15. x \in 0 .. n /\ x \in Nat
  <2>1. c.ctor \in 0 .. Len(c.methods) BY <1>1 DEF Numbered
  <2> QED BY <1>5, <1>6, <1>8, <2>1
<1>16. Typed(d) BY <1>1, <1>6, <1>10, <1>13, <1>14, <1>15 DEF Typed
<1>17. Numbered(d)
  <2>1. \A j \in DOMAIN c.members : IsField(d, j) <=> IsField(c, j) BY <1>10, <1>13 DEF IsField
  <2>2. ~IsField(d, key) BY <1>10, <1>12, <1>13 DEF IsField
  <2>3. ASSUME NEW j \in DOMAIN d.members PROVE d.members[j].idx \in 1 .. Len(Array(d, j))
    <3>1. CASE j = key BY <1>6, <1>10, <1>12, <1>13, <2>2, <3>1 DEF Array
    <3>2. CASE j # key
      <4>1. j \in DOMAIN c.members /\ c.members[j].idx \in 1 .. Len(Array(c, j))
        BY <1>1, <1>10, <1>13, <3>2 DEF Numbered
      <4>2. Len(Array(c, j)) \in Nat /\ Len(Array(d, j)) \in Nat /\ Len(Array(c, j)) <= Len(Array(d, j))
        <5>1. c.defaults \in Seq(Entry) BY <1>1 DEF Typed
        <5> QED BY <1>5, <1>6, <1>10, <2>1, <3>2, <4>1, <5>1 DEF Array
      <4> QED BY <1>10, <1>13, <3>2, <4>1, <4>2
    <3> QED BY <3>1, <3>2
  <2>4. \A j \in DOMAIN c.members : c.members[j].kind = "static" => c.members[j].idx # n
    <3>1. SUFFICES ASSUME NEW j \in DOMAIN c.members, c.members[j].kind = "static"
                   PROVE c.members[j].idx # n OBVIOUS
    <3>2. c.members[j].idx \in 1 .. Len(c.methods) BY <1>1, <3>1 DEF Numbered, Array, IsField
    <3> QED BY <1>5, <3>2
  <2>5. ASSUME NEW j \in DOMAIN d.members, NEW k \in DOMAIN d.members,
               d.members[j].kind = d.members[k].kind, d.members[j].idx = d.members[k].idx, j # k
        PROVE  FALSE
    <3>1. CASE j # key /\ k # key BY <1>1, <1>10, <1>13, <2>5, <3>1 DEF Numbered
    <3>2. CASE j = key BY <1>10, <1>12, <1>13, <2>4, <2>5, <3>2
    <3>3. CASE k = key BY <1>10, <1>12, <1>13, <2>4, <2>5, <3>3
    <3> QED BY <3>1, <3>2, <3>3
  <2>6. d.ctor \in 0 .. Len(d.methods) BY <1>6, <1>10, <1>15
  <2>7. ("constructor" \in DOMAIN d.members /\ ~IsField(d, "constructor")) =>
            d.ctor = d.members["constructor"].idx
    <3>1. CASE key = "constructor" BY <1>8, <1>10, <1>12, <1>13, <3>1
    <3>2. CASE key # "constructor" BY <1>1, <1>8, <1>10, <1>13, <2>1, <3>2 DEF Numbered
    <3> QED BY <3>1, <3>2
  <2> QED BY <2>3, <2>5, <2>6, <2>7 DEF Numbered
<1>18. ClassOk(d) BY <1>11, <1>16, <1>17, ClassIs
<1>19. d.members = Put(c.members, key, [kind |-> "static", idx |-> n]) BY <1>3, <1>4, <1>10
<1>20. d.methods[n] = e /\ \A j \in 1 .. Len(c.methods) : d.methods[j] = c.methods[j]
  BY <1>6, <1>7, <1>10
<1> QED BY <1>10, <1>18, <1>19, <1>20 DEF StaticPut

\* A metamethod, attributes of the class, its lock and its base are no members.
LEMMA RestChanged ==
    ASSUME NEW c, ClassOk(c), NEW b \in Classes \cup {None}, NEW l \in BOOLEAN, NEW a \in Attrs,
           NEW ms, ms \in [DOMAIN ms -> AllValues], DOMAIN ms \subseteq MetaNames,
           NEW d, d = WithRest(c, b, l, a, ms)
    PROVE  ClassOk(d) /\ RestIs(c, d, b, l)
PROOF
<1>1. IsRecord(c) /\ Typed(c) /\ Numbered(c) BY ClassIs
<1>2. /\ d.base = b /\ d.locked = l /\ d.attrs = a /\ d.ctor = c.ctor
      /\ d.members = c.members /\ d.methods = c.methods /\ d.metas = ms /\ d.defaults = c.defaults
  BY <1>1 DEF IsRecord, WithRest
<1>3. IsRecord(d)
  <2>1. d = [base |-> b, locked |-> l, attrs |-> a, ctor |-> c.ctor,
             members |-> c.members, defaults |-> c.defaults, methods |-> c.methods, metas |-> ms]
    BY <1>1 DEF IsRecord, WithRest
  <2> QED BY <1>2, <2>1 DEF IsRecord
<1>4. Typed(d) BY <1>1, <1>2 DEF Typed
<1>5. Numbered(d) BY <1>1, <1>2 DEF Numbered, Array, IsField
<1> QED BY <1>2, <1>3, <1>4, <1>5, ClassIs DEF RestIs

-----------------------------------------------------------------------------
(* One member of a class.                                                  *)

\* Class d is class c but for the member of that name; a field stays one, where it is,
\* and a locked class gets none.
OneSlot(c, d, key) ==
    /\ d.base = c.base /\ d.locked = c.locked
    /\ DOMAIN c.members \subseteq DOMAIN d.members /\ DOMAIN d.members \subseteq DOMAIN c.members \cup {key}
    /\ \A k \in DOMAIN c.members : k # key => SlotOf(d, k) = SlotOf(c, k)
    /\ \A k \in DOMAIN c.members : IsField(c, k) => IsField(d, k) /\ d.members[k] = c.members[k]
    /\ c.locked => /\ Len(d.defaults) = Len(c.defaults)
                   /\ \A k \in DOMAIN d.members : IsField(d, k) => IsField(c, k)

LEMMA OneSlotAgain ==
    ASSUME NEW c, NEW d, NEW e, NEW key, OneSlot(c, d, key), OneSlot(d, e, key)
    PROVE  OneSlot(c, e, key)
PROOF
<1>1. e.base = c.base /\ e.locked = c.locked BY DEF OneSlot
<1>2. DOMAIN c.members \subseteq DOMAIN e.members /\ DOMAIN e.members \subseteq DOMAIN c.members \cup {key}
  BY DEF OneSlot
<1>3. \A k \in DOMAIN c.members : k # key => SlotOf(e, k) = SlotOf(c, k) BY DEF OneSlot
<1>4. \A k \in DOMAIN c.members : IsField(c, k) => IsField(e, k) /\ e.members[k] = c.members[k]
  BY DEF OneSlot
<1>5. ASSUME c.locked
      PROVE  /\ Len(e.defaults) = Len(c.defaults)
             /\ \A k \in DOMAIN e.members : IsField(e, k) => IsField(c, k)
  <2>1. d.locked /\ \A k : IsField(d, k) => k \in DOMAIN d.members BY <1>5 DEF OneSlot, IsField
  <2> QED BY <1>5, <2>1 DEF OneSlot
<1> QED BY <1>1, <1>2, <1>3, <1>4, <1>5 DEF OneSlot

LEMMA OneSlotNone ==
    ASSUME NEW c, NEW d, NEW key, d.base = c.base, d.locked = c.locked,
           d.members = c.members, d.defaults = c.defaults, d.methods = c.methods
    PROVE  OneSlot(c, d, key)
BY DEF OneSlot, SlotOf, IsField

LEMMA SlotTyped ==
    ASSUME NEW c, ClassOk(c), NEW key \in DOMAIN c.members
    PROVE  /\ SlotOf(c, key) \in SlotT
           /\ SlotOf(c, key).kind = c.members[key].kind
           /\ IsField(c, key) <=> SlotOf(c, key).kind = "field"
PROOF
<1>1. Typed(c) /\ Numbered(c) BY ClassIs
<1>2. c.members[key] \in MemberT BY <1>1 DEF Typed
<1>3. c.members[key].kind \in {"field", "static"} BY <1>2 DEF MemberT
<1>4. PICK x : x = IF IsField(c, key) THEN c.defaults[c.members[key].idx] ELSE c.methods[c.members[key].idx]
  OBVIOUS
<1>5. x \in Entry
  <2>1. c.members[key].idx \in 1 .. Len(Array(c, key)) BY <1>1 DEF Numbered
  <2>2. Array(c, key) \in Seq(Entry) BY <1>1 DEF Typed, Array
  <2>3. Array(c, key)[c.members[key].idx] \in Entry BY <2>1, <2>2
  <2> QED BY <1>4, <2>3 DEF Array
<1>6. SlotOf(c, key) = [kind |-> c.members[key].kind, val |-> x.val, attrs |-> x.attrs]
  BY <1>4 DEF SlotOf
<1>7. x.val \in AllValues /\ x.attrs \in Attrs BY <1>5 DEF Entry
<1> QED BY <1>3, <1>6, <1>7 DEF SlotT, IsField

\* Where two members of a class are.
LEMMA Elsewhere ==
    ASSUME NEW c, ClassOk(c), NEW j \in DOMAIN c.members, NEW k \in DOMAIN c.members, j # k,
           IsField(c, j) <=> IsField(c, k)
    PROVE  c.members[j].idx # c.members[k].idx
PROOF
<1>1. Typed(c) /\ Numbered(c) BY ClassIs
<1>2. c.members[j] \in MemberT /\ c.members[k] \in MemberT BY <1>1 DEF Typed
<1>3. c.members[j].kind \in {"field", "static"} /\ c.members[k].kind \in {"field", "static"}
  BY <1>2 DEF MemberT
<1>4. c.members[j].kind = c.members[k].kind BY <1>3 DEF IsField
<1> QED BY <1>1, <1>4 DEF Numbered

LEMMA IndexIn ==
    ASSUME NEW c, ClassOk(c), NEW key \in DOMAIN c.members
    PROVE  /\ IsField(c, key) => /\ c.members[key].idx \in 1 .. Len(c.defaults)
                                 /\ c.defaults[c.members[key].idx] \in Entry
           /\ ~IsField(c, key) => /\ c.members[key].idx \in 1 .. Len(c.methods)
                                  /\ c.methods[c.members[key].idx] \in Entry
PROOF
<1>1. Typed(c) /\ Numbered(c) BY ClassIs
<1>2. c.members[key].idx \in 1 .. Len(Array(c, key)) BY <1>1 DEF Numbered
<1>3. c.defaults \in Seq(Entry) /\ c.methods \in Seq(Entry) BY <1>1 DEF Typed
<1> QED BY <1>2, <1>3 DEF Array

LEMMA DefaultSet ==
    ASSUME NEW c, ClassOk(c), NEW key \in DOMAIN c.members, IsField(c, key), NEW e \in Entry,
           NEW d, d = [c EXCEPT !.defaults[c.members[key].idx] = e]
    PROVE  ClassOk(d) /\ OneSlot(c, d, key)
PROOF
<1>1. PICK n : n = c.members[key].idx OBVIOUS
<1>2. n \in 1 .. Len(c.defaults) BY <1>1, IndexIn
<1>3. d = [c EXCEPT !.defaults[n] = e] BY <1>1
<1>0. ClassOk(d) /\ NewDefault(c, d, n, e) BY <1>2, <1>3, DefaultsChanged
<1>4. /\ ClassOk(d) /\ Len(d.defaults) = Len(c.defaults)
      /\ d.defaults[n] = e /\ \A m \in 1 .. Len(c.defaults) : m # n => d.defaults[m] = c.defaults[m]
      /\ d.base = c.base /\ d.locked = c.locked /\ d.members = c.members /\ d.methods = c.methods
  BY <1>0 DEF NewDefault
<1>5. \A k : IsField(d, k) <=> IsField(c, k) BY <1>4 DEF IsField
<1>6. ASSUME NEW k \in DOMAIN c.members, k # key PROVE SlotOf(d, k) = SlotOf(c, k)
  <2>1. CASE IsField(c, k)
    <3>1. c.members[k].idx # n BY <1>1, <1>6, <2>1, Elsewhere
    <3>2. c.members[k].idx \in 1 .. Len(c.defaults) BY <2>1, IndexIn
    <3> QED BY <1>4, <1>5, <2>1, <3>1, <3>2 DEF SlotOf
  <2>2. CASE ~IsField(c, k)
    <3>1. ~IsField(d, k) BY <1>5, <2>2
    <3>2. d.members = c.members /\ d.methods = c.methods BY <1>4
    <3> QED BY <2>2, <3>1, <3>2 DEF SlotOf
  <2> QED BY <2>1, <2>2
<1> QED BY <1>4, <1>5, <1>6 DEF OneSlot

LEMMA MethodSet ==
    ASSUME NEW c, ClassOk(c), NEW key \in DOMAIN c.members, ~IsField(c, key), NEW e \in Entry,
           NEW d, d = [c EXCEPT !.methods[c.members[key].idx] = e]
    PROVE  ClassOk(d) /\ OneSlot(c, d, key)
PROOF
<1>1. PICK n : n = c.members[key].idx OBVIOUS
<1>2. n \in 1 .. Len(c.methods) BY <1>1, IndexIn
<1>3. d = [c EXCEPT !.methods[n] = e] BY <1>1
<1>0. ClassOk(d) /\ NewMethod(c, d, n, e) BY <1>2, <1>3, MethodsChanged
<1>4. /\ ClassOk(d)
      /\ d.methods[n] = e /\ \A m \in 1 .. Len(c.methods) : m # n => d.methods[m] = c.methods[m]
      /\ d.base = c.base /\ d.locked = c.locked /\ d.members = c.members /\ d.defaults = c.defaults
  BY <1>0 DEF NewMethod
<1>5. \A k : IsField(d, k) <=> IsField(c, k) BY <1>4 DEF IsField
<1>6. ASSUME NEW k \in DOMAIN c.members, k # key PROVE SlotOf(d, k) = SlotOf(c, k)
  <2>1. CASE ~IsField(c, k)
    <3>1. c.members[k].idx # n BY <1>1, <1>6, <2>1, Elsewhere
    <3>2. c.members[k].idx \in 1 .. Len(c.methods) BY <2>1, IndexIn
    <3> QED BY <1>4, <1>5, <2>1, <3>1, <3>2 DEF SlotOf
  <2>2. CASE IsField(c, k)
    <3>1. IsField(d, k) BY <1>5, <2>2
    <3>2. d.members = c.members /\ d.defaults = c.defaults BY <1>4
    <3> QED BY <2>2, <3>1, <3>2 DEF SlotOf
  <2> QED BY <2>1, <2>2
<1> QED BY <1>4, <1>5, <1>6 DEF OneSlot

LEMMA EntryChanged ==
    ASSUME NEW x \in Entry, NEW v \in AllValues, NEW a \in Attrs
    PROVE  [x EXCEPT !.val = v] \in Entry /\ [x EXCEPT !.attrs = a] \in Entry /\ Member(v, "null") \in Entry
BY ObjectsAssumption DEF Entry, Member

LEMMA GivenTyped ==
    ASSUME world \in Worlds
    PROVE  Given \subseteq AllValues
BY ObjectsAssumption DEF Given, AllValues, Value

\* A method of a derived class knows its base.
LEMMA BasedTyped ==
    ASSUME NEW v \in AllValues, IsFunction(v), NEW b \in Classes \cup {None}
    PROVE  Value(v.id, b) \in AllValues
BY DEF AllValues, Value, IsFunction

\* The base of a class has no part in ClassNewSlot but for what a method knows.
LEMMA NewSlotIs ==
    ASSUME NEW c, ClassOk(c), NEW key \in Names, NEW v \in AllValues, NEW st \in BOOLEAN,
           NEW d, d = ClassNewSlot(c, key, v, st), d # None
    PROVE  ClassOk(d) /\ OneSlot(c, d, key)
PROOF
<1>1. IsRecord(c) /\ Typed(c) /\ Numbered(c) BY ClassIs
<1>2. PICK w : w = IF c.base # None /\ IsFunction(v) THEN Value(v.id, c.base) ELSE v OBVIOUS
<1>3. w \in AllValues BY <1>1, <1>2, BasedTyped DEF Typed
<1>4. PICK nd, nm : nd = Len(c.defaults) + 1 /\ nm = Len(c.methods) + 1 OBVIOUS
<1>5. Member(w, "null") \in Entry /\ Member(v, "null") \in Entry BY <1>3, ObjectsAssumption DEF Entry, Member
<1>6. CASE IsField(c, key)
  <2>1. key \in DOMAIN c.members BY <1>6 DEF IsField
  <2>2. PICK e : e = [c.defaults[c.members[key].idx] EXCEPT !.val = v] OBVIOUS
  <2>3. e \in Entry BY <1>6, <2>1, <2>2, IndexIn, EntryChanged, ObjectsAssumption
  <2>4. d = [c EXCEPT !.defaults[c.members[key].idx].val = v] BY <1>6 DEF ClassNewSlot
  <2>5. d = [c EXCEPT !.defaults[c.members[key].idx] = e] BY <2>2, <2>4
  <2> QED BY <1>6, <2>1, <2>3, <2>5, DefaultSet
<1>7. CASE ~IsField(c, key) /\ (IsFunction(v) \/ st) /\ IsFunction(v) /\ key \in MetaNames
  <2>1. PICK ms : ms = Put(c.metas, key, v) OBVIOUS
  <2>2. c.metas \in [DOMAIN c.metas -> AllValues] /\ DOMAIN c.metas \subseteq MetaNames BY <1>1 DEF Typed
  <2>3. ms \in [DOMAIN ms -> AllValues] BY <2>1, <2>2, PutTyped
  <2>4. DOMAIN ms \subseteq MetaNames BY <1>7, <2>1, <2>2 DEF Put
  <2>5. d = [c EXCEPT !.metas = ms] BY <1>7, <2>1 DEF ClassNewSlot
  <2>6. PICK b, l, a : b = c.base /\ l = c.locked /\ a = c.attrs OBVIOUS
  <2>7. d = WithRest(c, b, l, a, ms) BY <1>1, <2>5, <2>6 DEF IsRecord, WithRest
  <2>8. b \in Classes \cup {None} /\ l \in BOOLEAN /\ a \in Attrs BY <1>1, <2>6 DEF Typed
  <2>9. ClassOk(d) /\ RestIs(c, d, b, l) BY <2>3, <2>4, <2>7, <2>8, RestChanged
  <2> QED BY <2>6, <2>9, OneSlotNone DEF RestIs
<1>8. CASE ~IsField(c, key) /\ (IsFunction(v) \/ st) /\ ~(IsFunction(v) /\ key \in MetaNames)
           /\ key \notin DOMAIN c.members
  <2>2. PICK e : e = Member(w, "null") OBVIOUS
  <2>1. d = WithStatic(c, key, nm, e) BY <1>2, <1>4, <1>8, <2>2 DEF ClassNewSlot, WithStatic
  <2>3. ClassOk(d) /\ StaticPut(c, d, key, nm, e) BY <1>4, <1>5, <1>8, <2>1, <2>2, StaticAdded
  <2>4. /\ d.members = Put(c.members, key, [kind |-> "static", idx |-> nm])
        /\ \A m \in 1 .. Len(c.methods) : d.methods[m] = c.methods[m]
        /\ d.base = c.base /\ d.locked = c.locked /\ d.defaults = c.defaults
    BY <2>3 DEF StaticPut
  <2>5. /\ DOMAIN d.members = DOMAIN c.members \cup {key} /\ d.members[key].kind = "static"
        /\ \A j \in DOMAIN c.members : j # key /\ d.members[j] = c.members[j]
    BY <1>8, <2>4 DEF Put
  <2>6. ~IsField(d, key) /\ \A j \in DOMAIN c.members : IsField(d, j) <=> IsField(c, j)
    BY <2>5 DEF IsField
  <2>7. ASSUME NEW k \in DOMAIN c.members PROVE SlotOf(d, k) = SlotOf(c, k)
    <3>1. d.members[k] = c.members[k] /\ (IsField(d, k) <=> IsField(c, k)) BY <2>5, <2>6
    <3>2. CASE IsField(c, k) BY <2>4, <3>1, <3>2 DEF SlotOf
    <3>3. CASE ~IsField(c, k)
      <4>1. c.members[k].idx \in 1 .. Len(c.methods) BY <3>3, IndexIn
      <4>2. d.methods[c.members[k].idx] = c.methods[c.members[k].idx] BY <2>4, <4>1
      <4> QED BY <3>1, <3>3, <4>2 DEF SlotOf
    <3> QED BY <3>2, <3>3
  <2> QED BY <2>3, <2>4, <2>5, <2>6, <2>7 DEF OneSlot
<1>9. CASE ~IsField(c, key) /\ (IsFunction(v) \/ st) /\ ~(IsFunction(v) /\ key \in MetaNames)
           /\ key \in DOMAIN c.members
  <2>1. d = [c EXCEPT !.methods[c.members[key].idx].val = w] BY <1>2, <1>9 DEF ClassNewSlot
  <2>2. PICK e : e = [c.methods[c.members[key].idx] EXCEPT !.val = w] OBVIOUS
  <2>3. e \in Entry BY <1>3, <1>9, <2>2, IndexIn, EntryChanged, ObjectsAssumption
  <2>4. d = [c EXCEPT !.methods[c.members[key].idx] = e] BY <2>1, <2>2
  <2> QED BY <1>9, <2>3, <2>4, MethodSet
<1>10. CASE ~IsField(c, key) /\ ~IsFunction(v) /\ ~st
  <2>2. PICK e : e = Member(v, "null") OBVIOUS
  <2>1. ~c.locked /\ d = WithField(c, key, nd, e) BY <1>4, <1>10, <2>2 DEF ClassNewSlot, WithField
  <2>3. ClassOk(d) /\ FieldPut(c, d, key, nd, e) BY <1>4, <1>5, <1>10, <2>1, <2>2, FieldAdded
  <2>4. /\ d.members = Put(c.members, key, [kind |-> "field", idx |-> nd])
        /\ \A m \in 1 .. Len(c.defaults) : d.defaults[m] = c.defaults[m]
        /\ d.base = c.base /\ d.locked = c.locked /\ d.methods = c.methods
    BY <2>3 DEF FieldPut
  <2>5. /\ DOMAIN d.members = DOMAIN c.members \cup {key}
        /\ \A j \in DOMAIN c.members : j # key => d.members[j] = c.members[j]
    BY <2>4 DEF Put
  <2>6. \A j \in DOMAIN c.members : j # key => (IsField(d, j) <=> IsField(c, j))
    BY <2>5 DEF IsField
  <2>7. ASSUME NEW k \in DOMAIN c.members, k # key PROVE SlotOf(d, k) = SlotOf(c, k)
    <3>1. d.members[k] = c.members[k] /\ (IsField(d, k) <=> IsField(c, k)) BY <2>5, <2>6, <2>7
    <3>2. CASE ~IsField(c, k) BY <2>4, <3>1, <3>2 DEF SlotOf
    <3>3. CASE IsField(c, k)
      <4>1. c.members[k].idx \in 1 .. Len(c.defaults) BY <3>3, IndexIn
      <4>2. d.defaults[c.members[k].idx] = c.defaults[c.members[k].idx] BY <2>4, <4>1
      <4> QED BY <3>1, <3>3, <4>2 DEF SlotOf
    <3> QED BY <3>2, <3>3
  <2>8. \A k \in DOMAIN c.members : IsField(c, k) => IsField(d, k) /\ d.members[k] = c.members[k]
    BY <1>10, <2>5, <2>6
  <2> QED BY <2>1, <2>3, <2>4, <2>5, <2>7, <2>8 DEF OneSlot
<1> QED BY <1>6, <1>7, <1>8, <1>9, <1>10

LEMMA AttributesAre ==
    ASSUME NEW c, ClassOk(c), NEW key, NEW a \in Attrs, NEW d, d = WithAttributes(c, key, a)
    PROVE  ClassOk(d) /\ OneSlot(c, d, key)
PROOF
<1>1. IsRecord(c) /\ Typed(c) /\ Numbered(c) BY ClassIs
<1>2. CASE key \notin DOMAIN c.members
  <2>1. d = c BY <1>2 DEF WithAttributes
  <2> QED BY <2>1, OneSlotNone
<1>3. CASE key \in DOMAIN c.members /\ IsField(c, key)
  <2>1. d = [c EXCEPT !.defaults[c.members[key].idx].attrs = a] BY <1>3 DEF WithAttributes
  <2>2. PICK e : e = [c.defaults[c.members[key].idx] EXCEPT !.attrs = a] OBVIOUS
  <2>3. PICK x : x = c.defaults[c.members[key].idx] OBVIOUS
  <2>4. x \in Entry BY <1>3, <2>3, IndexIn
  <2>5. e \in Entry BY <2>2, <2>3, <2>4 DEF Entry
  <2>6. d = [c EXCEPT !.defaults[c.members[key].idx] = e] BY <2>1, <2>2
  <2> QED BY <1>3, <2>5, <2>6, DefaultSet
<1>4. CASE key \in DOMAIN c.members /\ ~IsField(c, key)
  <2>1. d = [c EXCEPT !.methods[c.members[key].idx].attrs = a] BY <1>4 DEF WithAttributes
  <2>2. PICK e : e = [c.methods[c.members[key].idx] EXCEPT !.attrs = a] OBVIOUS
  <2>3. PICK x : x = c.methods[c.members[key].idx] OBVIOUS
  <2>4. x \in Entry BY <1>4, <2>3, IndexIn
  <2>5. e \in Entry BY <2>2, <2>3, <2>4 DEF Entry
  <2>6. d = [c EXCEPT !.methods[c.members[key].idx] = e] BY <2>1, <2>2
  <2> QED BY <1>4, <2>5, <2>6, MethodSet
<1> QED BY <1>2, <1>3, <1>4

\* A value set where a member is (SetByHandle).
LEMMA ValueSet ==
    ASSUME NEW c, ClassOk(c), NEW key \in DOMAIN c.members, NEW v \in AllValues, NEW d,
           d = IF IsField(c, key) THEN [c EXCEPT !.defaults[c.members[key].idx].val = v]
               ELSE [c EXCEPT !.methods[c.members[key].idx].val = v]
    PROVE  ClassOk(d) /\ OneSlot(c, d, key)
PROOF
<1>1. CASE IsField(c, key)
  <2>1. PICK x : x = c.defaults[c.members[key].idx] OBVIOUS
  <2>2. x \in Entry BY <1>1, <2>1, IndexIn
  <2>3. PICK e : e = [x EXCEPT !.val = v] OBVIOUS
  <2>4. e \in Entry BY <2>2, <2>3 DEF Entry
  <2>5. d = [c EXCEPT !.defaults[c.members[key].idx] = e] BY <1>1, <2>1, <2>3
  <2> QED BY <1>1, <2>4, <2>5, DefaultSet
<1>2. CASE ~IsField(c, key)
  <2>1. PICK x : x = c.methods[c.members[key].idx] OBVIOUS
  <2>2. x \in Entry BY <1>2, <2>1, IndexIn
  <2>3. PICK e : e = [x EXCEPT !.val = v] OBVIOUS
  <2>4. e \in Entry BY <2>2, <2>3 DEF Entry
  <2>5. d = [c EXCEPT !.methods[c.members[key].idx] = e] BY <1>2, <2>1, <2>3
  <2> QED BY <1>2, <2>4, <2>5, MethodSet
<1> QED BY <1>1, <1>2

-----------------------------------------------------------------------------
(* The map of a class and of an instance.                                  *)

Slots(c) == [key \in DOMAIN c.members |-> SlotOf(c, key)]
AbsClass(c) == [base |-> c.base, locked |-> c.locked, slots |-> Slots(c)]

FieldsOf(c) == {k \in DOMAIN c.members : IsField(c, k)}
AbsInstance(x, c) ==
    [class |-> x.class, vals |-> [key \in FieldsOf(c) |-> x.values[c.members[key].idx]]]

LEMMA ClassMapIs == ClassMap = [c \in Classes |-> IF cls[c] = None THEN None ELSE AbsClass(cls[c])]
BY DEF ClassMap, AbsClass, Slots

LEMMA InstanceMapIs ==
    InstanceMap = [i \in Instances |-> IF inst[i] = None THEN None
                                       ELSE AbsInstance(inst[i], cls[inst[i].class])]
BY DEF InstanceMap, AbsInstance, FieldsOf

LEMMA MapsAfter ==
    /\ ClassMap' = [c \in Classes |-> IF cls'[c] = None THEN None ELSE AbsClass(cls'[c])]
    /\ InstanceMap' = [i \in Instances |-> IF inst'[i] = None THEN None
                                           ELSE AbsInstance(inst'[i], cls'[inst'[i].class])]
BY DEF ClassMap, AbsClass, Slots, InstanceMap, AbsInstance, FieldsOf

\* The map of an instance depends on the names and numbers of its class only.
LEMMA SameInstance ==
    ASSUME NEW x, NEW c, NEW d, d.members = c.members
    PROVE  AbsInstance(x, d) = AbsInstance(x, c) /\ FieldsOf(d) = FieldsOf(c)
PROOF
<1>1. FieldsOf(d) = FieldsOf(c) BY DEF FieldsOf, IsField
<1> QED BY <1>1 DEF AbsInstance

LEMMA AbsClassNotNone ==
    ASSUME NEW c, ClassOk(c)
    PROVE  AbsClass(c) # None
PROOF
<1>1. Typed(c) BY ClassIs
<1>2. PICK D : D = DOMAIN c.members OBVIOUS
<1>3. Slots(c) \in [D -> SlotT]
  <2>1. \A k \in D : SlotOf(c, k) \in SlotT BY <1>2, SlotTyped
  <2> QED BY <1>2, <2>1 DEF Slots
<1>4. AbsClass(c) \in RecordT(D) BY <1>1, <1>3 DEF AbsClass, RecordT, Typed
<1> QED BY <1>1, <1>2, <1>4, TypesAssumption DEF Typed

LEMMA AbsInstanceNotNone ==
    ASSUME NEW x \in InstanceT, NEW c, ClassOk(c), Len(x.values) = Len(c.defaults)
    PROVE  /\ AbsInstance(x, c) # None
           /\ \A key \in FieldsOf(c) : x.values[c.members[key].idx] \in AllValues
PROOF
<1>1. Typed(c) BY ClassIs
<1>2. FieldsOf(c) \subseteq Names BY <1>1 DEF Typed, FieldsOf
<1>3. x.class \in Classes /\ x.values \in Seq(AllValues) BY DEF InstanceT
<1>4. ASSUME NEW key \in FieldsOf(c) PROVE x.values[c.members[key].idx] \in AllValues
  <2>1. key \in DOMAIN c.members /\ IsField(c, key) BY DEF FieldsOf
  <2>2. c.members[key].idx \in 1 .. Len(x.values) BY <2>1, IndexIn
  <2> QED BY <1>3, <2>2
<1>5. [key \in FieldsOf(c) |-> x.values[c.members[key].idx]] \in [FieldsOf(c) -> AllValues] BY <1>4
<1>6. AbsInstance(x, c) \in FieldsT(FieldsOf(c)) BY <1>3, <1>5 DEF AbsInstance, FieldsT
<1> QED BY <1>2, <1>4, <1>6, TypesAssumption

\* What is in a state of the invariant.
LEMMA ClassIn ==
    ASSUME ObjectsOk, NEW c \in Classes, cls[c] # None
    PROVE  /\ ClassOk(cls[c]) /\ AbsClass(cls[c]) # None /\ ClassMap[c] = AbsClass(cls[c])
           /\ cls[c].base \in Classes \cup {None} /\ (cls[c].base # None => cls[cls[c].base] # None)
           /\ cls[c].locked \in BOOLEAN
PROOF
<1>1. ClassOk(cls[c]) BY DEF ObjectsOk
<1>2. Typed(cls[c]) BY <1>1, ClassIs
<1>3. AbsClass(cls[c]) # None BY <1>1, AbsClassNotNone
<1>4. ClassMap[c] = AbsClass(cls[c]) BY ClassMapIs
<1> QED BY <1>1, <1>2, <1>3, <1>4 DEF ObjectsOk, Typed

LEMMA InstanceIn ==
    ASSUME ObjectsOk, NEW i \in Instances, inst[i] # None
    PROVE  /\ inst[i] \in InstanceT /\ inst[i].class \in Classes /\ cls[inst[i].class] # None
           /\ cls[inst[i].class].locked /\ Len(inst[i].values) = Len(cls[inst[i].class].defaults)
           /\ inst[i].values \in Seq(AllValues)
           /\ AbsInstance(inst[i], cls[inst[i].class]) # None
           /\ InstanceMap[i] = AbsInstance(inst[i], cls[inst[i].class])
PROOF
<1>1. InstanceOk(inst[i]) BY DEF ObjectsOk
<1>2. /\ inst[i] \in InstanceT /\ cls[inst[i].class] # None
      /\ cls[inst[i].class].locked /\ Len(inst[i].values) = Len(cls[inst[i].class].defaults)
  BY <1>1 DEF InstanceOk
<1>3. inst[i].class \in Classes /\ inst[i].values \in Seq(AllValues) BY <1>2 DEF InstanceT
<1>4. ClassOk(cls[inst[i].class]) BY <1>2, <1>3 DEF ObjectsOk
<1>5. AbsInstance(inst[i], cls[inst[i].class]) # None BY <1>2, <1>4, AbsInstanceNotNone
<1>6. InstanceMap[i] = AbsInstance(inst[i], cls[inst[i].class]) BY InstanceMapIs
<1> QED BY <1>2, <1>3, <1>5, <1>6

-----------------------------------------------------------------------------
(* Steps that change a class.                                              *)

\* One class that changes in one member.
LEMMA ClassChanged ==
    ASSUME ObjectsOk, NEW c \in Classes, cls[c] # None, NEW d, ClassOk(d), NEW key,
           OneSlot(cls[c], d, key), cls' = [cls EXCEPT ![c] = d], inst' = inst
    PROVE  ObjectsOk' /\ InstanceMap' = InstanceMap /\ (Records!Define(c) \/ ClassMap' = ClassMap)
PROOF
<1>1. DOMAIN cls = Classes /\ DOMAIN inst = Instances BY DEF ObjectsOk
<1>2. cls'[c] = d /\ \A e \in Classes : e # c => cls'[e] = cls[e] BY <1>1
<1>3. d # None BY ClassNotNone
<1>4. \A e \in Classes : cls'[e] = None <=> cls[e] = None BY <1>2, <1>3
<1>5. d.base = cls[c].base /\ d.locked = cls[c].locked BY DEF OneSlot
<1>6. ASSUME NEW e \in Classes, cls'[e] # None
      PROVE  ClassOk(cls'[e]) /\ (cls'[e].base # None => cls'[cls'[e].base] # None)
  <2>1. cls[e] # None BY <1>4, <1>6
  <2>2. ClassOk(cls[e]) /\ cls[e].base \in Classes \cup {None} /\ (cls[e].base # None => cls[cls[e].base] # None)
    BY <2>1, ClassIn
  <2>3. cls'[e].base = cls[e].base BY <1>2, <1>5
  <2>4. ClassOk(cls'[e]) BY <1>2, <2>2
  <2> QED BY <1>4, <2>2, <2>3, <2>4
<1>7. ASSUME NEW i \in Instances, inst[i] # None
      PROVE  /\ inst[i] \in InstanceT /\ cls'[inst[i].class] # None /\ cls'[inst[i].class].locked
             /\ Len(inst[i].values) = Len(cls'[inst[i].class].defaults)
             /\ AbsInstance(inst[i], cls'[inst[i].class]) = AbsInstance(inst[i], cls[inst[i].class])
  <2>1. PICK e : e = inst[i].class OBVIOUS
  <2>2. /\ inst[i] \in InstanceT /\ e \in Classes /\ cls[e] # None /\ cls[e].locked
        /\ Len(inst[i].values) = Len(cls[e].defaults)
    BY <1>7, <2>1, InstanceIn
  <2>3. CASE e # c BY <1>2, <2>1, <2>2, <2>3
  <2>4. CASE e = c
    <3>1. Len(d.defaults) = Len(cls[c].defaults) BY <2>2, <2>4 DEF OneSlot
    <3>2. FieldsOf(d) = FieldsOf(cls[c])
      <4>1. \A k \in DOMAIN d.members : IsField(d, k) => IsField(cls[c], k) BY <2>2, <2>4 DEF OneSlot
      <4>2. \A k \in DOMAIN cls[c].members : IsField(cls[c], k) => IsField(d, k) BY DEF OneSlot
      <4>3. \A k : IsField(cls[c], k) => k \in DOMAIN cls[c].members BY DEF IsField
      <4>4. \A k : IsField(d, k) => k \in DOMAIN d.members BY DEF IsField
      <4> QED BY <4>1, <4>2, <4>3, <4>4 DEF FieldsOf
    <3>3. \A k \in FieldsOf(cls[c]) : d.members[k] = cls[c].members[k] BY DEF OneSlot, FieldsOf
    <3>4. [k \in FieldsOf(d) |-> inst[i].values[d.members[k].idx]]
          = [k \in FieldsOf(cls[c]) |-> inst[i].values[cls[c].members[k].idx]]
      BY <3>2, <3>3
    <3>5. AbsInstance(inst[i], d) = AbsInstance(inst[i], cls[c]) BY <3>4 DEF AbsInstance
    <3> QED BY <1>2, <1>3, <1>5, <2>1, <2>2, <2>4, <3>1, <3>5
  <2> QED BY <2>3, <2>4
<1>8. ObjectsOk'
  <2>1. DOMAIN cls' = Classes /\ DOMAIN inst' = Instances BY <1>1
  <2>2. \A i \in Instances : inst'[i] # None => InstanceOk(inst[i])' BY <1>7 DEF InstanceOk
  <2> QED BY <1>6, <2>1, <2>2 DEF ObjectsOk
<1>9. InstanceMap' = InstanceMap
  <2>1. InstanceMap' = [i \in Instances |-> IF inst'[i] = None THEN None
                                            ELSE AbsInstance(inst'[i], cls'[inst'[i].class])]
    BY MapsAfter
  <2> QED BY <1>7, <2>1, InstanceMapIs
<1>10. ClassMap' = [ClassMap EXCEPT ![c] = AbsClass(d)]
  <2>1. ClassMap' = [e \in Classes |-> IF cls'[e] = None THEN None ELSE AbsClass(cls'[e])] BY MapsAfter
  <2>2. ClassMap = [e \in Classes |-> IF cls[e] = None THEN None ELSE AbsClass(cls[e])] BY ClassMapIs
  <2>3. \A e \in Classes : ClassMap'[e] = IF e = c THEN AbsClass(d) ELSE ClassMap[e]
    BY <1>2, <1>3, <2>1, <2>2
  <2> QED BY <2>1, <2>2, <2>3
<1>11. CASE AbsClass(d) = AbsClass(cls[c])
  <2>1. ClassMap[c] = AbsClass(cls[c]) /\ DOMAIN ClassMap = Classes /\ ClassMap = [e \in Classes |-> ClassMap[e]]
    BY ClassMapIs
  <2>2. ClassMap' = ClassMap BY <1>10, <1>11, <2>1
  <2> QED BY <1>8, <1>9, <2>2
<1>12. CASE AbsClass(d) # AbsClass(cls[c])
  <2>1. /\ ClassMap[c] = AbsClass(cls[c]) /\ ClassMap[c] # None /\ ClassOk(cls[c])
    BY ClassIn
  <2>2. ClassMap'[c] = AbsClass(d) /\ AbsClass(d) # None
    <3>1. c \in DOMAIN ClassMap BY ClassMapIs
    <3> QED BY <1>10, <3>1, AbsClassNotNone
  <2>3. DOMAIN cls[c].members \subseteq DOMAIN d.members /\ DOMAIN d.members \subseteq DOMAIN cls[c].members \cup {key}
    BY DEF OneSlot
  <2>4. \A k \in DOMAIN cls[c].members : k # key => SlotOf(d, k) = SlotOf(cls[c], k) BY DEF OneSlot
  <2>5. key \in DOMAIN d.members
    <3>1. SUFFICES ASSUME key \notin DOMAIN d.members PROVE FALSE OBVIOUS
    <3>2. DOMAIN d.members = DOMAIN cls[c].members /\ key \notin DOMAIN cls[c].members BY <2>3, <3>1
    <3>3. Slots(d) = Slots(cls[c]) BY <2>4, <3>2 DEF Slots
    <3> QED BY <1>5, <1>12, <3>3 DEF AbsClass
  <2>6. PICK slot : slot = SlotOf(d, key) OBVIOUS
  <2>7. slot \in SlotT BY <2>5, <2>6, SlotTyped
  <2>8. Slots(d) = Records!Put(Slots(cls[c]), key, slot)
    <3>1. DOMAIN d.members = DOMAIN cls[c].members \cup {key} BY <2>3, <2>5
    <3>2. \A k \in DOMAIN d.members : SlotOf(d, k) = IF k = key THEN slot ELSE Slots(cls[c])[k]
      BY <2>4, <2>6, <3>1 DEF Slots
    <3>3. DOMAIN Slots(cls[c]) = DOMAIN cls[c].members BY DEF Slots
    <3> QED BY <3>1, <3>2, <3>3 DEF Slots, Records!Put
  <2>9. \A k : k \in Records!Fields(c) <=> IsField(cls[c], k)
    <3>1. Records!Fields(c) = {n \in DOMAIN Slots(cls[c]) : Slots(cls[c])[n].kind = "field"}
      BY <2>1 DEF Records!Fields, AbsClass
    <3>2. \A k \in DOMAIN cls[c].members : IsField(cls[c], k) <=> SlotOf(cls[c], k).kind = "field"
      BY <2>1, SlotTyped
    <3>3. \A k : IsField(cls[c], k) => k \in DOMAIN cls[c].members BY DEF IsField
    <3> QED BY <3>1, <3>2, <3>3 DEF Slots
  <2>10. IsField(d, key) <=> slot.kind = "field" BY <2>5, <2>6, SlotTyped
  <2>11. cls[c].locked => (slot.kind = "static" \/ key \in Records!Fields(c))
    <3>1. slot.kind = "static" \/ slot.kind = "field" BY <2>7 DEF SlotT
    <3>2. cls[c].locked /\ IsField(d, key) => IsField(cls[c], key) BY <2>5 DEF OneSlot
    <3> QED BY <2>9, <2>10, <3>1, <3>2
  <2>12. key \in Records!Fields(c) => slot.kind = "field"
    <3>1. IsField(cls[c], key) => IsField(d, key)
      <4>1. IsField(cls[c], key) => key \in DOMAIN cls[c].members BY DEF IsField
      <4> QED BY <4>1 DEF OneSlot
    <3> QED BY <2>9, <2>10, <3>1
  <2>13. AbsClass(d) = [ClassMap[c] EXCEPT !.slots = Records!Put(@, key, slot)]
    BY <1>5, <2>1, <2>8 DEF AbsClass
  <2>14. ClassMap' = [ClassMap EXCEPT ![c].slots = Records!Put(@, key, slot)]
    BY <1>10, <2>13
  <2>15. ClassMap'[c].slots = Slots(d) /\ key \in DOMAIN ClassMap'[c].slots /\ ClassMap'[c].slots[key] = slot
    BY <2>2, <2>5, <2>6 DEF AbsClass, Slots
  <2>16. ClassMap[c].locked = cls[c].locked BY <2>1 DEF AbsClass
  <2>17. \E n \in DOMAIN ClassMap'[c].slots :
           LET s == ClassMap'[c].slots[n]
           IN /\ s \in [kind : {"field", "static"}, val : AllValues, attrs : Attrs]
              /\ ClassMap[c].locked => (s.kind = "static" \/ n \in Records!Fields(c))
              /\ n \in Records!Fields(c) => s.kind = "field"
              /\ ClassMap' = [ClassMap EXCEPT ![c].slots = Records!Put(@, n, s)]
    BY <2>7, <2>11, <2>12, <2>14, <2>15, <2>16 DEF SlotT
  <2>18. ClassMap'[c] # ClassMap[c] BY <1>12, <2>1, <2>2
  <2>19. Records!Define(c) BY <1>9, <2>1, <2>2, <2>17, <2>18 DEF Records!Define
  <2> QED BY <1>8, <1>9, <2>19
<1> QED BY <1>11, <1>12

-----------------------------------------------------------------------------
(* Steps that make a class.                                                *)

Empty == [base |-> None, members |-> <<>>, defaults |-> <<>>, methods |-> <<>>,
          metas |-> <<>>, attrs |-> "null", locked |-> FALSE, ctor |-> 0]

LEMMA EmptyOk == ClassOk(Empty) /\ Slots(Empty) = <<>>
PROOF
<1>1. DOMAIN <<>> = {} /\ Len(<<>>) = 0 OBVIOUS
<1>2. \A T : <<>> \in [DOMAIN <<>> -> T] /\ <<>> \in Seq(T) OBVIOUS
<1>3. Typed(Empty) BY <1>1, <1>2, ObjectsAssumption DEF Typed, Empty
<1>4. IsRecord(Empty) BY DEF IsRecord, Empty
<1>5. Numbered(Empty) BY <1>1 DEF Numbered, Empty
<1>6. Slots(Empty) = <<>> BY <1>1 DEF Slots, Empty
<1> QED BY <1>3, <1>4, <1>5, <1>6, ClassIs

\* A class derived from b, or from none.
Derived(d, b) ==
    /\ d.base = b /\ d.locked = FALSE
    /\ b = None => Slots(d) = <<>>
    /\ b # None => Slots(d) = Slots(cls[b])

LEMMA FreshIs ==
    ASSUME ObjectsOk, NEW b \in Classes \cup {None}, b # None => cls[b] # None, NEW a \in Attrs,
           NEW d, d = [FreshClass(b) EXCEPT !.attrs = a]
    PROVE  ClassOk(d) /\ Derived(d, b)
PROOF
<1>1. CASE b = None
  <2>1. ClassOk(Empty) /\ IsRecord(Empty) /\ Typed(Empty) BY EmptyOk, ClassIs
  <2>2. PICK e : e = Empty OBVIOUS
  <2>3. d = [e EXCEPT !.attrs = a] BY <1>1, <2>2 DEF FreshClass, Empty
  <2>4. e.base = None /\ e.locked = FALSE BY <2>2 DEF Empty
  <2>5. d = WithRest(e, None, FALSE, a, e.metas) BY <2>1, <2>2, <2>3, <2>4 DEF IsRecord, WithRest
  <2>6. e.metas \in [DOMAIN e.metas -> AllValues] /\ DOMAIN e.metas \subseteq MetaNames
    BY <2>1, <2>2 DEF Typed
  <2>7. ClassOk(e) BY <2>1, <2>2
  <2>8. None \in Classes \cup {None} /\ FALSE \in BOOLEAN OBVIOUS
  <2>9. PICK ms, f, n : ms = e.metas /\ f = FALSE /\ n = None OBVIOUS
  <2>10. ClassOk(d) /\ RestIs(e, d, n, f) BY <2>5, <2>6, <2>7, <2>8, <2>9, RestChanged
  <2>11. d.base = None /\ d.locked = FALSE /\ d.members = e.members BY <2>9, <2>10 DEF RestIs
  <2>12. Slots(d) = <<>>
    <3>1. d.members = <<>> BY <2>2, <2>11 DEF Empty
    <3>2. Slots(e) = <<>> /\ e.members = <<>> BY <2>2, EmptyOk DEF Empty
    <3> QED BY <3>1, <3>2 DEF Slots
  <2> QED BY <1>1, <2>10, <2>11, <2>12 DEF Derived
<1>2. CASE b # None
  <2>1. PICK e : e = cls[b] OBVIOUS
  <2>2. ClassOk(e) /\ IsRecord(e) /\ Typed(e) BY <1>2, <2>1, ClassIs DEF ObjectsOk
  <2>3. d = [e EXCEPT !.base = b, !.attrs = a, !.locked = FALSE] BY <1>2, <2>1, <2>2 DEF FreshClass, IsRecord
  <2>4. PICK ms, f : ms = e.metas /\ f = FALSE OBVIOUS
  <2>5. d = WithRest(e, b, f, a, ms) BY <2>2, <2>3, <2>4 DEF IsRecord, WithRest
  <2>6. ms \in [DOMAIN ms -> AllValues] /\ DOMAIN ms \subseteq MetaNames /\ f \in BOOLEAN
    BY <2>2, <2>4 DEF Typed
  <2>7. ClassOk(d) /\ RestIs(e, d, b, f) BY <2>2, <2>5, <2>6, RestChanged
  <2>8. Slots(d) = Slots(e)
    <3>1. d.members = e.members /\ d.defaults = e.defaults /\ d.methods = e.methods BY <2>7 DEF RestIs
    <3>2. \A k : SlotOf(d, k) = SlotOf(e, k) BY <3>1 DEF SlotOf, IsField
    <3> QED BY <3>1, <3>2 DEF Slots
  <2> QED BY <1>2, <2>1, <2>4, <2>7, <2>8 DEF Derived, RestIs
<1> QED BY <1>1, <1>2

\* The instances of other classes are as they were.
LEMMA ClassMade ==
    ASSUME ObjectsOk, NEW c \in Classes, cls[c] = None, NEW b \in Classes \cup {None},
           b # None => cls[b] # None, NEW d, ClassOk(d), Derived(d, b),
           cls' = [cls EXCEPT ![c] = d], inst' = inst
    PROVE  ObjectsOk' /\ Records!Derive(c, b)
PROOF
<1>1. DOMAIN cls = Classes /\ DOMAIN inst = Instances BY DEF ObjectsOk
<1>2. cls'[c] = d /\ \A e \in Classes : e # c => cls'[e] = cls[e] BY <1>1
<1>3. d # None BY ClassNotNone
<1>4. d.base = b /\ d.locked = FALSE BY DEF Derived
<1>5. \A e \in Classes : cls[e] # None => cls'[e] = cls[e] /\ cls'[e] # None BY <1>2
<1>6. ASSUME NEW e \in Classes, cls'[e] # None
      PROVE  ClassOk(cls'[e]) /\ (cls'[e].base # None => cls'[cls'[e].base] # None)
  <2>1. CASE e = c BY <1>2, <1>4, <1>5, <2>1
  <2>2. CASE e # c
    <3>1. cls'[e] = cls[e] /\ cls[e] # None BY <1>2, <1>6, <2>2
    <3>2. ClassOk(cls[e]) /\ cls[e].base \in Classes \cup {None} /\ (cls[e].base # None => cls[cls[e].base] # None)
      BY <3>1, ClassIn
    <3> QED BY <1>5, <3>1, <3>2
  <2> QED BY <2>1, <2>2
<1>7. ASSUME NEW i \in Instances, inst[i] # None
      PROVE  /\ inst[i] \in InstanceT /\ cls'[inst[i].class] = cls[inst[i].class]
             /\ cls[inst[i].class] # None /\ cls[inst[i].class].locked
             /\ Len(inst[i].values) = Len(cls[inst[i].class].defaults)
  BY <1>5, <1>7, InstanceIn
<1>8. ObjectsOk'
  <2>1. DOMAIN cls' = Classes /\ DOMAIN inst' = Instances BY <1>1
  <2>2. \A i \in Instances : inst'[i] # None => InstanceOk(inst[i])' BY <1>7 DEF InstanceOk
  <2> QED BY <1>6, <2>1, <2>2 DEF ObjectsOk
<1>9. InstanceMap' = InstanceMap BY <1>7, MapsAfter, InstanceMapIs
<1>10. AbsClass(d) = [base |-> b, locked |-> FALSE,
                      slots |-> IF b = None THEN <<>> ELSE ClassMap[b].slots]
  <2>1. CASE b = None BY <1>4, <2>1 DEF AbsClass, Derived
  <2>2. CASE b # None
    <3>1. ClassMap[b] = AbsClass(cls[b]) BY <2>2, ClassIn
    <3>2. ClassMap[b].slots = Slots(cls[b]) BY <3>1 DEF AbsClass
    <3> QED BY <1>4, <2>2, <3>2 DEF AbsClass, Derived
  <2> QED BY <2>1, <2>2
<1>11. ClassMap' = [ClassMap EXCEPT ![c] = AbsClass(d)]
  <2>1. ClassMap' = [e \in Classes |-> IF cls'[e] = None THEN None ELSE AbsClass(cls'[e])] BY MapsAfter
  <2>2. ClassMap = [e \in Classes |-> IF cls[e] = None THEN None ELSE AbsClass(cls[e])] BY ClassMapIs
  <2>3. \A e \in Classes : ClassMap'[e] = IF e = c THEN AbsClass(d) ELSE ClassMap[e]
    BY <1>2, <1>3, <2>1, <2>2
  <2> QED BY <2>1, <2>2, <2>3
<1>12. ClassMap[c] = None /\ (b # None => ClassMap[b] # None)
  <2>1. ClassMap[c] = None BY ClassMapIs
  <2>2. b # None => ClassMap[b] # None BY ClassIn
  <2> QED BY <2>1, <2>2
<1>13. Records!Derive(c, b) BY <1>9, <1>10, <1>11, <1>12 DEF Records!Derive
<1> QED BY <1>8, <1>13

-----------------------------------------------------------------------------
(* Steps that change an instance.                                          *)

LEMMA FieldAssigned ==
    ASSUME ObjectsOk, NEW i \in Instances, inst[i] # None, NEW key, IsField(cls[inst[i].class], key),
           NEW v \in AllValues, inst' = InstanceSet(i, key, v), cls' = cls
    PROVE  ObjectsOk' /\ ClassMap' = ClassMap /\ (Records!Assign(i) \/ InstanceMap' = InstanceMap)
PROOF
<1>1. PICK x, c, n : x = inst[i] /\ c = cls[x.class] /\ n = c.members[key].idx OBVIOUS
<1>2. /\ x \in InstanceT /\ x.class \in Classes /\ c # None /\ c.locked /\ Len(x.values) = Len(c.defaults)
      /\ x.values \in Seq(AllValues) /\ AbsInstance(x, c) # None
      /\ InstanceMap[i] = AbsInstance(x, c)
  BY <1>1, InstanceIn
<1>3. ClassOk(c) BY <1>1, <1>2 DEF ObjectsOk
<1>4. key \in DOMAIN c.members /\ IsField(c, key) BY <1>1 DEF IsField
<1>5. n \in 1 .. Len(x.values) BY <1>1, <1>2, <1>3, <1>4, IndexIn
<1>6. PICK s, y : s = [x.values EXCEPT ![n] = v] /\ y = [x EXCEPT !.values = s] OBVIOUS
<1>7. inst' = [inst EXCEPT ![i] = y]
  <2>1. inst' = [inst EXCEPT ![i].values[n] = v] BY <1>1 DEF InstanceSet
  <2> QED BY <1>1, <1>6, <2>1
<1>8. s \in Seq(AllValues) /\ Len(s) = Len(x.values) /\ s[n] = v /\ \A m \in 1 .. Len(s) : m # n => s[m] = x.values[m]
  BY <1>2, <1>5, <1>6
<1>9. y \in InstanceT /\ y.class = x.class /\ y.values = s BY <1>2, <1>6, <1>8 DEF InstanceT
<1>10. DOMAIN cls = Classes /\ DOMAIN inst = Instances BY DEF ObjectsOk
<1>11. inst'[i] = y /\ \A j \in Instances : j # i => inst'[j] = inst[j] BY <1>7, <1>10
<1>12. ObjectsOk'
  <2>1. DOMAIN cls' = Classes /\ DOMAIN inst' = Instances BY <1>7, <1>10
  <2>2. ASSUME NEW j \in Instances, inst'[j] # None PROVE InstanceOk(inst[j])'
    <3>1. CASE j = i BY <1>1, <1>2, <1>8, <1>9, <1>11, <3>1 DEF InstanceOk
    <3>2. CASE j # i
      <4>1. InstanceOk(inst[j]) /\ inst'[j] = inst[j] BY <1>11, <2>2, <3>2 DEF ObjectsOk
      <4> QED BY <4>1 DEF InstanceOk
    <3> QED BY <3>1, <3>2
  <2>3. \A e \in Classes : cls'[e] # None => ClassOk(cls'[e]) /\ (cls'[e].base # None => cls'[cls'[e].base] # None)
    BY DEF ObjectsOk
  <2> QED BY <2>1, <2>2, <2>3 DEF ObjectsOk
<1>13. ClassMap' = ClassMap BY MapsAfter, ClassMapIs
<1>14. y # None BY <1>9, TypesAssumption
<1>15. InstanceMap' = [InstanceMap EXCEPT ![i] = AbsInstance(y, c)]
  <2>1. InstanceMap' = [j \in Instances |-> IF inst'[j] = None THEN None
                                            ELSE AbsInstance(inst'[j], cls[inst'[j].class])] BY MapsAfter
  <2>2. \A j \in Instances : InstanceMap'[j] = IF j = i THEN AbsInstance(y, c) ELSE InstanceMap[j]
    BY <1>1, <1>9, <1>11, <1>14, <2>1, InstanceMapIs
  <2>3. DOMAIN InstanceMap = Instances BY InstanceMapIs
  <2> QED BY <2>1, <2>2, <2>3
<1>16. AbsInstance(y, c) = [AbsInstance(x, c) EXCEPT !.vals[key] = v]
  <2>1. DOMAIN AbsInstance(x, c).vals = FieldsOf(c) /\ key \in FieldsOf(c) BY <1>4 DEF AbsInstance, FieldsOf
  <2>2. ASSUME NEW k \in FieldsOf(c) PROVE s[c.members[k].idx] = IF k = key THEN v ELSE x.values[c.members[k].idx]
    <3>1. k \in DOMAIN c.members /\ IsField(c, k) BY DEF FieldsOf
    <3>2. c.members[k].idx \in 1 .. Len(s) BY <1>2, <1>3, <1>8, <3>1, IndexIn
    <3>3. k # key => c.members[k].idx # n BY <1>1, <1>3, <1>4, <3>1, Elsewhere
    <3> QED BY <1>1, <1>8, <3>2, <3>3
  <2>3. [k \in FieldsOf(c) |-> s[c.members[k].idx]]
        = [[k \in FieldsOf(c) |-> x.values[c.members[k].idx]] EXCEPT ![key] = v]
    BY <2>1, <2>2
  <2>4. PICK fx, fy : /\ fx = [k \in FieldsOf(c) |-> x.values[c.members[k].idx]]
                      /\ fy = [k \in FieldsOf(c) |-> s[c.members[k].idx]] OBVIOUS
  <2>5. AbsInstance(x, c) = [class |-> x.class, vals |-> fx] BY <2>4 DEF AbsInstance
  <2>6. AbsInstance(y, c) = [class |-> x.class, vals |-> fy] BY <1>9, <2>4 DEF AbsInstance
  <2>7. fy = [fx EXCEPT ![key] = v] BY <2>3, <2>4
  <2>8. [AbsInstance(x, c) EXCEPT !.vals[key] = v] = [class |-> x.class, vals |-> [fx EXCEPT ![key] = v]]
    BY <2>5
  <2> QED BY <2>6, <2>7, <2>8
<1>17. CASE AbsInstance(y, c) = AbsInstance(x, c)
  <2>1. InstanceMap = [j \in Instances |-> InstanceMap[j]] BY InstanceMapIs
  <2>2. InstanceMap' = InstanceMap BY <1>2, <1>15, <1>17, <2>1
  <2> QED BY <1>12, <1>13, <2>2
<1>18. CASE AbsInstance(y, c) # AbsInstance(x, c)
  <2>1. i \in DOMAIN InstanceMap BY InstanceMapIs
  <2>2. InstanceMap'[i] = AbsInstance(y, c) BY <1>15, <2>1
  <2>3. key \in DOMAIN InstanceMap[i].vals /\ AbsInstance(y, c).vals[key] = v
    <3>1. DOMAIN AbsInstance(x, c).vals = FieldsOf(c) /\ key \in FieldsOf(c) BY <1>4 DEF AbsInstance, FieldsOf
    <3>2. AbsInstance(y, c).vals[key] = s[n] BY <1>1, <1>9, <3>1 DEF AbsInstance
    <3> QED BY <1>2, <1>8, <3>1, <3>2
  <2>4. InstanceMap' = [InstanceMap EXCEPT ![i].vals[key] = v] BY <1>2, <1>15, <1>16
  <2>5. Records!Assign(i) BY <1>2, <1>13, <1>18, <2>2, <2>3, <2>4 DEF Records!Assign
  <2> QED BY <1>12, <1>13, <2>5
<1> QED BY <1>17, <1>18

LEMMA InstanceCopied ==
    ASSUME ObjectsOk, NEW i \in Instances, NEW j \in Instances, inst[i] = None, inst[j] # None,
           inst' = [inst EXCEPT ![i] = inst[j]], cls' = cls
    PROVE  ObjectsOk' /\ Records!Copy(i, j)
PROOF
<1>1. DOMAIN cls = Classes /\ DOMAIN inst = Instances BY DEF ObjectsOk
<1>2. inst'[i] = inst[j] /\ \A k \in Instances : k # i => inst'[k] = inst[k] BY <1>1
<1>3. ObjectsOk'
  <2>1. DOMAIN cls' = Classes /\ DOMAIN inst' = Instances BY <1>1
  <2>2. ASSUME NEW k \in Instances, inst'[k] # None PROVE InstanceOk(inst[k])'
    <3>1. PICK l \in Instances : inst'[k] = inst[l] BY <1>2
    <3>2. InstanceOk(inst[l]) BY <2>2, <3>1 DEF ObjectsOk
    <3> QED BY <3>1, <3>2 DEF InstanceOk
  <2>3. \A e \in Classes : cls'[e] # None => ClassOk(cls'[e]) /\ (cls'[e].base # None => cls'[cls'[e].base] # None)
    BY DEF ObjectsOk
  <2> QED BY <2>1, <2>2, <2>3 DEF ObjectsOk
<1>4. ClassMap' = ClassMap BY MapsAfter, ClassMapIs
<1>5. InstanceMap' = [InstanceMap EXCEPT ![i] = InstanceMap[j]]
  <2>1. InstanceMap' = [k \in Instances |-> IF inst'[k] = None THEN None
                                            ELSE AbsInstance(inst'[k], cls[inst'[k].class])] BY MapsAfter
  <2>2. \A k \in Instances : InstanceMap'[k] = IF k = i THEN InstanceMap[j] ELSE InstanceMap[k]
    BY <1>2, <2>1, InstanceMapIs
  <2>3. DOMAIN InstanceMap = Instances BY InstanceMapIs
  <2> QED BY <2>1, <2>2, <2>3
<1>6. InstanceMap[i] = None /\ InstanceMap[j] # None
  <2>1. InstanceMap[i] = None BY InstanceMapIs
  <2>2. InstanceMap[j] # None BY InstanceIn
  <2> QED BY <2>1, <2>2
<1> QED BY <1>3, <1>4, <1>5, <1>6 DEF Records!Copy

-----------------------------------------------------------------------------
(* Recursive functions over numbers.                                       *)

LEMMA Least ==
    ASSUME NEW T, T \subseteq Nat, T # {}
    PROVE  \E x \in T : \A y \in T : x <= y
PROOF
<1>1. PICK R : R = {ss \in Nat \X Nat : ss[1] < ss[2]} OBVIOUS
<1>2. IsWellFoundedOn(OpToRel(<, Nat), Nat) BY NatLessThanWellFounded
<1>3. IsWellFoundedOn(R, Nat) BY <1>1, <1>2 DEF OpToRel
<1>4. PICK x \in T : \A y \in T : ~(<<y, x>> \in R) BY <1>3, WFMin
<1>5. ASSUME NEW y \in T PROVE x <= y
  <2>1. x \in Nat /\ y \in Nat OBVIOUS
  <2>2. <<y, x>> \notin R BY <1>4
  <2>3. <<y, x>> \in Nat \X Nat /\ <<y, x>>[1] = y /\ <<y, x>>[2] = x BY <2>1
  <2>4. ~(y < x) BY <1>1, <2>2, <2>3
  <2> QED BY <2>1, <2>4
<1> QED BY <1>5

\* The values of a function of the form f[n] = A[f[n - 1]].
Steps(f, A, a, N) == f[0] = a /\ \A n \in 1 .. N : f[n] = A[f[n - 1]]

LEMMA StepsExist ==
    ASSUME NEW N \in Nat, NEW S, NEW A \in [S -> S], NEW a \in S
    PROVE  \E f \in [0 .. N -> S] : Steps(f, A, a, N)
PROOF
<1>1. PICK Bad : Bad = {m \in Nat : ~\E f \in [0 .. m -> S] : Steps(f, A, a, m)} OBVIOUS
<1>2. SUFFICES ASSUME Bad # {} PROVE FALSE BY <1>1
<1>3. PICK m \in Bad : \A y \in Bad : m <= y
  <2>1. Bad \subseteq Nat BY <1>1
  <2> QED BY <1>2, <2>1, Least
<1>4. m \in Nat /\ ~\E f \in [0 .. m -> S] : Steps(f, A, a, m) BY <1>1
<1>5. CASE m = 0
  <2>1. PICK f : f = [n \in 0 .. 0 |-> a] OBVIOUS
  <2>2. f \in [0 .. 0 -> S] /\ Steps(f, A, a, 0) BY <2>1 DEF Steps
  <2> QED BY <1>4, <1>5, <2>2
<1>6. CASE m # 0
  <2>1. PICK k : k = m - 1 OBVIOUS
  <2>2. k \in Nat /\ k \notin Bad /\ m = k + 1 BY <1>3, <1>4, <1>6, <2>1
  <2>3. PICK f \in [0 .. k -> S] : Steps(f, A, a, k) BY <1>1, <2>2
  <2>4. PICK x : x = A[f[k]] OBVIOUS
  <2>5. f[k] \in S /\ x \in S BY <2>2, <2>4
  <2>6. PICK g : g = [n \in 0 .. m |-> IF n = m THEN x ELSE f[n]] OBVIOUS
  <2>7. g \in [0 .. m -> S]
    <3>1. \A n \in 0 .. m : n # m => n \in 0 .. k BY <2>2
    <3> QED BY <2>5, <2>6, <3>1
  <2>8. g[0] = a BY <2>2, <2>3, <2>6 DEF Steps
  <2>9. ASSUME NEW n \in 1 .. m PROVE g[n] = A[g[n - 1]]
    <3>1. CASE n = m BY <2>2, <2>4, <2>6, <3>1
    <3>2. CASE n # m
      <4>1. n \in 1 .. k /\ n \in 0 .. m /\ n - 1 \in 0 .. m /\ n - 1 # m BY <2>2, <3>2
      <4>2. g[n] = f[n] /\ g[n - 1] = f[n - 1] BY <2>6, <3>2, <4>1
      <4> QED BY <2>3, <4>1, <4>2 DEF Steps
    <3> QED BY <3>1, <3>2
  <2>10. Steps(g, A, a, m) BY <2>8, <2>9 DEF Steps
  <2> QED BY <1>4, <2>7, <2>10
<1> QED BY <1>5, <1>6

\* There is one only, also among functions that are of this form where it matters.
StepsWhere(g, A, a, N, S) == g[0] = a /\ \A n \in 1 .. N : g[n - 1] \in S => g[n] = A[g[n - 1]]

LEMMA StepsUnique ==
    ASSUME NEW N \in Nat, NEW S, NEW A \in [S -> S], NEW a \in S,
           NEW f \in [0 .. N -> S], Steps(f, A, a, N),
           NEW g, StepsWhere(g, A, a, N, S)
    PROVE  \A n \in 0 .. N : g[n] = f[n]
PROOF
<1>1. PICK Bad : Bad = {n \in 0 .. N : g[n] # f[n]} OBVIOUS
<1>2. SUFFICES ASSUME Bad # {} PROVE FALSE BY <1>1
<1>3. PICK n \in Bad : \A y \in Bad : n <= y
  <2>1. Bad \subseteq Nat BY <1>1
  <2> QED BY <1>2, <2>1, Least
<1>4. n \in 0 .. N /\ g[n] # f[n] BY <1>1
<1>5. n # 0 BY <1>4 DEF Steps, StepsWhere
<1>6. n \in 1 .. N /\ n - 1 \in 0 .. N /\ n - 1 \notin Bad BY <1>3, <1>4, <1>5
<1>7. g[n - 1] = f[n - 1] BY <1>1, <1>6
<1>8. f[n - 1] \in S BY <1>6
<1>9. g[n] = A[g[n - 1]] BY <1>6, <1>7, <1>8 DEF StepsWhere
<1> QED BY <1>4, <1>6, <1>7, <1>9 DEF Steps

-----------------------------------------------------------------------------
(* The classes that an instance locks.                                     *)

Living == {c \in Classes : cls[c] # None}

\* Add the bases of a set of classes.
Bases(X) == X \cup {cls[d].base : d \in {e \in X : cls[e].base # None}}
IsUp(c, f) ==
    f = [n \in 0 .. Cardinality(Classes) |->
           IF n = 0 THEN {c}
           ELSE f[n - 1] \cup {cls[d].base : d \in {e \in f[n - 1] : cls[e].base # None}}]

\* The same, of what a script sees.
IsRecordUp(c, f) ==
    f = [n \in 0 .. Cardinality(Classes) |->
           IF n = 0 THEN {c}
           ELSE f[n - 1] \cup {ClassMap[d].base : d \in {e \in f[n - 1] : ClassMap[e].base # None}}]

LEMMA AncestorsAre ==
    ASSUME ObjectsOk, NEW c \in Classes, cls[c] # None
    PROVE  c \in Ancestors(c) /\ Ancestors(c) \subseteq Living /\ Records!Ancestors(c) = Ancestors(c)
PROOF
<1>1. PICK N : N = Cardinality(Classes) OBVIOUS
<1>2. N \in Nat BY <1>1, FS_CardinalityType, TypesAssumption
<1>3. PICK S : S = {X \in SUBSET Living : c \in X} OBVIOUS
<1>4. PICK A : A = [X \in S |-> Bases(X)] OBVIOUS
<1>5. \A d \in Living : cls[d].base # None => cls[d].base \in Living
  BY ClassIn DEF Living
<1>6. ASSUME NEW X \in S PROVE Bases(X) \in S BY <1>3, <1>5 DEF Bases
<1>7. A \in [S -> S] BY <1>4, <1>6
<1>8. PICK a : a = {c} OBVIOUS
<1>9. a \in S BY <1>3, <1>8 DEF Living
<1>10. PICK f \in [0 .. N -> S] : Steps(f, A, a, N) BY <1>2, <1>7, <1>9, StepsExist
<1>11. f[0] = {c} /\ \A n \in 1 .. N : f[n] = Bases(f[n - 1])
  <2>1. ASSUME NEW n \in 1 .. N PROVE f[n] = Bases(f[n - 1])
    <3>1. n - 1 \in 0 .. N BY <1>2
    <3>2. f[n - 1] \in S /\ f[n] = A[f[n - 1]] BY <1>10, <3>1 DEF Steps
    <3> QED BY <1>4, <3>2
  <2> QED BY <1>8, <1>10, <2>1 DEF Steps
<1>12. IsUp(c, f)
  <2>1. ASSUME NEW n \in 0 .. N
        PROVE  f[n] = IF n = 0 THEN {c}
                      ELSE f[n - 1] \cup {cls[d].base : d \in {e \in f[n - 1] : cls[e].base # None}}
    <3>1. n # 0 => n \in 1 .. N BY <1>2
    <3> QED BY <1>11, <3>1 DEF Bases
  <2>2. f = [n \in 0 .. N |-> f[n]] OBVIOUS
  <2> QED BY <1>1, <2>1, <2>2 DEF IsUp
<1>13. PICK u : u = CHOOSE g : IsUp(c, g) OBVIOUS
<1>14. IsUp(c, u) BY <1>12, <1>13
<1>15. Ancestors(c) = u[N] BY <1>1, <1>13 DEF Ancestors, IsUp
<1>16. \A n \in 0 .. N : u[n] = f[n]
  <2>1. u[0] = a BY <1>1, <1>2, <1>8, <1>14 DEF IsUp
  <2>2. ASSUME NEW n \in 1 .. N, u[n - 1] \in S PROVE u[n] = A[u[n - 1]]
    <3>1. n \in 0 .. N /\ n # 0 BY <1>2
    <3>2. u[n] = Bases(u[n - 1]) BY <1>1, <1>14, <3>1 DEF IsUp, Bases
    <3> QED BY <1>4, <2>2, <3>2
  <2>3. StepsWhere(u, A, a, N, S) BY <2>1, <2>2 DEF StepsWhere
  <2> QED BY <1>2, <1>7, <1>9, <1>10, <2>3, StepsUnique
<1>17. \A X \in S : X \cup {ClassMap[d].base : d \in {e \in X : ClassMap[e].base # None}} = Bases(X)
  <2>1. \A d \in Living : ClassMap[d].base = cls[d].base
    <3>1. ASSUME NEW d \in Living PROVE ClassMap[d].base = cls[d].base
      <4>1. ClassMap[d] = AbsClass(cls[d]) BY ClassIn DEF Living
      <4> QED BY <4>1 DEF AbsClass
    <3> QED BY <3>1
  <2>2. \A X \in S : X \subseteq Living BY <1>3
  <2> QED BY <2>1, <2>2 DEF Bases
<1>18. IsRecordUp(c, f)
  <2>1. ASSUME NEW n \in 0 .. N
        PROVE  f[n] = IF n = 0 THEN {c}
                      ELSE f[n - 1] \cup {ClassMap[d].base : d \in {e \in f[n - 1] : ClassMap[e].base # None}}
    <3>1. CASE n = 0 BY <1>11, <3>1
    <3>2. CASE n # 0
      <4>1. n \in 1 .. N /\ n - 1 \in 0 .. N BY <1>2, <3>2
      <4>2. f[n - 1] \in S BY <4>1
      <4> QED BY <1>11, <1>17, <3>2, <4>1, <4>2
    <3> QED BY <3>1, <3>2
  <2>2. f = [n \in 0 .. N |-> f[n]] OBVIOUS
  <2> QED BY <1>1, <2>1, <2>2 DEF IsRecordUp
<1>19. PICK w : w = CHOOSE g : IsRecordUp(c, g) OBVIOUS
<1>20. IsRecordUp(c, w) BY <1>18, <1>19
<1>21. Records!Ancestors(c) = w[N]
  <2>1. Records!Cardinality(Classes) = Cardinality(Classes) BY DEF Records!Cardinality, Cardinality
  <2> QED BY <1>1, <1>19, <2>1 DEF Records!Ancestors, IsRecordUp
<1>22. \A n \in 0 .. N : w[n] = f[n]
  <2>1. w[0] = a BY <1>1, <1>2, <1>8, <1>20 DEF IsRecordUp
  <2>2. ASSUME NEW n \in 1 .. N, w[n - 1] \in S PROVE w[n] = A[w[n - 1]]
    <3>1. n \in 0 .. N /\ n # 0 BY <1>2
    <3>2. w[n] = w[n - 1] \cup {ClassMap[d].base : d \in {e \in w[n - 1] : ClassMap[e].base # None}}
      BY <1>1, <1>20, <3>1 DEF IsRecordUp
    <3> QED BY <1>4, <1>17, <2>2, <3>2
  <2>3. StepsWhere(w, A, a, N, S) BY <2>1, <2>2 DEF StepsWhere
  <2> QED BY <1>2, <1>7, <1>9, <1>10, <2>3, StepsUnique
<1>23. N \in 0 .. N /\ f[N] \in S BY <1>2
<1>24. c \in f[N] /\ f[N] \subseteq Living BY <1>3, <1>23
<1> QED BY <1>15, <1>16, <1>21, <1>22, <1>23, <1>24

\* Locked classes keep everything else.
LEMMA Locked ==
    ASSUME NEW c, ClassOk(c), NEW d, d = [c EXCEPT !.locked = TRUE]
    PROVE  /\ ClassOk(d) /\ d.base = c.base /\ d.locked /\ d.members = c.members /\ d.defaults = c.defaults
           /\ AbsClass(d) = [AbsClass(c) EXCEPT !.locked = TRUE]
PROOF
<1>1. IsRecord(c) /\ Typed(c) BY ClassIs
<1>2. PICK b, t, a, ms : b = c.base /\ t = TRUE /\ a = c.attrs /\ ms = c.metas OBVIOUS
<1>3. d = WithRest(c, b, t, a, ms) BY <1>1, <1>2 DEF IsRecord, WithRest
<1>4. /\ b \in Classes \cup {None} /\ t \in BOOLEAN /\ a \in Attrs
      /\ ms \in [DOMAIN ms -> AllValues] /\ DOMAIN ms \subseteq MetaNames
  BY <1>1, <1>2 DEF Typed
<1>5. ClassOk(d) /\ RestIs(c, d, b, t) BY <1>3, <1>4, RestChanged
<1>6. Slots(d) = Slots(c)
  <2>1. d.members = c.members /\ d.defaults = c.defaults /\ d.methods = c.methods BY <1>5 DEF RestIs
  <2>2. \A k : SlotOf(d, k) = SlotOf(c, k) BY <2>1 DEF SlotOf, IsField
  <2> QED BY <2>1, <2>2 DEF Slots
<1>7. d.base = c.base /\ d.locked = TRUE /\ d.members = c.members /\ d.defaults = c.defaults
  BY <1>2, <1>5 DEF RestIs
<1>8. AbsClass(d) = [base |-> c.base, locked |-> TRUE, slots |-> Slots(c)] BY <1>6, <1>7 DEF AbsClass
<1>9. [AbsClass(c) EXCEPT !.locked = TRUE] = [base |-> c.base, locked |-> TRUE, slots |-> Slots(c)]
  <2>1. PICK l, s : l = c.locked /\ s = Slots(c) OBVIOUS
  <2>2. AbsClass(c) = [base |-> b, locked |-> l, slots |-> s] BY <1>2, <2>1 DEF AbsClass
  <2>3. [[base |-> b, locked |-> l, slots |-> s] EXCEPT !.locked = TRUE] = [base |-> b, locked |-> TRUE, slots |-> s]
    <3>1. [[base |-> b, locked |-> l, slots |-> s] EXCEPT !.locked = t] = [base |-> b, locked |-> t, slots |-> s]
      OBVIOUS
    <3>2. t = TRUE BY <1>2
    <3> QED BY <3>1, <3>2, Zenon
  <2>4. b = c.base /\ s = Slots(c) BY <1>2, <2>1
  <2> QED BY <2>2, <2>3, <2>4, Zenon
<1>10. d.locked BY <1>7
<1> QED BY <1>5, <1>7, <1>8, <1>9, <1>10

LEMMA InstanceMade ==
    ASSUME ObjectsOk, NEW i \in Instances, NEW c \in Classes, inst[i] = None, cls[c] # None,
           inst' = [inst EXCEPT ![i] = FreshInstance(c)],
           cls' = [d \in Classes |-> IF d \in Ancestors(c) THEN [cls[d] EXCEPT !.locked = TRUE] ELSE cls[d]]
    PROVE  ObjectsOk' /\ Records!Instantiate(i, c)
PROOF
<1>1. DOMAIN cls = Classes /\ DOMAIN inst = Instances BY DEF ObjectsOk
<1>2. c \in Ancestors(c) /\ Ancestors(c) \subseteq Living /\ Records!Ancestors(c) = Ancestors(c) BY AncestorsAre
<1>3. ASSUME NEW d \in Classes, cls[d] # None
      PROVE  /\ ClassOk(cls'[d]) /\ cls'[d] # None /\ cls'[d].base = cls[d].base
             /\ cls'[d].members = cls[d].members /\ cls'[d].defaults = cls[d].defaults
             /\ cls[d].locked \/ d \in Ancestors(c) => cls'[d].locked
             /\ AbsClass(cls'[d]) = IF d \in Ancestors(c) THEN [AbsClass(cls[d]) EXCEPT !.locked = TRUE]
                                    ELSE AbsClass(cls[d])
  <2>1. ClassOk(cls[d]) BY <1>3 DEF ObjectsOk
  <2>2. CASE d \in Ancestors(c)
    <3>1. PICK e : e = [cls[d] EXCEPT !.locked = TRUE] OBVIOUS
    <3>2. cls'[d] = e BY <2>2, <3>1
    <3>3. /\ ClassOk(e) /\ e.base = cls[d].base /\ e.locked /\ e.members = cls[d].members /\ e.defaults = cls[d].defaults
          /\ AbsClass(e) = [AbsClass(cls[d]) EXCEPT !.locked = TRUE]
      BY <2>1, <3>1, Locked
    <3>4. e # None BY <3>3, ClassNotNone
    <3> QED BY <2>2, <3>2, <3>3, <3>4
  <2>3. CASE d \notin Ancestors(c)
    <3>1. cls'[d] = cls[d] BY <2>3
    <3> QED BY <1>3, <2>1, <2>3, <3>1
  <2> QED BY <2>2, <2>3
<1>4. \A d \in Classes : cls[d] = None => cls'[d] = None BY <1>2 DEF Living
<1>5. PICK k, x : k = cls[c] /\ x = FreshInstance(c) OBVIOUS
<1>6. ClassOk(k) /\ Typed(k) BY <1>5, ClassIs DEF ObjectsOk
<1>7. x = [class |-> c, values |-> [n \in 1 .. Len(k.defaults) |-> k.defaults[n].val]]
  BY <1>5 DEF FreshInstance
<1>8. /\ x \in InstanceT /\ x.class = c /\ Len(x.values) = Len(k.defaults)
      /\ \A n \in 1 .. Len(k.defaults) : x.values[n] = k.defaults[n].val
  <2>1. k.defaults \in Seq(Entry) /\ Len(k.defaults) \in Nat BY <1>6 DEF Typed
  <2>2. \A n \in 1 .. Len(k.defaults) : k.defaults[n] \in Entry BY <2>1
  <2>3. \A n \in 1 .. Len(k.defaults) : k.defaults[n].val \in AllValues BY <2>2 DEF Entry
  <2>4. PICK s : s = [n \in 1 .. Len(k.defaults) |-> k.defaults[n].val] OBVIOUS
  <2>5. s \in Seq(AllValues) /\ Len(s) = Len(k.defaults) BY <2>1, <2>3, <2>4
  <2> QED BY <1>7, <2>4, <2>5 DEF InstanceT
<1>9. x # None BY <1>8, TypesAssumption
<1>10. inst'[i] = x /\ \A j \in Instances : j # i => inst'[j] = inst[j] BY <1>1, <1>5
<1>11. ASSUME NEW j \in Instances, j # i, inst[j] # None
       PROVE  InstanceOk(inst[j])' /\ AbsInstance(inst[j], cls'[inst[j].class]) = AbsInstance(inst[j], cls[inst[j].class])
  <2>1. PICK e : e = inst[j].class OBVIOUS
  <2>2. /\ inst[j] \in InstanceT /\ e \in Classes /\ cls[e] # None
        /\ cls[e].locked /\ Len(inst[j].values) = Len(cls[e].defaults)
    BY <1>11, <2>1, InstanceIn
  <2>3. cls'[e] # None /\ cls'[e].locked /\ cls'[e].members = cls[e].members /\ cls'[e].defaults = cls[e].defaults
    BY <1>3, <2>2
  <2>4. AbsInstance(inst[j], cls'[e]) = AbsInstance(inst[j], cls[e]) BY <2>3, SameInstance
  <2>5. InstanceOk(inst[j])' BY <1>10, <1>11, <2>1, <2>2, <2>3 DEF InstanceOk
  <2> QED BY <2>1, <2>4, <2>5
<1>12. cls'[c] # None /\ cls'[c].locked /\ cls'[c].members = k.members /\ cls'[c].defaults = k.defaults
  BY <1>2, <1>3, <1>5
<1>13. ObjectsOk'
  <2>1. DOMAIN cls' = Classes /\ DOMAIN inst' = Instances BY <1>1
  <2>2. ASSUME NEW j \in Instances, inst'[j] # None PROVE InstanceOk(inst[j])'
    <3>1. CASE j = i BY <1>8, <1>10, <1>12, <3>1 DEF InstanceOk
    <3>2. CASE j # i BY <1>10, <1>11, <2>2, <3>2
    <3> QED BY <3>1, <3>2
  <2>3. ASSUME NEW e \in Classes, cls'[e] # None
        PROVE  ClassOk(cls'[e]) /\ (cls'[e].base # None => cls'[cls'[e].base] # None)
    <3>1. cls[e] # None BY <1>4, <2>3
    <3>2. cls[e].base \in Classes \cup {None} /\ (cls[e].base # None => cls[cls[e].base] # None) BY <3>1, ClassIn
    <3>3. ClassOk(cls'[e]) /\ cls'[e].base = cls[e].base BY <1>3, <3>1
    <3>4. ASSUME cls[e].base # None PROVE cls'[cls[e].base] # None BY <1>3, <3>2, <3>4
    <3> QED BY <3>3, <3>4
  <2> QED BY <2>1, <2>2, <2>3 DEF ObjectsOk
<1>14. AbsInstance(x, cls'[c]) = [class |-> c, vals |-> [n \in Records!Fields(c) |-> ClassMap[c].slots[n].val]]
  <2>1. ClassMap[c] = AbsClass(k) BY <1>5, ClassIn
  <2>2. ClassMap[c].slots = Slots(k) BY <2>1 DEF AbsClass
  <2>3. Records!Fields(c) = FieldsOf(k)
    <3>1. Records!Fields(c) = {n \in DOMAIN Slots(k) : Slots(k)[n].kind = "field"} BY <2>2 DEF Records!Fields
    <3>2. \A n \in DOMAIN k.members : IsField(k, n) <=> SlotOf(k, n).kind = "field" BY <1>6, SlotTyped
    <3> QED BY <3>1, <3>2 DEF Slots, FieldsOf
  <2>4. ASSUME NEW n \in FieldsOf(k) PROVE x.values[k.members[n].idx] = Slots(k)[n].val
    <3>1. n \in DOMAIN k.members /\ IsField(k, n) BY DEF FieldsOf
    <3>2. k.members[n].idx \in 1 .. Len(k.defaults) BY <1>6, <3>1, IndexIn
    <3>3. SlotOf(k, n).val = k.defaults[k.members[n].idx].val BY <3>1 DEF SlotOf
    <3> QED BY <1>8, <3>1, <3>2, <3>3 DEF Slots
  <2>5. AbsInstance(x, cls'[c]) = AbsInstance(x, k) BY <1>12, SameInstance
  <2>6. [n \in FieldsOf(k) |-> x.values[k.members[n].idx]] = [n \in FieldsOf(k) |-> Slots(k)[n].val] BY <2>4
  <2>7. AbsInstance(x, k) = [class |-> c, vals |-> [n \in FieldsOf(k) |-> Slots(k)[n].val]]
    BY <1>8, <2>6 DEF AbsInstance
  <2> QED BY <2>2, <2>3, <2>5, <2>7
<1>15. InstanceMap' = [InstanceMap EXCEPT ![i] = AbsInstance(x, cls'[c])]
  <2>1. InstanceMap' = [j \in Instances |-> IF inst'[j] = None THEN None
                                            ELSE AbsInstance(inst'[j], cls'[inst'[j].class])] BY MapsAfter
  <2>2. \A j \in Instances : InstanceMap'[j] = IF j = i THEN AbsInstance(x, cls'[c]) ELSE InstanceMap[j]
    <3>1. SUFFICES ASSUME NEW j \in Instances
                   PROVE  InstanceMap'[j] = IF j = i THEN AbsInstance(x, cls'[c]) ELSE InstanceMap[j]
      OBVIOUS
    <3>2. CASE j = i BY <1>8, <1>9, <1>10, <2>1, <3>2
    <3>3. CASE j # i /\ inst[j] = None BY <1>10, <2>1, <3>3, InstanceMapIs
    <3>4. CASE j # i /\ inst[j] # None
      <4>1. inst'[j] = inst[j] BY <1>10, <3>4
      <4>2. AbsInstance(inst[j], cls'[inst[j].class]) = AbsInstance(inst[j], cls[inst[j].class]) BY <1>11, <3>4
      <4>3. InstanceMap'[j] = AbsInstance(inst[j], cls'[inst[j].class]) BY <2>1, <3>4, <4>1
      <4>4. InstanceMap[j] = AbsInstance(inst[j], cls[inst[j].class]) BY <3>4, InstanceMapIs
      <4> QED BY <3>4, <4>2, <4>3, <4>4
    <3> QED BY <3>2, <3>3, <3>4
  <2>3. DOMAIN InstanceMap = Instances BY InstanceMapIs
  <2> QED BY <2>1, <2>2, <2>3
<1>16. ClassMap' = [d \in Classes |-> IF d \in Records!Ancestors(c) THEN [ClassMap[d] EXCEPT !.locked = TRUE]
                                      ELSE ClassMap[d]]
  <2>1. ClassMap' = [d \in Classes |-> IF cls'[d] = None THEN None ELSE AbsClass(cls'[d])] BY MapsAfter
  <2>2. ASSUME NEW d \in Classes
        PROVE  ClassMap'[d] = IF d \in Ancestors(c) THEN [ClassMap[d] EXCEPT !.locked = TRUE] ELSE ClassMap[d]
    <3>1. CASE cls[d] = None
      <4>1. d \notin Ancestors(c) BY <1>2, <3>1 DEF Living
      <4> QED BY <1>4, <2>1, <3>1, <4>1, ClassMapIs
    <3>2. CASE cls[d] # None
      <4>1. ClassMap[d] = AbsClass(cls[d]) BY <3>2, ClassMapIs
      <4>2. ClassMap'[d] = AbsClass(cls'[d]) BY <1>3, <2>1, <3>2
      <4> QED BY <1>3, <3>2, <4>1, <4>2
    <3> QED BY <3>1, <3>2
  <2> QED BY <1>2, <2>1, <2>2
<1>17. InstanceMap[i] = None /\ ClassMap[c] # None
  <2>1. InstanceMap[i] = None BY InstanceMapIs
  <2>2. ClassMap[c] # None BY ClassIn
  <2> QED BY <2>1, <2>2
<1> QED BY <1>13, <1>14, <1>15, <1>16, <1>17 DEF Records!Instantiate

-----------------------------------------------------------------------------
(* Tables.                                                                 *)

Fits(x) ==
    /\ x = [slots |-> x.slots, delegate |-> x.delegate]
    /\ x.slots \in [DOMAIN x.slots -> AllValues] /\ DOMAIN x.slots \subseteq Names
    /\ x.delegate \in Tables \cup {None}

LEMMA TableIs ==
    ASSUME NEW x
    PROVE  TableOk(x) <=> Fits(x) /\ (x.delegate # None => tab[x.delegate] # None)
BY DEF TableOk, Fits, TableT

LEMMA TableIsAfter ==
    ASSUME NEW x, Fits(x), x.delegate # None => tab'[x.delegate] # None
    PROVE  TableOk(x)'
BY DEF TableOk, Fits, TableT

LEMMA FitsNotNone ==
    ASSUME NEW x, Fits(x)
    PROVE  x # None
PROOF
<1>1. DOMAIN x.slots \in SUBSET Names BY DEF Fits
<1>2. x \in TableT(DOMAIN x.slots) BY DEF Fits, TableT
<1> QED BY <1>1, <1>2, TypesAssumption

\* One table is made or changed.
LEMMA TableChanged ==
    ASSUME TablesOk, NEW t \in Tables, NEW x, Fits(x), x.delegate # None => tab[x.delegate] # None,
           tab' = [tab EXCEPT ![t] = x], root' \in Tables, tab[root'] # None,
           croot' \in Tables, tab[croot'] # None
    PROVE  TablesOk'
PROOF
<1>1. DOMAIN tab = Tables /\ DOMAIN tab' = Tables BY DEF TablesOk
<1>2. x # None BY FitsNotNone
<1>3. \A u \in Tables : tab[u] # None => tab'[u] # None BY <1>1, <1>2
<1>4. ASSUME NEW u \in Tables, tab'[u] # None PROVE TableOk(tab[u])'
  <2>1. PICK y : y = tab'[u] OBVIOUS
  <2>2. Fits(y) /\ (y.delegate # None => tab[y.delegate] # None)
    <3>1. CASE u = t BY <1>1, <2>1, <3>1
    <3>2. CASE u # t
      <4>1. y = tab[u] /\ TableOk(y) BY <1>1, <1>4, <2>1, <3>2 DEF TablesOk
      <4> QED BY <4>1, TableIs
    <3> QED BY <3>1, <3>2
  <2>3. y.delegate \in Tables \cup {None} BY <2>2 DEF Fits
  <2>4. y.delegate # None => tab'[y.delegate] # None BY <1>3, <2>2, <2>3
  <2>5. TableOk(y)' BY <2>2, <2>4, TableIsAfter
  <2> QED BY <2>1, <2>5
<1>5. root' \in Tables /\ tab'[root'] # None /\ croot' \in Tables /\ tab'[croot'] # None BY <1>3
<1> QED BY <1>1, <1>4, <1>5 DEF TablesOk

LEMMA TableIn ==
    ASSUME TablesOk, NEW t \in Tables, tab[t] # None
    PROVE  Fits(tab[t]) /\ (tab[t].delegate # None => tab[t].delegate \in Tables /\ tab[tab[t].delegate] # None)
PROOF
<1>1. TableOk(tab[t]) BY DEF TablesOk
<1>2. Fits(tab[t]) /\ (tab[t].delegate # None => tab[tab[t].delegate] # None) BY <1>1, TableIs
<1> QED BY <1>2 DEF Fits

\* Other slots, and another delegate.
LEMMA SlotsFit ==
    ASSUME NEW x, Fits(x), NEW s, s \in [DOMAIN s -> AllValues], DOMAIN s \subseteq Names,
           NEW y, y = [x EXCEPT !.slots = s]
    PROVE  Fits(y) /\ y.delegate = x.delegate /\ y.slots = s
PROOF
<1>1. PICK p, d : p = x.slots /\ d = x.delegate OBVIOUS
<1>2. x = [slots |-> p, delegate |-> d] BY <1>1 DEF Fits
<1>3. y = [slots |-> s, delegate |-> d] BY <1>2
<1>4. y.slots = s /\ y.delegate = d BY <1>3
<1>5. d \in Tables \cup {None} BY <1>1 DEF Fits
<1> QED BY <1>1, <1>3, <1>4, <1>5 DEF Fits

LEMMA DelegateFits ==
    ASSUME NEW x, Fits(x), NEW d \in Tables \cup {None}, NEW y, y = [x EXCEPT !.delegate = d]
    PROVE  Fits(y) /\ y.delegate = d
PROOF
<1>1. PICK p, e : p = x.slots /\ e = x.delegate OBVIOUS
<1>2. x = [slots |-> p, delegate |-> e] BY <1>1 DEF Fits
<1>3. y = [slots |-> p, delegate |-> d] BY <1>2
<1>4. y.slots = p /\ y.delegate = d BY <1>3
<1>5. p \in [DOMAIN p -> AllValues] /\ DOMAIN p \subseteq Names BY <1>1 DEF Fits
<1> QED BY <1>3, <1>4, <1>5 DEF Fits

LEMMA EmptyFits == Fits([slots |-> <<>>, delegate |-> None])
PROOF
<1>1. PICK x, e, d : e = <<>> /\ d = None /\ x = [slots |-> e, delegate |-> d] OBVIOUS
<1>2. x.slots = e /\ x.delegate = d BY <1>1
<1>3. e \in [DOMAIN e -> AllValues] /\ DOMAIN e = {} BY <1>1
<1>4. Fits(x) BY <1>1, <1>2, <1>3 DEF Fits
<1> QED BY <1>1, <1>4

-----------------------------------------------------------------------------
(* The delegates of a table.                                               *)

IsChain(T, t, f) ==
    f = [n \in 0 .. Cardinality(Tables) |->
           IF n = 0 THEN <<t>>
           ELSE LET above == T[f[n - 1][Len(f[n - 1])]].delegate
                IN IF above = None THEN f[n - 1] ELSE Append(f[n - 1], above)]

ChainOf(T, t) == (CHOOSE f : IsChain(T, t, f))[Cardinality(Tables)]

LEMMA ChainIs ==
    ASSUME NEW t
    PROVE  Chain(t) = ChainOf(tab, t) /\ Chain(t)' = ChainOf(tab', t)
BY DEF Chain, ChainOf, IsChain

\* Where the delegates are, whatever the slots.
Delegates(T, L) == \A t \in L : T[t].delegate # None => T[t].delegate \in L

ChainsFrom(L, t) == {s \in Seq(L) : Len(s) # 0 /\ s[1] = t}

Above(T, s) == IF T[s[Len(s)]].delegate = None THEN s ELSE Append(s, T[s[Len(s)]].delegate)

LEMMA AboveIn ==
    ASSUME NEW T, NEW L, Delegates(T, L), NEW t, NEW s \in ChainsFrom(L, t)
    PROVE  Above(T, s) \in ChainsFrom(L, t)
PROOF
<1>1. s \in Seq(L) /\ Len(s) \in Nat /\ Len(s) # 0 /\ s[1] = t BY DEF ChainsFrom
<1>2. Len(s) \in 1 .. Len(s) /\ 1 \in 1 .. Len(s) BY <1>1
<1>3. PICK e : e = s[Len(s)] OBVIOUS
<1>4. e \in L BY <1>1, <1>2, <1>3
<1>5. PICK d : d = T[e].delegate OBVIOUS
<1>6. CASE d = None BY <1>3, <1>5, <1>6 DEF Above
<1>7. CASE d # None
  <2>1. d \in L BY <1>4, <1>5, <1>7 DEF Delegates
  <2>2. Above(T, s) = Append(s, d) BY <1>3, <1>5, <1>7 DEF Above
  <2>3. Append(s, d) \in Seq(L) /\ Len(Append(s, d)) = Len(s) + 1 /\ Append(s, d)[1] = s[1] BY <1>1, <1>2, <2>1
  <2>4. PICK r : r = Append(s, d) OBVIOUS
  <2>5. r \in Seq(L) /\ Len(r) # 0 /\ r[1] = t BY <1>1, <2>3, <2>4
  <2>6. r \in ChainsFrom(L, t) BY <2>5 DEF ChainsFrom
  <2> QED BY <2>2, <2>4, <2>6
<1> QED BY <1>6, <1>7

LEMMA ChainOfIs ==
    ASSUME NEW T, NEW L, Delegates(T, L), NEW t \in L, NEW N \in Nat, N = Cardinality(Tables),
           NEW S, S = ChainsFrom(L, t), NEW A \in [S -> S], \A s \in S : A[s] = Above(T, s),
           NEW a \in S, a = <<t>>, NEW f \in [0 .. N -> S], Steps(f, A, a, N)
    PROVE  ChainOf(T, t) = f[N]
PROOF
<1>1. IsChain(T, t, f)
  <2>1. ASSUME NEW n \in 0 .. N
        PROVE  f[n] = IF n = 0 THEN <<t>>
                      ELSE LET above == T[f[n - 1][Len(f[n - 1])]].delegate
                           IN IF above = None THEN f[n - 1] ELSE Append(f[n - 1], above)
    <3>1. CASE n = 0 BY <3>1 DEF Steps
    <3>2. CASE n # 0
      <4>1. n \in 1 .. N /\ n - 1 \in 0 .. N BY <3>2
      <4>2. f[n - 1] \in S /\ f[n] = A[f[n - 1]] BY <4>1 DEF Steps
      <4>3. f[n] = Above(T, f[n - 1]) BY <4>2
      <4> QED BY <3>2, <4>3 DEF Above
    <3> QED BY <3>1, <3>2
  <2>2. f = [n \in 0 .. N |-> f[n]] OBVIOUS
  <2> QED BY <2>1, <2>2 DEF IsChain
<1>2. PICK u : u = CHOOSE g : IsChain(T, t, g) OBVIOUS
<1>3. IsChain(T, t, u) BY <1>1, <1>2
<1>4. ChainOf(T, t) = u[N] BY <1>2 DEF ChainOf
<1>5. u[0] = a BY <1>3 DEF IsChain
<1>6. ASSUME NEW n \in 1 .. N, u[n - 1] \in S PROVE u[n] = A[u[n - 1]]
  <2>1. n \in 0 .. N /\ n # 0 BY <1>6
  <2>2. u[n] = Above(T, u[n - 1]) BY <1>3, <2>1 DEF IsChain, Above
  <2> QED BY <1>6, <2>2
<1>7. StepsWhere(u, A, a, N, S) BY <1>5, <1>6 DEF StepsWhere
<1>8. \A n \in 0 .. N : u[n] = f[n] BY <1>7, StepsUnique
<1>9. N \in 0 .. N OBVIOUS
<1> QED BY <1>4, <1>8, <1>9

\* A chain is a path of tables, and its tables do not depend on the slots.
LEMMA ChainIn ==
    ASSUME NEW T, NEW L, Delegates(T, L), NEW t \in L
    PROVE  /\ ChainOf(T, t) \in Seq(L) /\ Len(ChainOf(T, t)) \in Nat \ {0} /\ ChainOf(T, t)[1] = t
           /\ \A U : (\A e \in L : U[e].delegate = T[e].delegate) => ChainOf(U, t) = ChainOf(T, t)
PROOF
<1>1. PICK N : N = Cardinality(Tables) OBVIOUS
<1>2. N \in Nat BY <1>1, FS_CardinalityType, TypesAssumption
<1>3. PICK S : S = ChainsFrom(L, t) OBVIOUS
<1>4. PICK a : a = <<t>> OBVIOUS
<1>5. a \in S BY <1>3, <1>4 DEF ChainsFrom
<1>6. PICK A : A = [s \in S |-> Above(T, s)] OBVIOUS
<1>7. ASSUME NEW s \in S PROVE Above(T, s) \in S BY <1>3, AboveIn
<1>8. A \in [S -> S] /\ \A s \in S : A[s] = Above(T, s) BY <1>6, <1>7
<1>9. PICK f \in [0 .. N -> S] : Steps(f, A, a, N) BY <1>2, <1>5, <1>8, StepsExist
<1>10. f[N] \in S BY <1>2
<1>11. ChainOf(T, t) = f[N] BY <1>1, <1>2, <1>3, <1>4, <1>5, <1>8, <1>9, ChainOfIs
<1>12. ASSUME NEW U, \A e \in L : U[e].delegate = T[e].delegate
       PROVE  ChainOf(U, t) = f[N]
  <2>1. Delegates(U, L) BY <1>12 DEF Delegates
  <2>2. ASSUME NEW s \in S PROVE A[s] = Above(U, s)
    <3>1. s \in Seq(L) /\ Len(s) \in Nat /\ Len(s) # 0 BY <1>3 DEF ChainsFrom
    <3>2. s[Len(s)] \in L BY <3>1
    <3>3. U[s[Len(s)]].delegate = T[s[Len(s)]].delegate BY <1>12, <3>2
    <3>4. Above(U, s) = Above(T, s) BY <3>3 DEF Above
    <3> QED BY <1>8, <3>4
  <2> QED BY <1>1, <1>2, <1>3, <1>4, <1>5, <1>8, <1>9, <2>1, <2>2, ChainOfIs
<1>13. f[N] \in Seq(L) /\ Len(f[N]) \in Nat /\ Len(f[N]) # 0 /\ f[N][1] = t BY <1>3, <1>10 DEF ChainsFrom
<1> QED BY <1>11, <1>12, <1>13

-----------------------------------------------------------------------------
(* Searching a chain from its far end.                                     *)

LEMMA Induct ==
    ASSUME NEW N \in Nat, NEW P, 0 \in P, \A n \in 1 .. N : n - 1 \in P => n \in P
    PROVE  0 .. N \subseteq P
PROOF
<1>1. PICK Bad : Bad = {n \in 0 .. N : n \notin P} OBVIOUS
<1>2. SUFFICES ASSUME Bad # {} PROVE FALSE BY <1>1
<1>3. PICK n \in Bad : \A y \in Bad : n <= y
  <2>1. Bad \subseteq Nat BY <1>1
  <2> QED BY <1>2, <2>1, Least
<1>4. n \in 0 .. N /\ n \notin P BY <1>1
<1>5. n \in 1 .. N /\ n - 1 \in 0 .. N /\ n - 1 \notin Bad BY <1>3, <1>4
<1>6. n - 1 \in P BY <1>1, <1>5
<1> QED BY <1>4, <1>5, <1>6

\* The values of a function of the form f[n] = G[n][f[n + 1]].
DownSteps(f, G, v, N) == \A n \in 1 .. N : f[n] = G[n][IF n = N THEN v ELSE f[n + 1]]

LEMMA DownExists ==
    ASSUME NEW N \in Nat, NEW V, NEW G \in [1 .. N -> [V -> V]], NEW v \in V
    PROVE  \E f \in [1 .. N -> V] : DownSteps(f, G, v, N)
PROOF
<1>1. PICK P : P = {m \in 0 .. N : \E f \in [N - m + 1 .. N -> V] :
                      \A n \in N - m + 1 .. N : f[n] = G[n][IF n = N THEN v ELSE f[n + 1]]}
  OBVIOUS
<1>2. 0 \in P
  <2>1. N - 0 + 1 .. N = {} OBVIOUS
  <2>2. PICK f : f = [n \in N - 0 + 1 .. N |-> v] OBVIOUS
  <2> QED BY <1>1, <2>1, <2>2
<1>3. ASSUME NEW m \in 1 .. N, m - 1 \in P PROVE m \in P
  <2>1. PICK k : k = N - m + 1 OBVIOUS
  <2>2. k \in 1 .. N /\ N - (m - 1) + 1 = k + 1 /\ m \in 0 .. N BY <2>1
  <2>3. PICK f \in [k + 1 .. N -> V] : \A n \in k + 1 .. N : f[n] = G[n][IF n = N THEN v ELSE f[n + 1]]
    BY <1>1, <1>3, <2>2
  <2>4. PICK x : x = G[k][IF k = N THEN v ELSE f[k + 1]] OBVIOUS
  <2>5. x \in V
    <3>1. k # N => k + 1 \in k + 1 .. N BY <2>2
    <3>2. (IF k = N THEN v ELSE f[k + 1]) \in V BY <2>3, <3>1
    <3> QED BY <2>2, <2>4, <3>2
  <2>6. PICK g : g = [n \in k .. N |-> IF n = k THEN x ELSE f[n]] OBVIOUS
  <2>7. g \in [k .. N -> V]
    <3>1. \A n \in k .. N : n # k => n \in k + 1 .. N BY <2>2
    <3> QED BY <2>3, <2>5, <2>6, <3>1
  <2>8. ASSUME NEW n \in k .. N PROVE g[n] = G[n][IF n = N THEN v ELSE g[n + 1]]
    <3>1. n # N => n + 1 \in k .. N /\ n + 1 # k BY <2>2
    <3>2. n # N => g[n + 1] = f[n + 1] BY <2>6, <3>1
    <3>3. CASE n = k BY <2>4, <2>6, <3>2, <3>3
    <3>4. CASE n # k
      <4>1. n \in k + 1 .. N BY <2>2, <3>4
      <4>2. g[n] = f[n] BY <2>6, <3>4
      <4> QED BY <2>3, <3>2, <4>1, <4>2
    <3> QED BY <3>3, <3>4
  <2>9. \E h \in [N - m + 1 .. N -> V] : \A n \in N - m + 1 .. N : h[n] = G[n][IF n = N THEN v ELSE h[n + 1]]
    BY <2>1, <2>7, <2>8
  <2> QED BY <1>1, <2>2, <2>9
<1>4. 0 .. N \subseteq P BY <1>2, <1>3, Induct
<1>5. N \in P BY <1>4
<1>6. N - N + 1 = 1 OBVIOUS
<1> QED BY <1>1, <1>5, <1>6 DEF DownSteps

HasKey(t, key) == key \in DOMAIN tab[t].slots

SetAfter(t, key, mm, below) ==
    IF key \in DOMAIN tab[t].slots THEN t
    ELSE IF below \notin {"none", "error"} THEN below
    ELSE IF HasMeta(t, "_set") /\ mm # "clean"
    THEN IF mm = "ok" THEN "meta" ELSE "error"
    ELSE "none"

IsSetUp(s, key, mm, f) ==
    f = [n \in 1 .. Len(s) |-> SetAfter(s[n], key, mm, IF n = Len(s) THEN "none" ELSE f[n + 1])]

LEMMA SetInIs ==
    ASSUME NEW o \in Tables, NEW key, NEW mm
    PROVE  SetIn(o, key, mm) = (CHOOSE f : IsSetUp(Chain(o), key, mm, f))[1]
BY DEF SetIn, IsSetUp, SetAfter

Nowhere == {"none", "error", "meta"}

\* The table at n is the first of the chain with that key.
FirstAt(s, key, n) == HasKey(s[n], key) /\ \A k \in 1 .. n - 1 : ~HasKey(s[k], key)

\* Set finds the first table of the chain that has the key.
LEMMA SetFinds ==
    ASSUME NEW L, NEW s \in Seq(L), Len(s) # 0, NEW key, NEW mm,
           NEW u, u = CHOOSE f : IsSetUp(s, key, mm, f)
    PROVE  u[1] \in Nowhere \/ \E n \in 1 .. Len(s) : u[1] = s[n] /\ FirstAt(s, key, n)
PROOF
<1>1. PICK N : N = Len(s) OBVIOUS
<1>2. N \in Nat /\ N # 0 BY <1>1
<1>3. PICK V : V = Nowhere \cup L OBVIOUS
<1>4. PICK G : G = [n \in 1 .. N |-> [b \in V |-> SetAfter(s[n], key, mm, b)]] OBVIOUS
<1>5. ASSUME NEW n \in 1 .. N, NEW b \in V PROVE SetAfter(s[n], key, mm, b) \in V
  <2>1. s[n] \in L BY <1>1
  <2> QED BY <1>3, <2>1 DEF SetAfter, Nowhere
<1>6. G \in [1 .. N -> [V -> V]] BY <1>4, <1>5
<1>7. PICK v : v = "none" OBVIOUS
<1>8. v \in V BY <1>3, <1>7 DEF Nowhere
<1>9. PICK f \in [1 .. N -> V] : DownSteps(f, G, v, N)
  BY <1>2, <1>6, <1>8, DownExists
<1>10. IsSetUp(s, key, mm, f)
  <2>1. ASSUME NEW n \in 1 .. N PROVE f[n] = SetAfter(s[n], key, mm, IF n = N THEN "none" ELSE f[n + 1])
    <3>1. PICK b : b = IF n = N THEN v ELSE f[n + 1] OBVIOUS
    <3>2. n # N => n + 1 \in 1 .. N BY <1>2
    <3>3. b \in V BY <1>8, <1>9, <3>1, <3>2
    <3>4. f[n] = G[n][b] BY <1>9, <3>1 DEF DownSteps
    <3>5. f[n] = SetAfter(s[n], key, mm, b) BY <1>4, <3>3, <3>4
    <3> QED BY <1>7, <3>1, <3>5
  <2>2. f = [n \in 1 .. N |-> f[n]] OBVIOUS
  <2> QED BY <1>1, <2>1, <2>2 DEF IsSetUp
<1>11. IsSetUp(s, key, mm, u) BY <1>10
<1>12. \A n \in 1 .. N : u[n] = SetAfter(s[n], key, mm, IF n = N THEN "none" ELSE u[n + 1]) BY <1>1, <1>11 DEF IsSetUp
<1>13. PICK P : P = {m \in 0 .. N : m = 0 \/ u[N - m + 1] \in Nowhere
                       \/ \E n \in N - m + 1 .. N : /\ u[N - m + 1] = s[n] /\ HasKey(s[n], key)
                                                    /\ \A k \in N - m + 1 .. n - 1 : ~HasKey(s[k], key)}
  OBVIOUS
<1>14. 0 \in P BY <1>2, <1>13
<1>15. ASSUME NEW m \in 1 .. N, m - 1 \in P PROVE m \in P
  <2>1. PICK j : j = N - m + 1 OBVIOUS
  <2>2. j \in 1 .. N /\ N - (m - 1) + 1 = j + 1 /\ m \in 0 .. N /\ (m - 1 = 0 <=> j = N) BY <1>2, <2>1
  <2>3. u[j] = SetAfter(s[j], key, mm, IF j = N THEN "none" ELSE u[j + 1]) BY <1>12, <2>2
  <2>4. CASE HasKey(s[j], key)
    <3>1. u[j] = s[j] BY <2>3, <2>4 DEF SetAfter, HasKey
    <3>2. j \in j .. N /\ \A k \in j .. j - 1 : FALSE BY <2>2
    <3> QED BY <1>13, <2>1, <2>2, <2>4, <3>1, <3>2
  <2>5. CASE ~HasKey(s[j], key) /\ u[j] \in Nowhere BY <1>13, <2>1, <2>2, <2>5
  <2>6. CASE ~HasKey(s[j], key) /\ u[j] \notin Nowhere
    <3>1. j # N /\ u[j] = u[j + 1] BY <2>3, <2>6 DEF SetAfter, HasKey, Nowhere
    <3>2. PICK n \in j + 1 .. N : /\ u[j + 1] = s[n] /\ HasKey(s[n], key)
                                  /\ \A k \in j + 1 .. n - 1 : ~HasKey(s[k], key)
      BY <1>13, <1>15, <2>2, <2>6, <3>1
    <3>3. n \in j .. N BY <2>2
    <3>4. \A k \in j .. n - 1 : ~HasKey(s[k], key)
      <4>1. \A k \in j .. n - 1 : k = j \/ k \in j + 1 .. n - 1 BY <2>2
      <4> QED BY <2>6, <3>2, <4>1
    <3> QED BY <1>13, <2>1, <2>2, <3>1, <3>2, <3>3, <3>4
  <2> QED BY <2>4, <2>5, <2>6
<1>16. 0 .. N \subseteq P BY <1>2, <1>14, <1>15, Induct
<1>17. N \in P /\ N - N + 1 = 1 BY <1>2, <1>16
<1> QED BY <1>1, <1>2, <1>13, <1>17 DEF FirstAt

-----------------------------------------------------------------------------
(* What Get finds after a step.                                            *)

GetAfter(t, key, mm, below) ==
    IF RawGet(t, key).how = "slot" THEN RawGet(t, key)
    ELSE IF below.how \in {"slot", "meta", "default"} THEN below
    ELSE IF HasMeta(t, "_get") /\ mm # "clean"
    THEN IF mm = "ok" THEN Missing("meta") ELSE Missing("error")
    ELSE DefaultGet(key)

IsGetUp(s, key, mm, f) ==
    f = [n \in 1 .. Len(s) |-> GetAfter(s[n], key, mm, IF n = Len(s) THEN Missing("none") ELSE f[n + 1])]

LEMMA GetInAfter ==
    ASSUME NEW o \in Tables, NEW key, NEW mm
    PROVE  GetIn(o, key, mm)' = (CHOOSE f : IsGetUp(Chain(o), key, mm, f)')[1]
BY DEF GetIn, IsGetUp, GetAfter

LEMMA RawGetAfter ==
    ASSUME NEW t \in Tables, NEW key
    PROVE  RawGet(t, key)' = IF HasKey(t, key)' THEN Found(tab'[t].slots[key]) ELSE Missing("none")
BY TypesAssumption DEF RawGet, HasKey

\* Get finds the first table of the chain that has the key.
LEMMA GetFinds ==
    ASSUME NEW L, L \subseteq Tables, NEW s \in Seq(L), Len(s) # 0, NEW key, NEW mm,
           NEW m \in 1 .. Len(s), FirstAt(s, key, m)',
           NEW u, u = CHOOSE f : IsGetUp(s, key, mm, f)'
    PROVE  u[1] = Found(tab'[s[m]].slots[key])
PROOF
<1>1. PICK N : N = Len(s) OBVIOUS
<1>2. N \in Nat /\ N # 0 BY <1>1
<1>3. PICK W : W = {Missing("none"), Missing("meta"), Missing("error"), DefaultGet(key)} OBVIOUS
<1>4. PICK V : V = W \cup {RawGet(s[n], key)' : n \in 1 .. N} OBVIOUS
<1>5. PICK G : G = [n \in 1 .. N |-> [b \in V |-> GetAfter(s[n], key, mm, b)']] OBVIOUS
<1>6. ASSUME NEW n \in 1 .. N, NEW b \in V PROVE GetAfter(s[n], key, mm, b)' \in V
  BY <1>3, <1>4, <1>6 DEF GetAfter
<1>7. G \in [1 .. N -> [V -> V]] BY <1>5, <1>6
<1>8. PICK v : v = Missing("none") OBVIOUS
<1>9. v \in V BY <1>3, <1>4, <1>8
<1>10. PICK f \in [1 .. N -> V] : DownSteps(f, G, v, N) BY <1>2, <1>7, <1>9, DownExists
<1>11. IsGetUp(s, key, mm, f)'
  <2>1. ASSUME NEW n \in 1 .. N
        PROVE  f[n] = GetAfter(s[n], key, mm, IF n = N THEN Missing("none") ELSE f[n + 1])'
    <3>1. PICK b : b = IF n = N THEN v ELSE f[n + 1] OBVIOUS
    <3>2. n # N => n + 1 \in 1 .. N BY <1>2
    <3>3. b \in V BY <1>9, <1>10, <3>1, <3>2
    <3>4. f[n] = G[n][b] BY <1>10, <3>1 DEF DownSteps
    <3>5. f[n] = GetAfter(s[n], key, mm, b)' BY <1>5, <3>3, <3>4
    <3> QED BY <1>8, <3>1, <3>5
  <2>2. f = [n \in 1 .. N |-> f[n]] OBVIOUS
  <2> QED BY <1>1, <2>1, <2>2 DEF IsGetUp
<1>12. IsGetUp(s, key, mm, u)' BY <1>11
<1>13. \A n \in 1 .. N : u[n] = GetAfter(s[n], key, mm, IF n = N THEN Missing("none") ELSE u[n + 1])'
  BY <1>1, <1>12 DEF IsGetUp
<1>14. PICK x : x = Found(tab'[s[m]].slots[key]) OBVIOUS
<1>15. x.how = "slot" BY <1>14 DEF Found
<1>16. m \in 1 .. N /\ m \in Nat BY <1>1
<1>17. PICK P : P = {k \in 0 .. m - 1 : u[m - k] = x} OBVIOUS
<1>18. 0 \in P
  <2>1. s[m] \in Tables /\ HasKey(s[m], key)' BY <1>1, <1>16 DEF FirstAt
  <2>2. RawGet(s[m], key)' = x BY <1>14, <2>1, RawGetAfter
  <2>3. u[m] = x BY <1>13, <1>15, <1>16, <2>2 DEF GetAfter
  <2> QED BY <1>16, <1>17, <2>3
<1>19. ASSUME NEW k \in 1 .. m - 1, k - 1 \in P PROVE k \in P
  <2>1. PICK j : j = m - k OBVIOUS
  <2>2. j \in 1 .. m - 1 /\ m - (k - 1) = j + 1 /\ k \in 0 .. m - 1 /\ j \in 1 .. N /\ j # N BY <1>2, <1>16, <2>1
  <2>3. u[j + 1] = x BY <1>17, <1>19, <2>2
  <2>4. s[j] \in Tables /\ ~HasKey(s[j], key)' BY <1>1, <2>2 DEF FirstAt
  <2>5. RawGet(s[j], key)'.how # "slot"
    <3>1. RawGet(s[j], key)' = Missing("none") BY <2>4, RawGetAfter
    <3> QED BY <3>1 DEF Missing
  <2>6. u[j] = GetAfter(s[j], key, mm, x)' BY <1>13, <2>2, <2>3
  <2>7. u[j] = x BY <1>15, <2>5, <2>6 DEF GetAfter
  <2> QED BY <1>17, <2>1, <2>2, <2>7
<1>20. m - 1 \in Nat BY <1>16
<1>21. 0 .. m - 1 \subseteq P BY <1>18, <1>19, <1>20, Induct
<1>22. m - 1 \in P /\ m - (m - 1) = 1 BY <1>16, <1>21
<1> QED BY <1>14, <1>17, <1>22

-----------------------------------------------------------------------------
(* Set.                                                                    *)

Existing == {t \in Tables : tab[t] # None}

LEMMA DelegatesExist ==
    ASSUME TablesOk
    PROVE  Delegates(tab, Existing)
BY TableIn DEF Delegates, Existing

FirstOnChain(o, at, key) == \E n \in 1 .. Len(Chain(o)) : at = Chain(o)[n] /\ FirstAt(Chain(o), key, n)

\* Set writes to the first table of the chain that has the key, to the field
\* of an instance, or not to a slot at all.
LEMMA SetWhere ==
    ASSUME TablesOk, NEW o \in Tables \cup Instances \cup Classes, Live(o), NEW key, NEW mm,
           NEW at, at = SetIn(o, key, mm)
    PROVE  \/ at \in Nowhere
           \/ o \in Tables /\ at \in Existing /\ FirstOnChain(o, at, key)
           \/ o \in Instances /\ at = o /\ IsField(cls[inst[o].class], key)
PROOF
<1>1. CASE o \in Tables
  <2>1. o \in Existing BY <1>1 DEF Live, Existing
  <2>2. PICK s : s = Chain(o) OBVIOUS
  <2>3. s = ChainOf(tab, o) BY <2>2, ChainIs
  <2>4. s \in Seq(Existing) /\ Len(s) # 0 BY <2>1, <2>3, DelegatesExist, ChainIn
  <2>5. PICK u : u = CHOOSE f : IsSetUp(s, key, mm, f) OBVIOUS
  <2>6. at = u[1] BY <1>1, <2>2, <2>5, SetInIs
  <2>7. u[1] \in Nowhere \/ \E n \in 1 .. Len(s) : u[1] = s[n] /\ FirstAt(s, key, n) BY <2>4, <2>5, SetFinds
  <2>8. \A n \in 1 .. Len(s) : s[n] \in Existing BY <2>4
  <2> QED BY <1>1, <2>2, <2>6, <2>7, <2>8 DEF FirstOnChain
<1>2. CASE o \in Classes
  <2>1. o \notin Tables BY <1>2, TypesAssumption
  <2>2. at = "error" BY <1>2, <2>1 DEF SetIn
  <2> QED BY <2>2 DEF Nowhere
<1>3. CASE o \in Instances
  <2>1. o \notin Tables /\ o \notin Classes BY <1>3, TypesAssumption
  <2>2. at \in Nowhere \/ (at = o /\ IsField(cls[inst[o].class], key)) BY <2>1 DEF SetIn, Nowhere
  <2> QED BY <1>3, <2>2
<1> QED BY <1>1, <1>2, <1>3

\* The slots of one table change and nothing else: the chains stay.
SlotWritten(at, key, val) ==
    /\ at \in Existing /\ HasKey(at, key)
    /\ tab' = [tab EXCEPT ![at].slots[key] = val]

LEMMA WrittenIs ==
    ASSUME TablesOk, NEW at, NEW key, NEW val \in AllValues, SlotWritten(at, key, val)
    PROVE  /\ DOMAIN tab' = Tables /\ tab'[at].slots[key] = val
           /\ \A t \in Existing : /\ tab'[t].delegate = tab[t].delegate
                                  /\ DOMAIN tab'[t].slots = DOMAIN tab[t].slots
           /\ root' = root /\ croot' = croot => TablesOk'
PROOF
<1>1. PICK x : x = tab[at] OBVIOUS
<1>2. at \in Tables /\ x # None /\ DOMAIN tab = Tables BY <1>1 DEF SlotWritten, Existing, TablesOk
<1>3. Fits(x) BY <1>1, <1>2, TableIn
<1>4. x.slots \in [DOMAIN x.slots -> AllValues] /\ DOMAIN x.slots \subseteq Names /\ key \in DOMAIN x.slots
  BY <1>1, <1>3 DEF Fits, SlotWritten, HasKey
<1>5. PICK p : p = [x.slots EXCEPT ![key] = val] OBVIOUS
<1>6. p \in [DOMAIN p -> AllValues] /\ DOMAIN p = DOMAIN x.slots /\ p[key] = val BY <1>4, <1>5
<1>7. PICK y : y = [x EXCEPT !.slots = p] OBVIOUS
<1>8. Fits(y) /\ y.delegate = x.delegate /\ y.slots = p BY <1>3, <1>4, <1>6, <1>7, SlotsFit
<1>9. tab' = [tab EXCEPT ![at] = y]
  <2>1. [x EXCEPT !.slots[key] = val] = y BY <1>5, <1>7
  <2>2. tab' = [tab EXCEPT ![at] = [x EXCEPT !.slots[key] = val]] BY <1>1 DEF SlotWritten
  <2> QED BY <2>1, <2>2
<1>10. ASSUME NEW t \in Existing
       PROVE  tab'[t].delegate = tab[t].delegate /\ DOMAIN tab'[t].slots = DOMAIN tab[t].slots
  <2>1. t \in Tables BY DEF Existing
  <2>2. CASE t = at BY <1>1, <1>2, <1>6, <1>8, <1>9, <2>2
  <2>3. CASE t # at BY <1>2, <1>9, <2>1, <2>3
  <2> QED BY <2>2, <2>3
<1>11. tab'[at] = y /\ DOMAIN tab' = Tables BY <1>2, <1>9
<1>12. ASSUME root' = root /\ croot' = croot PROVE TablesOk'
  <2>1. x.delegate # None => tab[x.delegate] # None BY <1>1, <1>2, TableIn
  <2>2. root' \in Tables /\ tab[root'] # None /\ croot' \in Tables /\ tab[croot'] # None BY <1>12 DEF TablesOk
  <2> QED BY <1>2, <1>8, <1>9, <2>1, <2>2, TableChanged
<1> QED BY <1>6, <1>8, <1>10, <1>11, <1>12

\* What was written along a chain is what is found along it.
LEMMA WrittenIsFound ==
    ASSUME TablesOk, NEW o \in Existing, NEW at, NEW key, NEW val \in AllValues, SlotWritten(at, key, val),
           FirstOnChain(o, at, key), NEW mm
    PROVE  GetIn(o, key, mm)' = Found(val)
PROOF
<1>1. /\ tab'[at].slots[key] = val
      /\ \A t \in Existing : /\ tab'[t].delegate = tab[t].delegate
                             /\ DOMAIN tab'[t].slots = DOMAIN tab[t].slots
  BY WrittenIs
<1>2. PICK s : s = ChainOf(tab, o) OBVIOUS
<1>3. s \in Seq(Existing) /\ Len(s) # 0 /\ ChainOf(tab', o) = s BY <1>1, <1>2, DelegatesExist, ChainIn
<1>4. Chain(o) = s /\ Chain(o)' = s BY <1>2, <1>3, ChainIs
<1>5. PICK m \in 1 .. Len(s) : at = s[m] /\ FirstAt(s, key, m) BY <1>4 DEF FirstOnChain
<1>6. \A k \in 1 .. Len(s) : s[k] \in Existing BY <1>3
<1>7. \A k \in 1 .. Len(s) : HasKey(s[k], key)' <=> HasKey(s[k], key) BY <1>1, <1>6 DEF HasKey
<1>8. Len(s) \in Nat BY <1>3
<1>9. FirstAt(s, key, m)'
  <2>1. \A k \in 1 .. m - 1 : k \in 1 .. Len(s) BY <1>8
  <2> QED BY <1>5, <1>7, <2>1 DEF FirstAt
<1>10. PICK u : u = CHOOSE f : IsGetUp(s, key, mm, f)' OBVIOUS
<1>11. Existing \subseteq Tables BY DEF Existing
<1>12. u[1] = Found(tab'[s[m]].slots[key])
  <2>1. PICK L : L = Existing OBVIOUS
  <2>2. s \in Seq(L) /\ L \subseteq Tables BY <1>3, <1>11, <2>1
  <2> QED BY <1>3, <1>9, <1>10, <2>2, GetFinds
<1>13. GetIn(o, key, mm)' = u[1] BY <1>4, <1>10, <1>11, GetInAfter
<1> QED BY <1>1, <1>5, <1>12, <1>13

LEMMA FieldIsFound ==
    ASSUME ObjectsOk, NEW i \in Instances, inst[i] # None, NEW key, IsField(cls[inst[i].class], key),
           NEW val \in AllValues, inst' = InstanceSet(i, key, val), cls' = cls, NEW mm
    PROVE  GetIn(i, key, mm)' = Found(val)
PROOF
<1>1. PICK x, c, n : x = inst[i] /\ c = cls[inst[i].class] /\ n = c.members[key].idx OBVIOUS
<1>2. /\ x \in InstanceT /\ x.class \in Classes /\ c # None /\ Len(x.values) = Len(c.defaults)
      /\ x.values \in Seq(AllValues)
  BY <1>1, InstanceIn
<1>3. ClassOk(c) BY <1>1, <1>2, ClassIn
<1>4. key \in DOMAIN c.members BY <1>1 DEF IsField
<1>5. n \in 1 .. Len(c.defaults) BY <1>1, <1>3, <1>4, IndexIn
<1>6. n \in DOMAIN x.values BY <1>2, <1>5
<1>7. inst' = [inst EXCEPT ![i].values[n] = val] BY <1>1 DEF InstanceSet
<1>8. i \in DOMAIN inst BY DEF ObjectsOk
<1>9. PICK a, p : a = x.class /\ p = x.values OBVIOUS
<1>10. x = [class |-> a, values |-> p] BY <1>2, <1>9 DEF InstanceT
<1>11. inst'[i] = [x EXCEPT !.values[n] = val] BY <1>1, <1>7, <1>8
<1>12. inst'[i] = [class |-> a, values |-> [p EXCEPT ![n] = val]] BY <1>10, <1>11
<1>13. inst'[i].class = x.class /\ inst'[i].values[n] = val BY <1>6, <1>9, <1>12
<1>14. cls'[inst'[i].class] = c BY <1>1, <1>13
<1>15. InstanceGet(i, key)' = Found(val)
  <2>1. IsField(cls'[inst'[i].class], key) BY <1>1, <1>14
  <2>2. cls'[inst'[i].class].members[key].idx = n BY <1>1, <1>14
  <2> QED BY <1>13, <2>1, <2>2 DEF InstanceGet
<1>16. i \notin Classes /\ i \notin Tables BY TypesAssumption
<1>17. RawGet(i, key)' = Found(val) BY <1>15, <1>16 DEF RawGet
<1>18. Found(val).how = "slot" BY DEF Found
<1> QED BY <1>16, <1>17, <1>18 DEF GetIn

NoteIs(o, key, val, where) == last' = [op |-> "set", obj |-> o, key |-> key, val |-> val, where |-> where]

LEMMA ReadsBackAfter ==
    ASSUME NEW o, NEW key, NEW val, NEW where, NoteIs(o, key, val, where),
           where = "slot" => \A mm \in Outcomes : GetIn(o, key, mm)' = Found(val),
           NEW r, r = croot',
           where = "root" /\ root' = croot' => \A mm \in Outcomes : GetIn(r, key, mm)' = Found(val)
    PROVE  ReadsBack'
PROOF
<1>1. last'.op = "set" /\ last'.obj = o /\ last'.key = key /\ last'.val = val /\ last'.where = where BY DEF NoteIs
<1>2. ASSUME NEW mm \in Outcomes, where = "slot" PROVE GetIn(last.obj, last.key, mm)' = Found(last.val)'
  <2>1. GetIn(o, key, mm)' = Found(val) BY <1>2
  <2> QED BY <1>1, <2>1
<1>3. ASSUME NEW mm \in Outcomes, where = "root" /\ root' = croot', GetIn(last.obj, last.key, mm)'.how = "none"
      PROVE  Get(last.obj, last.key, mm, TRUE)' = Found(last.val)'
  <2>1. GetIn(r, key, mm)' = Found(val) BY <1>3
  <2>2. GetIn(croot, last.key, mm)' = Found(last.val)' BY <1>1, <2>1
  <2> QED BY <1>3, <2>2 DEF Get
<1>4. ASSUME NEW mm \in Outcomes
      PROVE  /\ last'.where = "slot" => GetIn(last.obj, last.key, mm)' = Found(last.val)'
             /\ (last'.where = "root" /\ root' = croot' /\ GetIn(last.obj, last.key, mm)'.how = "none") =>
                  Get(last.obj, last.key, mm, TRUE)' = Found(last.val)'
  BY <1>1, <1>2, <1>3
<1> QED BY <1>4 DEF ReadsBack

\* Behind a name that is found nowhere stands the root table.
LEMMA RootIsFirst ==
    ASSUME TablesOk, NEW t \in Existing, NEW key, HasKey(t, key)
    PROVE  FirstOnChain(t, t, key)
PROOF
<1>1. PICK s : s = ChainOf(tab, t) OBVIOUS
<1>2. s \in Seq(Existing) /\ Len(s) \in Nat \ {0} /\ s[1] = t BY <1>1, DelegatesExist, ChainIn
<1>3. Chain(t) = s BY <1>1, ChainIs
<1>4. 1 \in 1 .. Len(s) /\ \A k \in 1 .. 1 - 1 : FALSE BY <1>2
<1>5. FirstAt(s, key, 1) BY <1>2, <1>4 DEF FirstAt
<1> QED BY <1>2, <1>3, <1>4, <1>5 DEF FirstOnChain

LEMMA Untouched ==
    ASSUME ObjectsOk, cls' = cls, inst' = inst
    PROVE  ObjectsOk' /\ ClassMap' = ClassMap /\ InstanceMap' = InstanceMap
PROOF
<1>1. ObjectsOk' BY DEF ObjectsOk, InstanceOk
<1>2. ClassMap' = ClassMap /\ InstanceMap' = InstanceMap BY MapsAfter, ClassMapIs, InstanceMapIs
<1> QED BY <1>1, <1>2

LEMMA TablesKept ==
    ASSUME TablesOk, tab' = tab, root' = root, croot' = croot
    PROVE  TablesOk'
BY DEF TablesOk, TableOk

LEMMA SetStep ==
    ASSUME OInv, NEW o \in Tables \cup Instances \cup Classes, NEW key, NEW val \in AllValues, NEW mm,
           Set(o, key, val, mm)
    PROVE  /\ ObjectsOk' /\ TablesOk' /\ ReadsBack' /\ ClassMap' = ClassMap
           /\ InstanceMap' = InstanceMap \/ \E i \in Instances : Records!Assign(i)
PROOF
<1>1. ObjectsOk /\ TablesOk BY DEF OInv
<1>2. Live(o) /\ cls' = cls /\ root' = root /\ croot' = croot BY DEF Set
<1>3. PICK at : at = SetIn(o, key, mm) OBVIOUS
<1>4. PICK where : where = IF at = "none" /\ key \in DOMAIN tab[root].slots THEN root ELSE at OBVIOUS
<1>5. /\ where \notin {"none", "error"}
      /\ tab' = IF where \in Tables THEN [tab EXCEPT ![where].slots[key] = val] ELSE tab
      /\ inst' = IF where \in Instances THEN InstanceSet(where, key, val) ELSE inst
      /\ NoteIs(o, key, val, IF at = "none" THEN "root" ELSE IF at = "meta" THEN at ELSE "slot")
  BY <1>3, <1>4 DEF Set, NoteIs
<1>6. \/ at \in Nowhere
      \/ o \in Tables /\ at \in Existing /\ FirstOnChain(o, at, key)
      \/ o \in Instances /\ at = o /\ IsField(cls[inst[o].class], key)
  BY <1>1, <1>2, <1>3, SetWhere
<1>7. root \in Existing BY <1>1 DEF TablesOk, Existing
<1>8. CASE at = "none"
  <2>1. where = root /\ HasKey(root, key) BY <1>4, <1>5, <1>8 DEF HasKey
  <2>2. root \notin Instances /\ root \in Tables BY <1>7, TypesAssumption DEF Existing
  <2>3. inst' = inst BY <1>5, <2>1, <2>2
  <2>4. SlotWritten(root, key, val) BY <1>5, <1>7, <2>1, <2>2 DEF SlotWritten
  <2>5. FirstOnChain(root, root, key) BY <1>1, <1>7, <2>1, RootIsFirst
  <2>6. PICK r : r = root OBVIOUS
  <2>7. TablesOk' BY <1>1, <1>2, <2>4, <2>6, WrittenIs
  <2>8. \A m \in Outcomes : GetIn(r, key, m)' = Found(val) BY <1>1, <1>7, <2>4, <2>5, <2>6, WrittenIsFound
  <2>9. NoteIs(o, key, val, "root") BY <1>5, <1>8
  <2>10. PICK c : c = croot' OBVIOUS
  <2>11. root' = croot' => \A m \in Outcomes : GetIn(c, key, m)' = Found(val) BY <1>2, <2>6, <2>8, <2>10
  <2>12. PICK w : w = "root" OBVIOUS
  <2>13. NoteIs(o, key, val, w) /\ w # "slot" BY <2>9, <2>12
  <2>14. ReadsBack' BY <2>10, <2>11, <2>13, ReadsBackAfter
  <2>15. ObjectsOk' /\ ClassMap' = ClassMap /\ InstanceMap' = InstanceMap BY <1>1, <1>2, <2>3, Untouched
  <2> QED BY <2>7, <2>14, <2>15
<1>9. CASE at = "meta"
  <2>1. where = at /\ at \notin Tables /\ at \notin Instances BY <1>4, <1>9, TypesAssumption
  <2>2. tab' = tab /\ inst' = inst BY <1>5, <2>1
  <2>3. TablesOk' BY <1>1, <1>2, <2>2, TablesKept
  <2>4. NoteIs(o, key, val, "meta") BY <1>5, <1>9
  <2>5. PICK c, w : c = croot' /\ w = "meta" OBVIOUS
  <2>6. NoteIs(o, key, val, w) /\ w # "slot" /\ w # "root" BY <2>4, <2>5
  <2>7. ReadsBack' BY <2>5, <2>6, ReadsBackAfter
  <2>8. ObjectsOk' /\ ClassMap' = ClassMap /\ InstanceMap' = InstanceMap BY <1>1, <1>2, <2>2, Untouched
  <2> QED BY <2>3, <2>7, <2>8
<1>10. CASE at \in Existing /\ o \in Tables /\ FirstOnChain(o, at, key)
  <2>1. at \in Tables /\ at \notin Instances /\ at \notin Nowhere BY <1>10, TypesAssumption DEF Existing, Nowhere
  <2>2. where = at BY <1>4, <2>1 DEF Nowhere
  <2>3. inst' = inst /\ tab' = [tab EXCEPT ![at].slots[key] = val] BY <1>5, <2>1, <2>2
  <2>4. HasKey(at, key) BY <1>10 DEF FirstOnChain, FirstAt
  <2>5. SlotWritten(at, key, val) BY <1>10, <2>3, <2>4 DEF SlotWritten
  <2>6. TablesOk' BY <1>1, <1>2, <2>5, WrittenIs
  <2>7. o \in Existing BY <1>2, <1>10 DEF Live, Existing
  <2>8. \A m \in Outcomes : GetIn(o, key, m)' = Found(val) BY <1>1, <1>10, <2>5, <2>7, WrittenIsFound
  <2>9. PICK c, w : c = croot' /\ w = "slot" OBVIOUS
  <2>10. NoteIs(o, key, val, w) /\ w # "root" BY <1>5, <2>1, <2>9 DEF Nowhere
  <2>11. ReadsBack' BY <2>8, <2>9, <2>10, ReadsBackAfter
  <2>12. ObjectsOk' /\ ClassMap' = ClassMap /\ InstanceMap' = InstanceMap BY <1>1, <1>2, <2>3, Untouched
  <2> QED BY <2>6, <2>11, <2>12
<1>11. CASE o \in Instances /\ at = o /\ IsField(cls[inst[o].class], key)
  <2>1. at \notin Tables /\ at \notin Nowhere BY <1>11, TypesAssumption DEF Nowhere
  <2>2. where = o BY <1>4, <1>11, <2>1 DEF Nowhere
  <2>3. tab' = tab /\ inst' = InstanceSet(o, key, val) BY <1>5, <1>11, <2>1, <2>2
  <2>4. TablesOk' BY <1>1, <1>2, <2>3, TablesKept
  <2>5. inst[o] # None BY <1>2, <1>11 DEF Live
  <2>6. \A m \in Outcomes : GetIn(o, key, m)' = Found(val) BY <1>1, <1>2, <1>11, <2>3, <2>5, FieldIsFound
  <2>7. PICK c, w : c = croot' /\ w = "slot" OBVIOUS
  <2>8. NoteIs(o, key, val, w) /\ w # "root" BY <1>5, <2>1, <2>7 DEF Nowhere
  <2>9. ReadsBack' BY <2>6, <2>7, <2>8, ReadsBackAfter
  <2>10. ObjectsOk' /\ ClassMap' = ClassMap /\ (Records!Assign(o) \/ InstanceMap' = InstanceMap)
    BY <1>1, <1>2, <1>11, <2>3, <2>5, FieldAssigned
  <2> QED BY <1>11, <2>4, <2>9, <2>10
<1>12. at # "error" BY <1>4, <1>5
<1> QED BY <1>6, <1>8, <1>9, <1>10, <1>11, <1>12 DEF Nowhere

-----------------------------------------------------------------------------
(* The other steps on classes and instances.                               *)

Refines == Records!Next \/ (ClassMap' = ClassMap /\ InstanceMap' = InstanceMap)

\* They do not touch the tables, and make no note.
Aside == last' = Quiet /\ tab' = tab /\ root' = root /\ croot' = croot

LEMMA AsideIs ==
    ASSUME TablesOk, Aside
    PROVE  TablesOk' /\ ReadsBack'
PROOF
<1>1. TablesOk' BY TablesKept DEF Aside
<1>2. last'.op = "none" BY DEF Aside, Quiet
<1>3. last'.op # "set" BY <1>2
<1> QED BY <1>1, <1>3 DEF ReadsBack

LEMMA NewClassStep ==
    ASSUME OInv, NEW c \in Classes, NEW b \in Classes \cup {None}, NEW a \in Attrs, NEW mm, NewClass(c, b, a, mm)
    PROVE  ObjectsOk' /\ Refines /\ Aside
PROOF
<1>1. /\ ObjectsOk /\ cls[c] = None /\ (b # None => cls[b] # None)
      /\ cls' = [cls EXCEPT ![c] = [FreshClass(b) EXCEPT !.attrs = IF mm = "ok" THEN a ELSE "null"]]
      /\ inst' = inst
  BY DEF OInv, NewClass
<1>2. PICK e : e = IF mm = "ok" THEN a ELSE "null" OBVIOUS
<1>3. e \in Attrs BY <1>2, ObjectsAssumption
<1>4. PICK d : d = [FreshClass(b) EXCEPT !.attrs = e] OBVIOUS
<1>5. ClassOk(d) /\ Derived(d, b) BY <1>1, <1>3, <1>4, FreshIs
<1>6. cls' = [cls EXCEPT ![c] = d] BY <1>1, <1>2, <1>4
<1>7. ObjectsOk' /\ Records!Derive(c, b) BY <1>1, <1>5, <1>6, ClassMade
<1>8. Aside BY DEF NewClass, Others, Aside
<1> QED BY <1>7, <1>8 DEF Refines, Records!Next

LEMMA FreshAsIs ==
    ASSUME ObjectsOk, NEW b \in Classes \cup {None}, b # None => cls[b] # None, NEW d, d = FreshClass(b)
    PROVE  ClassOk(d) /\ Derived(d, b)
PROOF
<1>1. PICK a : a = "null" OBVIOUS
<1>2. a \in Attrs BY <1>1, ObjectsAssumption
<1>3. d = [FreshClass(b) EXCEPT !.attrs = a]
  <2>1. CASE b = None
    <3>1. PICK e : e = Empty OBVIOUS
    <3>2. IsRecord(e) /\ e.attrs = a BY <1>1, <3>1, EmptyOk, ClassIs DEF Empty
    <3>3. d = e BY <2>1, <3>1 DEF FreshClass, Empty
    <3> QED BY <2>1, <3>2, <3>3 DEF IsRecord
  <2>2. CASE b # None
    <3>1. PICK e, f : e = cls[b] /\ f = FALSE OBVIOUS
    <3>2. ClassOk(e) /\ IsRecord(e) BY <2>2, <3>1, ClassIs DEF ObjectsOk
    <3>3. FreshClass(b) = [e EXCEPT !.base = b, !.attrs = a, !.locked = f] BY <1>1, <2>2, <3>1 DEF FreshClass
    <3>4. PICK t, ms, df, mt, ct : t = e.members /\ ms = e.metas /\ df = e.defaults /\ mt = e.methods /\ ct = e.ctor
      OBVIOUS
    <3>5. FreshClass(b) = [base |-> b, locked |-> f, attrs |-> a, ctor |-> ct,
                           members |-> t, defaults |-> df, methods |-> mt, metas |-> ms]
      BY <3>2, <3>3, <3>4 DEF IsRecord
    <3> QED BY <3>5
  <2> QED BY <2>1, <2>2
<1> QED BY <1>2, <1>3, FreshIs

LEMMA HostNewClassStep ==
    ASSUME OInv, NEW c \in Classes, NEW b \in Classes \cup {None}, HostNewClass(c, b)
    PROVE  ObjectsOk' /\ Refines /\ Aside
PROOF
<1>1. /\ ObjectsOk /\ cls[c] = None /\ (b # None => cls[b] # None)
      /\ cls' = [cls EXCEPT ![c] = FreshClass(b)] /\ inst' = inst
  BY DEF OInv, HostNewClass
<1>2. PICK d : d = FreshClass(b) OBVIOUS
<1>3. ClassOk(d) /\ Derived(d, b) BY <1>1, <1>2, FreshAsIs
<1>4. cls' = [cls EXCEPT ![c] = d] BY <1>1, <1>2
<1>5. ObjectsOk' /\ Records!Derive(c, b) BY <1>1, <1>3, <1>4, ClassMade
<1>6. Aside BY DEF HostNewClass, Others, Aside
<1> QED BY <1>5, <1>6 DEF Refines, Records!Next

\* A class is changed in one slot.
LEMMA ChangedRefines ==
    ASSUME OInv, NEW c \in Classes, cls[c] # None, NEW d, ClassOk(d), NEW key, OneSlot(cls[c], d, key),
           cls' = [cls EXCEPT ![c] = d], inst' = inst
    PROVE  ObjectsOk' /\ Refines
PROOF
<1>1. ObjectsOk BY DEF OInv
<1>2. ObjectsOk' /\ InstanceMap' = InstanceMap /\ (Records!Define(c) \/ ClassMap' = ClassMap)
  BY <1>1, ClassChanged
<1> QED BY <1>2 DEF Refines, Records!Next

LEMMA NewMemberStep ==
    ASSUME OInv, NEW c \in Classes, NEW key \in Names, NEW val \in AllValues, NEW a \in Attrs,
           NEW bstatic \in BOOLEAN, NEW raw, NewMember(c, key, val, a, bstatic, raw)
    PROVE  ObjectsOk' /\ Refines /\ Aside
PROOF
<1>1. PICK k, d : k = cls[c] /\ d = ClassNewSlot(cls[c], key, val, bstatic) OBVIOUS
<1>2. /\ ObjectsOk /\ k # None /\ d # None
      /\ cls' = [cls EXCEPT ![c] = IF a = "null" THEN d ELSE WithAttributes(d, key, a)] /\ inst' = inst
  BY <1>1 DEF OInv, NewMember
<1>3. ClassOk(k) BY <1>1, <1>2, ClassIn
<1>4. ClassOk(d) /\ OneSlot(k, d, key) BY <1>1, <1>2, <1>3, NewSlotIs
<1>5. PICK e : e = WithAttributes(d, key, a) OBVIOUS
<1>6. ClassOk(e) /\ OneSlot(d, e, key) BY <1>4, <1>5, AttributesAre
<1>7. OneSlot(k, e, key) BY <1>4, <1>6, OneSlotAgain
<1>8. PICK n : n = IF a = "null" THEN d ELSE e OBVIOUS
<1>9. ClassOk(n) /\ OneSlot(k, n, key) BY <1>4, <1>6, <1>7, <1>8
<1>10. cls' = [cls EXCEPT ![c] = n] BY <1>2, <1>5, <1>8
<1>11. ObjectsOk' /\ Refines BY <1>1, <1>2, <1>9, <1>10, ChangedRefines
<1>12. Aside BY DEF NewMember, Others, Aside
<1> QED BY <1>11, <1>12

LEMMA SetAttributesStep ==
    ASSUME OInv, NEW c \in Classes, NEW key \in Names \cup {None}, NEW a \in Attrs, SetAttributes(c, key, a)
    PROVE  ObjectsOk' /\ Refines /\ Aside
PROOF
<1>1. PICK k : k = cls[c] OBVIOUS
<1>2. /\ ObjectsOk /\ k # None /\ DOMAIN cls = Classes /\ inst' = inst
      /\ cls' = [cls EXCEPT ![c] = IF key = None THEN [k EXCEPT !.attrs = a] ELSE WithAttributes(k, key, a)]
  BY <1>1 DEF OInv, SetAttributes, ObjectsOk
<1>3. ClassOk(k) BY <1>1, <1>2, ClassIn
<1>4. PICK d : d = IF key = None THEN [k EXCEPT !.attrs = a] ELSE WithAttributes(k, key, a) OBVIOUS
<1>5. ClassOk(d) /\ OneSlot(k, d, key)
  <2>1. CASE key # None
    <3>1. d = WithAttributes(k, key, a) BY <1>4, <2>1
    <3> QED BY <1>3, <3>1, AttributesAre
  <2>2. CASE key = None
    <3>1. d = [k EXCEPT !.attrs = a] BY <1>4, <2>2
    <3>2. IsRecord(k) /\ Typed(k) BY <1>3, ClassIs
    <3>3. PICK b, l, ms : b = k.base /\ l = k.locked /\ ms = k.metas OBVIOUS
    <3>4. b \in Classes \cup {None} /\ l \in BOOLEAN /\ ms \in [DOMAIN ms -> AllValues] /\ DOMAIN ms \subseteq MetaNames
      BY <3>2, <3>3 DEF Typed
    <3>5. d = WithRest(k, b, l, a, ms) BY <3>1, <3>2, <3>3 DEF IsRecord, WithRest
    <3>6. ClassOk(d) /\ RestIs(k, d, b, l) BY <1>3, <3>4, <3>5, RestChanged
    <3>7. d.base = k.base /\ d.locked = k.locked /\ d.members = k.members /\ d.defaults = k.defaults /\ d.methods = k.methods
      BY <3>3, <3>6 DEF RestIs
    <3>8. OneSlot(k, d, key) BY <3>7, OneSlotNone
    <3> QED BY <3>6, <3>8
  <2> QED BY <2>1, <2>2
<1>6. cls' = [cls EXCEPT ![c] = d] BY <1>2, <1>4
<1>7. ObjectsOk' /\ Refines BY <1>1, <1>2, <1>5, <1>6, ChangedRefines
<1>8. Aside BY DEF SetAttributes, Others, Aside
<1> QED BY <1>7, <1>8

LEMMA InstanceStepOne ==
    ASSUME OInv, NEW i \in Instances, NEW c \in Classes, Instance(i, c)
    PROVE  ObjectsOk' /\ Refines /\ Aside
PROOF
<1>1. ObjectsOk' /\ Records!Instantiate(i, c) BY InstanceMade DEF OInv, Instance
<1>2. Aside BY DEF Instance, Others, Aside
<1> QED BY <1>1, <1>2 DEF Refines, Records!Next

LEMMA CloneInstanceStep ==
    ASSUME OInv, NEW i \in Instances, NEW j \in Instances, NEW mm, CloneInstance(i, j, mm)
    PROVE  ObjectsOk' /\ Refines /\ Aside
PROOF
<1>1. ObjectsOk /\ cls' = cls /\ inst[i] = None /\ inst[j] # None BY DEF OInv, CloneInstance
<1>2. Aside BY DEF CloneInstance, Others, Aside
<1>3. CASE mm = "ok"
  <2>1. inst' = [inst EXCEPT ![i] = inst[j]] BY <1>3 DEF CloneInstance
  <2>2. ObjectsOk' /\ Records!Copy(i, j) BY <1>1, <2>1, InstanceCopied
  <2> QED BY <1>2, <2>2 DEF Refines, Records!Next
<1>4. CASE mm # "ok"
  <2>1. inst' = inst BY <1>4 DEF CloneInstance
  <2>2. ObjectsOk' /\ ClassMap' = ClassMap /\ InstanceMap' = InstanceMap BY <1>1, <2>1, Untouched
  <2> QED BY <1>2, <2>2 DEF Refines
<1> QED BY <1>3, <1>4

LEMMA SetByHandleStep ==
    ASSUME OInv, NEW o \in Instances \cup Classes, NEW key, NEW val \in AllValues, SetByHandle(o, key, val)
    PROVE  ObjectsOk' /\ Refines /\ Aside
PROOF
<1>1. ObjectsOk /\ DOMAIN cls = Classes BY DEF OInv, ObjectsOk
<1>2. Aside BY DEF SetByHandle, Others, Aside
<1>3. PICK c : c = ClassOf(o) OBVIOUS
<1>4. PICK k, n : k = cls[c] /\ n = cls[c].members[key].idx OBVIOUS
<1>5. Live(o) /\ key \in DOMAIN k.members BY <1>3, <1>4 DEF SetByHandle
<1>6. c \in Classes /\ k # None
  <2>1. CASE o \in Instances
    <3>1. c = inst[o].class /\ inst[o] # None BY <1>3, <1>5, <2>1 DEF ClassOf, Live
    <3> QED BY <1>1, <1>4, <2>1, <3>1, InstanceIn
  <2>2. CASE o \notin Instances BY <1>3, <1>4, <1>5, <2>2 DEF ClassOf, Live
  <2> QED BY <2>1, <2>2
<1>7. ClassOk(k) BY <1>1, <1>4, <1>6, ClassIn
<1>8. CASE ~IsField(k, key)
  <2>1. cls' = [cls EXCEPT ![c].methods[n].val = val] /\ inst' = inst
    BY <1>3, <1>4, <1>8 DEF SetByHandle, MemberHandle
  <2>2. PICK d : d = [k EXCEPT !.methods[n].val = val] OBVIOUS
  <2>3. cls' = [cls EXCEPT ![c] = d] BY <1>4, <2>1, <2>2
  <2>4. d = IF IsField(k, key) THEN [k EXCEPT !.defaults[k.members[key].idx].val = val]
            ELSE [k EXCEPT !.methods[k.members[key].idx].val = val]
    BY <1>4, <1>8, <2>2
  <2>5. ClassOk(d) /\ OneSlot(k, d, key) BY <1>5, <1>7, <2>4, ValueSet
  <2> QED BY <1>2, <1>4, <1>6, <2>1, <2>3, <2>5, ChangedRefines
<1>9. CASE IsField(k, key) /\ o \in Instances
  <2>1. inst' = [inst EXCEPT ![o].values[n] = val] /\ cls' = cls
    BY <1>3, <1>4, <1>9 DEF SetByHandle, MemberHandle
  <2>2. c = inst[o].class /\ inst[o] # None BY <1>3, <1>5, <1>9 DEF ClassOf, Live
  <2>3. inst' = InstanceSet(o, key, val) BY <1>4, <2>1, <2>2 DEF InstanceSet
  <2>4. ObjectsOk' /\ ClassMap' = ClassMap /\ (Records!Assign(o) \/ InstanceMap' = InstanceMap)
    BY <1>1, <1>4, <1>9, <2>1, <2>2, <2>3, FieldAssigned
  <2> QED BY <1>2, <1>9, <2>4 DEF Refines, Records!Next
<1>10. CASE IsField(k, key) /\ o \notin Instances
  <2>1. cls' = [cls EXCEPT ![c].defaults[n].val = val] /\ inst' = inst
    BY <1>3, <1>4, <1>10 DEF SetByHandle, MemberHandle
  <2>2. PICK d : d = [k EXCEPT !.defaults[n].val = val] OBVIOUS
  <2>3. cls' = [cls EXCEPT ![c] = d] BY <1>4, <2>1, <2>2
  <2>4. d = IF IsField(k, key) THEN [k EXCEPT !.defaults[k.members[key].idx].val = val]
            ELSE [k EXCEPT !.methods[k.members[key].idx].val = val]
    BY <1>4, <1>10, <2>2
  <2>5. ClassOk(d) /\ OneSlot(k, d, key) BY <1>5, <1>7, <2>4, ValueSet
  <2> QED BY <1>2, <1>4, <1>6, <2>1, <2>3, <2>5, ChangedRefines
<1> QED BY <1>8, <1>9, <1>10

-----------------------------------------------------------------------------
(* The other steps on tables.                                              *)

\* What they all do.
TableOnly == ObjectsOk' /\ TablesOk' /\ ReadsBack' /\ ClassMap' = ClassMap /\ InstanceMap' = InstanceMap

LEMMA TableOnlyIs ==
    ASSUME OInv, last' = Quiet, cls' = cls, inst' = inst, TablesOk'
    PROVE  TableOnly
PROOF
<1>1. ObjectsOk' /\ ClassMap' = ClassMap /\ InstanceMap' = InstanceMap BY Untouched DEF OInv
<1>2. last'.op = "none" BY DEF Quiet
<1>3. last'.op # "set" BY <1>2
<1>4. ReadsBack' BY <1>3 DEF ReadsBack
<1> QED BY <1>1, <1>4 DEF TableOnly

LEMMA OnTableIs ==
    ASSUME OInv, NEW t \in Tables, NEW x, Fits(x), x.delegate # None => tab[x.delegate] # None, OnTable(t, x)
    PROVE  TableOnly
PROOF
<1>1. /\ TablesOk /\ tab' = [tab EXCEPT ![t] = x] /\ last' = Quiet /\ cls' = cls /\ inst' = inst
      /\ root' = root /\ croot' = croot
  BY DEF OInv, OnTable
<1>2. root' \in Tables /\ tab[root'] # None /\ croot' \in Tables /\ tab[croot'] # None BY <1>1 DEF TablesOk
<1>3. TablesOk' BY <1>1, <1>2, TableChanged
<1> QED BY <1>1, <1>3, TableOnlyIs

\* Other slots of a table that is there.
LEMMA OnSlotsOf ==
    ASSUME OInv, NEW t \in Tables, tab[t] # None, NEW s, s \in [DOMAIN s -> AllValues], DOMAIN s \subseteq Names,
           OnTable(t, [tab[t] EXCEPT !.slots = s])
    PROVE  TableOnly
PROOF
<1>1. PICK x, y : x = tab[t] /\ y = [tab[t] EXCEPT !.slots = s] OBVIOUS
<1>2. Fits(x) /\ (x.delegate # None => tab[x.delegate] # None) BY <1>1, TableIn DEF OInv
<1>3. y = [x EXCEPT !.slots = s] BY <1>1
<1>4. Fits(y) /\ y.delegate = x.delegate BY <1>2, <1>3, SlotsFit
<1>5. OnTable(t, y) BY <1>1
<1> QED BY <1>2, <1>4, <1>5, OnTableIs

LEMMA SlotsOf ==
    ASSUME OInv, NEW t \in Tables, tab[t] # None
    PROVE  tab[t].slots \in [DOMAIN tab[t].slots -> AllValues] /\ DOMAIN tab[t].slots \subseteq Names
BY TableIn DEF OInv, Fits

LEMMA PutStep ==
    ASSUME OInv, NEW t \in Tables, tab[t] # None, NEW key \in Names, NEW val \in AllValues,
           OnTable(t, [tab[t] EXCEPT !.slots = Put(@, key, val)])
    PROVE  TableOnly
PROOF
<1>1. PICK p : p = tab[t].slots OBVIOUS
<1>2. p \in [DOMAIN p -> AllValues] /\ DOMAIN p \subseteq Names BY <1>1, SlotsOf
<1>3. PICK s : s = Put(p, key, val) OBVIOUS
<1>4. s \in [DOMAIN s -> AllValues] BY <1>2, <1>3, PutTyped
<1>5. DOMAIN s \subseteq Names BY <1>2, <1>3 DEF Put
<1>6. OnTable(t, [tab[t] EXCEPT !.slots = s]) BY <1>1, <1>3
<1> QED BY <1>4, <1>5, <1>6, OnSlotsOf

LEMMA DropStep ==
    ASSUME OInv, NEW t \in Tables, tab[t] # None, NEW key,
           OnTable(t, [tab[t] EXCEPT !.slots = [k \in DOMAIN @ \ {key} |-> @[k]]])
    PROVE  TableOnly
PROOF
<1>1. PICK p : p = tab[t].slots OBVIOUS
<1>2. p \in [DOMAIN p -> AllValues] /\ DOMAIN p \subseteq Names BY <1>1, SlotsOf
<1>3. PICK s : s = [k \in DOMAIN p \ {key} |-> p[k]] OBVIOUS
<1>4. s \in [DOMAIN s -> AllValues] /\ DOMAIN s \subseteq Names BY <1>2, <1>3
<1>5. OnTable(t, [tab[t] EXCEPT !.slots = s]) BY <1>1, <1>3
<1> QED BY <1>4, <1>5, OnSlotsOf

LEMMA ClearStep ==
    ASSUME OInv, NEW t \in Tables, Clear(t)
    PROVE  TableOnly
PROOF
<1>1. PICK s : s = <<>> OBVIOUS
<1>2. tab[t] # None /\ OnTable(t, [tab[t] EXCEPT !.slots = s]) BY <1>1 DEF Clear, Live
<1>3. s \in [DOMAIN s -> AllValues] /\ DOMAIN s \subseteq Names BY <1>1
<1> QED BY <1>2, <1>3, OnSlotsOf

LEMMA NewTableStep ==
    ASSUME OInv, NEW t \in Tables, NewTable(t)
    PROVE  TableOnly
PROOF
<1>1. PICK d, x : d = None /\ x = [slots |-> <<>>, delegate |-> d] OBVIOUS
<1>2. Fits(x) /\ x.delegate = None BY <1>1, EmptyFits
<1>3. OnTable(t, x) BY <1>1 DEF NewTable
<1> QED BY <1>2, <1>3, OnTableIs

LEMMA SetDelegateStep ==
    ASSUME OInv, NEW t \in Tables, NEW d \in Tables \cup {None}, SetDelegate(t, d)
    PROVE  TableOnly
PROOF
<1>1. PICK x, y : x = tab[t] /\ y = [tab[t] EXCEPT !.delegate = d] OBVIOUS
<1>2. x # None /\ (d # None => tab[d] # None) /\ OnTable(t, y) BY <1>1 DEF SetDelegate, Live
<1>3. Fits(x) BY <1>1, <1>2, TableIn DEF OInv
<1>4. y = [x EXCEPT !.delegate = d] BY <1>1
<1>5. Fits(y) /\ y.delegate = d BY <1>3, <1>4, DelegateFits
<1> QED BY <1>2, <1>5, OnTableIs

\* A table, or a class, that is replaced by itself.
LEMMA SameTables ==
    ASSUME TablesOk, NEW t \in Tables, tab' = [tab EXCEPT ![t] = tab[t]], root' = root, croot' = croot
    PROVE  TablesOk'
PROOF
<1>1. DOMAIN tab' = Tables /\ \A u \in Tables : tab'[u] = tab[u] BY DEF TablesOk
<1>2. ASSUME NEW u \in Tables, tab'[u] # None PROVE TableOk(tab[u])'
  <2>1. PICK y : y = tab'[u] OBVIOUS
  <2>2. TableOk(y) /\ tab[u] # None BY <1>1, <1>2, <2>1 DEF TablesOk
  <2>3. Fits(y) /\ (y.delegate # None => tab[y.delegate] # None) BY <2>2, TableIs
  <2>4. y.delegate # None => tab'[y.delegate] # None BY <1>1, <2>3 DEF Fits
  <2>5. TableOk(y)' BY <2>3, <2>4, TableIsAfter
  <2> QED BY <2>1, <2>5
<1> QED BY <1>1, <1>2 DEF TablesOk

LEMMA SameClasses ==
    ASSUME OInv, NEW c \in Classes, cls' = [cls EXCEPT ![c] = cls[c]], cls[c] # None, inst' = inst
    PROVE  ObjectsOk' /\ Refines
PROOF
<1>1. ObjectsOk BY DEF OInv
<1>2. PICK k, key : k = cls[c] /\ key = None OBVIOUS
<1>3. ClassOk(k) BY <1>1, <1>2, ClassIn
<1>4. OneSlot(k, k, key) BY OneSlotNone
<1> QED BY <1>2, <1>3, <1>4, ChangedRefines

LEMMA CloneTableStep ==
    ASSUME OInv, NEW t \in Tables, NEW u \in Tables, NEW mm, CloneTable(t, u, mm)
    PROVE  TableOnly
PROOF
<1>1. tab[t] = None /\ tab[u] # None /\ OnTable(t, IF mm = "ok" THEN tab[u] ELSE None) BY DEF CloneTable, Live
<1>2. TablesOk /\ DOMAIN tab = Tables BY DEF OInv, TablesOk
<1>3. CASE mm = "ok"
  <2>1. PICK x : x = tab[u] OBVIOUS
  <2>2. Fits(x) /\ (x.delegate # None => tab[x.delegate] # None) BY <1>1, <1>2, <2>1, TableIn
  <2>3. OnTable(t, x) BY <1>1, <1>3, <2>1
  <2> QED BY <2>2, <2>3, OnTableIs
<1>4. CASE mm # "ok"
  <2>1. tab' = [tab EXCEPT ![t] = None] BY <1>1, <1>4 DEF OnTable
  <2>2. tab' = [tab EXCEPT ![t] = tab[t]] BY <1>1, <2>1
  <2>3. root' = root /\ croot' = croot /\ last' = Quiet /\ cls' = cls /\ inst' = inst BY <1>1 DEF OnTable
  <2>4. TablesOk' BY <1>2, <2>2, <2>3, SameTables
  <2> QED BY <2>3, <2>4, TableOnlyIs
<1> QED BY <1>3, <1>4

LEMMA RootsStep ==
    ASSUME OInv, NEW t \in Tables, SetRootTable(t) \/ SetClosureRoot(t)
    PROVE  TableOnly
PROOF
<1>1. tab[t] # None /\ (Roots(t, croot) \/ Roots(root, t)) BY DEF SetRootTable, SetClosureRoot, Live
<1>2. tab' = tab /\ last' = Quiet /\ cls' = cls /\ inst' = inst BY <1>1 DEF Roots
<1>3. (root' = t \/ root' = root) /\ (croot' = t \/ croot' = croot) BY <1>1 DEF Roots
<1>4. TablesOk' BY <1>1, <1>2, <1>3 DEF OInv, TablesOk, TableOk
<1> QED BY <1>2, <1>4, TableOnlyIs

LEMMA RawSetStep ==
    ASSUME OInv, NEW o \in Tables \cup Instances \cup Classes, NEW key \in Names, NEW val \in AllValues,
           RawSet(o, key, val)
    PROVE  ObjectsOk' /\ TablesOk' /\ ReadsBack' /\ Refines
PROOF
<1>1. Live(o) /\ ObjectsOk /\ TablesOk BY DEF RawSet, OInv
<1>2. CASE o \in Tables /\ OnTable(o, [tab[o] EXCEPT !.slots = Put(@, key, val)])
  <2>1. tab[o] # None BY <1>1, <1>2 DEF Live
  <2>2. TableOnly BY <1>2, <2>1, PutStep
  <2> QED BY <2>2 DEF TableOnly, Refines
<1>3. CASE /\ o \in Classes
           /\ cls' = [cls EXCEPT ![o] = IF ClassNewSlot(cls[o], key, val, FALSE) = None THEN @
                                        ELSE ClassNewSlot(cls[o], key, val, FALSE)]
           /\ last' = Quiet /\ UNCHANGED inst /\ Others
  <2>1. Aside BY <1>3 DEF Others, Aside
  <2>2. TablesOk' /\ ReadsBack' BY <1>1, <2>1, AsideIs
  <2>3. PICK f : f = FALSE OBVIOUS
  <2>4. PICK k, d : k = cls[o] /\ d = ClassNewSlot(cls[o], key, val, f) OBVIOUS
  <2>5. k # None /\ inst' = inst /\ f \in BOOLEAN BY <1>1, <1>3, <2>3, <2>4 DEF Live
  <2>6. ClassOk(k) BY <1>1, <1>3, <2>4, <2>5, ClassIn
  <2>7. CASE d = None
    <3>1. cls' = [cls EXCEPT ![o] = cls[o]] BY <1>3, <2>3, <2>4, <2>7
    <3>2. ObjectsOk' /\ Refines BY <1>3, <2>4, <2>5, <3>1, SameClasses
    <3> QED BY <2>2, <3>2
  <2>8. CASE d # None
    <3>1. ClassOk(d) /\ OneSlot(k, d, key) BY <2>4, <2>5, <2>6, <2>8, NewSlotIs
    <3>2. cls' = [cls EXCEPT ![o] = d] BY <1>3, <2>3, <2>4, <2>8
    <3>3. ObjectsOk' /\ Refines BY <1>3, <2>4, <2>5, <3>1, <3>2, ChangedRefines
    <3> QED BY <2>2, <3>3
  <2> QED BY <2>7, <2>8
<1>4. CASE /\ o \in Instances /\ IsField(cls[inst[o].class], key)
           /\ inst' = InstanceSet(o, key, val)
           /\ last' = Quiet /\ UNCHANGED cls /\ Others
  <2>1. Aside BY <1>4 DEF Others, Aside
  <2>2. TablesOk' /\ ReadsBack' BY <1>1, <2>1, AsideIs
  <2>3. inst[o] # None /\ cls' = cls BY <1>1, <1>4 DEF Live
  <2>4. ObjectsOk' /\ ClassMap' = ClassMap /\ (Records!Assign(o) \/ InstanceMap' = InstanceMap)
    BY <1>1, <1>4, <2>3, FieldAssigned
  <2> QED BY <1>4, <2>2, <2>4 DEF Refines, Records!Next
<1> QED BY <1>2, <1>3, <1>4 DEF RawSet

-----------------------------------------------------------------------------
(* The theorems.                                                           *)

LEMMA InitOk == Init => OInv /\ ReadsBack /\ Records!Init
PROOF
<1>1. SUFFICES ASSUME Init PROVE OInv /\ ReadsBack /\ Records!Init OBVIOUS
<1>2. ObjectsOk BY <1>1 DEF Init, ObjectsOk
<1>3. TablesOk
  <2>1. PICK x : x = [slots |-> <<>>, delegate |-> None] OBVIOUS
  <2>2. Fits(x) /\ x.delegate = None BY <2>1, EmptyFits
  <2>3. TableOk(x) /\ x # None BY <2>2, TableIs, FitsNotNone
  <2>4. Root \in Tables BY ObjectsAssumption
  <2>5. tab[Root] = x /\ \A t \in Tables : t # Root => tab[t] = None BY <1>1, <2>1, <2>4 DEF Init
  <2>6. DOMAIN tab = Tables /\ root = Root /\ croot = Root BY <1>1 DEF Init
  <2>7. ASSUME NEW t \in Tables, tab[t] # None PROVE TableOk(tab[t])
    <3>1. t = Root BY <2>5, <2>7
    <3> QED BY <2>3, <2>5, <3>1
  <2> QED BY <2>3, <2>4, <2>5, <2>6, <2>7 DEF TablesOk
<1>4. world \in Worlds BY <1>1 DEF Init
<1>5. last.op # "set" BY <1>1 DEF Init, Quiet
<1>6. ReadsBack BY <1>5 DEF ReadsBack
<1>7. ClassMap = [c \in Classes |-> None] /\ InstanceMap = [i \in Instances |-> None]
  BY <1>1, ClassMapIs, InstanceMapIs DEF Init
<1> QED BY <1>2, <1>3, <1>4, <1>6, <1>7 DEF OInv, Records!Init

\* What a world is made of.
LEMMA WorldIs ==
    ASSUME OInv
    PROVE  /\ world.classes \subseteq Classes /\ world.instances \subseteq Instances
           /\ world.tables \subseteq Tables /\ world.names \subseteq Names /\ world.attrs \subseteq Attrs
           /\ Given \subseteq AllValues
BY ObjectsAssumption, GivenTyped DEF OInv

StepOk == ObjectsOk' /\ TablesOk' /\ ReadsBack' /\ Refines

LEMMA AsideStep ==
    ASSUME OInv, ObjectsOk', Refines, Aside
    PROVE  StepOk
BY AsideIs DEF OInv, StepOk

LEMMA TableOnlyStep ==
    ASSUME TableOnly
    PROVE  StepOk
BY DEF TableOnly, StepOk, Refines

LEMMA ClassStepOk ==
    ASSUME OInv, ClassStep
    PROVE  StepOk
PROOF
<1>1. PICK c \in world.classes :
        \/ \E b \in world.classes \cup {None} :
             \/ HostNewClass(c, b)
             \/ \E a \in world.attrs, mm \in {"ok", "error"} : NewClass(c, b, a, mm)
        \/ \E key \in world.names, val \in Given, a \in world.attrs, bstatic, raw \in BOOLEAN :
             NewMember(c, key, val, a, bstatic, raw)
        \/ \E key \in world.names \cup {None}, a \in world.attrs : SetAttributes(c, key, a)
        \/ \E i \in world.instances : Instance(i, c)
  BY DEF ClassStep
<1>2. c \in Classes BY WorldIs
<1>3. ASSUME NEW b \in world.classes \cup {None}, HostNewClass(c, b) PROVE StepOk
  <2>1. b \in Classes \cup {None} BY WorldIs
  <2> QED BY <1>2, <1>3, <2>1, HostNewClassStep, AsideStep
<1>4. ASSUME NEW b \in world.classes \cup {None}, NEW a \in world.attrs, NEW mm, NewClass(c, b, a, mm) PROVE StepOk
  <2>1. b \in Classes \cup {None} /\ a \in Attrs BY WorldIs
  <2> QED BY <1>2, <1>4, <2>1, NewClassStep, AsideStep
<1>5. ASSUME NEW key \in world.names, NEW val \in Given, NEW a \in world.attrs, NEW bstatic \in BOOLEAN, NEW raw,
             NewMember(c, key, val, a, bstatic, raw)
      PROVE  StepOk
  <2>1. key \in Names /\ val \in AllValues /\ a \in Attrs BY WorldIs
  <2> QED BY <1>2, <1>5, <2>1, NewMemberStep, AsideStep
<1>6. ASSUME NEW key \in world.names \cup {None}, NEW a \in world.attrs, SetAttributes(c, key, a) PROVE StepOk
  <2>1. key \in Names \cup {None} /\ a \in Attrs BY WorldIs
  <2> QED BY <1>2, <1>6, <2>1, SetAttributesStep, AsideStep
<1>7. ASSUME NEW i \in world.instances, Instance(i, c) PROVE StepOk
  <2>1. i \in Instances BY WorldIs
  <2> QED BY <1>2, <1>7, <2>1, InstanceStepOne, AsideStep
<1> QED BY <1>1, <1>3, <1>4, <1>5, <1>6, <1>7

LEMMA InstanceStepOk ==
    ASSUME OInv, InstanceStep
    PROVE  StepOk
PROOF
<1>1. ASSUME NEW i \in world.instances, NEW j \in world.instances, NEW mm, CloneInstance(i, j, mm) PROVE StepOk
  <2>1. i \in Instances /\ j \in Instances BY WorldIs
  <2> QED BY <1>1, <2>1, CloneInstanceStep, AsideStep
<1>2. ASSUME NEW o \in world.instances \cup world.classes, NEW key, NEW val \in Given, SetByHandle(o, key, val)
      PROVE  StepOk
  <2>1. o \in Instances \cup Classes /\ val \in AllValues BY WorldIs
  <2> QED BY <1>2, <2>1, SetByHandleStep, AsideStep
<1> QED BY <1>1, <1>2 DEF InstanceStep

LEMMA SlotStepOk ==
    ASSUME OInv, SlotStep
    PROVE  StepOk
PROOF
<1>1. PICK key \in world.names :
        \/ \E o \in world.tables \cup world.instances \cup world.classes, val \in Given :
             \/ \E mm \in Outcomes : Set(o, key, val, mm)
             \/ RawSet(o, key, val)
        \/ \E t \in world.tables :
             (\E val \in Given : NewSlot(t, key, val)) \/ DeleteSlot(t, key) \/ RawDeleteSlot(t, key)
  BY DEF SlotStep
<1>2. key \in Names BY WorldIs
<1>3. ASSUME NEW o \in world.tables \cup world.instances \cup world.classes, NEW val \in Given, NEW mm,
             Set(o, key, val, mm)
      PROVE  StepOk
  <2>1. o \in Tables \cup Instances \cup Classes /\ val \in AllValues BY WorldIs
  <2>2. /\ ObjectsOk' /\ TablesOk' /\ ReadsBack' /\ ClassMap' = ClassMap
        /\ InstanceMap' = InstanceMap \/ \E i \in Instances : Records!Assign(i)
    BY <1>3, <2>1, SetStep
  <2> QED BY <2>2 DEF StepOk, Refines, Records!Next
<1>4. ASSUME NEW o \in world.tables \cup world.instances \cup world.classes, NEW val \in Given,
             RawSet(o, key, val)
      PROVE  StepOk
  <2>1. o \in Tables \cup Instances \cup Classes /\ val \in AllValues BY WorldIs
  <2> QED BY <1>2, <1>4, <2>1, RawSetStep DEF StepOk
<1>5. ASSUME NEW t \in world.tables, NEW val \in Given, NewSlot(t, key, val) PROVE StepOk
  <2>1. t \in Tables /\ val \in AllValues BY WorldIs
  <2>2. tab[t] # None /\ OnTable(t, [tab[t] EXCEPT !.slots = Put(@, key, val)]) BY <1>5, <2>1 DEF NewSlot, Live
  <2>3. TableOnly BY <1>2, <2>1, <2>2, PutStep
  <2> QED BY <2>3, TableOnlyStep
<1>6. ASSUME NEW t \in world.tables, DeleteSlot(t, key) \/ RawDeleteSlot(t, key) PROVE StepOk
  <2>1. t \in Tables BY WorldIs
  <2>2. tab[t] # None /\ OnTable(t, [tab[t] EXCEPT !.slots = [k \in DOMAIN @ \ {key} |-> @[k]]])
    BY <1>6, <2>1 DEF DeleteSlot, RawDeleteSlot, Live
  <2>3. TableOnly BY <2>1, <2>2, DropStep
  <2> QED BY <2>3, TableOnlyStep
<1> QED BY <1>1, <1>3, <1>4, <1>5, <1>6

LEMMA TableStepOk ==
    ASSUME OInv, TableStep
    PROVE  StepOk
PROOF
<1>1. PICK t \in world.tables :
        \/ Clear(t) \/ NewTable(t) \/ SetRootTable(t) \/ SetClosureRoot(t)
        \/ \E d \in world.tables \cup {None} : SetDelegate(t, d)
        \/ \E u \in world.tables, mm \in {"ok", "error"} : CloneTable(t, u, mm)
  BY DEF TableStep
<1>2. t \in Tables BY WorldIs
<1>3. ASSUME Clear(t) PROVE TableOnly BY <1>2, <1>3, ClearStep
<1>4. ASSUME NewTable(t) PROVE TableOnly BY <1>2, <1>4, NewTableStep
<1>5. ASSUME SetRootTable(t) \/ SetClosureRoot(t) PROVE TableOnly BY <1>2, <1>5, RootsStep
<1>6. ASSUME NEW d \in world.tables \cup {None}, SetDelegate(t, d) PROVE TableOnly
  <2>1. d \in Tables \cup {None} BY WorldIs
  <2> QED BY <1>2, <1>6, <2>1, SetDelegateStep
<1>7. ASSUME NEW u \in world.tables, NEW mm, CloneTable(t, u, mm) PROVE TableOnly
  <2>1. u \in Tables BY WorldIs
  <2> QED BY <1>2, <1>7, <2>1, CloneTableStep
<1> QED BY <1>1, <1>3, <1>4, <1>5, <1>6, <1>7, TableOnlyStep

LEMMA WorldStays ==
    ASSUME Next
    PROVE  world' = world
PROOF
<1>1. ASSUME ClassStep PROVE world' = world
  BY <1>1 DEF ClassStep, NewClass, HostNewClass, NewMember, SetAttributes, Instance, Others
<1>2. ASSUME InstanceStep PROVE world' = world
  BY <1>2 DEF InstanceStep, CloneInstance, SetByHandle, Others
<1>3. ASSUME SlotStep PROVE world' = world
  <2>1. ASSUME NEW o, NEW key, NEW val, NEW mm, Set(o, key, val, mm) PROVE world' = world BY <2>1 DEF Set
  <2>2. ASSUME NEW o, NEW key, NEW val, RawSet(o, key, val) PROVE world' = world BY <2>2 DEF RawSet, OnTable, Others
  <2>3. ASSUME NEW t, NEW key, NEW val, NewSlot(t, key, val) PROVE world' = world BY <2>3 DEF NewSlot, OnTable
  <2>4. ASSUME NEW t, NEW key, DeleteSlot(t, key) \/ RawDeleteSlot(t, key) PROVE world' = world
    BY <2>4 DEF DeleteSlot, RawDeleteSlot, OnTable
  <2> QED BY <1>3, <2>1, <2>2, <2>3, <2>4 DEF SlotStep
<1>4. ASSUME TableStep PROVE world' = world
  BY <1>4 DEF TableStep, Clear, NewTable, SetRootTable, SetClosureRoot, Roots, SetDelegate, CloneTable, OnTable
<1> QED BY <1>1, <1>2, <1>3, <1>4 DEF Next

LEMMA StepIs ==
    ASSUME OInv, Next
    PROVE  OInv' /\ ReadsBack' /\ Refines
PROOF
<1>1. StepOk BY ClassStepOk, InstanceStepOk, SlotStepOk, TableStepOk DEF Next
<1>2. world' \in Worlds BY WorldStays DEF OInv
<1> QED BY <1>1, <1>2 DEF StepOk, OInv

\* Classes, instances and tables are well formed at all times: every
\* GSClass has its members numbered within its arrays, no two of a kind
\* alike, every GSInstance is of a locked class and has a value for each of
\* its fields, and delegates and root tables exist.
THEOREM ObjectsInvariant == Spec => []OInv
PROOF
<1>1. Init => OInv BY InitOk
<1>2. OInv /\ [Next]_vars => OInv'
  <2>1. SUFFICES ASSUME OInv, [Next]_vars PROVE OInv' OBVIOUS
  <2>2. CASE Next BY <2>1, <2>2, StepIs
  <2>3. CASE UNCHANGED vars
    <3>1. ObjectsOk' BY <2>1, <2>3 DEF OInv, ObjectsOk, InstanceOk, vars
    <3>2. TablesOk' BY <2>1, <2>3 DEF OInv, TablesOk, TableOk, vars
    <3>3. world' \in Worlds BY <2>1, <2>3 DEF OInv, vars
    <3> QED BY <3>1, <3>2, <3>3 DEF OInv
  <2> QED BY <2>1, <2>2, <2>3
<1> QED BY <1>1, <1>2, PTL DEF Spec

\* An instance has a value for every field its class will ever look up in it,
\* whatever NewSlot and derivation do after CreateInstance, and the numbers
\* of the members and of the constructor are right.
THEOREM ValuesAlwaysFit == Spec => []ValuesFit
PROOF
<1>1. OInv => ValuesFit
  <2>1. SUFFICES ASSUME OInv PROVE ValuesFit OBVIOUS
  <2>2. ObjectsOk BY <2>1 DEF OInv
  <2>3. ASSUME NEW i \in Instances, inst[i] # None
        PROVE  Len(inst[i].values) = Len(cls[inst[i].class].defaults)
    BY <2>2, <2>3, InstanceIn
  <2>4. ASSUME NEW c \in Classes, cls[c] # None PROVE Numbered(cls[c]) BY <2>2, <2>4 DEF ObjectsOk, ClassOk
  <2> QED BY <2>3, <2>4 DEF ValuesFit, Numbered, Array
<1> QED BY <1>1, ObjectsInvariant, PTL

LEMMA StutterReads ==
    ASSUME cls' = cls, inst' = inst, tab' = tab, root' = root, croot' = croot, last' = last, ReadsBack
    PROVE  ReadsBack'
PROOF
<1>1. ASSUME NEW o, NEW key, NEW mm PROVE GetIn(o, key, mm)' = GetIn(o, key, mm)
  BY DEF GetIn, Chain, RawGet, HasMeta, ClassGet, InstanceGet, IsField, DefaultGet
<1> QED BY <1>1 DEF ReadsBack, Get

\* What Set wrote through an object is what Get reads next, wherever along
\* the delegates the slot was found, and what it wrote in the root table is
\* read there unless something hides it.
THEOREM WrittenIsRead == Spec => []ReadsBack
PROOF
<1>1. Init => ReadsBack BY InitOk
<1>2. OInv /\ ReadsBack /\ [Next]_vars => ReadsBack'
  <2>1. SUFFICES ASSUME OInv, ReadsBack, [Next]_vars PROVE ReadsBack' OBVIOUS
  <2>2. CASE Next BY <2>1, <2>2, StepIs
  <2>3. CASE UNCHANGED vars BY <2>1, <2>3, StutterReads DEF vars
  <2> QED BY <2>1, <2>2, <2>3
<1> QED BY <1>1, <1>2, ObjectsInvariant, PTL DEF Spec

\* Classes and instances, kept as arrays that are indexed through a table of
\* member numbers, implement maps from names to slots: every operation of
\* GSClass and GSInstance changes one slot of one class or one instance,
\* derives a class, makes an instance or copies one.
THEOREM ClassesAreMaps == Spec => ImplementsRecords
PROOF
<1>1. Init => Records!Init BY InitOk
<1>2. OInv /\ [Next]_vars => [Records!Next]_<<ClassMap, InstanceMap>>
  <2>1. SUFFICES ASSUME OInv, [Next]_vars PROVE [Records!Next]_<<ClassMap, InstanceMap>> OBVIOUS
  <2>2. CASE Next
    <3>1. Refines BY <2>1, <2>2, StepIs
    <3> QED BY <3>1 DEF Refines
  <2>3. CASE UNCHANGED vars
    <3>1. ClassMap' = ClassMap /\ InstanceMap' = InstanceMap
      BY <2>3, MapsAfter, ClassMapIs, InstanceMapIs DEF vars
    <3> QED BY <3>1
  <2> QED BY <2>1, <2>2, <2>3
<1> QED BY <1>1, <1>2, ObjectsInvariant, PTL DEF Spec, ImplementsRecords, Records!Spec

=============================================================================
