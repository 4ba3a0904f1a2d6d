----------------------------- MODULE GSObjects -----------------------------
(***************************************************************************)
(* Slots of tables, classes and instances: GSClass and GSInstance           *)
(* (GSclass.cpp, GSclass.h), the virtual machine's Get, Set, NewSlot,      *)
(* DeleteSlot and Clone with their fallbacks through delegates,            *)
(* metamethods, default delegates and the root table (GSvm.cpp), and the   *)
(* raw operations of the API.                                              *)
(*                                                                         *)
(* A class keeps the values of its members in two arrays, one of defaults  *)
(* for the fields and one of methods (every static member), and a table    *)
(* that gives each name the kind and the number of its member; a derived   *)
(* class copies all three.  An instance is an array of values with the     *)
(* numbers of its class's fields.  Numbers count from 1.                   *)
(*                                                                         *)
(* A metamethod is script code: what it does to objects are steps of their *)
(* own, taken before the operation that called it returns (none of the     *)
(* operations reads these objects again after the call).  Its result is    *)
(* any of "ok", "error" and "clean", the failure with a null error that    *)
(* means "not found".                                                      *)
(***************************************************************************)
EXTENDS Integers, Sequences, FiniteSets

CONSTANTS Classes, Instances, Tables,
          Names,        \* the keys in use
          MetaNames,    \* those of them that name a metamethod
          DefaultNames, \* those of them that every default delegate has
          Plain, Functions,   \* values: data, and closures
          Attrs,        \* attributes of a member; "null" is no attributes
          None,
          Root,         \* the table that is first the root table
          MaxMembers,   \* MEMBER_MAX_COUNT
          Worlds        \* which of the objects, names and values occur together,
                        \* and the bound on the operations that make and change
                        \* tables, Set apart

ASSUME ObjectsAssumption ==
  /\ Root \in Tables /\ "null" \in Attrs
  /\ MaxMembers \in Nat \ {0}
  /\ \A w \in Worlds : /\ w.classes \subseteq Classes /\ w.instances \subseteq Instances
                       /\ w.tables \subseteq Tables /\ w.names \subseteq Names
                       /\ w.values \subseteq Plain \cup Functions /\ w.attrs \subseteq Attrs
                       /\ w.maxops \in Nat

VARIABLES cls,      \* Classes -> None or the class
          inst,     \* Instances -> None or [class, values]
          tab,      \* Tables -> None or [slots, delegate]
          root,     \* the root table of the virtual machine
          croot,    \* the root table of the running closure
          last,     \* the assignment just made, for the properties
          ops,      \* operations counted against world.maxops
          world     \* the member of Worlds this behaviour is about

vars == <<cls, inst, tab, root, croot, last, ops, world>>

\* A value; a closure that became a method of a derived class knows its base.
Value(id, base) == [id |-> id, base |-> base]
AllValues == {Value(p, None) : p \in Plain}
             \cup {Value(f, b) : f \in Functions, b \in Classes \cup {None}}
Given == {Value(v, None) : v \in world.values}
IsFunction(v) == v.id \in Functions

\* Classes, instances and tables, with names in D and metamethods in M.
Entry == [val : AllValues, attrs : Attrs]
ClassT(D, M) ==
  [base : Classes \cup {None}, locked : BOOLEAN, attrs : Attrs, ctor : Nat,
   members : [D -> [kind : {"field", "static"}, idx : Nat]],
   defaults : Seq(Entry), methods : Seq(Entry), metas : [M -> AllValues]]
InstanceT == [class : Classes, values : Seq(AllValues)]
TableT(D) == [slots : [D -> AllValues], delegate : Tables \cup {None}]

\* What a script sees of a class and of an instance (GSRecords).
SlotT == [kind : {"field", "static"}, val : AllValues, attrs : Attrs]
RecordT(D) == [base : Classes \cup {None}, locked : BOOLEAN, slots : [D -> SlotT]]
FieldsT(D) == [class : Classes, vals : [D -> AllValues]]

\* Objects of different types are different, and None is none of all that.
ASSUME TypesAssumption ==
  /\ IsFiniteSet(Classes) /\ IsFiniteSet(Tables)
  /\ Classes \cap Instances = {} /\ Classes \cap Tables = {} /\ Instances \cap Tables = {}
  /\ {"none", "error", "meta", None} \cap (Classes \cup Instances \cup Tables) = {}
  /\ None \notin InstanceT
  /\ \A D \in SUBSET Names :
       /\ None \notin TableT(D) /\ None \notin RecordT(D) /\ None \notin FieldsT(D)
       /\ \A M \in SUBSET MetaNames : None \notin ClassT(D, M)

Quiet == [op |-> "none"]
Member(v, a) == [val |-> v, attrs |-> a]
Put(f, k, x) == [j \in DOMAIN f \cup {k} |-> IF j = k THEN x ELSE f[j]]
IsField(c, k) == k \in DOMAIN c.members /\ c.members[k].kind = "field"

Init ==
  /\ cls = [c \in Classes |-> None]
  /\ inst = [i \in Instances |-> None]
  /\ tab = [t \in Tables |-> IF t = Root THEN [slots |-> <<>>, delegate |-> None] ELSE None]
  /\ root = Root /\ croot = Root
  /\ last = Quiet /\ ops = 0
  /\ world \in Worlds

(* ---- classes ---------------------------------------------------------- *)

\* A derived class that starts without its base's table of names.
Mut_FreshClass(b) ==
  IF b = None
  THEN [base |-> None, members |-> <<>>, defaults |-> <<>>, methods |-> <<>>,
        metas |-> <<>>, attrs |-> "null", locked |-> FALSE, ctor |-> 0]
  ELSE [cls[b] EXCEPT !.base = b, !.attrs = "null", !.locked = FALSE,
                      !.members = <<>>]

\* GSClass::GSClass: everything but the lock comes from the base.
FreshClass(b) ==
  IF b = None
  THEN [base |-> None, members |-> <<>>, defaults |-> <<>>, methods |-> <<>>,
        metas |-> <<>>, attrs |-> "null", locked |-> FALSE, ctor |-> 0]
  ELSE [cls[b] EXCEPT !.base = b, !.attrs = "null", !.locked = FALSE]

\* A NewSlot that forgets the lock.
Mut_ClassNewSlot(c, key, val, bstatic) ==
  LET static == IsFunction(val) \/ bstatic
      nd     == Len(c.defaults) + 1
  IN IF IsField(c, key)
     THEN [c EXCEPT !.defaults[c.members[key].idx].val = val]
     ELSE [c EXCEPT !.members = Put(@, key, [kind |-> "field", idx |-> nd]),
                    !.defaults = Append(@, Member(val, "null"))]

\* What GSClass::NewSlot makes of class c, or None when it refuses.  A
\* method of a derived class is a clone that knows the base; a metamethod
\* is kept as it is, and a function over an inherited field is its default.
ClassNewSlot(c, key, val, bstatic) ==
  LET static == IsFunction(val) \/ bstatic
      theval == IF c.base # None /\ IsFunction(val) THEN Value(val.id, c.base) ELSE val
      known  == key \in DOMAIN c.members
      nd     == Len(c.defaults) + 1
      nm     == Len(c.methods) + 1
  IN IF c.locked /\ ~static THEN None
     ELSE IF IsField(c, key)
     THEN [c EXCEPT !.defaults[c.members[key].idx].val = val]
     ELSE IF Cardinality(DOMAIN c.members) >= MaxMembers THEN None
     ELSE IF static /\ IsFunction(val) /\ key \in MetaNames
     THEN [c EXCEPT !.metas = Put(@, key, val)]
     ELSE IF static /\ ~known
     THEN [c EXCEPT !.members = Put(@, key, [kind |-> "static", idx |-> nm]),
                    !.methods = Append(@, Member(theval, "null")),
                    !.ctor = IF key = "constructor" THEN nm ELSE @]
     ELSE IF static THEN [c EXCEPT !.methods[c.members[key].idx].val = theval]
     ELSE [c EXCEPT !.members = Put(@, key, [kind |-> "field", idx |-> nd]),
                    !.defaults = Append(@, Member(val, "null"))]

\* GSClass::SetAttributes; a metamethod is no member and has none.
WithAttributes(c, key, a) ==
  IF key \notin DOMAIN c.members THEN c
  ELSE IF IsField(c, key) THEN [c EXCEPT !.defaults[c.members[key].idx].attrs = a]
  ELSE [c EXCEPT !.methods[c.members[key].idx].attrs = a]

Others == UNCHANGED <<tab, root, croot, ops, world>>

\* CLASS_OP.  The class is in its register before _inherited runs, and
\* without its attributes when that fails.
NewClass(c, b, a, mm) ==
  LET new  == FreshClass(b)
      runs == "_inherited" \in DOMAIN new.metas
  IN /\ cls[c] = None /\ (b # None => cls[b] # None)
     /\ ~runs => mm = "ok"
     /\ cls' = [cls EXCEPT ![c] = [new EXCEPT !.attrs = IF mm = "ok" THEN a ELSE "null"]]
     /\ last' = Quiet
     /\ UNCHANGED inst /\ Others

\* GS_newclass does not ask _inherited.
HostNewClass(c, b) ==
  /\ cls[c] = None /\ (b # None => cls[b] # None)
  /\ cls' = [cls EXCEPT ![c] = FreshClass(b)]
  /\ last' = Quiet
  /\ UNCHANGED inst /\ Others

\* NewSlotA, from a class body, newmember and rawnewmember: _newmember takes
\* the place of all of it unless the call is raw (else raw makes no
\* difference); a refusal is an error and leaves the class.  The <- operator
\* on a class is the raw case without attributes.  A function is static in
\* any case.
NewMember(c, key, val, a, bstatic, raw) ==
  LET new == ClassNewSlot(cls[c], key, val, bstatic)
  IN /\ cls[c] # None
     /\ raw <=> "_newmember" \in DOMAIN cls[c].metas
     /\ bstatic => ~IsFunction(val)
     /\ new # None
     /\ cls' = [cls EXCEPT ![c] = IF a = "null" THEN new ELSE WithAttributes(new, key, a)]
     /\ last' = Quiet
     /\ UNCHANGED inst /\ Others

\* GS_setattributes; without a key, those of the class.
SetAttributes(c, key, a) ==
  /\ cls[c] # None
  /\ key = None \/ key \in DOMAIN cls[c].members
  /\ cls' = [cls EXCEPT ![c] = IF key = None THEN [@ EXCEPT !.attrs = a]
                               ELSE WithAttributes(@, key, a)]
  /\ last' = Quiet
  /\ UNCHANGED inst /\ Others

(* ---- instances -------------------------------------------------------- *)

\* The class and the classes it derives from, which Lock closes with it.
Ancestors(c) ==
  LET Up[n \in 0..Cardinality(Classes)] ==
        IF n = 0 THEN {c}
        ELSE Up[n - 1] \cup {cls[d].base : d \in {e \in Up[n - 1] : cls[e].base # None}}
  IN Up[Cardinality(Classes)]

\* GSInstance::GSInstance: the defaults are copied by number.
FreshInstance(c) ==
  [class |-> c, values |-> [n \in 1..Len(cls[c].defaults) |-> cls[c].defaults[n].val]]

\* CreateInstance, of a call of the class or GS_createinstance.  What the
\* constructor does comes after it; when it fails, the instance is there all
\* the same.
Instance(i, c) ==
  /\ inst[i] = None /\ cls[c] # None
  /\ inst' = [inst EXCEPT ![i] = FreshInstance(c)]
  /\ cls' = [d \in Classes |-> IF d \in Ancestors(c) THEN [cls[d] EXCEPT !.locked = TRUE]
                               ELSE cls[d]]
  /\ last' = Quiet
  /\ Others

\* Clone of an instance; when _cloned fails the clone is dropped.
CloneInstance(i, j, mm) ==
  /\ inst[i] = None /\ inst[j] # None
  /\ "_cloned" \notin DOMAIN cls[inst[j].class].metas => mm = "ok"
  /\ inst' = IF mm = "ok" THEN [inst EXCEPT ![i] = inst[j]] ELSE inst
  /\ last' = Quiet
  /\ UNCHANGED cls /\ Others

Live(o) ==
  /\ o \in Classes => cls[o] # None
  /\ o \in Instances => inst[o] # None
  /\ o \in Tables => tab[o] # None

ClassOf(o) == IF o \in Instances THEN inst[o].class ELSE o

\* GS_getmemberhandle.
MemberHandle(c, key) ==
  [static |-> ~IsField(cls[c], key), index |-> cls[c].members[key].idx]

\* GS_setbyhandle with a handle of the object's own class, on an instance or
\* on a class: neither the kind of the value nor the lock is looked at.
SetByHandle(o, key, val) ==
  LET c == ClassOf(o)
      h == MemberHandle(c, key)
  IN /\ Live(o) /\ key \in DOMAIN cls[c].members
     /\ IF h.static
        THEN cls' = [cls EXCEPT ![c].methods[h.index].val = val] /\ UNCHANGED inst
        ELSE IF o \in Instances
        THEN inst' = [inst EXCEPT ![o].values[h.index] = val] /\ UNCHANGED cls
        ELSE cls' = [cls EXCEPT ![c].defaults[h.index].val = val] /\ UNCHANGED inst
     /\ last' = Quiet
     /\ Others

(* ---- reading ---------------------------------------------------------- *)

Found(v) == [how |-> "slot", val |-> v]
Missing(how) == [how |-> how, val |-> None]

\* GetMetaMethod: a table's are in its delegate, an instance's in its class.
HasMeta(o, mm) ==
  IF o \in Tables THEN tab[o].delegate # None /\ mm \in DOMAIN tab[tab[o].delegate].slots
  ELSE mm \in DOMAIN cls[inst[o].class].metas

ClassGet(c, key) ==
  LET n == cls[c].members[key].idx
  IN IF key \notin DOMAIN cls[c].members THEN Missing("none")
     ELSE IF IsField(cls[c], key) THEN Found(cls[c].defaults[n].val)
     ELSE Found(cls[c].methods[n].val)

InstanceGet(i, key) ==
  LET c == cls[inst[i].class]
  IN IF IsField(c, key) THEN Found(inst[i].values[c.members[key].idx])
     ELSE ClassGet(inst[i].class, key)

\* The slot of the object itself, as GS_rawget reads it.
RawGet(o, key) ==
  IF o \in Classes THEN ClassGet(o, key)
  ELSE IF o \in Instances THEN InstanceGet(o, key)
  ELSE IF key \in DOMAIN tab[o].slots THEN Found(tab[o].slots[key])
  ELSE Missing("none")

\* Delegates of a table, nearest first, itself included (SetDelegate keeps
\* them from going round).
Chain(t) ==
  LET Up[n \in 0..Cardinality(Tables)] ==
        IF n = 0 THEN <<t>>
        ELSE LET above == tab[Up[n - 1][Len(Up[n - 1])]].delegate
             IN IF above = None THEN Up[n - 1] ELSE Append(Up[n - 1], above)
  IN Up[Cardinality(Tables)]

OnChain(t, u) == \E n \in DOMAIN Chain(u) : Chain(u)[n] = t

\* InvokeDefaultDelegate; the functions every kind of object has.
DefaultGet(key) == IF key \in DefaultNames THEN Missing("default") ELSE Missing("none")

\* Get without the root: the slot; then FallBackGet, for a table what Get
\* finds in the delegate, default delegate and all, and after it _get; then
\* the default delegate.  A failing _get ends the search, but seen from the
\* table behind it is only a slot that was not found.
GetIn(o, key, mm) ==
  LET After(t, below) ==
        IF RawGet(t, key).how = "slot" THEN RawGet(t, key)
        ELSE IF below.how \in {"slot", "meta", "default"} THEN below
        ELSE IF HasMeta(t, "_get") /\ mm # "clean"
        THEN IF mm = "ok" THEN Missing("meta") ELSE Missing("error")
        ELSE DefaultGet(key)
      chain == Chain(o)
      Up[n \in 1..Len(chain)] ==
        After(chain[n], IF n = Len(chain) THEN Missing("none") ELSE Up[n + 1])
  IN IF o \in Tables THEN Up[1]
     ELSE IF o \in Classes
     THEN IF RawGet(o, key).how = "slot" THEN RawGet(o, key) ELSE DefaultGet(key)
     ELSE After(o, Missing("none"))

\* Get with the root table of the closure behind it, for `this`.
Get(o, key, mm, this) ==
  LET r == GetIn(o, key, mm)
  IN IF r.how = "none" /\ this THEN GetIn(croot, key, mm) ELSE r

(* ---- writing ---------------------------------------------------------- *)

\* A Set that asks the last delegate first.
Mut_SetIn(o, key, mm) ==
  LET chain == Chain(o)
      Has(t) == key \in DOMAIN tab[t].slots
      n     == CHOOSE m \in 1..Len(chain) :
                 Has(chain[m]) /\ \A k \in m + 1..Len(chain) : ~Has(chain[k])
  IN IF o \in Tables
     THEN IF \E m \in 1..Len(chain) : Has(chain[m]) THEN chain[n] ELSE "none"
     ELSE IF o \in Instances /\ IsField(cls[inst[o].class], key) THEN o
     ELSE "none"

\* Where Set writes: an object, "meta", "error" or "none".  Set on the
\* delegate comes before _set; a delegate's own failure is no error here.
SetIn(o, key, mm) ==
  LET After(t, below) ==
        IF key \in DOMAIN tab[t].slots THEN t
        ELSE IF below \notin {"none", "error"} THEN below
        ELSE IF HasMeta(t, "_set") /\ mm # "clean"
        THEN IF mm = "ok" THEN "meta" ELSE "error"
        ELSE "none"
      chain == Chain(o)
      Up[n \in 1..Len(chain)] ==
        After(chain[n], IF n = Len(chain) THEN "none" ELSE Up[n + 1])
  IN IF o \in Tables THEN Up[1]
     ELSE IF o \in Classes THEN "error"
     ELSE IF IsField(cls[inst[o].class], key) THEN o
     ELSE IF HasMeta(o, "_set") /\ mm # "clean"
     THEN IF mm = "ok" THEN "meta" ELSE "error"
     ELSE "none"

\* GSInstance::Set, once the member is known to be a field.
InstanceSet(i, key, val) ==
  [inst EXCEPT ![i].values[cls[inst[i].class].members[key].idx] = val]

\* Set.  Where nothing was found and the object is `this`, the root table of
\* the virtual machine is tried.
Set(o, key, val, mm) ==
  LET at    == SetIn(o, key, mm)
      where == IF at = "none" /\ key \in DOMAIN tab[root].slots THEN root ELSE at
  IN /\ Live(o) /\ where \notin {"none", "error"}
     /\ mm # "ok" => SetIn(o, key, "ok") = "meta"   \* there is a _set to fail
     /\ tab' = IF where \in Tables THEN [tab EXCEPT ![where].slots[key] = val] ELSE tab
     /\ inst' = IF where \in Instances THEN InstanceSet(where, key, val) ELSE inst
     /\ last' = [op |-> "set", obj |-> o, key |-> key, val |-> val,
                 where |-> IF at = "none" THEN "root" ELSE IF at = "meta" THEN at ELSE "slot"]
     /\ UNCHANGED <<cls, root, croot, ops, world>>

(* ---- tables ----------------------------------------------------------- *)

OnTable(t, new) ==
  /\ tab' = [tab EXCEPT ![t] = new]
  /\ last' = Quiet
  /\ ops' = ops + 1
  /\ UNCHANGED <<cls, inst, root, croot, world>>

NewTable(t) == tab[t] = None /\ OnTable(t, [slots |-> <<>>, delegate |-> None])

\* NewSlot on a table: a new slot of a table with a delegate is _newslot's
\* business where there is one.
NewSlot(t, key, val) ==
  /\ Live(t)
  /\ key \in DOMAIN tab[t].slots \/ ~HasMeta(t, "_newslot")
  /\ OnTable(t, [tab[t] EXCEPT !.slots = Put(@, key, val)])

\* GS_rawset, which asks no metamethod.  On a class it is silent when the
\* slot is refused.
RawSet(o, key, val) ==
  LET new == ClassNewSlot(cls[o], key, val, FALSE)
  IN /\ Live(o)
     /\ \/ o \in Tables /\ OnTable(o, [tab[o] EXCEPT !.slots = Put(@, key, val)])
        \/ /\ o \in Classes
           /\ cls' = [cls EXCEPT ![o] = IF new = None THEN @ ELSE new]
           /\ last' = Quiet /\ UNCHANGED inst /\ Others
        \/ /\ o \in Instances /\ IsField(cls[inst[o].class], key)
           /\ inst' = InstanceSet(o, key, val)
           /\ last' = Quiet /\ UNCHANGED cls /\ Others

\* DeleteSlot; _delslot takes its place where there is one.
DeleteSlot(t, key) ==
  /\ Live(t) /\ ~HasMeta(t, "_delslot")
  /\ key \in DOMAIN tab[t].slots
  /\ OnTable(t, [tab[t] EXCEPT !.slots = [k \in DOMAIN @ \ {key} |-> @[k]]])

\* GS_rawdeleteslot; a missing slot is no error.
RawDeleteSlot(t, key) ==
  /\ Live(t)
  /\ OnTable(t, [tab[t] EXCEPT !.slots = [k \in DOMAIN @ \ {key} |-> @[k]]])

Clear(t) == Live(t) /\ OnTable(t, [tab[t] EXCEPT !.slots = <<>>])

\* GSDelegable::SetDelegate, which refuses a cycle.
SetDelegate(t, d) ==
  /\ Live(t)
  /\ d # None => (Live(d) /\ ~OnChain(t, d))
  /\ OnTable(t, [tab[t] EXCEPT !.delegate = d])

\* Clone of a table, delegate included; when _cloned fails it is dropped.
CloneTable(t, u, mm) ==
  /\ tab[t] = None /\ Live(u)
  /\ HasMeta(u, "_cloned") \/ mm = "ok"
  /\ OnTable(t, IF mm = "ok" THEN tab[u] ELSE None)

Roots(r, c) ==
  /\ root' = r /\ croot' = c
  /\ last' = Quiet
  /\ ops' = ops + 1
  /\ UNCHANGED <<cls, inst, tab, world>>

SetRootTable(t) == Live(t) /\ Roots(t, croot)

\* GS_setclosureroot, and closure.setroot.
SetClosureRoot(t) == Live(t) /\ Roots(root, t)

Outcomes == {"ok", "error", "clean"}

ClassStep ==
  \E c \in world.classes :
    \/ \E b \in world.classes \cup {None} :
         \/ HostNewClass(c, b)
         \/ \E a \in world.attrs, mm \in {"ok", "error"} : NewClass(c, b, a, mm)
    \/ \E key \in world.names, val \in Given, a \in world.attrs, bstatic, raw \in BOOLEAN :
         NewMember(c, key, val, a, bstatic, raw)
    \/ \E key \in world.names \cup {None}, a \in world.attrs : SetAttributes(c, key, a)
    \/ \E i \in world.instances : Instance(i, c)

InstanceStep ==
  \/ \E i, j \in world.instances, mm \in {"ok", "error"} : CloneInstance(i, j, mm)
  \/ \E o \in world.instances \cup world.classes, key \in world.names, val \in Given :
       SetByHandle(o, key, val)

SlotStep ==
  \E key \in world.names :
    \/ \E o \in world.tables \cup world.instances \cup world.classes, val \in Given :
         \/ \E mm \in Outcomes : Set(o, key, val, mm)
         \/ (o \in Tables => ops < world.maxops) /\ RawSet(o, key, val)
    \/ /\ ops < world.maxops
       /\ \E t \in world.tables :
            (\E val \in Given : NewSlot(t, key, val)) \/ DeleteSlot(t, key) \/ RawDeleteSlot(t, key)

TableStep ==
  /\ ops < world.maxops
  /\ \E t \in world.tables :
       \/ Clear(t) \/ NewTable(t) \/ SetRootTable(t) \/ SetClosureRoot(t)
       \/ \E d \in world.tables \cup {None} : SetDelegate(t, d)
       \/ \E u \in world.tables, mm \in {"ok", "error"} : CloneTable(t, u, mm)

Next == ClassStep \/ InstanceStep \/ SlotStep \/ TableStep

Spec == Init /\ [][Next]_vars

(* ---- properties ------------------------------------------------------- *)

\* An instance has a value for every field its class will ever look up in it:
\* the array of an instance is as long as its class's defaults, whatever was
\* added to the class, its bases and its heirs after the instance.  Every
\* member number lies within its array, and the number of the constructor,
\* which a class inherits apart from the names, is the one its name has.
ValuesFit ==
  /\ \A i \in Instances : inst[i] # None =>
       Len(inst[i].values) = Len(cls[inst[i].class].defaults)
  /\ \A c \in Classes : cls[c] # None =>
       /\ \A key \in DOMAIN cls[c].members :
            cls[c].members[key].idx \in
              1..Len(IF IsField(cls[c], key) THEN cls[c].defaults ELSE cls[c].methods)
       /\ cls[c].ctor \in 0..Len(cls[c].methods)
       /\ ("constructor" \in DOMAIN cls[c].members /\ ~IsField(cls[c], "constructor")) =>
            cls[c].ctor = cls[c].members["constructor"].idx

\* The slot of a class, and the value in an instance, that a name stands for.
SlotOf(c, key) ==
  LET n == c.members[key].idx
      m == IF IsField(c, key) THEN c.defaults[n] ELSE c.methods[n]
  IN [kind |-> c.members[key].kind, val |-> m.val, attrs |-> m.attrs]

ClassMap ==
  [c \in Classes |->
     IF cls[c] = None THEN None
     ELSE [base |-> cls[c].base, locked |-> cls[c].locked,
           slots |-> [key \in DOMAIN cls[c].members |-> SlotOf(cls[c], key)]]]

InstanceMap ==
  [i \in Instances |->
     IF inst[i] = None THEN None
     ELSE LET c == cls[inst[i].class]
          IN [class |-> inst[i].class,
              vals |-> [key \in {k \in DOMAIN c.members : IsField(c, k)} |->
                          inst[i].values[c.members[key].idx]]]]

Records == INSTANCE GSRecords WITH Values <- AllValues,
                                   class <- ClassMap, object <- InstanceMap

\* Classes and instances behave as maps: through the shared numbering, the
\* copies at derivation and the overriding of members, a step changes one
\* slot of one class or one instance and never another's, no class with
\* instances gets a field, and a derived class is a copy, not a view.
ImplementsRecords == Records!Spec

\* What was written through an object is what the same expression reads next,
\* wherever along the delegates the slot was found.  A name that was written
\* in the root table is read there, as long as the closure and the virtual
\* machine have the same root, unless something that can only be read
\* (a method, _get, a function of the default delegate) hides it.
ReadsBack ==
  last.op = "set" =>
    \A mm \in Outcomes :
      /\ last.where = "slot" => GetIn(last.obj, last.key, mm) = Found(last.val)
      /\ (last.where = "root" /\ root = croot /\ GetIn(last.obj, last.key, mm).how = "none") =>
           Get(last.obj, last.key, mm, TRUE) = Found(last.val)
=============================================================================
