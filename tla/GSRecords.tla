------------------------------ MODULE GSRecords ------------------------------
(***************************************************************************)
(* What a script sees of classes and instances.  A class is a map from     *)
(* names to slots, a copy of its base's at the moment it was derived; an   *)
(* instance is a map from the fields of its class to values.  No step      *)
(* touches more than one slot of one class or one instance.  GSObjects     *)
(* implements this (GSObjects!Records) with arrays that are indexed through *)
(* a table of member numbers.                                              *)
(***************************************************************************)
EXTENDS Integers, FiniteSets

CONSTANTS Classes, Instances, Values, Attrs, None

VARIABLES class,   \* Classes -> None or [base, locked, slots]
          object   \* Instances -> None or [class, vals]

Fields(c) == {n \in DOMAIN class[c].slots : class[c].slots[n].kind = "field"}

Ancestors(c) ==
  LET Up[n \in 0..Cardinality(Classes)] ==
        IF n = 0 THEN {c}
        ELSE Up[n - 1] \cup {class[d].base : d \in {e \in Up[n - 1] : class[e].base # None}}
  IN Up[Cardinality(Classes)]

Put(f, n, x) == [m \in DOMAIN f \cup {n} |-> IF m = n THEN x ELSE f[m]]

Init == class = [c \in Classes |-> None] /\ object = [i \in Instances |-> None]

\* A new class starts with the slots its base has now, and shares none.
Derive(c, b) ==
  /\ class[c] = None /\ (b # None => class[b] # None)
  /\ class' = [class EXCEPT ![c] =
       [base |-> b, locked |-> FALSE,
        slots |-> IF b = None THEN <<>> ELSE class[b].slots]]
  /\ UNCHANGED object

\* One slot of the class is made or changed.  A class with instances gets
\* no new field, and a field stays one.
Define(c) ==
  /\ class[c] # None /\ class'[c] # None
  /\ class'[c] # class[c]
  /\ \E n \in DOMAIN class'[c].slots :
       LET slot == class'[c].slots[n]
       IN /\ slot \in [kind : {"field", "static"}, val : Values, attrs : Attrs]
          /\ class[c].locked => (slot.kind = "static" \/ n \in Fields(c))
          /\ n \in Fields(c) => slot.kind = "field"
          /\ class' = [class EXCEPT ![c].slots = Put(@, n, slot)]
  /\ UNCHANGED object

\* The first instance closes the class and every class it derives from.
Instantiate(i, c) ==
  /\ object[i] = None /\ class[c] # None
  /\ object' = [object EXCEPT ![i] =
       [class |-> c, vals |-> [n \in Fields(c) |-> class[c].slots[n].val]]]
  /\ class' = [d \in Classes |-> IF d \in Ancestors(c) THEN [class[d] EXCEPT !.locked = TRUE]
                                 ELSE class[d]]

Assign(i) ==
  /\ object[i] # None
  /\ object'[i] # object[i]
  /\ \E n \in DOMAIN object[i].vals :
       /\ object'[i].vals[n] \in Values
       /\ object' = [object EXCEPT ![i].vals[n] = object'[i].vals[n]]
  /\ UNCHANGED class

Copy(i, j) ==
  /\ object[i] = None /\ object[j] # None
  /\ object' = [object EXCEPT ![i] = object[j]]
  /\ UNCHANGED class

Next ==
  \/ \E i \in Instances : Assign(i)
  \/ \E c \in Classes : Define(c)
  \/ \E c \in Classes, b \in Classes \cup {None} : Derive(c, b)
  \/ \E i \in Instances, c \in Classes : Instantiate(i, c)
  \/ \E i, j \in Instances : Copy(i, j)

Spec == Init /\ [][Next]_<<class, object>>
=============================================================================
