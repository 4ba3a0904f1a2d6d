------------------------------- MODULE GSDict -------------------------------
(***************************************************************************)
(* What a script sees of a table: a finite map from keys to values.        *)
(* GSTable implements it (see GSTable!Dict); nothing here knows of nodes,  *)
(* chains or rehashing.                                                    *)
(***************************************************************************)
CONSTANTS Keys, Vals

VARIABLE dict

Init == dict = <<>>

\* Create the slot or overwrite it.
Put(k, v) ==
    dict' = [j \in DOMAIN dict \cup {k} |-> IF j = k THEN v ELSE dict[j]]

\* Overwrite a slot that exists.
Assign(k, v) ==
    /\ k \in DOMAIN dict
    /\ dict' = [dict EXCEPT ![k] = v]

Delete(k) == dict' = [j \in DOMAIN dict \ {k} |-> dict[j]]

Clear == dict' = <<>>

Next ==
    \/ \E k \in Keys, v \in Vals : Put(k, v) \/ Assign(k, v)
    \/ \E k \in Keys : Delete(k)
    \/ Clear

Spec == Init /\ [][Next]_dict
=============================================================================
