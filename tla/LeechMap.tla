------------------------------ MODULE LeechMap ------------------------------
(***************************************************************************)
(* What the rest of the library expects of a dictionary (lib/dict.h): a    *)
(* map from keys to values, of which it uses Set, Remove, HasKey, Get,     *)
(* GetKeys and Length.                                                     *)
(***************************************************************************)
CONSTANTS Key, Value, Missing

VARIABLE pairs

Init == pairs = [k \in Key |-> Missing]

Set == \E k \in Key, v \in Value : pairs' = [pairs EXCEPT ![k] = v]

\* Only a key that is there may be removed.
Remove == \E k \in Key : /\ pairs[k] # Missing
                         /\ pairs' = [pairs EXCEPT ![k] = Missing]

Next == Set \/ Remove

Spec == Init /\ [][Next]_pairs

=============================================================================
