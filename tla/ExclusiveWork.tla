---------------------------- MODULE ExclusiveWork ----------------------------
(* The promise of reconcileInProgress: a worker takes one item at a time,  *)
(* an item has one worker at a time, and a restart drops everything.       *)
CONSTANTS Workers, Items
VARIABLE work  \* the pairs <<worker, item>> under way

Take(w, i) ==
  /\ \A v \in Workers : <<v, i>> \notin work
  /\ \A j \in Items : <<w, j>> \notin work
  /\ work' = work \cup {<<w, i>>}

Drop(w, i) == <<w, i>> \in work /\ work' = work \ {<<w, i>>}

DropAll == work' = {}

Init == work = {}
Next == DropAll \/ \E w \in Workers, i \in Items : Take(w, i) \/ Drop(w, i)
Spec == Init /\ [][Next]_work
=============================================================================
