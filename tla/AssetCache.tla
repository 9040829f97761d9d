----------------------------- MODULE AssetCache -----------------------------
(***************************************************************************)
(* What the asset manager promises: a cache of packages by identifier.  An *)
(* identifier without an asset may get a package that was never stored     *)
(* before, and any assets may go; an asset is never replaced or changed.   *)
(***************************************************************************)
EXTENDS Naturals

VARIABLE stored   \* the package that each identifier finds

Init == stored = [i \in {} |-> 0]

Keep(i) == stored'[i] = stored[i]

Put(i) ==
  /\ i \notin DOMAIN stored /\ DOMAIN stored' = DOMAIN stored \cup {i}
  /\ \A j \in DOMAIN stored : Keep(j) /\ stored[j] # stored'[i]

Drop ==
  /\ DOMAIN stored' \subseteq DOMAIN stored
  /\ \A i \in DOMAIN stored' : Keep(i)

Next == Drop \/ \E i \in DOMAIN stored' : Put(i)

Spec == Init /\ [][Next]_stored
=============================================================================
