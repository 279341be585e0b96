----------------------------- MODULE MapCatalog -----------------------------
(***************************************************************************)
(* What the map executor promises about saved maps, without files, staging *)
(* directories or crashes: a map is published once, whole, with the        *)
(* session it was recorded in; it never changes; it disappears only by a   *)
(* deletion, and never while it is the selected one.                       *)
(***************************************************************************)
CONSTANTS Names, Recordings, NoName

VARIABLES
    catalog,    \* the selectable maps: a function from names to recordings
    selected    \* the selected map

Init ==
    /\ \E names \in SUBSET Names : catalog \in [names -> Recordings]
    /\ selected \in DOMAIN catalog \cup {NoName}

Publish(name, recording) ==
    /\ name \notin DOMAIN catalog
    /\ catalog' = [n \in DOMAIN catalog \cup {name} |->
                      IF n = name THEN recording ELSE catalog[n]]
    /\ UNCHANGED selected

Delete(name) ==
    /\ name \in DOMAIN catalog \ {selected}
    /\ catalog' = [n \in DOMAIN catalog \ {name} |-> catalog[n]]
    /\ UNCHANGED selected

Select(name) ==
    /\ name \in DOMAIN catalog
    /\ selected' = name
    /\ UNCHANGED catalog

Next ==
    \E name \in Names :
        \/ Delete(name) \/ Select(name)
        \/ \E recording \in Recordings : Publish(name, recording)

Spec == Init /\ [][Next]_<<catalog, selected>>
=============================================================================
