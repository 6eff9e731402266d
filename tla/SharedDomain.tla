---------------------------- MODULE SharedDomain ----------------------------
(***************************************************************************)
(* What the pcscd domain promises its users, before any lock file: any     *)
(* number of reader sessions may be inside together, a disturbance (stick  *)
(* flash, USB replug, pcscd restart) is inside alone.  The bench promises  *)
(* the same to its runs, which are all disturbances.                       *)
(***************************************************************************)
CONSTANTS Readers, Disturbers

VARIABLE inside

Handles == Readers \cup Disturbers

Admits(p) ==
    /\ p \in Disturbers => inside = {}
    /\ p \in Readers    => inside \cap Disturbers = {}

Init == inside = {}

Enter(p) ==
    /\ p \notin inside
    /\ Admits(p)
    /\ inside' = inside \cup {p}

\* Leaving is a release or the death of the process: nothing tells them apart.
Leave(p) ==
    /\ p \in inside
    /\ inside' = inside \ {p}

Next == \E p \in Handles : Enter(p) \/ Leave(p)

Spec == Init /\ [][Next]_inside
=============================================================================
