----------------------------- MODULE RefCounted -----------------------------
(***************************************************************************)
(* What a shared output promises: it is open exactly while somebody holds  *)
(* it.  The first holder opens it, the last one closes it, and nobody else *)
(* does either.                                                            *)
(***************************************************************************)
CONSTANT Handles

VARIABLES holders, open

vars == <<holders, open>>

Init ==
    /\ holders = {}
    /\ open = FALSE

Acquire(h) ==
    /\ h \notin holders
    /\ holders' = holders \cup {h}
    /\ open' = TRUE

Release(h) ==
    /\ h \in holders
    /\ holders' = holders \ {h}
    /\ open' = (holders # {h})

Next == \E h \in Handles : Acquire(h) \/ Release(h)

Spec == Init /\ [][Next]_vars
=============================================================================
