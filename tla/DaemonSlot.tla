----------------------------- MODULE DaemonSlot -----------------------------
(***************************************************************************)
(* What `mcg daemon` promises: one place, taken by one process at a time.  *)
(* A process takes the place only when it is free and gives it up by       *)
(* shutting down or by dying; it is never taken over from a live process.  *)
(***************************************************************************)
CONSTANTS Proc, Nobody

VARIABLE holder

TypeOK == holder \in Proc \cup {Nobody}

Init == holder = Nobody

Take(p) == holder = Nobody /\ holder' = p

Leave == holder # Nobody /\ holder' = Nobody

Next == Leave \/ \E p \in Proc : Take(p)

Spec == Init /\ [][Next]_holder
=============================================================================
