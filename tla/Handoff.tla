------------------------------ MODULE Handoff ------------------------------
(***************************************************************************)
(* What the life of one request that waits for consent promises: some      *)
(* worker's confirmation is put on record, once and for ever; custody      *)
(* moves at most once, and only to that worker; the outcome is attested at *)
(* most once, and only after custody moved.  Nothing is ever taken back.   *)
(***************************************************************************)
CONSTANTS Workers, None

VARIABLES
    consent,   \* the worker whose confirmation is on record, or None
    moved,     \* the custody edges of the request
    attested   \* whether the outcome has its verification record

Init ==
    /\ consent = None
    /\ moved = {}
    /\ attested = FALSE

Confirm ==
    /\ consent = None
    /\ consent' \in Workers
    /\ UNCHANGED <<moved, attested>>

Move ==
    /\ consent # None
    /\ moved = {}
    /\ \E x \in moved' : moved' = {x} /\ x.to = consent
    /\ UNCHANGED <<consent, attested>>

Attest ==
    /\ moved # {}
    /\ attested' = TRUE
    /\ UNCHANGED <<consent, moved>>

Spec == Init /\ [][Confirm \/ Move \/ Attest]_<<consent, moved, attested>>

=============================================================================
