---------------------------- MODULE BatchPromise ----------------------------
(***************************************************************************)
(* What Batch.join promises the wallet that hands it an intent: it binds    *)
(* itself to at most one commitment transaction, gives the wallet's coins   *)
(* away for that one only, and returns that one.  It may give up at any     *)
(* point before it returns.  When the stream does not tell everything, the  *)
(* last part is lost: another commitment may be returned.                   *)
(***************************************************************************)
CONSTANTS Commitments, None

VARIABLES
    phase,     \* open, bound, given, kept or broken
    deal,      \* the commitment, once there is one
    faithful   \* does the stream tell everything, and the truth?

vars == <<phase, deal, faithful>>

Init == phase = "open" /\ deal = None /\ faithful \in BOOLEAN

\* A commitment, once chosen, is never exchanged for another.
Stands == deal # None => deal' = deal

\* The tree of a commitment was checked, and nonces were sent for it.
Bind ==
    /\ phase = "open" /\ phase' = "bound"
    /\ Stands /\ deal' \in Commitments

\* The coins are handed over.
Give ==
    /\ phase \in {"open", "bound"} /\ phase' = "given"
    /\ Stands /\ deal' \in Commitments

Keep ==
    /\ phase = "given" /\ phase' = "kept"
    /\ deal' \in Commitments
    /\ faithful => deal' = deal

Break ==
    /\ phase \in {"open", "bound", "given"} /\ phase' = "broken"
    /\ Stands

Next ==
    /\ UNCHANGED faithful
    /\ Bind \/ Give \/ Keep \/ Break

Spec == Init /\ [][Next]_vars
=============================================================================
