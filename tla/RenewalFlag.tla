---------------------------- MODULE RenewalFlag ----------------------------
(***************************************************************************)
(* renewalInProgress, the one flag that the renewals and the poll of the    *)
(* VTXO manager share, and who may hold it.                                 *)
(***************************************************************************)

CONSTANT
    Calls          \* renewVtxos calls that may be under way

VARIABLES
    renewing,      \* renewalInProgress
    call,          \* the renewVtxos calls
    poll           \* the poll

\* No call r is under way, and the poll is at p.
Off(r) == call[r].pc = "off"
Polls(p) == poll.pc = p

\* Whenever the flag is up a renewal or a settlement of the poll is under way that
\* will take it down: a flag nobody holds would end the renewals for good, since
\* every path looks at it first (renewalInProgress and the two finally blocks).
FlagHeld == renewing => Polls("settle") \/ \E r \in Calls : ~Off(r)
=============================================================================
