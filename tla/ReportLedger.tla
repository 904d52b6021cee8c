---------------------------- MODULE ReportLedger ----------------------------
(***************************************************************************)
(* What the DART pipeline promises about one disclosure, whatever the      *)
(* number of worker tasks and CLI invocations that try to store it.        *)
(*                                                                         *)
(* A receipt number is absent, then its raw report is stored and exactly   *)
(* one run is responsible for its analysis (pending), then the analysis is *)
(* stored (analysed) or that run ended without storing it (stranded).      *)
(* analysed and stranded are final: nobody analyses a stored report again. *)
(***************************************************************************)
CONSTANT Receipts  \* the receipt numbers DART issues

VARIABLE standing  \* the standing of each receipt number

Standings == {"absent", "pending", "analysed", "stranded"}

In(r, s) == standing[r] = s

Become(S, s) ==
    standing' = [r \in Receipts |-> IF r \in S THEN s ELSE standing[r]]

Init == standing = [r \in Receipts |-> "absent"]

\* A run stores the raw report and goes on to analyse it.
Store(r) ==
    /\ In(r, "absent")
    /\ Become({r}, "pending")

\* A run stores the analyses it has gathered, all of them together.
Settle(S) ==
    /\ \A r \in S : In(r, "pending")
    /\ Become(S, "analysed")

\* A run ends, or gives up one report, without storing these analyses. The
\* report whose insert was committed but never acknowledged is among them.
Strand(S) ==
    /\ \A r \in S : In(r, "pending") \/ In(r, "absent")
    /\ Become(S, "stranded")

Next ==
    \/ \E r \in Receipts : Store(r)
    \/ \E S \in SUBSET Receipts : Settle(S) \/ Strand(S)

Spec == Init /\ [][Next]_standing

=============================================================================
