-------------------------- MODULE MCReportPipeline --------------------------
(***************************************************************************)
(* Two runs of the handler, the worker's task and a CLI invocation, over   *)
(* a page size that makes a listing of two or three disclosures span       *)
(* several pages.                                                          *)
(***************************************************************************)
EXTENDS ReportPipeline

CONSTANTS worker, cli, r1, r2, r3

MCRuns == {worker, cli}
MCTimed == {worker}
MCNoLimit == [p \in MCRuns |-> 0]
MCCliLimit == [p \in MCRuns |-> IF p = cli THEN 1 ELSE 0]

\* What a step or a property can still read: the pages and the list at the start
\* while the run lists and when it begins its loop, the loop's index until it ends,
\* the documents DART did not have unless somebody has stored them since.  States
\* that agree in this are counted as one.
Listing(p) == pc[p] = "list" \/ (pc[p] = "scan" /\ next[p] = 1)
Live ==
    <<disclosures, raw, reportTypes, analyses, llmCalls, pc, listing, batch,
      [p \in Runs |-> IF pc[p] \in Ended THEN 1 ELSE next[p]],
      [p \in Runs |-> IF pc[p] = "list" THEN <<page[p], totalPage[p]>> ELSE <<page[p] > 0>>],
      [p \in Runs |-> skipped[p] \ raw],
      [p \in Runs |-> IF Listing(p) /\ Limit[p] = 0 THEN atStart[p] ELSE <<>>]>>

-----------------------------------------------------------------------------

\* Somebody runs the worker and the CLI again and again, no run is stopped or
\* meets its deadline, and the model answers every call.
Uninterrupted ==
    \/ \E p \in Runs : Start(p) \/ Step(p)
    \/ \E r \in Receipts : Publish(r)

RerunSpec ==
    /\ Init /\ [][Uninterrupted]_vars
    /\ \A p \in Runs : WF_vars(Start(p)) /\ WF_vars(Step(p))

\* README.md: the CLI collects "all recent disclosures" and "stores their
\* analyses"; a stored disclosure then gets its analysis at last, if the handler
\* is run often enough.
EveryReportAnalysed == \A r \in Receipts : r \in raw ~> analyses[r] > 0

=============================================================================
