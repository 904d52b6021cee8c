--------------------------- MODULE ReportPipeline ---------------------------
(***************************************************************************)
(* HandleFetchReportsTask: the handler that lists the recent DART          *)
(* disclosures, stores each new one as a raw report, has it analysed by    *)
(* the language model and stores the analyses in one batch at the end.     *)
(*                                                                         *)
(* Several runs of the handler share the database: the background worker   *)
(* (a run with a deadline, see Timed) and any number of invocations of the *)
(* worker CLI, which call the same handler without a queue.  Each database *)
(* statement and each call to DART or to the model is a step of its own.   *)
(***************************************************************************)
EXTENDS Naturals, Sequences

CONSTANTS
    Receipts,   \* receipt numbers
    Runs,       \* concurrent executions of the handler
    Timed,      \* the runs asynq starts with a timeout (worker tasks)
    Limit,      \* payload.Limit of each run, 0 when the payload has none
    PageSize,   \* entries in a page of the disclosure list
    Malformed   \* receipts whose document ParseXBRL rejects

ASSUME TimedAssumption == Timed \subseteq Runs
ASSUME LimitAssumption == Limit \in [Runs -> Nat]
ASSUME PageSizeAssumption == PageSize \in Nat \ {0}

VARIABLES
    disclosures,  \* DART's list of published receipts, newest first
    raw,          \* raw_reports: the receipt numbers that have a row
    reportTypes,  \* report_types: rows per source report
    analyses,     \* analyses: rows per report
    llmCalls,     \* history: paid analysis calls per receipt
    pc,           \* where each run is
    page,         \* pages requested so far (GetRecentRawReports)
    totalPage,    \* TotalPage of the FIRST page's response
    listing,      \* rawReports, the listing gathered so far
    next,         \* index of the loop over rawReports
    batch,        \* the run's in-memory analyses, counted per report
    skipped,      \* history: documents DART did not have during this run
    atStart       \* history: disclosures when the run started

db == <<raw, reportTypes, analyses, llmCalls>>
cursor == <<page, totalPage, atStart>>
local == <<pc, page, totalPage, listing, next, batch, skipped, atStart>>
vars == <<disclosures, raw, reportTypes, analyses, llmCalls, pc, page,
          totalPage, listing, next, batch, skipped, atStart>>

Ended == {"idle", "ok", "err"}
AtReport == {"fetch", "insert", "analyse", "suggest"}
States == Ended \cup AtReport \cup {"list", "scan", "flush"}

NoAnalyses == [r \in Receipts |-> 0]

Cur(p) == listing[p][next[p]]          \* the loop's current rawReport
Remaining(p) == next[p] <= Len(listing[p])

TypeOK ==
    /\ disclosures \in Seq(Receipts)
    /\ raw \subseteq Receipts
    /\ reportTypes \in [Receipts -> Nat]
    /\ analyses \in [Receipts -> Nat]
    /\ llmCalls \in [Receipts -> Nat]
    /\ pc \in [Runs -> States]
    /\ page \in [Runs -> Nat]
    /\ totalPage \in [Runs -> Nat]
    /\ listing \in [Runs -> Seq(Receipts)]
    /\ next \in [Runs -> Nat \ {0}]
    /\ batch \in [Runs -> [Receipts -> Nat]]
    /\ skipped \in [Runs -> SUBSET Receipts]
    /\ atStart \in [Runs -> Seq(Receipts)]

Init ==
    /\ disclosures = <<>>
    /\ raw = {}
    /\ reportTypes = NoAnalyses
    /\ analyses = NoAnalyses
    /\ llmCalls = NoAnalyses
    /\ pc = [p \in Runs |-> "idle"]
    /\ page = [p \in Runs |-> 0]
    /\ totalPage = [p \in Runs |-> 0]
    /\ listing = [p \in Runs |-> <<>>]
    /\ next = [p \in Runs |-> 1]
    /\ batch = [p \in Runs |-> NoAnalyses]
    /\ skipped = [p \in Runs |-> {}]
    /\ atStart = [p \in Runs |-> <<>>]

-----------------------------------------------------------------------------
(* The run's control.                                                      *)

Goto(p, s) == pc' = [pc EXCEPT ![p] = s]

\* (mutant) The loop steps back to try the report before.
AdvanceBackwards(p) ==
    /\ Goto(p, "scan")
    /\ next' = [next EXCEPT ![p] = @ - 1]

\* The loop moves on to the next report ("continue", or the end of its body).
Advance(p) ==
    /\ Goto(p, "scan")
    /\ next' = [next EXCEPT ![p] = @ + 1]

\* (mutant) The gathered analyses are not let go once they are stored.
ReturnKeepingBatch(p) ==
    /\ Goto(p, "ok")
    /\ UNCHANGED <<page, totalPage, listing, next, batch, skipped, atStart>>

\* The run returns nil: what it gathered has been stored.
ReturnNil(p) ==
    /\ Goto(p, "ok")
    /\ batch' = [batch EXCEPT ![p] = NoAnalyses]
    /\ UNCHANGED <<page, totalPage, listing, next, skipped, atStart>>

\* The run ends in state s and its memory, the analyses included, is gone.
Abandon(p, s) ==
    /\ Goto(p, s)
    /\ page' = [page EXCEPT ![p] = 0]
    /\ totalPage' = [totalPage EXCEPT ![p] = 0]
    /\ listing' = [listing EXCEPT ![p] = <<>>]
    /\ next' = [next EXCEPT ![p] = 1]
    /\ batch' = [batch EXCEPT ![p] = NoAnalyses]
    /\ skipped' = [skipped EXCEPT ![p] = {}]
    /\ atStart' = [atStart EXCEPT ![p] = <<>>]

\* A queued task or a CLI invocation enters the handler.
Start(p) ==
    /\ pc[p] \in Ended
    /\ Goto(p, "list")
    /\ page' = [page EXCEPT ![p] = 0]
    /\ totalPage' = [totalPage EXCEPT ![p] = 0]
    /\ listing' = [listing EXCEPT ![p] = <<>>]
    /\ next' = [next EXCEPT ![p] = 1]
    /\ skipped' = [skipped EXCEPT ![p] = {}]
    /\ atStart' = [atStart EXCEPT ![p] = disclosures]
    /\ UNCHANGED <<disclosures, batch, db>>

-----------------------------------------------------------------------------
(* GetRecentRawReports.                                                    *)

\* (mutant) The last page is not counted.
FullPages == (Len(disclosures) - 1) \div PageSize

PageCount == (Len(disclosures) + PageSize - 1) \div PageSize

\* What DART answers for page n: the n-th slice of the list as it is now.
PageOf(n) ==
    LET first == (n - 1) * PageSize + 1
        last == IF n * PageSize <= Len(disclosures)
                THEN n * PageSize ELSE Len(disclosures)
    IN  SubSeq(disclosures, first, last)

Cut(s, limit) == IF limit > 0 /\ Len(s) > limit THEN SubSeq(s, 1, limit) ELSE s

\* Only the first response's TotalPage says when to stop: the list may have
\* grown by the time a later page is requested.
ListPage(p) ==
    /\ pc[p] = "list"
    /\ disclosures # <<>>
    /\ LET n == page[p] + 1
           total == IF n = 1 THEN PageCount ELSE totalPage[p]
           got == Cut(listing[p] \o PageOf(n), Limit[p])
           more == n < total /\ (Limit[p] = 0 \/ Len(got) < Limit[p])
       IN  /\ page' = [page EXCEPT ![p] = n]
           /\ totalPage' = [totalPage EXCEPT ![p] = total]
           /\ listing' = [listing EXCEPT ![p] = got]
           /\ Goto(p, IF more THEN "list" ELSE "scan")
    /\ UNCHANGED <<disclosures, db, next, batch, skipped, atStart>>

\* The list cannot be fetched (an empty list is an error status of DART's):
\* the error is logged and the handler returns nil, so nothing is retried.
ListFails(p) ==
    /\ pc[p] = "list"
    /\ Abandon(p, "ok")
    /\ UNCHANGED <<disclosures, db>>

-----------------------------------------------------------------------------
(* The body of the loop.                                                   *)

\* (mutant) A report that is stored already is analysed once more.
AnalyseAgain(p) ==
    /\ pc[p] = "scan" /\ Remaining(p)
    /\ Cur(p) \in raw
    /\ Goto(p, "analyse")
    /\ UNCHANGED <<disclosures, db, cursor, listing, next, batch, skipped>>

\* The row count of the receipt number decides whether the report is new.
AlreadyStored(p) ==
    /\ pc[p] = "scan" /\ Remaining(p)
    /\ Cur(p) \in raw
    /\ Advance(p)
    /\ UNCHANGED <<disclosures, db, cursor, listing, batch, skipped>>

NotStored(p) ==
    /\ pc[p] = "scan" /\ Remaining(p)
    /\ Cur(p) \notin raw
    /\ Goto(p, "fetch")
    /\ UNCHANGED <<disclosures, db, cursor, listing, next, batch, skipped>>

\* GetDocument: DART's status 014 is ErrDocumentNotFound.
DocumentMissing(p) ==
    /\ pc[p] = "fetch"
    /\ Advance(p)
    /\ skipped' = [skipped EXCEPT ![p] = @ \cup {Cur(p)}]
    /\ UNCHANGED <<disclosures, db, cursor, listing, batch>>

DocumentParsed(p) ==
    /\ pc[p] = "fetch"
    /\ Cur(p) \notin Malformed
    /\ Goto(p, "insert")
    /\ UNCHANGED <<disclosures, db, cursor, listing, next, batch, skipped>>

\* (mutant) The error is logged and the handler returns nil.
DocumentFailsQuietly(p) ==
    /\ pc[p] = "fetch"
    /\ ReturnNil(p)
    /\ UNCHANGED <<disclosures, db>>

\* Any other error of GetDocument, or a document ParseXBRL rejects, ends
\* the run: the reports behind this one are not looked at.
DocumentFails(p) ==
    /\ pc[p] = "fetch"
    /\ Abandon(p, "err")
    /\ UNCHANGED <<disclosures, db>>

\* Create(&dbRawReport) under the UNIQUE constraint on receipt_number.
InsertRaw(p) ==
    /\ pc[p] = "insert"
    /\ Cur(p) \notin raw
    /\ raw' = raw \cup {Cur(p)}
    /\ Goto(p, "analyse")
    /\ UNCHANGED <<disclosures, reportTypes, analyses, llmCalls, cursor,
                   listing, next, batch, skipped>>

\* (mutant) ON CONFLICT DO NOTHING: the conflict goes unnoticed.
ConflictIgnored(p) ==
    /\ pc[p] = "insert"
    /\ Cur(p) \in raw
    /\ Goto(p, "analyse")
    /\ UNCHANGED <<disclosures, db, cursor, listing, next, batch, skipped>>

\* Another run stored the report after this one counted no row.
InsertConflict(p) ==
    /\ pc[p] = "insert"
    /\ Cur(p) \in raw
    /\ Abandon(p, "err")
    /\ UNCHANGED <<disclosures, db>>

\* The row is committed but the connection fails before the answer.
InsertUnacked(p) ==
    /\ pc[p] = "insert"
    /\ Cur(p) \notin raw
    /\ raw' = raw \cup {Cur(p)}
    /\ Abandon(p, "err")
    /\ UNCHANGED <<disclosures, reportTypes, analyses, llmCalls>>

CallModel(p) ==
    /\ pc[p] = "analyse"
    /\ llmCalls' = [llmCalls EXCEPT ![Cur(p)] = @ + 1]
    /\ UNCHANGED <<disclosures, raw, reportTypes, analyses, cursor, listing,
                   skipped>>

Gather(p) == batch' = [batch EXCEPT ![p][Cur(p)] = @ + 1]

\* AnalyzeReport or AnalyzeReportBatch fails: logged, and the loop goes on
\* although the raw report has been stored.
AnalysisFails(p) ==
    /\ CallModel(p)
    /\ Advance(p)
    /\ UNCHANGED batch

AnalysisArrives(p) ==
    /\ CallModel(p)
    /\ Gather(p)
    /\ Advance(p)

\* The answer carries a schema suggestion, to be stored before it is gathered.
AnalysisSuggests(p) ==
    /\ CallModel(p)
    /\ Goto(p, "suggest")
    /\ UNCHANGED <<next, batch>>

AddReportType(p) == reportTypes' = [reportTypes EXCEPT ![Cur(p)] = @ + 1]

StoreReportType(p) ==
    /\ pc[p] = "suggest"
    /\ AddReportType(p)
    /\ Gather(p)
    /\ Advance(p)
    /\ UNCHANGED <<disclosures, raw, analyses, llmCalls, cursor, listing,
                   skipped>>

StoreReportTypeUnacked(p) ==
    /\ pc[p] = "suggest"
    /\ AddReportType(p)
    /\ Abandon(p, "err")
    /\ UNCHANGED <<disclosures, raw, analyses, llmCalls>>

-----------------------------------------------------------------------------
(* The end of the run.                                                     *)

EndLoop(p) ==
    /\ pc[p] = "scan" /\ ~Remaining(p)
    /\ IF batch[p] = NoAnalyses THEN Goto(p, "ok") ELSE Goto(p, "flush")
    /\ UNCHANGED <<disclosures, db, cursor, listing, next, batch, skipped>>

\* CreateInBatches with a batch as large as the slice: one INSERT.
InsertBatch(p) ==
    /\ pc[p] = "flush"
    /\ analyses' = [r \in Receipts |-> analyses[r] + batch[p][r]]
    /\ UNCHANGED <<disclosures, raw, reportTypes, llmCalls>>

StoreAnalyses(p) == InsertBatch(p) /\ ReturnNil(p)

StoreAnalysesUnacked(p) == InsertBatch(p) /\ Abandon(p, "err")

\* A database statement fails without effect and the handler returns err.
DatabaseFails(p) ==
    /\ \/ pc[p] = "scan" /\ Remaining(p)
       \/ pc[p] \in {"insert", "suggest", "flush"}
    /\ Abandon(p, "err")
    /\ UNCHANGED <<disclosures, db>>

\* (mutant) The task is enqueued without asynq.Timeout.
NoDeadline(p) == FALSE

\* asynq's two-hour timeout: the context is done, asynq fails the task and
\* every later statement of the handler on this context fails.
DeadlineExpires(p) ==
    /\ p \in Timed
    /\ pc[p] \notin Ended
    /\ Abandon(p, "err")
    /\ UNCHANGED <<disclosures, db>>

\* The process dies (or is stopped: asynq aborts a handler that is still
\* running 8 seconds after Shutdown).
Crash(p) ==
    /\ pc[p] \notin Ended
    /\ Abandon(p, "idle")
    /\ UNCHANGED <<disclosures, db>>

-----------------------------------------------------------------------------
(* The environment: a company files a disclosure.                          *)

Publish(r) ==
    /\ \A i \in DOMAIN disclosures : disclosures[i] # r
    /\ disclosures' = <<r>> \o disclosures
    /\ UNCHANGED <<db, local>>

-----------------------------------------------------------------------------

\* What the handler does by itself once it has been entered.
Step(p) ==
    \/ ListPage(p) \/ ListFails(p)
    \/ AlreadyStored(p) \/ NotStored(p)
    \/ DocumentMissing(p) \/ DocumentParsed(p) \/ DocumentFails(p)
    \/ InsertRaw(p) \/ InsertConflict(p) \/ InsertUnacked(p)
    \/ AnalysisFails(p) \/ AnalysisArrives(p) \/ AnalysisSuggests(p)
    \/ StoreReportType(p) \/ StoreReportTypeUnacked(p)
    \/ EndLoop(p) \/ StoreAnalyses(p) \/ StoreAnalysesUnacked(p)
    \/ DatabaseFails(p)

Next ==
    \/ \E p \in Runs : Start(p) \/ Step(p) \/ DeadlineExpires(p) \/ Crash(p)
    \/ \E r \in Receipts : Publish(r)

Spec == Init /\ [][Next]_vars

\* A run that is not stopped executes its next statement: the Go scheduler
\* runs it and the DART client and the database answer or fail.  A call to the
\* model may never answer (http.DefaultClient has no timeout): asynq's deadline
\* ends a worker task then, and nothing ends a CLI invocation.
FairSpec ==
    /\ Spec
    /\ \A p \in Runs : WF_vars(pc[p] # "analyse" /\ Step(p))
    /\ \A p \in Timed : WF_vars(DeadlineExpires(p))

-----------------------------------------------------------------------------
(* Properties.                                                             *)

\* The reports whose analysis the run p owes: those gathered in its memory and
\* the one it has stored and is analysing.
Owed(p) ==
    {r \in Receipts : batch[p][r] > 0}
        \cup (IF pc[p] \in {"analyse", "suggest"} THEN {Cur(p)} ELSE {})

\* The model is paid at most once for a receipt, and nothing is derived twice
\* from one report, whatever the runs, retries and crashes: an analysis or a
\* schema suggestion stems from the one call made by the run whose INSERT won.
PaidOnce ==
    \A r \in Receipts :
        /\ llmCalls[r] <= 1
        /\ analyses[r] <= llmCalls[r]
        /\ reportTypes[r] <= llmCalls[r]
        /\ llmCalls[r] > 0 => r \in raw

\* A report is in the hands of one run at most: no other run owes, or has
\* stored, the analysis it is going to store.
SoleOwner ==
    \A p \in Runs : \A r \in Owed(p) :
        /\ r \in raw
        /\ analyses[r] = 0
        /\ batch[p][r] <= 1
        /\ \A q \in Runs : r \in Owed(q) => q = p

\* What makes the two above inductive: the loop's body works on a listed report,
\* the model is called once for it before it is gathered, and memory dies with
\* the run.
Bookkeeping ==
    \A p \in Runs :
        /\ pc[p] \in AtReport => Remaining(p)
        /\ pc[p] \in Ended => batch[p] = NoAnalyses
        /\ pc[p] = "analyse" => llmCalls[Cur(p)] = 0
        /\ pc[p] = "suggest" => llmCalls[Cur(p)] = 1 /\ reportTypes[Cur(p)] = 0
        /\ pc[p] \in {"analyse", "suggest"} => batch[p][Cur(p)] = 0
        /\ \A r \in Receipts : batch[p][r] > 0 => llmCalls[r] = 1

\* A run that returns nil after it got its listing left none of it behind: each
\* listed report has a row, or DART had no document for it during the run.
OkRunComplete ==
    \A p \in Runs : pc[p] = "ok" =>
        \A i \in DOMAIN listing[p] : listing[p][i] \in raw \cup skipped[p]

\* Disclosures filed while the pages are being requested push older ones over
\* the page boundaries.  An unlimited listing repeats entries then, but it can
\* only lose the oldest disclosures, no more than were filed since the start.
ListingLosesOnlyOldest ==
    \A p \in Runs : (Limit[p] = 0 /\ pc[p] \in {"scan", "ok"} /\ page[p] > 0) =>
        \A i \in DOMAIN atStart[p] :
            \/ \E j \in DOMAIN listing[p] : listing[p][j] = atStart[p][i]
            \/ i > Len(atStart[p]) - (Len(disclosures) - Len(atStart[p]))

\* Every worker task ends, whatever DART, the model and the database answer; a
\* CLI invocation ends or waits for the model.
RunEnds ==
    \A p \in Runs :
        pc[p] = "list" ~>
            (pc[p] \in Ended \/ (p \notin Timed /\ pc[p] = "analyse"))

\* The standing of each receipt: see ReportLedger.
Standing ==
    [r \in Receipts |->
        IF analyses[r] > 1 THEN "duplicated"
        ELSE IF analyses[r] = 1 THEN "analysed"
        ELSE IF r \notin raw THEN "absent"
        ELSE IF \E p \in Runs : r \in Owed(p) THEN "pending"
        ELSE "stranded"]

Ledger == INSTANCE ReportLedger WITH standing <- Standing

\* The pipeline keeps the ledger's promise; in particular a stored report that
\* lost its analysis (stranded) never gets one, however often it is retried.
LedgerSpec == Ledger!Spec

=============================================================================
