----------------------------- MODULE DartWorker -----------------------------
(***************************************************************************)
(* The worker deployment: processes that boot, clean and fill the queue    *)
(* (FetchQueue) and whose server runs HandleFetchReportsTask               *)
(* (ReportPipeline) for the fetch-reports task it has leased, next to CLI  *)
(* invocations that run the handler without a queue.                       *)
(***************************************************************************)
EXTENDS Naturals, Sequences, FiniteSets

CONSTANTS Receipts, PageSize, Malformed,
          Workers, Clis, FetchTasks, CompanyTasks, MaxRetry, MaxStops, NoWorker

ASSUME ProcessesAssumption == Workers \cap Clis = {}
\* What ReportPipeline and FetchQueue assume of their parameters.
ASSUME PageSizeAssumption == PageSize \in Nat \ {0}
ASSUME QueueAssumption ==
    /\ NoWorker \notin Workers
    /\ FetchTasks \cap CompanyTasks = {}
    /\ MaxRetry \in Nat
    /\ MaxStops \in Nat

VARIABLES disclosures, raw, reportTypes, analyses, llmCalls, pc, page,
          totalPage, listing, next, batch, skipped, atStart
VARIABLES state, retried, holder, proc, listNo, found, alone, stops

pipelineVars == <<disclosures, raw, reportTypes, analyses, llmCalls, pc, page,
                  totalPage, listing, next, batch, skipped, atStart>>
queueVars == <<state, retried, holder, proc, listNo, found, alone, stops>>
vars == <<pipelineVars, queueVars>>

Runs == Workers \cup Clis

\* The worker's payload has neither a corporation nor a limit.
P == INSTANCE ReportPipeline
         WITH Timed <- Workers, Limit <- [p \in Runs |-> 0]

Q == INSTANCE FetchQueue

Handles(w, t) == holder[t] = w /\ t \in FetchTasks

Init == P!Init /\ Q!Init

-----------------------------------------------------------------------------

QueueOnly(A) == A /\ UNCHANGED pipelineVars
PipelineOnly(A) == A /\ UNCHANGED queueVars

BootProcess(w) == QueueOnly(Q!Boot(w) \/ Q!BootStep(w))

Schedule(w) == QueueOnly(Q!EnqueueCompanies(w))

\* The mux calls the handler of the task's type; the companies handler does not
\* touch the pipeline's tables.
TakeFetch(w, t) ==
    /\ t \in FetchTasks
    /\ Q!Dequeue(w, t)
    /\ P!Start(w)

TakeCompanies(w, t) == t \in CompanyTasks /\ QueueOnly(Q!Dequeue(w, t))

RunHandler(w, t) == Handles(w, t) /\ PipelineOnly(P!Step(w))

RunOverdue(w, t) == Handles(w, t) /\ PipelineOnly(P!DeadlineExpires(w))

\* (mutant) Whatever the handler returned, the task is acknowledged.
AcknowledgeAlways(w, t) ==
    /\ Handles(w, t)
    /\ pc[w] \in {"ok", "err"}
    /\ QueueOnly(Q!Succeed(w, t))

\* The server reports what the handler returned.
FetchReturns(w, t) ==
    /\ Handles(w, t)
    /\ \/ pc[w] = "ok" /\ QueueOnly(Q!Succeed(w, t))
       \/ pc[w] = "err" /\ QueueOnly(Q!Fail(w, t))

CompaniesReturn(w, t) ==
    t \in CompanyTasks /\ QueueOnly(Q!Succeed(w, t) \/ Q!Fail(w, t))

Maintain(w, t) == QueueOnly(Q!Forward(w, t) \/ Q!Recover(w, t))

\* (mutant) A running handler goes on without its process.
StopServerOnly(w) == QueueOnly(Q!Shutdown(w) \/ Q!Crash(w))

\* A handler that is running dies with its process.
StopProcess(w) ==
    /\ Q!Shutdown(w) \/ Q!Crash(w)
    /\ IF pc[w] \in P!Ended THEN UNCHANGED pipelineVars ELSE P!Crash(w)

Cli(c) == PipelineOnly(P!Start(c) \/ P!Step(c) \/ P!Crash(c))

File(r) == PipelineOnly(P!Publish(r))

Next ==
    \/ \E w \in Workers :
           \/ BootProcess(w) \/ Schedule(w) \/ StopProcess(w)
           \/ \E t \in Q!Tasks :
                  \/ TakeFetch(w, t) \/ TakeCompanies(w, t)
                  \/ RunHandler(w, t) \/ RunOverdue(w, t)
                  \/ FetchReturns(w, t) \/ CompaniesReturn(w, t)
                  \/ Maintain(w, t)
    \/ \E c \in Clis : Cli(c)
    \/ \E r \in Receipts : File(r)

Spec == Init /\ [][Next]_vars

-----------------------------------------------------------------------------
(* Properties.                                                             *)

\* A worker is inside the handler only while its server has leased a fetch-reports
\* task: no run outlives its task.
RunsFollowLeases ==
    \A w \in Workers : pc[w] \notin P!Ended => \E t \in FetchTasks : holder[t] = w

\* A task is acknowledged only after its run returned nil, and a run that had a
\* listing then has every listed report stored or known to have no document.
AckedMeansStored ==
    [][\A w \in Workers, t \in FetchTasks :
           (holder[t] = w /\ state'[t] = "completed") =>
               /\ pc[w] = "ok"
               /\ \A i \in DOMAIN listing[w] :
                      listing[w][i] \in raw \cup skipped[w]]_vars

=============================================================================
