--------------------------- MODULE DartWorkerProofs ---------------------------
(***************************************************************************)
(* The composition of the queue and the handler, for any processes, tasks  *)
(* and disclosures.  Each part goes on behaving as its own specification   *)
(* allows, so that what is proved of the parts holds of the composition.   *)
(***************************************************************************)
EXTENDS DartWorker, TLAPS

\* The parts, with the theorems about them.
Pipeline ==
    INSTANCE ReportPipelineProofs
        WITH Timed <- Workers, Limit <- [p \in Runs |-> 0]
Queue == INSTANCE FetchQueueProofs

LEMMA PipelineParameters ==
    Workers \subseteq Runs /\ [p \in Runs |-> 0] \in [Runs -> Nat]
  BY DEF Runs

-----------------------------------------------------------------------------
(* The instances with the theorems have the definitions of P and Q.        *)

LEMMA SameQueue ==
    /\ Q!Init <=> Queue!Init
    /\ Q!Next <=> Queue!Next
    /\ Q!vars = Queue!vars
    /\ Q!LeaseSound <=> Queue!LeaseSound
    /\ Q!Tasks = Queue!Tasks
<1>1. Q!Init <=> Queue!Init
  BY DEF Q!Init, Queue!Init, Q!Tasks, Queue!Tasks
<1>2. Q!vars = Queue!vars
  BY DEF Q!vars, Queue!vars
<1>3. Q!LeaseSound <=> Queue!LeaseSound
  BY DEF Q!LeaseSound, Queue!LeaseSound, Q!Tasks, Queue!Tasks, Q!Serving, Queue!Serving
<1>4. Q!Tasks = Queue!Tasks
  BY DEF Q!Tasks, Queue!Tasks
<1> USE DEF Q!Tasks, Queue!Tasks, Q!Serving, Queue!Serving, Q!SetTask, Queue!SetTask,
    Q!SetProc, Queue!SetProc, Q!Booting, Queue!Booting, Q!Waiting, Queue!Waiting
<1>5. ASSUME NEW w \in Workers
      PROVE  /\ Q!Boot(w) <=> Queue!Boot(w)
             /\ Q!BootStep(w) <=> Queue!BootStep(w)
             /\ Q!EnqueueCompanies(w) <=> Queue!EnqueueCompanies(w)
             /\ Q!Shutdown(w) <=> Queue!Shutdown(w)
             /\ Q!Crash(w) <=> Queue!Crash(w)
  <2>1. Q!Boot(w) <=> Queue!Boot(w)
    <3>1. Q!IdsLeft <=> Queue!IdsLeft
      <4>1. ASSUME NEW S PROVE Q!Cardinality(S) = Queue!Cardinality(S)
        BY DEF Q!Cardinality, Queue!Cardinality
      <4> QED BY <4>1 DEF Q!IdsLeft, Queue!IdsLeft
    <3> QED BY <3>1 DEF Q!Boot, Queue!Boot
  <2>2. Q!ListTasks(w) <=> Queue!ListTasks(w)
    BY DEF Q!ListTasks, Queue!ListTasks, Q!ListOrder, Queue!ListOrder
  <2>3. Q!DeleteTask(w) <=> Queue!DeleteTask(w)
    BY DEF Q!DeleteTask, Queue!DeleteTask
  <2>4. Q!DeleteRefused(w) <=> Queue!DeleteRefused(w)
    BY DEF Q!DeleteRefused, Queue!DeleteRefused
  <2>5. Q!NextList(w) <=> Queue!NextList(w)
    BY DEF Q!NextList, Queue!NextList
  <2>6. Q!EnqueueFetch(w) <=> Queue!EnqueueFetch(w)
    BY DEF Q!EnqueueFetch, Queue!EnqueueFetch
  <2>7. Q!EnqueueCompanies(w) <=> Queue!EnqueueCompanies(w)
    BY DEF Q!EnqueueCompanies, Queue!EnqueueCompanies
  <2>8. Q!Shutdown(w) <=> Queue!Shutdown(w)
    BY DEF Q!Shutdown, Queue!Shutdown, Q!Stop, Queue!Stop
  <2>9. Q!Crash(w) <=> Queue!Crash(w)
    BY DEF Q!Crash, Queue!Crash, Q!Stop, Queue!Stop
  <2> QED BY <2>1, <2>2, <2>3, <2>4, <2>5, <2>6, <2>7, <2>8, <2>9
             DEF Q!BootStep, Queue!BootStep
<1>6. ASSUME NEW w \in Workers, NEW t \in Q!Tasks
      PROVE  /\ Q!Dequeue(w, t) <=> Queue!Dequeue(w, t)
             /\ Q!Succeed(w, t) <=> Queue!Succeed(w, t)
             /\ Q!Fail(w, t) <=> Queue!Fail(w, t)
             /\ Q!Forward(w, t) <=> Queue!Forward(w, t)
             /\ Q!Recover(w, t) <=> Queue!Recover(w, t)
  BY DEF Q!Dequeue, Queue!Dequeue, Q!Held, Queue!Held, Q!Succeed, Queue!Succeed,
     Q!Fail, Queue!Fail, Q!Forward, Queue!Forward, Q!Recover, Queue!Recover,
     Q!CountFailure, Queue!CountFailure
<1>7. Q!Next <=> Queue!Next
  BY <1>5, <1>6 DEF Q!Next, Queue!Next
<1> QED BY <1>1, <1>2, <1>3, <1>4, <1>7

LEMMA SamePipeline ==
    /\ P!Init <=> Pipeline!Init
    /\ P!vars = Pipeline!vars
    /\ P!Ended = Pipeline!Ended
    /\ \A p \in Runs :
           /\ P!Start(p) <=> Pipeline!Start(p)
           /\ P!Step(p) <=> Pipeline!Step(p)
           /\ P!DeadlineExpires(p) <=> Pipeline!DeadlineExpires(p)
           /\ P!Crash(p) <=> Pipeline!Crash(p)
    /\ \A r \in Receipts : P!Publish(r) <=> Pipeline!Publish(r)
<1> USE DEF P!Ended, Pipeline!Ended, P!db, Pipeline!db, P!Goto, Pipeline!Goto,
    P!NoAnalyses, Pipeline!NoAnalyses, P!cursor, Pipeline!cursor, P!Cur, Pipeline!Cur,
    P!Remaining, Pipeline!Remaining, P!Advance, Pipeline!Advance,
    P!Abandon, Pipeline!Abandon
<1>1. P!Init <=> Pipeline!Init
  BY DEF P!Init, Pipeline!Init
<1>2. P!vars = Pipeline!vars /\ P!Ended = Pipeline!Ended
  BY DEF P!vars, Pipeline!vars
<1>3. ASSUME NEW r \in Receipts PROVE P!Publish(r) <=> Pipeline!Publish(r)
  BY DEF P!Publish, Pipeline!Publish, P!local, Pipeline!local
<1>4. ASSUME NEW p \in Runs
      PROVE  /\ P!Start(p) <=> Pipeline!Start(p)
             /\ P!Step(p) <=> Pipeline!Step(p)
             /\ P!DeadlineExpires(p) <=> Pipeline!DeadlineExpires(p)
             /\ P!Crash(p) <=> Pipeline!Crash(p)
  <2>1. P!Start(p) <=> Pipeline!Start(p)
    BY DEF P!Start, Pipeline!Start
  <2>2. P!DeadlineExpires(p) <=> Pipeline!DeadlineExpires(p)
    BY DEF P!DeadlineExpires, Pipeline!DeadlineExpires
  <2>3. P!Crash(p) <=> Pipeline!Crash(p)
    BY DEF P!Crash, Pipeline!Crash
  <2>4. P!ListPage(p) <=> Pipeline!ListPage(p)
    BY DEF P!ListPage, Pipeline!ListPage, P!PageCount, Pipeline!PageCount,
       P!PageOf, Pipeline!PageOf, P!Cut, Pipeline!Cut
  <2>5. P!ListFails(p) <=> Pipeline!ListFails(p)
    BY DEF P!ListFails, Pipeline!ListFails
  <2>6. /\ P!AlreadyStored(p) <=> Pipeline!AlreadyStored(p)
        /\ P!NotStored(p) <=> Pipeline!NotStored(p)
        /\ P!EndLoop(p) <=> Pipeline!EndLoop(p)
    BY DEF P!AlreadyStored, Pipeline!AlreadyStored, P!NotStored, Pipeline!NotStored,
       P!EndLoop, Pipeline!EndLoop
  <2>7. /\ P!DocumentMissing(p) <=> Pipeline!DocumentMissing(p)
        /\ P!DocumentParsed(p) <=> Pipeline!DocumentParsed(p)
        /\ P!DocumentFails(p) <=> Pipeline!DocumentFails(p)
    BY DEF P!DocumentMissing, Pipeline!DocumentMissing, P!DocumentParsed,
       Pipeline!DocumentParsed, P!DocumentFails, Pipeline!DocumentFails
  <2>8. /\ P!InsertRaw(p) <=> Pipeline!InsertRaw(p)
        /\ P!InsertConflict(p) <=> Pipeline!InsertConflict(p)
        /\ P!InsertUnacked(p) <=> Pipeline!InsertUnacked(p)
        /\ P!DatabaseFails(p) <=> Pipeline!DatabaseFails(p)
    BY DEF P!InsertRaw, Pipeline!InsertRaw, P!InsertConflict, Pipeline!InsertConflict,
       P!InsertUnacked, Pipeline!InsertUnacked, P!DatabaseFails, Pipeline!DatabaseFails
  <2>9. /\ P!AnalysisFails(p) <=> Pipeline!AnalysisFails(p)
        /\ P!AnalysisArrives(p) <=> Pipeline!AnalysisArrives(p)
        /\ P!AnalysisSuggests(p) <=> Pipeline!AnalysisSuggests(p)
    BY DEF P!AnalysisFails, Pipeline!AnalysisFails, P!AnalysisArrives,
       Pipeline!AnalysisArrives, P!AnalysisSuggests, Pipeline!AnalysisSuggests,
       P!CallModel, Pipeline!CallModel, P!Gather, Pipeline!Gather
  <2>10. /\ P!StoreReportType(p) <=> Pipeline!StoreReportType(p)
         /\ P!StoreReportTypeUnacked(p) <=> Pipeline!StoreReportTypeUnacked(p)
    BY DEF P!StoreReportType, Pipeline!StoreReportType, P!StoreReportTypeUnacked,
       Pipeline!StoreReportTypeUnacked, P!AddReportType, Pipeline!AddReportType,
       P!Gather, Pipeline!Gather
  <2>11. /\ P!StoreAnalyses(p) <=> Pipeline!StoreAnalyses(p)
         /\ P!StoreAnalysesUnacked(p) <=> Pipeline!StoreAnalysesUnacked(p)
    BY DEF P!StoreAnalyses, Pipeline!StoreAnalyses, P!StoreAnalysesUnacked,
       Pipeline!StoreAnalysesUnacked, P!InsertBatch, Pipeline!InsertBatch,
       P!ReturnNil, Pipeline!ReturnNil
  <2>12. P!Step(p) <=> Pipeline!Step(p)
    BY <2>4, <2>5, <2>6, <2>7, <2>8, <2>9, <2>10, <2>11 DEF P!Step, Pipeline!Step
  <2> QED BY <2>1, <2>2, <2>3, <2>12
<1> QED BY <1>1, <1>2, <1>3, <1>4

-----------------------------------------------------------------------------
(* Every step of the composition is a step of each part or leaves it alone. *)

LEMMA QueueStep == [Next]_vars => [Q!Next]_Q!vars
<1> SUFFICES ASSUME [Next]_vars PROVE [Q!Next]_Q!vars
  OBVIOUS
<1> USE DEF QueueOnly, Q!vars
<1>1. ASSUME NEW w \in Workers, BootProcess(w) \/ Schedule(w) \/ StopProcess(w)
      PROVE  Q!Next
  BY <1>1 DEF BootProcess, Schedule, StopProcess, Q!Next
<1>2. ASSUME NEW w \in Workers, NEW t \in Q!Tasks,
             TakeFetch(w, t) \/ TakeCompanies(w, t) \/ FetchReturns(w, t)
             \/ CompaniesReturn(w, t) \/ Maintain(w, t)
      PROVE  Q!Next
  BY <1>2 DEF TakeFetch, TakeCompanies, FetchReturns, CompaniesReturn, Maintain, Q!Next
<1>3. ASSUME NEW A, PipelineOnly(A) PROVE UNCHANGED Q!vars
  BY <1>3 DEF PipelineOnly, queueVars
<1>4. CASE UNCHANGED vars
  BY <1>4 DEF vars, queueVars
<1> QED BY <1>1, <1>2, <1>3, <1>4 DEF Next, RunHandler, RunOverdue, Cli, File

LEMMA PipelineStep == [Next]_vars => [P!Next]_P!vars
<1> SUFFICES ASSUME [Next]_vars PROVE [P!Next]_P!vars
  OBVIOUS
<1> USE DEF Runs, P!vars
<1>1. ASSUME NEW A, QueueOnly(A) PROVE UNCHANGED P!vars
  BY <1>1 DEF QueueOnly, pipelineVars
<1>2. ASSUME NEW w \in Workers, NEW t \in Q!Tasks,
             TakeFetch(w, t) \/ RunHandler(w, t) \/ RunOverdue(w, t)
      PROVE  P!Next
  BY <1>2 DEF TakeFetch, RunHandler, RunOverdue, PipelineOnly, P!Next
<1>3. ASSUME NEW w \in Workers, StopProcess(w) PROVE [P!Next]_P!vars
  BY <1>3 DEF StopProcess, P!Next, pipelineVars
<1>4. ASSUME NEW c \in Clis, Cli(c) PROVE P!Next
  BY <1>4 DEF Cli, PipelineOnly, P!Next
<1>5. ASSUME NEW r \in Receipts, File(r) PROVE P!Next
  BY <1>5 DEF File, PipelineOnly, P!Next
<1>6. CASE UNCHANGED vars
  BY <1>6 DEF vars, pipelineVars
<1> QED BY <1>1, <1>2, <1>3, <1>4, <1>5, <1>6
           DEF Next, BootProcess, Schedule, TakeCompanies, FetchReturns,
               CompaniesReturn, Maintain

\* The queue's invariant and the pipeline's, with what makes its runs complete.
Parts ==
    /\ Q!LeaseSound
    /\ Queue!TypeOK
    /\ Pipeline!Inv
    /\ Pipeline!OkRunComplete

LEMMA PartsHold == Spec => []Parts
<1>1. Spec => Queue!Spec
  <2>1. Init => Queue!Init
    BY SameQueue DEF Init
  <2>2. [Next]_vars => [Queue!Next]_Queue!vars
    BY SameQueue, QueueStep DEF Q!vars, Queue!vars
  <2> QED BY <2>1, <2>2, PTL DEF Spec, Queue!Spec
<1>2. Spec => Pipeline!Spec
  <2>1. Init => Pipeline!Init
    BY SamePipeline DEF Init
  <2>2. [Next]_vars => [Pipeline!Next]_Pipeline!vars
    BY SamePipeline, PipelineStep DEF P!Next, Pipeline!Next, P!vars, Pipeline!vars
  <2> QED BY <2>1, <2>2, PTL DEF Spec, Pipeline!Spec
<1>3. Queue!Spec => []Queue!LeaseSound /\ []Queue!TypeOK
  BY QueueAssumption, Queue!LeasesAreSound, Queue!QueueTypes, PTL
<1>4. Pipeline!Spec => []Pipeline!Inv /\ []Pipeline!OkRunComplete
  BY PipelineParameters, PageSizeAssumption, Pipeline!Invariance,
     Pipeline!OkRunsAreComplete, PTL
<1>5. Queue!LeaseSound => Q!LeaseSound
  BY SameQueue
<1> QED BY <1>1, <1>2, <1>3, <1>4, <1>5, PTL DEF Parts

-----------------------------------------------------------------------------
(* Leases and runs.                                                        *)

\* What the queue's steps may do to a lease that a process holds.
LEMMA LeaseKept ==
    ASSUME Parts, NEW w \in Workers, NEW t \in Q!Tasks, holder[t] = w,
           [Next]_vars
    PROVE  \/ holder'[t] = w /\ state'[t] = "active"
           \/ StopProcess(w)
           \/ FetchReturns(w, t) \/ CompaniesReturn(w, t)
<1>1. /\ state[t] = "active" /\ holder[t] # NoWorker
      /\ holder \in [Q!Tasks -> Workers \cup {NoWorker}] /\ DOMAIN state = Q!Tasks
  BY QueueAssumption, SameQueue DEF Parts, Q!LeaseSound, Queue!TypeOK
<1> USE DEF Q!SetTask, Q!SetProc
<1>2. ASSUME UNCHANGED <<state, holder>> PROVE holder'[t] = w /\ state'[t] = "active"
  BY <1>1, <1>2
<1>3. ASSUME NEW u \in Workers, BootProcess(u) \/ Schedule(u)
      PROVE  holder'[t] = w /\ state'[t] = "active"
  BY <1>1, <1>3 DEF BootProcess, Schedule, QueueOnly, Q!Boot, Q!BootStep, Q!ListTasks,
     Q!DeleteTask, Q!DeleteRefused, Q!NextList, Q!EnqueueFetch, Q!EnqueueCompanies,
     Q!Waiting
<1>4. ASSUME NEW u \in Workers, u # w, StopProcess(u)
      PROVE  holder'[t] = w /\ state'[t] = "active"
  BY <1>1, <1>4 DEF StopProcess, Q!Shutdown, Q!Crash, Q!Stop
<1>5. ASSUME NEW u \in Workers, NEW s \in Q!Tasks,
             TakeFetch(u, s) \/ TakeCompanies(u, s) \/ Maintain(u, s)
      PROVE  holder'[t] = w /\ state'[t] = "active"
  BY <1>1, <1>5 DEF TakeFetch, TakeCompanies, Maintain, QueueOnly, Q!Dequeue, Q!Forward,
     Q!Recover, Q!CountFailure
<1>6. ASSUME NEW u \in Workers, NEW s \in Q!Tasks, u # w \/ s # t,
             FetchReturns(u, s) \/ CompaniesReturn(u, s)
      PROVE  holder'[t] = w /\ state'[t] = "active"
  BY <1>1, <1>6 DEF FetchReturns, CompaniesReturn, QueueOnly, Q!Succeed, Q!Fail,
     Q!CountFailure
<1> QED BY <1>2, <1>3, <1>4, <1>5, <1>6
           DEF Next, RunHandler, RunOverdue, Cli, File, PipelineOnly, queueVars, vars

\* The run of a worker starts when its server takes a fetch-reports task, and is
\* moved by nothing but the steps of its own handler and process.
LEMMA RunMoved ==
    ASSUME Parts, NEW w \in Workers, [Next]_vars, pc'[w] # pc[w]
    PROVE  \/ StopProcess(w)
           \/ \E t \in Q!Tasks : TakeFetch(w, t) \/ RunHandler(w, t) \/ RunOverdue(w, t)
<1>1. ASSUME NEW p \in Runs,
             P!Start(p) \/ P!Step(p) \/ P!DeadlineExpires(p) \/ P!Crash(p)
      PROVE  p = w
  <2>1. Pipeline!RunStep(p)
    BY <1>1, SamePipeline DEF Pipeline!RunStep
  <2>2. \A q \in Runs \ {p} : pc'[q] = pc[q]
    BY <2>1, PipelineParameters, PageSizeAssumption, Pipeline!RunStepElsewhere DEF Parts
  <2> QED BY <2>2 DEF Runs
<1>2. ASSUME NEW A, QueueOnly(A) PROVE FALSE
  BY <1>2 DEF QueueOnly, pipelineVars
<1>3. ASSUME NEW c \in Clis PROVE ~Cli(c)
  BY <1>1, ProcessesAssumption DEF Cli, PipelineOnly, Runs
<1>4. ASSUME NEW r \in Receipts PROVE ~File(r)
  BY DEF File, PipelineOnly, P!Publish, P!local
<1>5. ASSUME NEW u \in Workers, StopProcess(u) PROVE u = w
  BY <1>1, <1>5 DEF StopProcess, Runs, pipelineVars
<1>6. ASSUME NEW u \in Workers, NEW t \in Q!Tasks,
             TakeFetch(u, t) \/ RunHandler(u, t) \/ RunOverdue(u, t)
      PROVE  u = w
  BY <1>1, <1>6 DEF TakeFetch, RunHandler, RunOverdue, PipelineOnly, Runs
<1>7. ~UNCHANGED vars
  BY DEF vars, pipelineVars
<1> QED BY <1>2, <1>3, <1>4, <1>5, <1>6, <1>7
           DEF Next, BootProcess, Schedule, TakeCompanies, FetchReturns,
               CompaniesReturn, Maintain

\* The handler's own steps are taken inside it.
LEMMA StepsInside ==
    ASSUME NEW p \in Runs, P!Step(p) \/ P!DeadlineExpires(p)
    PROVE  pc[p] \notin P!Ended
  BY DEF P!Step, P!DeadlineExpires, P!ListPage, P!ListFails, P!AlreadyStored, P!NotStored,
     P!DocumentMissing, P!DocumentParsed, P!DocumentFails, P!InsertRaw,
     P!InsertConflict, P!InsertUnacked, P!AnalysisFails, P!AnalysisArrives,
     P!AnalysisSuggests, P!CallModel, P!StoreReportType, P!StoreReportTypeUnacked,
     P!EndLoop, P!StoreAnalyses, P!StoreAnalysesUnacked, P!InsertBatch,
     P!DatabaseFails, P!Ended

LEMMA RunsStep == Parts /\ RunsFollowLeases /\ [Next]_vars => RunsFollowLeases'
<1> SUFFICES ASSUME Parts, RunsFollowLeases, [Next]_vars,
                    NEW w \in Workers, pc'[w] \notin P!Ended
             PROVE  \E t \in FetchTasks : holder'[t] = w
  BY DEF RunsFollowLeases, P!Ended
<1>1. CASE pc[w] \notin P!Ended
  <2>1. PICK t \in FetchTasks : holder[t] = w
    BY <1>1 DEF RunsFollowLeases
  <2>2. ~StopProcess(w)
    <3>1. ASSUME P!Crash(w) PROVE pc'[w] \in P!Ended
      BY <3>1 DEF P!Crash, P!Abandon, P!Goto, P!Ended, Parts, Pipeline!Inv,
         Pipeline!TypeOK, Runs
    <3> QED BY <1>1, <3>1 DEF StopProcess
  <2>3. ~FetchReturns(w, t)
    BY <1>1 DEF FetchReturns, P!Ended
  <2>4. ~CompaniesReturn(w, t)
    BY QueueAssumption DEF CompaniesReturn
  <2>5. t \in Q!Tasks
    BY DEF Q!Tasks
  <2> QED BY <2>1, <2>2, <2>3, <2>4, <2>5, LeaseKept
<1>2. CASE pc[w] \in P!Ended
  <2>1. w \in Runs /\ pc'[w] # pc[w]
    BY <1>2 DEF Runs
  <2>2. ~StopProcess(w)
    BY <1>2, <2>1 DEF StopProcess, pipelineVars
  <2>3. PICK t \in Q!Tasks : TakeFetch(w, t)
    BY <1>2, <2>1, <2>2, RunMoved, StepsInside DEF RunHandler, RunOverdue, PipelineOnly
  <2>4. t \in FetchTasks /\ holder'[t] = w
    BY <2>3 DEF TakeFetch, Q!Dequeue, Parts, Queue!TypeOK, Queue!Tasks, Q!Tasks
  <2> QED BY <2>4
<1> QED BY <1>1, <1>2

\* A worker is inside the handler only while its process holds the lease of a
\* fetch-reports task, through deadlines, shutdowns, crashes and recoveries.
THEOREM RunsAreLeased == Spec => []RunsFollowLeases
<1>1. Init => RunsFollowLeases
  BY DEF Init, RunsFollowLeases, P!Init, P!Ended, Runs
<1> QED BY <1>1, PartsHold, RunsStep, PTL DEF Spec

\* A task is acknowledged by the process that holds it, and only after the run
\* for it returned nil with its whole listing stored or known to be missing.
THEOREM AcknowledgedIsStored == Spec => AckedMeansStored
<1>1. Parts /\ [Next]_vars =>
          [\A w \in Workers, t \in FetchTasks :
              (holder[t] = w /\ state'[t] = "completed") =>
                  /\ pc[w] = "ok"
                  /\ \A i \in DOMAIN listing[w] :
                         listing[w][i] \in raw \cup skipped[w]]_vars
  <2> SUFFICES ASSUME Parts, [Next]_vars, NEW w \in Workers, NEW t \in FetchTasks,
                      holder[t] = w, state'[t] = "completed"
               PROVE  /\ pc[w] = "ok"
                      /\ \A i \in DOMAIN listing[w] :
                             listing[w][i] \in raw \cup skipped[w]
    OBVIOUS
  <2>1. t \in Q!Tasks /\ t \notin CompanyTasks
    BY QueueAssumption DEF Q!Tasks
  <2>2. ~StopProcess(w)
    <3>1. state[t] = "active"
      BY <2>1, QueueAssumption DEF Parts, Q!LeaseSound
    <3>2. ASSUME Q!Shutdown(w) \/ Q!Crash(w) PROVE state'[t] # "completed"
      BY <2>1, <3>1, <3>2 DEF Q!Shutdown, Q!Crash
    <3> QED BY <3>2 DEF StopProcess
  <2>3. FetchReturns(w, t)
    BY <2>1, <2>2, LeaseKept DEF CompaniesReturn
  <2>4. pc[w] = "ok"
    <3>1. ASSUME Q!Fail(w, t) PROVE state'[t] # "completed"
      BY <2>1, <3>1 DEF Q!Fail, Q!CountFailure, Q!SetTask, Parts, Queue!TypeOK,
         Q!Tasks, Queue!Tasks
    <3> QED BY <2>3, <3>1 DEF FetchReturns, QueueOnly
  <2> QED BY <2>4 DEF Parts, Pipeline!OkRunComplete, Runs
<1> QED BY <1>1, PartsHold, PTL DEF Spec, AckedMeansStored

=============================================================================
