----------------------------- MODULE FetchQueue -----------------------------
(***************************************************************************)
(* The "default" asynq queue as cmd/dart-filing-worker uses it: what a     *)
(* worker process does to it when it boots (delete the waiting             *)
(* fetch-reports tasks, then enqueue one), the daily fetch-companies task, *)
(* and how asynq leases, retries, archives and recovers tasks.  What a     *)
(* handler does is left open: it returns nil or an error.                  *)
(*                                                                         *)
(* asynq itself is not in the repository; its part is modelled from the    *)
(* calls made here and their documented effect (v0.25).                    *)
(***************************************************************************)
EXTENDS Naturals, FiniteSets

CONSTANTS
    Workers,       \* worker processes (two while a new one replaces another)
    FetchTasks,    \* ids of fetch-reports tasks ever enqueued (a bound)
    CompanyTasks,  \* ids of fetch-companies tasks ever enqueued (a bound)
    MaxRetry,      \* asynq's retry limit, 25 by default
    MaxStops,      \* bound on the processes that are stopped or crash
    NoWorker

ASSUME NoWorkerAssumption == NoWorker \notin Workers
ASSUME TasksAssumption == FetchTasks \cap CompanyTasks = {}
ASSUME MaxRetryAssumption == MaxRetry \in Nat
ASSUME MaxStopsAssumption == MaxStops \in Nat

VARIABLES
    state,    \* state of each task id
    retried,  \* failures counted so far
    holder,   \* the live process with the lease on an active task
    proc,     \* what each process is doing
    listNo,   \* which task list the booting process is cleaning
    found,    \* the tasks it found in that list and has not deleted yet
    alone,    \* history: no other process has lived during its boot
    stops     \* processes stopped so far

vars == <<state, retried, holder, proc, listNo, found, alone, stops>>

Tasks == FetchTasks \cup CompanyTasks
Waiting == {"pending", "retry", "archived"}   \* states Inspector.DeleteTask accepts
TaskStates == Waiting \cup {"unused", "active", "completed", "deleted"}
Booting == {"list", "delete", "enqueue"}
ProcStates == Booting \cup {"down", "serving"}

\* (mutant) Archived tasks are not cleaned.
WithoutArchived == <<"pending", "retry", "pending">>

\* deleteTasksByType's listFns. ListScheduledTasks comes second in the code: it
\* is left out, for no task of this queue is ever scheduled for later.
ListOrder == <<"pending", "retry", "archived">>

Held(w) == {t \in Tasks : holder[t] = w}
Serving(w) == proc[w] = "serving"

TypeOK ==
    /\ state \in [Tasks -> TaskStates]
    /\ retried \in [Tasks -> 0..MaxRetry]
    /\ holder \in [Tasks -> Workers \cup {NoWorker}]
    /\ proc \in [Workers -> ProcStates]
    /\ listNo \in [Workers -> 1..3]
    /\ found \in [Workers -> SUBSET FetchTasks]
    /\ alone \in [Workers -> BOOLEAN]
    /\ stops \in 0..MaxStops

Init ==
    /\ state = [t \in Tasks |-> "unused"]
    /\ retried = [t \in Tasks |-> 0]
    /\ holder = [t \in Tasks |-> NoWorker]
    /\ proc = [w \in Workers |-> "down"]
    /\ listNo = [w \in Workers |-> 1]
    /\ found = [w \in Workers |-> {}]
    /\ alone = [w \in Workers |-> FALSE]
    /\ stops = 0

SetTask(t, s) == state' = [state EXCEPT ![t] = s]
SetProc(w, s) == proc' = [proc EXCEPT ![w] = s]

-----------------------------------------------------------------------------
(* A process boots.                                                        *)

\* Bound: a process boots only while a task id is left for every booting one.
IdsLeft ==
    Cardinality({w \in Workers : proc[w] \in Booting})
        < Cardinality({t \in FetchTasks : state[t] = "unused"})

Boot(w) ==
    /\ proc[w] = "down"
    /\ IdsLeft
    /\ SetProc(w, "list")
    /\ listNo' = [listNo EXCEPT ![w] = 1]
    /\ alone' = [v \in Workers |-> v = w /\ \A u \in Workers : proc[u] = "down"]
    /\ UNCHANGED <<state, retried, holder, found, stops>>

\* (mutant) The type is not compared.
ListAnyType(w) ==
    /\ proc[w] = "list"
    /\ SetProc(w, "delete")
    /\ found' = [found EXCEPT ![w] = {t \in Tasks : state[t] = ListOrder[listNo[w]]}]
    /\ UNCHANGED <<state, retried, holder, listNo, alone, stops>>

\* listAllTasks, filtered by type.
ListTasks(w) ==
    /\ proc[w] = "list"
    /\ SetProc(w, "delete")
    /\ found' = [found EXCEPT ![w] =
                     {t \in FetchTasks : state[t] = ListOrder[listNo[w]]}]
    /\ UNCHANGED <<state, retried, holder, listNo, alone, stops>>

DeleteTask(w) ==
    /\ proc[w] = "delete"
    /\ \E t \in found[w] :
           /\ state[t] \in Waiting
           /\ SetTask(t, "deleted")
           /\ found' = [found EXCEPT ![w] = @ \ {t}]
    /\ UNCHANGED <<retried, holder, proc, listNo, alone, stops>>

\* The task has become active, or is gone, since it was listed: DeleteTask
\* returns an error and the process ends in log.Fatalf.
DeleteRefused(w) ==
    /\ proc[w] = "delete"
    /\ \E t \in found[w] : state[t] \notin Waiting
    /\ SetProc(w, "down")
    /\ found' = [found EXCEPT ![w] = {}]
    /\ UNCHANGED <<state, retried, holder, listNo, alone, stops>>

\* (mutant) The same list is read again and again.
SameList(w) ==
    /\ proc[w] = "delete"
    /\ found[w] = {}
    /\ SetProc(w, "list")
    /\ UNCHANGED <<state, retried, holder, listNo, found, alone, stops>>

NextList(w) ==
    /\ proc[w] = "delete"
    /\ found[w] = {}
    /\ IF listNo[w] < 3
       THEN /\ SetProc(w, "list")
            /\ listNo' = [listNo EXCEPT ![w] = @ + 1]
       ELSE /\ SetProc(w, "enqueue")
            /\ UNCHANGED listNo
    /\ UNCHANGED <<state, retried, holder, found, alone, stops>>

\* Enqueue the process's own task, then start the scheduler and the server.
EnqueueFetch(w) ==
    /\ proc[w] = "enqueue"
    /\ \E t \in FetchTasks : state[t] = "unused" /\ SetTask(t, "pending")
    /\ SetProc(w, "serving")
    /\ UNCHANGED <<retried, holder, listNo, found, alone, stops>>

\* The scheduler of every serving process enqueues fetch-companies daily.
EnqueueCompanies(w) ==
    /\ Serving(w)
    /\ \E t \in CompanyTasks : state[t] = "unused" /\ SetTask(t, "pending")
    /\ UNCHANGED <<retried, holder, proc, listNo, found, alone, stops>>

-----------------------------------------------------------------------------
(* The asynq server of a process, Concurrency 1.                           *)

\* (mutant) Concurrency 2.
DequeueBusy(w, t) ==
    /\ Serving(w)
    /\ state[t] = "pending"
    /\ SetTask(t, "active")
    /\ holder' = [holder EXCEPT ![t] = w]
    /\ UNCHANGED <<retried, proc, listNo, found, alone, stops>>

Dequeue(w, t) ==
    /\ Serving(w)
    /\ Held(w) = {}
    /\ state[t] = "pending"
    /\ SetTask(t, "active")
    /\ holder' = [holder EXCEPT ![t] = w]
    /\ UNCHANGED <<retried, proc, listNo, found, alone, stops>>

\* (mutant) One retry too many.
CountOneMore(t) ==
    /\ holder' = [holder EXCEPT ![t] = NoWorker]
    /\ IF retried[t] <= MaxRetry
       THEN /\ SetTask(t, "retry")
            /\ retried' = [retried EXCEPT ![t] = @ + 1]
       ELSE /\ SetTask(t, "archived")
            /\ UNCHANGED retried

\* A failure is retried later until MaxRetry of them have been counted.
CountFailure(t) ==
    /\ holder' = [holder EXCEPT ![t] = NoWorker]
    /\ IF retried[t] < MaxRetry
       THEN /\ SetTask(t, "retry")
            /\ retried' = [retried EXCEPT ![t] = @ + 1]
       ELSE /\ SetTask(t, "archived")
            /\ UNCHANGED retried

Succeed(w, t) ==
    /\ holder[t] = w
    /\ SetTask(t, "completed")
    /\ holder' = [holder EXCEPT ![t] = NoWorker]
    /\ UNCHANGED <<retried, proc, listNo, found, alone, stops>>

Fail(w, t) ==
    /\ holder[t] = w
    /\ CountFailure(t)
    /\ UNCHANGED <<proc, listNo, found, alone, stops>>

\* The forwarder: a retry has become due.
Forward(w, t) ==
    /\ Serving(w)
    /\ state[t] = "retry"
    /\ SetTask(t, "pending")
    /\ UNCHANGED <<retried, holder, proc, listNo, found, alone, stops>>

\* (mutant) Nobody looks for expired leases.
NoRecoverer(w, t) == FALSE

\* The recoverer: the lease of a process that died has expired.
Recover(w, t) ==
    /\ Serving(w)
    /\ state[t] = "active" /\ holder[t] = NoWorker
    /\ CountFailure(t)
    /\ UNCHANGED <<proc, listNo, found, alone, stops>>

Stop(w) ==
    /\ stops < MaxStops
    /\ stops' = stops + 1
    /\ SetProc(w, "down")
    /\ found' = [found EXCEPT ![w] = {}]
    /\ holder' = [t \in Tasks |-> IF holder[t] = w THEN NoWorker ELSE holder[t]]
    /\ UNCHANGED <<retried, listNo, alone>>

\* SIGTERM: srv.Shutdown puts a task whose handler does not finish in time back.
Shutdown(w) ==
    /\ Serving(w)
    /\ Stop(w)
    /\ state' = [t \in Tasks |-> IF holder[t] = w THEN "pending" ELSE state[t]]

\* The process dies; a task it holds stays active until its lease expires.
Crash(w) ==
    /\ proc[w] # "down"
    /\ Stop(w)
    /\ UNCHANGED state

-----------------------------------------------------------------------------

BootStep(w) ==
    ListTasks(w) \/ DeleteTask(w) \/ DeleteRefused(w) \/ NextList(w) \/ EnqueueFetch(w)

Next ==
    \E w \in Workers :
        \/ Boot(w) \/ BootStep(w) \/ EnqueueCompanies(w)
        \/ Shutdown(w) \/ Crash(w)
        \/ \E t \in Tasks :
               Dequeue(w, t) \/ Succeed(w, t) \/ Fail(w, t) \/ Forward(w, t) \/ Recover(w, t)

Spec == Init /\ [][Next]_vars

\* What a live process does by itself: it finishes its boot, its server keeps
\* its only slot busy, its handler returns (asynq's timeout bounds it, see
\* ReportPipeline!RunEnds), its forwarder and recoverer tick.  Nothing makes a
\* process boot: docker-compose.yml gives the worker no restart policy.
FairSpec ==
    /\ Spec
    /\ \A w \in Workers :
           /\ WF_vars(BootStep(w))
           /\ WF_vars(\E t \in Tasks : Dequeue(w, t))
           /\ WF_vars(\E t \in Tasks : Succeed(w, t) \/ Fail(w, t))
           /\ \A t \in Tasks : WF_vars(Forward(w, t)) /\ WF_vars(Recover(w, t))

-----------------------------------------------------------------------------
(* Properties.                                                             *)

\* A lease is held by a serving process on an active task, one per process:
\* Concurrency 1, and no task is run by a dead process or by two.
LeaseSound ==
    /\ \A t \in Tasks : holder[t] # NoWorker =>
           state[t] = "active" /\ Serving(holder[t])
    /\ \A t, u \in Tasks : holder[t] = holder[u] /\ holder[t] # NoWorker => t = u

\* A process that boots while no other one is alive enqueues its task on a
\* queue with no other waiting fetch-reports task: the three lists are read one
\* after the other, but without a server nothing moves between them.
FreshStart ==
    [][\A w \in Workers :
           (proc[w] = "enqueue" /\ proc'[w] = "serving" /\ alone[w])
               => \A t \in FetchTasks : state[t] \notin Waiting]_vars

\* The boot of a process never touches the daily companies task, and never a
\* task that is being handled: a task is deleted only while it waits.
DeletesOnlyWaitingFetches ==
    [][\A t \in Tasks : state[t] # "deleted" /\ state'[t] = "deleted"
           => t \in FetchTasks /\ state[t] \in Waiting]_vars

Settled == {"completed", "archived", "deleted"}

\* While some process keeps serving, every task that was enqueued ends: completed,
\* archived after MaxRetry failures, or, for fetch-reports, deleted by a boot.
\* Crashes, deadlines, lost leases and restarts do not lose it, and neither the
\* reports tasks nor the companies task, which share a single slot, starve the
\* other kind.
TaskSettles ==
    (\E w \in Workers : <>[]Serving(w)) =>
        \A t \in Tasks : state[t] = "pending" ~> state[t] \in Settled

\* A process that boots ends up serving or dead: the boot never hangs, also
\* when another process takes, moves or deletes the tasks it has listed.
BootEnds == \A w \in Workers : proc[w] = "list" ~> proc[w] \in {"serving", "down"}

=============================================================================
