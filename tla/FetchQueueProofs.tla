--------------------------- MODULE FetchQueueProofs ---------------------------
(***************************************************************************)
(* The safety properties of the queue, for any processes, tasks, retry     *)
(* limit and number of stops.                                              *)
(***************************************************************************)
EXTENDS FetchQueue, TLAPS

\* A process whose boot no other process has shared is the only live one.
LoneBoot ==
    \A w \in Workers : alone[w] /\ proc[w] \in Booting =>
        \A u \in Workers : proc[u] # "down" => u = w

\* The lists that such a boot has read and emptied stay empty of fetch-reports
\* tasks; what it has not deleted yet of the one it reads is in found.
Cleaned(w) ==
    /\ proc[w] \in {"list", "delete"} =>
           \A k \in 1..3 : k < listNo[w] =>
               \A t \in FetchTasks : state[t] # ListOrder[k]
    /\ proc[w] = "delete" =>
           \A t \in FetchTasks : state[t] = ListOrder[listNo[w]] => t \in found[w]
    /\ proc[w] = "enqueue" => \A t \in FetchTasks : state[t] \notin Waiting

LoneBootCleans == \A w \in Workers : alone[w] => Cleaned(w)

LeaseInv == TypeOK /\ LeaseSound

Inv == LeaseInv /\ LoneBoot /\ LoneBootCleans

LEMMA ListOrderIsWaiting ==
    /\ ListOrder[1] = "pending" /\ ListOrder[2] = "retry" /\ ListOrder[3] = "archived"
    /\ Waiting = {ListOrder[k] : k \in 1..3}
<1>1. ListOrder[1] = "pending" /\ ListOrder[2] = "retry" /\ ListOrder[3] = "archived"
  BY DEF ListOrder
<1> QED BY <1>1 DEF Waiting

LEMMA InvInit == Init => Inv
  BY NoWorkerAssumption, MaxRetryAssumption, MaxStopsAssumption
     DEF Init, Inv, LeaseInv, TypeOK, LeaseSound, LoneBoot, LoneBootCleans, Cleaned,
         Booting, Waiting, TaskStates, ProcStates, Serving

-----------------------------------------------------------------------------
(* Each step preserves the types.                                          *)

LEMMA CountFailureType ==
    ASSUME TypeOK, NEW t \in Tasks, CountFailure(t)
    PROVE  /\ state' \in [Tasks -> TaskStates]
           /\ retried' \in [Tasks -> 0..MaxRetry]
           /\ holder' \in [Tasks -> Workers \cup {NoWorker}]
<1>1. holder' \in [Tasks -> Workers \cup {NoWorker}]
  BY DEF TypeOK, CountFailure
<1>2. CASE retried[t] < MaxRetry
  BY <1>1, <1>2, MaxRetryAssumption
     DEF TypeOK, CountFailure, SetTask, TaskStates, Waiting
<1>3. CASE ~(retried[t] < MaxRetry)
  BY <1>1, <1>3 DEF TypeOK, CountFailure, SetTask, TaskStates, Waiting
<1> QED BY <1>2, <1>3

LEMMA StopType ==
    ASSUME TypeOK, NEW w \in Workers, Stop(w)
    PROVE  /\ holder' \in [Tasks -> Workers \cup {NoWorker}]
           /\ proc' \in [Workers -> ProcStates]
           /\ found' \in [Workers -> SUBSET FetchTasks]
           /\ stops' \in 0..MaxStops
  BY MaxStopsAssumption DEF TypeOK, Stop, SetProc, ProcStates

LEMMA TypeStep == TypeOK /\ [Next]_vars => TypeOK'
<1> SUFFICES ASSUME TypeOK, [Next]_vars PROVE TypeOK'
  OBVIOUS
<1> USE DEF SetTask, SetProc, Tasks, TaskStates, Waiting, ProcStates, Booting
<1>1. ASSUME NEW w \in Workers, Boot(w) PROVE TypeOK'
  BY <1>1 DEF TypeOK, Boot
<1>2. ASSUME NEW w \in Workers, ListTasks(w) PROVE TypeOK'
  BY <1>2 DEF TypeOK, ListTasks
<1>3. ASSUME NEW w \in Workers, DeleteTask(w) PROVE TypeOK'
  BY <1>3 DEF TypeOK, DeleteTask
<1>4. ASSUME NEW w \in Workers, DeleteRefused(w) PROVE TypeOK'
  BY <1>4 DEF TypeOK, DeleteRefused
<1>5. ASSUME NEW w \in Workers, NextList(w) PROVE TypeOK'
  BY <1>5 DEF TypeOK, NextList
<1>6. ASSUME NEW w \in Workers, EnqueueFetch(w) PROVE TypeOK'
  BY <1>6 DEF TypeOK, EnqueueFetch
<1>7. ASSUME NEW w \in Workers, EnqueueCompanies(w) PROVE TypeOK'
  BY <1>7 DEF TypeOK, EnqueueCompanies
<1>8. ASSUME NEW w \in Workers, Shutdown(w) PROVE TypeOK'
  BY <1>8, StopType DEF TypeOK, Shutdown, Stop
<1>9. ASSUME NEW w \in Workers, Crash(w) PROVE TypeOK'
  BY <1>9, StopType DEF TypeOK, Crash, Stop
<1>10. ASSUME NEW w \in Workers, NEW t \in Tasks, Dequeue(w, t) PROVE TypeOK'
  BY <1>10 DEF TypeOK, Dequeue
<1>11. ASSUME NEW w \in Workers, NEW t \in Tasks, Succeed(w, t) PROVE TypeOK'
  BY <1>11 DEF TypeOK, Succeed
<1>12. ASSUME NEW w \in Workers, NEW t \in Tasks, Fail(w, t) \/ Recover(w, t)
       PROVE  TypeOK'
  BY <1>12, CountFailureType DEF TypeOK, Fail, Recover
<1>13. ASSUME NEW w \in Workers, NEW t \in Tasks, Forward(w, t) PROVE TypeOK'
  BY <1>13 DEF TypeOK, Forward
<1>14. CASE UNCHANGED vars
  BY <1>14 DEF TypeOK, vars
<1> QED
  BY <1>1, <1>2, <1>3, <1>4, <1>5, <1>6, <1>7, <1>8, <1>9, <1>10, <1>11, <1>12,
     <1>13, <1>14 DEF Next, BootStep

-----------------------------------------------------------------------------
(* Leases.                                                                 *)

LEMMA LeaseStep == LeaseInv /\ [Next]_vars => LeaseSound'
<1> SUFFICES ASSUME TypeOK, LeaseSound, [Next]_vars PROVE LeaseSound'
  BY DEF LeaseInv
<1> USE NoWorkerAssumption DEF TypeOK, LeaseSound, Serving, SetTask, SetProc
<1>1. ASSUME NEW w \in Workers, Boot(w) PROVE LeaseSound'
  BY <1>1 DEF Boot
<1>2. ASSUME NEW w \in Workers, ListTasks(w) PROVE LeaseSound'
  BY <1>2 DEF ListTasks
<1>3. ASSUME NEW w \in Workers, DeleteTask(w) PROVE LeaseSound'
  BY <1>3 DEF DeleteTask, Waiting, Tasks
<1>4. ASSUME NEW w \in Workers, DeleteRefused(w) PROVE LeaseSound'
  BY <1>4 DEF DeleteRefused
<1>5. ASSUME NEW w \in Workers, NextList(w) PROVE LeaseSound'
  BY <1>5 DEF NextList
<1>6. ASSUME NEW w \in Workers, EnqueueFetch(w) PROVE LeaseSound'
  BY <1>6 DEF EnqueueFetch, Tasks
<1>7. ASSUME NEW w \in Workers, EnqueueCompanies(w) PROVE LeaseSound'
  BY <1>7 DEF EnqueueCompanies, Tasks
<1>8. ASSUME NEW w \in Workers, Shutdown(w) PROVE LeaseSound'
  BY <1>8 DEF Shutdown, Stop
<1>9. ASSUME NEW w \in Workers, Crash(w) PROVE LeaseSound'
  BY <1>9 DEF Crash, Stop
<1>10. ASSUME NEW w \in Workers, NEW t \in Tasks, Dequeue(w, t) PROVE LeaseSound'
  BY <1>10 DEF Dequeue, Held
<1>11. ASSUME NEW w \in Workers, NEW t \in Tasks, Succeed(w, t) PROVE LeaseSound'
  BY <1>11 DEF Succeed
<1>12. ASSUME NEW w \in Workers, NEW t \in Tasks, Fail(w, t) \/ Recover(w, t)
       PROVE  LeaseSound'
  BY <1>12 DEF Fail, Recover, CountFailure
<1>13. ASSUME NEW w \in Workers, NEW t \in Tasks, Forward(w, t) PROVE LeaseSound'
  BY <1>13 DEF Forward
<1>14. CASE UNCHANGED vars
  BY <1>14 DEF vars
<1> QED
  BY <1>1, <1>2, <1>3, <1>4, <1>5, <1>6, <1>7, <1>8, <1>9, <1>10, <1>11, <1>12,
     <1>13, <1>14 DEF Next, BootStep

-----------------------------------------------------------------------------
(* A boot that nobody shares.                                              *)

LEMMA LoneBootStep == TypeOK /\ LoneBoot /\ [Next]_vars => LoneBoot'
<1> SUFFICES ASSUME TypeOK, LoneBoot, [Next]_vars PROVE LoneBoot'
  OBVIOUS
<1> USE DEF TypeOK, LoneBoot, Serving, SetProc, Booting
<1>1. ASSUME NEW w \in Workers, Boot(w) PROVE LoneBoot'
  BY <1>1 DEF Boot
<1>2. ASSUME NEW w \in Workers, BootStep(w) PROVE LoneBoot'
  BY <1>2 DEF BootStep, ListTasks, DeleteTask, DeleteRefused, NextList, EnqueueFetch
<1>3. ASSUME NEW w \in Workers, Shutdown(w) \/ Crash(w) PROVE LoneBoot'
  BY <1>3 DEF Shutdown, Crash, Stop
<1>4. CASE UNCHANGED <<proc, alone>>
  BY <1>4
<1> QED
  BY <1>1, <1>2, <1>3, <1>4
     DEF Next, EnqueueCompanies, Dequeue, Succeed, Fail, Forward, Recover, vars

\* While a process boots alone nothing but its own steps moves a task.
LEMMA OthersRest ==
    ASSUME Inv, NEW w \in Workers, alone[w], proc[w] \in Booting, NEW u \in Workers
    PROVE  ~Serving(u) /\ (proc[u] # "down" => u = w)
  BY DEF Inv, LoneBoot, Serving, Booting

LEMMA NobodyHolds ==
    ASSUME Inv, NEW w \in Workers, alone[w], proc[w] \in Booting, NEW t \in Tasks
    PROVE  holder[t] = NoWorker
  BY OthersRest DEF Inv, LeaseInv, LeaseSound, TypeOK

LEMMA CleanedByItself ==
    ASSUME Inv, NEW w \in Workers, alone[w], BootStep(w)
    PROVE  Cleaned(w)'
<1> USE ListOrderIsWaiting DEF Inv, LeaseInv, TypeOK, LoneBootCleans, SetProc, SetTask
<1>1. CASE ListTasks(w)
  BY <1>1 DEF ListTasks, Cleaned
<1>2. CASE DeleteTask(w)
  <2> PICK t \in found[w] :
          /\ state[t] \in Waiting
          /\ state' = [state EXCEPT ![t] = "deleted"]
          /\ found' = [found EXCEPT ![w] = found[w] \ {t}]
    BY <1>2 DEF DeleteTask
  <2>1. t \in Tasks
    BY DEF Tasks
  <2>2. \A k \in 1..3 : ListOrder[k] # "deleted"
    OBVIOUS
  <2>3. proc[w] = "delete" /\ proc' = proc /\ listNo' = listNo
    BY <1>2 DEF DeleteTask
  <2> QED BY <2>1, <2>2, <2>3 DEF Cleaned, Tasks
<1>3. CASE DeleteRefused(w)
  BY <1>3 DEF DeleteRefused, Cleaned
<1>4. CASE NextList(w)
  <2>1. \A t \in FetchTasks : state[t] # ListOrder[listNo[w]]
    BY <1>4 DEF NextList, Cleaned
  <2>2. \A k \in 1..3 : k <= listNo[w] => \A t \in FetchTasks : state[t] # ListOrder[k]
    BY <2>1, <1>4 DEF NextList, Cleaned
  <2>3. CASE listNo[w] < 3
    BY <2>2, <2>3, <1>4 DEF NextList, Cleaned
  <2>4. CASE ~(listNo[w] < 3)
    <3>1. \A t \in FetchTasks : state[t] \notin Waiting
      BY <2>2, <2>4
    <3> QED BY <3>1, <2>4, <1>4 DEF NextList, Cleaned
  <2> QED BY <2>3, <2>4
<1>5. CASE EnqueueFetch(w)
  BY <1>5 DEF EnqueueFetch, Cleaned
<1> QED BY <1>1, <1>2, <1>3, <1>4, <1>5 DEF BootStep

LEMMA CleanedStep == Inv /\ [Next]_vars => LoneBootCleans'
<1> SUFFICES ASSUME Inv, [Next]_vars, NEW w \in Workers, alone'[w]
             PROVE  Cleaned(w)'
  BY DEF LoneBootCleans
<1> USE DEF SetProc, SetTask
<1>1. CASE UNCHANGED vars
  BY <1>1 DEF vars, Inv, LoneBootCleans, Cleaned
<1>2. ASSUME NEW u \in Workers, Boot(u) PROVE Cleaned(w)'
  <2>1. u = w /\ listNo'[w] = 1 /\ proc'[w] = "list"
    BY <1>2 DEF Boot, Inv, LeaseInv, TypeOK
  <2> QED BY <2>1 DEF Cleaned
<1>3. CASE alone[w] /\ proc[w] \in Booting
  <2>1. ASSUME NEW u \in Workers, BootStep(u) PROVE Cleaned(w)'
    <3>1. u = w
      BY <1>3, <2>1, OthersRest
         DEF BootStep, ListTasks, DeleteTask, DeleteRefused, NextList, EnqueueFetch
    <3> QED BY <1>3, <2>1, <3>1, CleanedByItself
  <2>2. ASSUME NEW u \in Workers, Crash(u) PROVE Cleaned(w)'
    <3>1. u = w
      BY <1>3, <2>2, OthersRest DEF Crash
    <3>2. proc'[w] = "down"
      BY <2>2, <3>1 DEF Crash, Stop, Inv, LeaseInv, TypeOK
    <3> QED BY <3>2 DEF Cleaned
  <2>3. ASSUME NEW u \in Workers, EnqueueCompanies(u) \/ Shutdown(u) PROVE FALSE
    BY <1>3, <2>3, OthersRest DEF EnqueueCompanies, Shutdown
  <2>4. ASSUME NEW u \in Workers, NEW t \in Tasks,
               Dequeue(u, t) \/ Forward(u, t) \/ Recover(u, t)
        PROVE  FALSE
    BY <1>3, <2>4, OthersRest DEF Dequeue, Forward, Recover
  <2>5. ASSUME NEW u \in Workers, NEW t \in Tasks, Succeed(u, t) \/ Fail(u, t)
        PROVE  FALSE
    BY <1>3, <2>5, NobodyHolds, NoWorkerAssumption DEF Succeed, Fail
  <2> QED BY <1>1, <1>2, <2>1, <2>2, <2>3, <2>4, <2>5 DEF Next
<1>4. CASE ~(alone[w] /\ proc[w] \in Booting)
  <2>1. CASE \E u \in Workers : Boot(u)
    BY <2>1, <1>2
  <2>2. CASE ~\E u \in Workers : Boot(u)
    <3>1. alone' = alone
      BY <2>2 DEF Next, BootStep, ListTasks, DeleteTask, DeleteRefused, NextList,
         EnqueueFetch, EnqueueCompanies, Shutdown, Crash, Stop, Dequeue, Succeed, Fail,
         Forward, Recover, vars
    <3>2. proc[w] \notin Booting
      BY <1>4, <3>1
    <3>3. proc'[w] \notin Booting
      BY <2>2, <3>2 DEF Next, BootStep, ListTasks, DeleteTask, DeleteRefused, NextList,
         EnqueueFetch, EnqueueCompanies, Shutdown, Crash, Stop, Dequeue, Succeed, Fail,
         Forward, Recover, vars, Inv, LeaseInv, TypeOK, Booting
    <3> QED BY <3>3 DEF Cleaned, Booting
  <2> QED BY <2>1, <2>2
<1> QED BY <1>3, <1>4

-----------------------------------------------------------------------------

\* The variables keep their types.
THEOREM QueueTypes == Spec => []TypeOK
<1>1. Init => TypeOK
  BY InvInit DEF Inv, LeaseInv
<1> QED BY <1>1, TypeStep, PTL DEF Spec

LEMMA InvHolds == Spec => []Inv
<1>1. Inv /\ [Next]_vars => Inv'
  BY TypeStep, LeaseStep, LoneBootStep, CleanedStep DEF Inv, LeaseInv
<1> QED BY InvInit, <1>1, PTL DEF Spec

\* A task is handled by one serving process at most, and a process handles one
\* task at a time, across crashes, shutdowns and the recovery of lost leases.
THEOREM LeasesAreSound == Spec => []LeaseSound
<1>1. Inv => LeaseSound
  BY DEF Inv, LeaseInv
<1> QED BY InvHolds, <1>1, PTL

\* No step deletes a task that is being handled or a companies task, also when
\* the listing the boot works from is out of date.
THEOREM OnlyWaitingFetchesDeleted == Spec => DeletesOnlyWaitingFetches
<1>1. TypeOK /\ [Next]_vars =>
          [\A t \in Tasks : state[t] # "deleted" /\ state'[t] = "deleted"
               => t \in FetchTasks /\ state[t] \in Waiting]_vars
  <2> SUFFICES ASSUME TypeOK, Next, NEW t \in Tasks,
                      state[t] # "deleted", state'[t] = "deleted"
               PROVE  t \in FetchTasks /\ state[t] \in Waiting
    OBVIOUS
  <2> USE DEF SetTask, TypeOK
  <2>1. ASSUME NEW w \in Workers, DeleteTask(w)
        PROVE  t \in FetchTasks /\ state[t] \in Waiting
    BY <2>1 DEF DeleteTask
  <2>2. ASSUME NEW w \in Workers,
               ListTasks(w) \/ DeleteRefused(w) \/ NextList(w) \/ EnqueueFetch(w)
               \/ Boot(w) \/ EnqueueCompanies(w) \/ Shutdown(w) \/ Crash(w)
        PROVE  FALSE
    BY <2>2 DEF ListTasks, DeleteRefused, NextList, EnqueueFetch, Boot,
       EnqueueCompanies, Shutdown, Crash
  <2>3. ASSUME NEW w \in Workers, NEW u \in Tasks,
               Dequeue(w, u) \/ Succeed(w, u) \/ Fail(w, u) \/ Forward(w, u)
               \/ Recover(w, u)
        PROVE  FALSE
    BY <2>3 DEF Dequeue, Succeed, Fail, Forward, Recover, CountFailure
  <2> QED BY <2>1, <2>2, <2>3 DEF Next, BootStep
<1> QED BY QueueTypes, <1>1, PTL DEF Spec, DeletesOnlyWaitingFetches

\* A process that boots alone starts on a queue without a waiting fetch-reports
\* task: reading the three lists one after the other misses none.
THEOREM LoneBootStartsFresh == Spec => FreshStart
<1>1. Inv /\ [Next]_vars =>
          [\A w \in Workers :
              (proc[w] = "enqueue" /\ proc'[w] = "serving" /\ alone[w])
                  => \A t \in FetchTasks : state[t] \notin Waiting]_vars
  BY DEF Inv, LoneBootCleans, Cleaned
<1> QED BY InvHolds, <1>1, PTL DEF Spec, FreshStart

=============================================================================
