----------------------------- MODULE DartService -----------------------------
(* The programs around the DART database: the MCP server that asks the HTTP    *)
(* API, other clients of the API, the companies task in the worker and on the  *)
(* command line, and the worker that stores reports.                           *)
EXTENDS McpShim

CONSTANTS
  Browsers,   \* clients that ask the API directly
  Worlds

\* DART's lists are sequences of companies, a row of the table has its three fields.
ASSUME WorldsAssumption ==
  \A w \in Worlds :
    /\ \A list \in w.lists : list \in Seq(Range(list))
    /\ \A c \in DOMAIN w.roster : {"name", "eng", "modified"} \subseteq DOMAIN w.roster[c]

vars == <<world, rosterVars, apiVars, shimVars>>

\* A client of its own asks something and, once it has its answer, something else.
BrowserAsks(b) ==
  /\ http[b].pc \in {"none", "answered"}
  /\ MapThenSumSet(LAMBDA ip : Len(admitted[ip]), DOMAIN admitted) < world.plan.hits
  /\ \E q \in world.queries, ip \in world.addresses :
       http' = [http EXCEPT ![b] = [pc |-> "sent", ip |-> ip, query |-> q]]
  /\ UNCHANGED <<world, rosterVars, time, limiters, admitted, reports, shimVars>>

ServiceInit ==
  /\ world \in Worlds
  /\ RosterInit
  /\ ApiInit
  /\ ShimInit

ServiceNext ==
  \/ \E s \in Syncers : SyncStep(s) /\ UNCHANGED <<apiVars, shimVars>>
  \/ \E c \in Callers : ApiStep(c) /\ UNCHANGED shimVars
  \/ (Sweep \/ ReportStored \/ ReportAnalysed \/ TimePasses) /\ UNCHANGED shimVars
  \/ \E b \in Browsers : BrowserAsks(b)
  \/ ClientWrites
  \/ ClientCloses
  \/ ClientTurns
  \/ ShimKilled
  \/ LoopStep
  \/ ReadInterrupted
  \/ \E i \in Lines : CallStep(i)

\* The server's own loop and goroutines go on, and a call to the API ends with its
\* timeout at the latest; nothing is assumed of the client, the API, the worker or a
\* read that the shutdown interrupts.
ServiceFairness ==
  /\ WF_vars(LoopStep)
  /\ \A i \in 1 .. MaxLines : WF_vars(i \in Lines /\ CallStep(i))

ServiceSpec == ServiceInit /\ [][ServiceNext]_vars /\ ServiceFairness
=============================================================================
