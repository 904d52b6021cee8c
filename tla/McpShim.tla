------------------------------- MODULE McpShim -------------------------------
(* The MCP server (cmd/dart-filing-mcp): it reads requests line by line from   *)
(* its client, handles each in a goroutine of its own, asks the HTTP API for   *)
(* the tools' results and writes every answer as one line, for which the       *)
(* client must read.  It stops at the end of its input or, if the read can be  *)
(* interrupted, after a shutdown request, when all goroutines are done.        *)
EXTENDS DartApi

CONSTANT MaxLines   \* a client writes at most so many lines

VARIABLES
  sent,       \* how many lines of the script the client has written
  inClosed,   \* the client has closed the pipe
  client,     \* what it does with the answers: "reads", "stalled" or "gone"
  nextLine,   \* the line the server reads next
  shim,       \* where the server's loop is
  shut,       \* shutdownCh is closed
  calls,      \* for each line taken as a request, how far its goroutine is
  answers     \* for each line answered, the answer

shimVars == <<sent, inClosed, client, nextLine, shim, shut, calls, answers>>

ShimAddress == "localhost"
Lines == DOMAIN world.script
\* Arguments that do not have the type they must have.
WrongName == "(not a string)"
WrongNumber == -1

-----------------------------------------------------------------------------
(* The client.                                                                 *)

ClientWrites ==
  /\ sent < Len(world.script) /\ ~inClosed
  /\ sent' = sent + 1
  /\ UNCHANGED <<world, rosterVars, apiVars, inClosed, client, nextLine, shim, shut, calls, answers>>
ClientCloses ==
  /\ ~inClosed /\ inClosed' = TRUE
  /\ UNCHANGED <<world, rosterVars, apiVars, sent, client, nextLine, shim, shut, calls, answers>>
\* It lets the pipe with the answers fill up, or empties it again; or it is gone.
ClientTurns ==
  /\ world.plan.fickle /\ client # "gone" /\ shim \notin {"ended", "killed"}
  /\ client' \in {"reads", "stalled", "gone"} \ {client}
  /\ UNCHANGED <<world, rosterVars, apiVars, sent, inClosed, nextLine, shim, shut, calls, answers>>
\* The process is killed, or dies of a write to a pipe that nobody reads.
ShimKilled ==
  /\ shim \notin {"ended", "killed"}
  /\ world.plan.kill \/ (client = "gone" /\ \E i \in DOMAIN calls : calls[i].pc = "writing")
  /\ shim' = "killed"
  /\ calls' = <<>>
  /\ UNCHANGED <<world, rosterVars, apiVars, sent, inClosed, client, nextLine, shut, answers>>

-----------------------------------------------------------------------------
(* The loop.                                                                   *)

\* Shutting down is looked for before every read.
LoopTop ==
  /\ shim = "top"
  /\ shim' = IF shut THEN "waiting" ELSE "reading"
  /\ UNCHANGED <<world, rosterVars, apiVars, sent, inClosed, client, nextLine, shut, calls, answers>>

\* A line that is a request gets a goroutine; an empty or a broken one is passed over.
\* A line already buffered is taken even though the shutdown has begun.
ReadLine ==
  /\ shim = "reading" /\ nextLine <= sent
  /\ LET line == world.script[nextLine]
     IN /\ calls' = IF line.kind = "request" THEN Put(calls, nextLine, [pc |-> "new"]) ELSE calls
        /\ shim' = IF line.kind # "request" /\ shut THEN "waiting" ELSE "top"
  /\ nextLine' = nextLine + 1
  /\ UNCHANGED <<world, rosterVars, apiVars, sent, inClosed, client, shut, answers>>

\* (mutant) The end of the input is passed over like a line that is broken.
ReadOn ==
  /\ shim = "reading" /\ inClosed /\ nextLine > sent
  /\ shim' = "top"
  /\ UNCHANGED <<world, rosterVars, apiVars, sent, inClosed, client, nextLine, shut, calls, answers>>

\* The client has closed the pipe and all its lines have been read.
ReadEnds ==
  /\ shim = "reading" /\ inClosed /\ nextLine > sent
  /\ shim' = "waiting"
  /\ UNCHANGED <<world, rosterVars, apiVars, sent, inClosed, client, nextLine, shut, calls, answers>>

\* The shutdown closes the input under the read.  That ends the read when the
\* descriptor can be polled; a blocking one, which standard input is unless the
\* parent process made it otherwise, goes on reading.
ReadInterrupted ==
  /\ shim = "reading" /\ shut
  /\ shim' = "waiting"
  /\ UNCHANGED <<world, rosterVars, apiVars, sent, inClosed, client, nextLine, shut, calls, answers>>

\* Mutant: Serve returns without waiting for its goroutines.
NobodyAwaited == TRUE
AllDone == calls = <<>>
ServeReturns ==
  /\ shim = "waiting" /\ AllDone
  /\ shim' = "ended"
  /\ calls' = <<>>
  /\ UNCHANGED <<world, rosterVars, apiVars, sent, inClosed, client, nextLine, shut, answers>>

-----------------------------------------------------------------------------
(* A request's goroutine.                                                      *)

ShimLimit(limit, most) == IF limit <= 0 THEN 10 ELSE IF limit > most THEN most ELSE limit

\* The query a tool sends to the API; an empty receipt number is a path the API does
\* not have.  None, when an argument has the wrong type or a name is missing.
ToolQuery(tool, a) ==
  CASE tool = "disclosures_reports_by_corp_name" ->
         IF a.name \in {WrongName, NoName} THEN {}
         ELSE {[route |-> "by_name", name |-> a.name, limit |-> ShimLimit(a.limit, 100)]}
    [] tool = "reports_summary_all_companies" ->
         IF WrongNumber \in {a.corp, a.start, a.end} THEN {}
         ELSE {[route |-> "all", corp |-> a.corp, start |-> a.start, end |-> a.end,
                limit |-> ShimLimit(a.limit, 500)]}
    [] tool = "reports_summary_and_raw_by_receipt_number" ->
         IF a.receipt = WrongNumber THEN {} ELSE {[route |-> "receipt", receipt |-> a.receipt]}
    [] OTHER -> {}

Silent == {"notifications/initialized", "notifications/exit"}
Known == {"initialize", "tools/list", "ping", "shutdown"}

\* What a request that needs no API is answered: everything that is not known is
\* answered with an error, a notification too.
HandleRequest(i) ==
  LET line == world.script[i]
      tool == line.method = "tools/call"
      ask == tool /\ ToolQuery(line.tool, line.args) # {}
      ans == IF line.method \in Known THEN "result" ELSE "error"
  IN /\ i \in DOMAIN calls /\ calls[i].pc = "new"
     /\ shut' = (shut \/ line.method \in {"shutdown", "notifications/exit"})
     /\ calls' = IF line.method \in Silent THEN Restrict(calls, DOMAIN calls \ {i})
                 ELSE [calls EXCEPT ![i] = IF ask THEN [pc |-> "asking"]
                                           ELSE [pc |-> "writing", ans |-> ans]]
     /\ http' = IF ask
                THEN [http EXCEPT ![i] = [pc |-> "sent", ip |-> ShimAddress,
                        query |-> CHOOSE q \in ToolQuery(line.tool, line.args) : TRUE]]
                ELSE http
     /\ UNCHANGED <<world, rosterVars, time, limiters, admitted, reports>>
     /\ UNCHANGED <<sent, inClosed, client, nextLine, shim, answers>>

\* The API has answered, or 15 seconds have passed: the answer that still comes is
\* not read by anybody.
UpstreamAnswers(i) ==
  /\ i \in DOMAIN calls /\ calls[i].pc = "asking" /\ http[i].pc = "answered"
  /\ calls' = [calls EXCEPT ![i] =
       [pc |-> "writing", ans |-> IF http[i].ans.status >= 300 THEN "error" ELSE "result"]]
  /\ http' = [http EXCEPT ![i] = NoRequest]
  /\ UNCHANGED <<world, rosterVars, time, limiters, admitted, reports>>
  /\ UNCHANGED <<sent, inClosed, client, nextLine, shim, shut, answers>>
UpstreamFails(i) ==
  /\ i \in DOMAIN calls /\ calls[i].pc = "asking"
  /\ calls' = [calls EXCEPT ![i] = [pc |-> "writing", ans |-> "error"]]
  /\ UNCHANGED <<world, rosterVars, apiVars, sent, inClosed, client, nextLine, shim, shut, answers>>

\* One answer at a time is written, whole and flushed, while the client reads: a full
\* pipe blocks the goroutine that writes, and behind its lock all others that want to.
WriteMessage(i) ==
  /\ i \in DOMAIN calls /\ calls[i].pc = "writing"
  /\ client = "reads"
  /\ answers' = Put(answers, i, calls[i].ans)
  /\ calls' = Restrict(calls, DOMAIN calls \ {i})
  /\ UNCHANGED <<world, rosterVars, apiVars, sent, inClosed, client, nextLine, shim, shut>>

\* The write fails, if it does not kill the process, and with it every later one of
\* the same buffered writer: the error is logged and the answer lost.
WriteFails(i) ==
  /\ i \in DOMAIN calls /\ calls[i].pc = "writing"
  /\ client = "gone"
  /\ calls' = Restrict(calls, DOMAIN calls \ {i})
  /\ UNCHANGED <<world, rosterVars, apiVars, sent, inClosed, client, nextLine, shim, shut, answers>>

CallStep(i) ==
  \/ HandleRequest(i) \/ UpstreamAnswers(i) \/ UpstreamFails(i)
  \/ WriteMessage(i) \/ WriteFails(i)
LoopStep == LoopTop \/ ReadLine \/ ReadEnds \/ ServeReturns

\* A run without a script has no client and no server.
ShimInit ==
  /\ sent = 0
  /\ inClosed = (world.script = <<>>)
  /\ client = "reads"
  /\ nextLine = 1
  /\ shim = IF world.script = <<>> THEN "ended" ELSE "top"
  /\ shut = FALSE
  /\ calls = <<>>
  /\ answers = <<>>

-----------------------------------------------------------------------------
\* As long as the client goes on reading, every request the server has taken is
\* answered in the end, whatever becomes of the API, also when the input has ended or
\* a shutdown has overtaken it, unless the process is killed.
EveryRequestAnswered ==
  <>[](client = "reads") =>
    \A i \in 1 .. MaxLines :
      (i \in Lines \cap DOMAIN calls /\ world.script[i].id) ~>
        (i \in DOMAIN answers \/ shim = "killed")

\* A client that closes its end and reads what still comes sees the server end: neither
\* the loop nor a goroutine, the lock on the output or the API keeps it from ending.
ServerEnds ==
  <>[](client = "reads") => (inClosed ~> shim \in {"ended", "killed"})
=============================================================================
