------------------------------- MODULE DartApi -------------------------------
(* The DART HTTP API (internal/dartfiling/routes and controllers): a request   *)
(* passes the rate limiter of its address, then its handler reads the tables   *)
(* the worker fills.                                                           *)
EXTENDS CompanyRoster, FiniteSetsExt, SequencesExt

CONSTANTS
  Callers,     \* who may have a request under way at the same time
  Rate,        \* tokens a limiter gains in one unit of time (10 a second)
  Burst,       \* tokens it holds at most (20)
  StaleAfter   \* time after which an unused limiter may be forgotten (10 minutes)

ASSUME LimiterAssumption ==
  /\ Rate \in Nat /\ Burst \in Nat /\ StaleAfter \in Nat
  /\ StaleAfter * Rate >= Burst

VARIABLES
  time,        \* the clock the limiters read
  limiters,    \* for each address, its limiter, if there is one
  admitted,    \* for each address, the times of the requests let through
  reports,     \* raw_reports, each with the rank of its analysis, 0 if it has none
  http         \* for each caller, its request

apiVars == <<time, limiters, admitted, reports, http>>

NoRequest == [pc |-> "none"]
Answer(status, body) == [status |-> status, body |-> body]

-----------------------------------------------------------------------------
(* The limiters.                                                               *)

\* Mutant: the last use is noted only when the limiter is made.
SeenOnce(l) == l
Seen(l) == [l EXCEPT !.seen = time]

\* The caller's limiter, made when there is none, as it stands now.
GetLimiter(ip) ==
  IF ip \in DOMAIN limiters
  THEN LET l == limiters[ip]
           gained == l.tokens + Rate * (time - l.at)
       IN [Seen(l) EXCEPT !.tokens = IF gained < Burst THEN gained ELSE Burst, !.at = time]
  ELSE [tokens |-> Burst, at |-> time, seen |-> time]

Allow(c) ==
  /\ http[c].pc = "sent"
  /\ LET ip == http[c].ip
         l == GetLimiter(ip)
         ok == l.tokens >= 1
     IN /\ limiters' = Put(limiters, ip, IF ok THEN [l EXCEPT !.tokens = @ - 1] ELSE l)
        /\ admitted' = IF ok THEN [admitted EXCEPT ![ip] = Append(@, time)] ELSE admitted
        /\ http' = [http EXCEPT ![c] =
             IF ok THEN [@ EXCEPT !.pc = "handling"]
             ELSE [pc |-> "answered", ans |-> Answer(429, <<>>)]]
  /\ UNCHANGED <<world, rosterVars, time, reports>>

\* The sweep forgets the limiters that have not been used for long.
Sweep ==
  /\ \E ip \in DOMAIN limiters : time - limiters[ip].seen > StaleAfter
  /\ limiters' = Restrict(limiters, {ip \in DOMAIN limiters : time - limiters[ip].seen <= StaleAfter})
  /\ UNCHANGED <<world, rosterVars, time, admitted, reports, http>>

-----------------------------------------------------------------------------
(* The handlers.  A receipt number begins with its day; dates that cannot be   *)
(* read are as good as none.                                                   *)

NotGiven == 0
ReceiptDay(n) == n \div 10

\* No limit and one that cannot be read are 0.
GetLimitWithDefault(limit, default) ==
  IF limit <= 0 THEN default ELSE IF limit > 100 THEN 100 ELSE limit

Analysed == {r \in reports : r.analysed > 0}
First(order, limit) == SubSeq(order, 1, IF Len(order) < limit THEN Len(order) ELSE limit)
\* The newest of a set of reports, by receipt number or by analysis.
Newest(set, limit) == First(SetToSortSeq(set, LAMBDA r, s : r.receipt > s.receipt), limit)
LastAnalysed(set, limit) == First(SetToSortSeq(set, LAMBDA r, s : r.analysed > s.analysed), limit)
Receipts(seq) == [i \in DOMAIN seq |-> seq[i].receipt]

\* Companies with a report that are not hidden, those modified last first.
GetCompanies(q) ==
  LET found == {c \in DOMAIN roster :
                  /\ ~roster[c].hidden /\ \E r \in reports : r.corp = c
                  /\ q.name \in {NoName, roster[c].name, roster[c].eng}}
      order == SetToSortSeq(found, LAMBDA b, c : roster[b].modified > roster[c].modified)
  IN Answer(200, First(order, GetLimitWithDefault(q.limit, 100)))

\* Analysed reports of the companies of that name; a name is required.
GetReportsByCorpName(q) ==
  LET named == {c \in DOMAIN roster : roster[c].name = q.name}
  IN IF q.name = NoName THEN Answer(400, <<>>)
     ELSE Answer(200, Receipts(Newest({r \in Analysed : r.corp \in named},
                                      GetLimitWithDefault(q.limit, 10))))

\* Analysed reports of the companies in the roster, from start up to but not on the
\* end, which is moved to the day after the start if it is not later.  A malformed
\* receipt number is dropped after it has counted.
GetAllReports(q) ==
  LET end == IF NotGiven \notin {q.start, q.end} /\ q.start >= q.end THEN q.start + 1 ELSE q.end
      found == {r \in Analysed :
                  /\ r.corp \in DOMAIN roster
                  /\ q.corp \in {NotGiven, r.corp}
                  /\ q.start # NotGiven => ReceiptDay(r.receipt) >= q.start
                  /\ end # NotGiven => ReceiptDay(r.receipt) < end}
      page == Newest(found, GetLimitWithDefault(q.limit, 10))
  IN Answer(200, Receipts(SelectSeq(page, LAMBDA r : ~r.malformed)))

\* What a browser is told about its page's origin: any may read without credentials
\* when all are allowed, else one that is listed, with them.
Cors(origin) ==
  IF world.origins = {"*"} THEN [allowed |-> "*", credentials |-> FALSE]
  ELSE IF origin \in world.origins \ {"*"} THEN [allowed |-> origin, credentials |-> TRUE]
  ELSE [allowed |-> "none", credentials |-> FALSE]

\* A preflight is answered before any handler, once the limiter has let it through.
Preflight(c) ==
  /\ http[c].pc = "handling" /\ http[c].query.route = "preflight"
  /\ http' = [http EXCEPT ![c] = [pc |-> "answered", ans |-> Answer(204, Cors(http[c].query.origin))]]
  /\ UNCHANGED <<world, rosterVars, time, limiters, admitted, reports>>

\* The first query of a handler.  For a receipt it finds the report, for a corp code
\* the company, and a second query follows.
QueryFirst(c) ==
  /\ http[c].pc = "handling" /\ http[c].query.route # "preflight"
  /\ LET q == http[c].query
         answered(a) == [pc |-> "answered", ans |-> a]
         second(there) == IF there THEN [http[c] EXCEPT !.pc = "half"] ELSE answered(Answer(404, <<>>))
     IN http' = [http EXCEPT ![c] =
          CASE q.route = "companies" -> answered(GetCompanies(q))
            [] q.route = "by_name" -> answered(GetReportsByCorpName(q))
            [] q.route = "all" -> answered(GetAllReports(q))
            [] q.route = "raw" -> answered(
                 LET found == {r \in reports : r.corp = q.corp /\ r.receipt = q.receipt}
                 IN IF found = {} THEN Answer(404, <<>>) ELSE Answer(200, <<q.receipt>>))
            [] q.route = "receipt" -> second(\E r \in reports : r.receipt = q.receipt)
            [] q.route = "by_corp" -> second(q.corp \in DOMAIN roster)]
  /\ UNCHANGED <<world, rosterVars, time, limiters, admitted, reports>>

\* The second: the report's analysis, or the company's analysed reports.
QuerySecond(c) ==
  /\ http[c].pc = "half"
  /\ LET q == http[c].query
         own == {r \in Analysed : r.corp = q.corp}
         done == \E r \in Analysed : r.receipt = q.receipt
         listing == Receipts(LastAnalysed(own, GetLimitWithDefault(q.limit, 10)))
         ans == IF q.route = "by_corp" THEN Answer(200, listing)
                ELSE IF done THEN Answer(200, <<q.receipt>>) ELSE Answer(404, <<>>)
     IN http' = [http EXCEPT ![c] = [pc |-> "answered", ans |-> ans]]
  /\ UNCHANGED <<world, rosterVars, time, limiters, admitted, reports>>

\* Either query may fail.
QueryFails(c) ==
  /\ http[c].pc \in {"handling", "half"} /\ http[c].query.route # "preflight"
  /\ http' = [http EXCEPT ![c] = [pc |-> "answered", ans |-> Answer(500, <<>>)]]
  /\ UNCHANGED <<world, rosterVars, time, limiters, admitted, reports>>

ApiStep(c) == Allow(c) \/ Preflight(c) \/ QueryFirst(c) \/ QuerySecond(c) \/ QueryFails(c)

-----------------------------------------------------------------------------
(* Who else acts on what the API reads: the fetch-reports handler, which is    *)
(* the subject of ReportPipeline, and the clock.                               *)

ReportStored ==
  \E r \in world.arrivals :
    /\ \A s \in reports : s.receipt # r.receipt
    /\ reports' = reports \cup {[r EXCEPT !.analysed = 0]}
    /\ UNCHANGED <<world, rosterVars, time, limiters, admitted, http>>
ReportAnalysed ==
  \E r \in reports :
    /\ r \notin Analysed
    /\ reports' = (reports \ {r}) \cup {[r EXCEPT !.analysed = 1 + Max({s.analysed : s \in reports})]}
    /\ UNCHANGED <<world, rosterVars, time, limiters, admitted, http>>
TimePasses ==
  /\ time < world.plan.until /\ time' = time + 1
  /\ UNCHANGED <<world, rosterVars, limiters, admitted, reports, http>>

ApiInit ==
  /\ time = 0
  /\ limiters = <<>>
  /\ admitted = [ip \in world.addresses |-> <<>>]
  /\ reports = world.reports
  /\ http = [c \in Callers |-> NoRequest]

-----------------------------------------------------------------------------
\* No address gets more requests through in any stretch of time than the burst and
\* what the rate gives for its length: forgetting an idle limiter and making a new
\* one, full again, gives nobody a request more.
RateHolds ==
  \A ip \in DOMAIN admitted :
    LET a == admitted[ip]
    IN \A i, j \in DOMAIN a : i <= j => j - i + 1 <= Burst + Rate * (a[j] - a[i])
=============================================================================
