---------------------------- MODULE MCDartService ----------------------------
(* Six small worlds: a client of the MCP server with a shutdown in between,    *)
(* one that does not always read, and one that asks while the worker stores    *)
(* reports; browsers that exceed and outwait the limiter; handlers; two runs   *)
(* of the companies task.                                                      *)
EXTENDS DartService

MCCallers == Browsers \cup 1 .. MaxLines

Company(corp, name, eng, modified) ==
  [corp |-> corp, name |-> name, eng |-> eng, modified |-> modified]
RosterOf(list) == [c \in {e.corp : e \in ToSet(list)} |->
                     [Row(CHOOSE e \in ToSet(list) : e.corp = c) EXCEPT !.hidden = c = 2]]
Report(receipt, corp, analysed) ==
  [receipt |-> receipt, corp |-> corp, analysed |-> analysed, malformed |-> receipt = 23]

Nobody == [syncs |-> 0, until |-> 0, hits |-> 0, kill |-> FALSE, fickle |-> FALSE]
Quiet ==
  [plan |-> Nobody, lists |-> {}, script |-> <<>>, addresses |-> {ShimAddress}, queries |-> {},
   origins |-> {"*"},
   arrivals |-> {}, reports |-> {Report(11, 1, 2), Report(12, 2, 1)},
   roster |-> RosterOf(<<Company(1, "a", "A", 3), Company(2, "b", "", 4)>>)]

Method(m) == [kind |-> "request", id |-> TRUE, method |-> m]
Notification(m) == [Method(m) EXCEPT !.id = FALSE]
Args == [name |-> "a", limit |-> 200, corp |-> 0, start |-> 0, end |-> 0, receipt |-> 11]
Tool(t, args) == [kind |-> "request", id |-> TRUE, method |-> "tools/call", tool |-> t, args |-> args]
ByName == "disclosures_reports_by_corp_name"
AllReports == "reports_summary_all_companies"
ByReceipt == "reports_summary_and_raw_by_receipt_number"

\* A whole session that ends with a shutdown and something after it.
Session ==
  [Quiet EXCEPT !.plan.kill = TRUE,
     !.script = <<Method("initialize"), Tool(AllReports, Args), [kind |-> "empty"],
                  Notification("notifications/initialized"), Method("shutdown"),
                  Notification("notifications/cancelled")>>]
\* A client that stops reading, goes on or leaves.
Fickle ==
  [Quiet EXCEPT !.plan.fickle = TRUE,
     !.script = <<Tool(AllReports, Args), Method("unknown"), Notification("notifications/exit"),
                  Method("ping")>>]
\* The tools, with arguments that are refused, while a report is stored and analysed.
Tools ==
  [Quiet EXCEPT !.arrivals = {Report(21, 1, 0)},
     !.script = <<Tool(ByName, Args), Tool(ByReceipt, [Args EXCEPT !.receipt = 21]),
                  Tool(AllReports, [Args EXCEPT !.start = WrongNumber])>>]
\* Two addresses, time passing until limiters are forgotten.
Crowd ==
  [Quiet EXCEPT !.plan.until = 4, !.plan.hits = 6, !.addresses = {ShimAddress, "remote"},
     !.origins = {"https://board"},
     !.queries = {[route |-> "raw", corp |-> 1, receipt |-> 11],
                  [route |-> "preflight", origin |-> "https://board"]}]
\* All the handlers, on tables that change.
Query(route) ==
  [route |-> route, name |-> "a", limit |-> 1, corp |-> 1, start |-> 2, end |-> 1, receipt |-> 11]
Handlers ==
  [Quiet EXCEPT !.plan.hits = 2, !.plan.until = 1, !.plan.syncs = 1,
     !.lists = {<<Company(3, "a", "C", 5)>>},
     !.arrivals = {Report(23, 3, 0), Report(22, 3, 0)},
     !.queries = {Query(r) : r \in {"companies", "by_name", "all", "raw", "receipt", "by_corp"}}
                   \cup {[Query("by_name") EXCEPT !.name = NoName], [Query("all") EXCEPT !.start = 0],
                         [Query("raw") EXCEPT !.corp = 2], [route |-> "preflight", origin |-> "https://other"],
                         [Query("receipt") EXCEPT !.receipt = 23]}]
\* Two processes bring the table up to date from two lists, one of them faulty.
Syncing ==
  [Quiet EXCEPT !.plan.syncs = 4,
     !.lists = {<<Company(1, "a", "", 5), Company(3, "c", "C", 5)>>,
                <<Company(3, "d", "D", 6), Company(4, "e", "E", NoDate), Company(1, "f", "F", 6)>>,
                <<Company(4, "e", "E", 6), Company(1, "g", "G", 7)>>}]

MCWorlds == {Session, Fickle, Tools, Crowd, Handlers, Syncing}
=============================================================================
