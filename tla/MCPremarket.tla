----------------------------- MODULE MCPremarket -----------------------------
(* Two runs over a history of four days.  The worlds are the base world, in   *)
(* which every provider answers well, with one or two answers replaced.       *)
EXTENDS Premarket

RunSymmetry == Permutations(Runs)

Row(d, close, tr) == [d |-> d, close |-> close, tr |-> tr]
Closes(k) == <<Row(9, 100 + k, 50 + k), Row(8, 99, 40), Row(7, 98, 30), Row(6, 97, 35)>>
Index == [ok |-> TRUE, rows |-> <<Closes(0), Closes(5)>>]
Flow(k) == <<[d |-> 9, v |-> 3 + k], [d |-> 8, v |-> -1], [d |-> 7, v |-> 2]>>
Bars(days) == {[d |-> d, close |-> 10 + d] : d \in days}
Stock(i, m, c) == [isin |-> i, d |-> 9, market |-> m, close |-> 5, change |-> c]
ShareRow(d, diff, sign) ==
  [d |-> d, close |-> 50, tr |-> 5, diff |-> diff, sign |-> sign]
Obs(v, d) == Valid(v, d, "DAILY_CLOSE", 0)
Rec(date, seen, v) ==
  [date |-> date, seen |-> seen, by |-> "past",
   in |-> [vkospi |-> Obs(v, date - 1), credit |-> Missing]]
Event(i, at, first) ==
  [id |-> i, at |-> at, first |-> first, last |-> 0, status |-> "CONFIRMED",
   recurring |-> FALSE, year |-> 1]
Meeting(i, first, last) == [Event(i, 0, first) EXCEPT !.last = last]

Base ==
  [times |-> [ok |-> TRUE, days |-> {8, 9, 10, 11}],
   index |-> [m \in {"kospi", "kosdaq"} |-> Index],
   fallback |-> [k \in {"kospi", "kosdaq", "vkospi"} |->
                   [ok |-> TRUE, rows |-> <<Row(8, 95, 0), Row(9, 96, 0)>>, edition |-> 0]],
   vkospi |-> [ok |-> TRUE, rows |-> <<Row(9, 20, 0)>>, edition |-> 0],
   us |-> [s \in CashSymbols |-> Bars({7, 8, 9, 10})],
   quotes |-> [s \in QuoteSymbols |-> [price |-> 7, at |-> Hour(10, 7)]],
   bars |-> [s \in QuoteSymbols |-> Bars({7, 8})],
   flow |-> [ok |-> TRUE, rows |-> <<Flow(0), Flow(5)>>],
   share |-> [ok |-> TRUE, rows |-> <<ShareRow(9, 4, "5"), ShareRow(8, 2, "2")>>],
   investor |-> [ok |-> TRUE, rows |-> <<[d |-> 9, v |-> 1], [d |-> 8, v |-> 2]>>],
   funds |-> <<[d |-> 8, v |-> 1], [d |-> 10, v |-> 2]>>,
   kofia |-> [d |-> 8, v |-> 1],
   stocks |-> <<Stock(1, "kospi", 1), Stock(2, "kosdaq", -1)>>,
   feeds |-> <<[name |-> "FOMC", ok |-> TRUE,
                rows |-> <<Meeting(3, 8, 9), Meeting(4, 17, 18)>>],
               [name |-> "BLS", ok |-> TRUE,
                rows |-> <<Event(1, Hour(10, 8), 10), Event(2, Hour(10, 20), 10),
                           Event(2, Hour(11, 20), 11)>>]>>,
   file |-> [ok |-> TRUE, recs |-> {Rec(7, Hour(7, 8), 15), Rec(9, Hour(9, 8), 18)}]]

MCWorlds ==
  {Base,
   [Base EXCEPT !.times.ok = FALSE, !.share.rows[1].sign = "3"],
   [Base EXCEPT !.times.ok = FALSE, !.index["kosdaq"].rows[1] = <<Row(8, 99, 40)>>],
   [Base EXCEPT !.index["kospi"].ok = FALSE, !.share.rows[1].d = 8],
   [Base EXCEPT !.index["kospi"].rows[1] = <<Row(10, 101, 9), Row(9, 0, 50), Row(8, 99, -4)>>],
   [Base EXCEPT !.index["kosdaq"].rows[1] = @ \o <<Row(9, 1, 1)>>],
   [Base EXCEPT !.feeds[1].rows[2].first = 19, !.feeds[2].rows[2].status = "CANCELLED",
               !.vkospi.ok = FALSE, !.stocks[2].change = NoNum],
   [Base EXCEPT !.us["SOX"] = Bars({7, 8}), !.flow.rows[2] = <<[d |-> 8, v |-> 4]>>],
   [Base EXCEPT !.us["GSPC"] = Bars({1}), !.quotes["NQ"].at = Hour(10, 12)],
   [Base EXCEPT !.file.recs = {}, !.investor.ok = FALSE],
   [Base EXCEPT !.file.recs = {Rec(7, Hour(10, 8), 15), Rec(8, Hour(8, 8), 16),
                              Rec(10, Hour(10, 6), 19)}],
   [Base EXCEPT !.file.ok = FALSE, !.share.ok = FALSE, !.feeds[1].ok = FALSE, !.feeds[2].rows[2].recurring = TRUE]}

\* Summer time ends in New York between two closes the reports may show.
MCSummer == 0..8

MCStarts ==
  {[date |-> 10, now |-> Hour(10, 4), save |-> TRUE],
   [date |-> 10, now |-> Hour(10, 8), save |-> TRUE],
   [date |-> 10, now |-> Hour(11, 15), save |-> TRUE],
   [date |-> 9, now |-> Hour(10, 15), save |-> TRUE],
   [date |-> 9, now |-> Hour(9, 5), save |-> FALSE],
   [date |-> 10, now |-> Hour(10, 5), save |-> FALSE],
   [date |-> 11, now |-> Hour(10, 8), save |-> TRUE],
   [date |-> 11, now |-> Hour(11, 8), save |-> FALSE]}
=============================================================================
