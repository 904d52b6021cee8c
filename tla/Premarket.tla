------------------------------ MODULE Premarket ------------------------------
(* `agent report premarket`: one run collects yesterday's closes, flows and   *)
(* calendars, derives the tiers from them and from the history file, and      *)
(* upserts its day into that file.  Several runs share the file and the       *)
(* providers, whose tables may be revised while a run is reading them.        *)
(*                                                                            *)
(* Days are numbers (0 is the empty date), times are hours: hour h of day d   *)
(* is 24*d + h in Korean time.  A provider's answers are a field of `world`,  *)
(* fixed at the start of a behaviour; "revised" selects between the two       *)
(* editions of the tables that may be restated.                               *)
EXTENDS Integers, Sequences, FiniteSetsExt, SequencesExt

CONSTANTS
  Runs,          \* the invocations of the program
  Worlds,        \* the providers' possible answers
  Starts,        \* [date, now, save]: the report date, the hour, not --no-save
  CashSymbols,   \* US cash closes, "GSPC" the anchor among them
  Members,       \* the symbols of the semiconductor composite
  QuoteSymbols,  \* futures and currency quotes
  Summer,        \* the days of daylight saving time in New York
  MeanSessions,  \* 20: sessions averaged for the turnover mean
  Spans,         \* {1, 3, 5}: lengths of the cumulated flows
  SampleSize,    \* 250 and 60: samples a percentile needs
  MaxRecords,    \* 400: days the history file keeps
  NoNum          \* a field that does not parse as a number

\* The inputs with a name of their own.
Named == {"kospi", "kosdaq", "vkospi", "foreign_flow", "credit", "margin", "composite"}

ASSUME PremarketAssumption ==
  /\ Members \subseteq CashSymbols /\ Members # {} /\ "GSPC" \in CashSymbols
  /\ CashSymbols \intersect (QuoteSymbols \union Named) = {} /\ QuoteSymbols \intersect Named = {}
  /\ Summer \subseteq Nat
  /\ MeanSessions \in Nat \ {0} /\ MaxRecords \in Nat \ {0}
  /\ Spans \subseteq Nat \ {0} /\ SampleSize \in Nat \ {0}

ASSUME StartsAssumption ==
  \A s \in Starts : s.date \in Nat \ {0} /\ s.now \in Nat /\ s.save \in BOOLEAN

VARIABLES
  world,    \* the providers' answers
  revised,  \* 1 or 2: which edition of the restated tables is served
  run,      \* run[p]: the report p is building
  file      \* store.v2.json: [ok, recs], recs the set of its day records
vars == <<world, revised, run, file>>

Markets == {"kospi", "kosdaq"}

\* What the providers answer and the file holds: rows are lists, days and instants
\* numbers, and the file has a record a day, as every save leaves it.
Listed(rows) == DOMAIN rows \subseteq Nat
ASSUME WorldsAssumption ==
  \A w \in Worlds :
    /\ w.times.days \subseteq Nat
    /\ \A m \in Markets, edition \in 1..2 : Listed(w.index[m].rows[edition])
    /\ \A edition \in 1..2 : Listed(w.flow.rows[edition])
    /\ \A k \in Markets \union {"vkospi"} : Listed(w.fallback[k].rows) /\ w.fallback[k].edition = 0
    /\ Listed(w.vkospi.rows) /\ w.vkospi.edition = 0 /\ Listed(w.funds)
    /\ \A s \in CashSymbols : \A b \in w.us[s] : b.d \in Nat
    /\ \A s \in QuoteSymbols : w.quotes[s].at \in Int /\ \A b \in w.bars[s] : b.d \in Nat
    /\ DOMAIN w.file = {"ok", "recs"} /\ w.file.ok \in BOOLEAN /\ IsFiniteSet(w.file.recs)
    /\ \A a \in w.file.recs : a.date \in Nat /\ a.seen \in Nat
    /\ \A a, b \in w.file.recs : a.date = b.date => a = b

Missing == [val |-> 0, bd |-> 0, ref |-> 0, asof |-> 0, prev |-> FALSE,
            session |-> "UNKNOWN", status |-> "MISSING", edition |-> 0]
Available(o) == o.status \in {"VALID", "LAGGED"}
Valid(val, bd, session, edition) ==
  [Missing EXCEPT !.val = val, !.bd = bd, !.session = session,
                  !.status = "VALID", !.edition = edition]
IsNum(v) == v # NoNum

-----------------------------------------------------------------------------
(* Rows of the daily tables: [d, field -> number].                            *)

NoRow == [d |-> 0]
\* The latest row before a day, or the row of exactly one day; the first of
\* several rows of that day.
DatedRow(rows, before, exact) ==
  LET fit == {i \in DOMAIN rows : /\ rows[i].d \in 1..(before - 1)
                                  /\ exact \in {0, rows[i].d}}
      last == {i \in fit : \A j \in fit : rows[j].d <= rows[i].d}
  IN IF fit = {} THEN NoRow ELSE rows[Min(last)]

RowNumber(row, field, session, edition) ==
  IF row.d = 0 THEN Missing
  ELSE IF ~IsNum(row[field]) THEN Missing
  ELSE Valid(row[field], row.d, session, edition)

\* The row of each day; conflicting duplicates void the whole table.
OrderedRows(rows, before) ==
  LET kept == {r \in ToSet(rows) : r.d \in 1..(before - 1)} IN
  IF \E r, s \in kept : r.d = s.d /\ r # s THEN <<>>
  ELSE [d \in {r.d : r \in kept} |-> CHOOSE r \in kept : r.d = d]

Nonnegative(o) == IF Available(o) /\ o.val < 0 THEN Missing ELSE o

-----------------------------------------------------------------------------
(* Foreign closes and quotes, cut off at 09:00 of the report day.             *)

Hour(d, h) == 24 * d + h
Week == 7 * 24
Year == 1                            \* of the report day
\* Mutant: an afternoon re-run looks at everything known by then.
CutoffNow(date, now) == now
Cutoff(date, now) == IF now < Hour(date, 9) THEN now ELSE Hour(date, 9)
\* An hour of a day in New York.
NewYork(d, h) == Hour(d, h + (IF d \in Summer THEN 13 ELSE 14))
USCloseAt(d) == NewYork(d, 16)
BarAt(d) == NewYork(d, 9)            \* a US bar is stamped with its opening

CompletedUSClose(bars, cutoff) ==
  LET done == {b \in bars : b.close > 0 /\ USCloseAt(b.d) <= cutoff}
      last == CHOOSE b \in done : \A c \in done : c.d <= b.d
      older == {b.d : b \in done} \ {last.d}
  IN IF done = {} THEN Missing
     ELSE IF cutoff - BarAt(last.d) > Week THEN Missing
     ELSE [Valid(last.close, last.d, "DAILY_CLOSE", 0) EXCEPT
             !.asof = BarAt(last.d), !.prev = older # {},
             !.ref = IF older = {} THEN 0 ELSE Max(older)]

ProviderQuote(q, cutoff) ==
  IF q.price <= 0 \/ q.at <= 0 \/ q.at > cutoff \/ cutoff - q.at > Week
  THEN Missing
  ELSE [Valid(q.price, 0, "PROVIDER_QUOTE", 0) EXCEPT !.asof = q.at]

\* The fallback of a quote that is too late: a bar at least 24 hours old.
CompletedProviderBar(bars, cutoff) ==
  LET done == {b \in bars : b.close > 0 /\ BarAt(b.d) + 24 <= cutoff}
      last == CHOOSE b \in done : \A c \in done : c.d <= b.d
  IN IF done = {} THEN Missing
     ELSE LET o == ProviderQuote([price |-> last.close, at |-> BarAt(last.d)], cutoff)
          IN IF Available(o) THEN [o EXCEPT !.session = "PROVIDER_DAILY"] ELSE Missing

QuoteOrBar(s, cutoff) ==
  LET q == ProviderQuote(world.quotes[s], cutoff) IN
  IF Available(q) THEN q ELSE CompletedProviderBar(world.bars[s], cutoff)

\* A US close of another session than the S&P's is dropped.
OfOneSession(in) ==
  [s \in CashSymbols |->
     IF Available(in["GSPC"]) /\ Available(in[s]) /\ in[s].bd # in["GSPC"].bd
     THEN Missing ELSE in[s]]

-----------------------------------------------------------------------------
(* The requests two parts of a report share: memo remembers the answer, an    *)
(* error included, under the request's key.                                   *)

\* Mutant: every caller asks the provider again.
AskAgain(memo, key, answer) ==
  [k \in DOMAIN memo \union {key} |-> IF k = key THEN answer ELSE memo[k]]
Ask(memo, key, answer) ==
  [k \in DOMAIN memo \union {key} |-> IF k \in DOMAIN memo THEN memo[k] ELSE answer]
Edition(answer) == [ok |-> answer.ok, rows |-> answer.rows[revised], edition |-> revised]
IndexAnswer(m) == Edition(world.index[m])
AskIndices(memo, date) ==
  Ask(Ask(memo, <<"kospi", date>>, IndexAnswer("kospi")), <<"kosdaq", date>>, IndexAnswer("kosdaq"))
FlowAnswer == Edition(world.flow)

\* KIS, then Naver for the volatility index, then Yahoo for the two markets:
\* the first source with a positive close of the expected day.
DomesticClose(key, kis, date, expected) ==
  LET from(answer, session) ==
        IF ~answer.ok THEN Missing
        ELSE LET o == RowNumber(DatedRow(answer.rows, date, expected),
                                "close", session, answer.edition)
             IN IF Available(o) /\ o.val > 0 THEN o ELSE Missing
      k == from(kis, "DAILY_CLOSE")
  IN IF Available(k) THEN k
     ELSE from(world.fallback[key], "DAILY_CLOSE")

-----------------------------------------------------------------------------
(* The domestic table of the day before.                                      *)

SumFlows(rows, dates, n, date, prior, edition) ==
  LET day == [i \in 1..n |-> RowNumber(DatedRow(rows, date, dates[i]), "v", "", edition)]
  IN IF Len(dates) < n \/ Head(dates) # prior \/ \E i \in 1..n : ~Available(day[i])
     THEN Missing
     ELSE [Valid(SumFunction([i \in 1..n |-> day[i].val]), prior, "DAILY_FLOW", edition)
             EXCEPT !.ref = dates[n]]

\* The mean of the MeanSessions sessions before the prior one, in tenths.
TurnoverMean(ordered, dates, prior, edition) ==
  LET span == 2..(MeanSessions + 1)
      day == [i \in span |-> Nonnegative(RowNumber(
                DatedRow(ordered, prior + 1, dates[i]), "tr", "", edition))]
      total == SumFunction([i \in span |-> day[i].val])
  IN IF Len(dates) <= MeanSessions \/ Head(dates) # prior THEN Missing
     ELSE IF (\E i \in span : ~Available(day[i])) \/ total <= 0 THEN Missing
     ELSE [Valid((10 * total) \div MeanSessions, prior, "PRIOR_MEAN", edition)
                  EXCEPT !.ref = dates[MeanSessions + 1]]

DomesticTable(index, flow, breadth, date, prior) ==
  LET ordered == IF index.ok THEN OrderedRows(index.rows, date) ELSE <<>>
      dates == SetToSortSeq({d \in DOMAIN ordered : d <= prior}, >)   \* newest first
      flows == IF flow.ok THEN OrderedRows(flow.rows, date) ELSE <<>>
      turnover == Nonnegative(RowNumber(DatedRow(ordered, date, prior),
                                        "tr", "DAILY_CLOSE", index.edition))
      mean == TurnoverMean(ordered, dates, prior, index.edition)
  IN [turnover |-> turnover, mean |-> mean, breadth |-> breadth,
      ratio |-> IF Available(turnover) /\ Available(mean)
                THEN [mean EXCEPT !.val = (100 * turnover.val) \div mean.val] ELSE Missing,
      flows |-> [n \in Spans |-> SumFlows(flows, IF n = 1 THEN <<prior>> ELSE dates, n,
                                          date, prior, flow.edition)]]

\* The table of a report whose business days are not known.
EmptyDomestic ==
  [m \in Markets |-> [turnover |-> Missing, mean |-> Missing, ratio |-> Missing, breadth |-> <<>>,
                      flows |-> [n \in Spans |-> Missing]]]

\* The change of a share's row by its sign code; NoNum when they disagree.
SignedDailyChange(row) ==
  IF ~IsNum(row.diff) THEN NoNum
  ELSE LET size == IF row.diff < 0 THEN -row.diff ELSE row.diff IN
       CASE row.sign \in {"1", "2"} -> size
         [] row.sign \in {"4", "5"} -> -size
         [] row.sign = "3" /\ size = 0 -> 0
         [] OTHER -> NoNum

\* One of the two large shares: its close and turnover from one request, its one-day
\* flow from another; either may fail alone.
Share(price, investor, date, prior) ==
  LET ordered(answer) == IF answer.ok THEN OrderedRows(answer.rows, date) ELSE <<>>
      row == DatedRow(ordered(price), date, prior)
      close == RowNumber(row, "close", "DAILY_CLOSE", 0)
      diff == IF Available(close) THEN SignedDailyChange(row) ELSE NoNum
  IN [close |-> IF ~Available(close) \/ close.val <= 0 THEN Missing
                ELSE [close EXCEPT !.prev = IF IsNum(diff) THEN close.val > diff ELSE FALSE],
      turnover |-> Nonnegative(RowNumber(row, "tr", "DAILY_CLOSE", 0)),
      foreign |-> SumFlows(ordered(investor), <<prior>>, 1, date, prior, 0)]

\* Advancers, decliners and unchanged of a cross-section: one bad row of any
\* market voids all of them.
Breadth(rows, prior) ==
  LET bad == \E i \in DOMAIN rows :
               \/ rows[i].d # prior \/ rows[i].close <= 0 \/ ~IsNum(rows[i].change)
               \/ rows[i].market \notin Markets \union {"konex"}
               \/ \E j \in 1..(i - 1) : rows[j].isin = rows[i].isin
      field(c) == IF c > 0 THEN "advancers" ELSE IF c < 0 THEN "decliners" ELSE "unchanged"
      count(m, f) == Cardinality({i \in DOMAIN rows : rows[i].market = m /\ field(rows[i].change) = f})
  IN [m \in Markets |->
        IF bad \/ \A i \in DOMAIN rows : rows[i].market # m THEN <<>>
        ELSE [f \in {"advancers", "decliners", "unchanged"} |->
                Valid(count(m, f), prior, "DAILY_BREADTH", 0)]]

-----------------------------------------------------------------------------
(* Events of the seven days from the report day on.                           *)

\* A feed's rows: one recurring, untitled or undated event, or none at all,
\* voids an iCalendar feed; cancelled events are skipped before that.
ParseCalendarICS(rows) ==
  LET live == SelectSeq(rows, LAMBDA e : e.status # "CANCELLED") IN
  IF live = <<>> \/ \E e \in ToSet(live) : e.recurring \/ (e.at = 0 /\ e.first = 0)
  THEN <<>> ELSE live

\* The Fed's page: notation votes are skipped, a meeting that ends before it
\* begins voids the page, a meeting of the next year is tentative.
ParseFOMC(rows, year) ==
  LET live == SelectSeq(rows, LAMBDA e : e.status # "NOTATION" /\ e.year \in {year, year + 1}) IN
  IF live = <<>> \/ \E e \in ToSet(live) : e.last < e.first THEN <<>>
  ELSE [i \in DOMAIN live |-> [live[i] EXCEPT !.at = 0,
          !.status = IF live[i].year > year THEN "TENTATIVE" ELSE "CONFIRMED"]]

\* The three sources one after the other; one that fails adds no event.
FetchCalendar(feeds, year) ==
  FlattenSeq([i \in DOMAIN feeds |->
    IF ~feeds[i].ok THEN <<>>
    ELSE IF feeds[i].name = "FOMC" THEN ParseFOMC(feeds[i].rows, year)
    ELSE ParseCalendarICS(feeds[i].rows)])

\* An event: [id, at, first, last, status, ...]; at = 0 when only its days in New York
\* are known.
EventState(e, date, cutoff) ==
  LET target == Hour(date, 0)
      end == Hour(date + 7, 0)
      last == IF e.last = 0 THEN e.first ELSE e.last
      inside == IF e.at # 0 THEN e.at \in target..(end - 1)
                ELSE NewYork(e.first, 0) < end /\ NewYork(last + 1, 0) > target
  IN IF e.id = 0 \/ e.status = "CANCELLED" \/ ~inside THEN "SKIPPED"
     ELSE IF e.at = 0 THEN "DATE_ONLY"
     ELSE IF e.at <= cutoff THEN "TIME_PASSED" ELSE "SCHEDULED"

Calendar(events, date, cutoff) ==
  LET shown(i) == EventState(events[i], date, cutoff)
      firstOf(i) == \A j \in 1..(i - 1) : events[j].id = events[i].id => shown(j) = "SKIPPED"
  IN {[id |-> events[i].id, at |-> events[i].at, state |-> shown(i)] :
        i \in {i \in DOMAIN events : shown(i) # "SKIPPED" /\ firstOf(i)}}

-----------------------------------------------------------------------------
(* The tiers.                                                                 *)

\* The composite needs every member, of one session and one reference day.
SemiComposite(in) ==
  LET usable(s) == Available(in[s]) /\ in[s].prev /\ in[s].bd # 0 /\ in[s].ref # 0
  IN IF \A s, t \in Members : usable(s) /\ in[s].bd = in[t].bd /\ in[s].ref = in[t].ref
     THEN LET one == CHOOSE s \in Members : TRUE IN
          [Valid(0, in[one].bd, "DAILY_CLOSE", 0) EXCEPT !.ref = in[one].ref]
     ELSE Missing

\* The samples of an input: one a business day, earlier than the input's own,
\* from reports of earlier days; the latest observed wins, of several the earliest
\* report; the newest days up to a limit.
History(recs, key, beforeSource, beforeReport, limit) ==
  LET bd(r) == r.in[key].bd
      usable == {r \in recs : /\ r.date < beforeReport
                              /\ Available(r.in[key]) /\ bd(r) \in 1..(beforeSource - 1)
                              /\ key = "vkospi" => r.in[key].session = "DAILY_CLOSE"}
      chosen == {r \in usable : \A s \in usable : bd(s) = bd(r) =>
                   s.seen < r.seen \/ (s.seen = r.seen /\ s.date >= r.date)}
      newest == {r \in chosen : Cardinality({s \in chosen : bd(s) > bd(r)}) < limit}
  IN {[bd |-> bd(r), val |-> r.in[key].val, date |-> r.date] : r \in newest}

\* Per cent of the samples not above the current value, once there are enough.
Percentile(samples, current) ==
  IF Cardinality(samples) < SampleSize THEN NoNum
  ELSE (100 * Cardinality({s \in samples : s.val <= current})) \div Cardinality(samples)

Tier2(in, recs, date) ==
  [key \in {"vkospi", "credit"} |->
     LET h == IF Available(in[key])
              THEN History(recs, key, in[key].bd, date, SampleSize) ELSE {}
     IN [samples |-> h, pctile |-> Percentile(h, in[key].val)]]

\* No grade is ever given: the three scores it is made of are never evaluated.  What
\* is said is which inputs are missing.
VulnerabilityMatrix(in) == [suppressed |-> TRUE, missing |-> {k \in DOMAIN in : ~Available(in[k])}]

-----------------------------------------------------------------------------
(* The history file.                                                          *)

\* Mutant: the record of the day is replaced whatever its age.
UpsertAlways(recs, rec) == {r \in recs : r.date # rec.date} \union {rec}
\* Replace the record of the day unless the file's was observed later.
UpsertRecord(recs, rec) ==
  IF \E r \in recs : r.date = rec.date /\ r.seen > rec.seen THEN recs
  ELSE {r \in recs : r.date # rec.date} \union {rec}

\* What a save writes, in order of the days: the last MaxRecords records.
Saved(recs) ==
  {r \in recs : Cardinality({s \in recs : s.date > r.date}) < MaxRecords}

-----------------------------------------------------------------------------
(* The steps of a run, between its calls to the providers and to the file.    *)

Blank == [pc |-> "idle", date |-> 0, now |-> 0, prior |-> 0, in |-> <<>>,
          dom |-> <<>>, share |-> <<>>, memo |-> <<>>, events |-> {}, tier2 |-> <<>>,
          vul |-> <<>>,
          store |-> [ok |-> TRUE, recs |-> {}], saves |-> TRUE]

InputKeys == CashSymbols \union QuoteSymbols \union Named
\* The inputs with some of them filled in.
Filled(in, new) == [k \in DOMAIN in |-> IF k \in DOMAIN new THEN new[k] ELSE in[k]]
EmptyInputs == [k \in InputKeys |-> Missing]

Init ==
  /\ world \in Worlds
  /\ revised = 1
  /\ run = [p \in Runs |-> Blank]
  /\ file = world.file

\* The date is checked and the business days are asked for.
Start(p) ==
  /\ run[p].pc = "idle"
  /\ \E s \in Starts :
       LET dateOk == Hour(s.date, 0) <= s.now
           days == IF world.times.ok THEN {d \in world.times.days : d \in 1..(s.date - 1)} ELSE {}
       IN run' = [run EXCEPT ![p] = [Blank EXCEPT
            !.pc = IF dateOk THEN "closes" ELSE "load",
            !.date = s.date, !.now = s.now, !.saves = s.save /\ dateOk,
            !.prior = IF dateOk THEN Max(days \union {0}) ELSE 0, !.in = EmptyInputs]]
  /\ UNCHANGED <<world, revised, file>>

\* The jobs of the closes, four at a time: each fills its own input.
CollectCloses(p) ==
  /\ run[p].pc = "closes"
  /\ LET r == run[p]
         cutoff == Cutoff(r.date, r.now)
         us == OfOneSession([s \in CashSymbols |-> CompletedUSClose(world.us[s], cutoff)])
         memo == AskIndices(r.memo, r.date)
         home == [m \in Markets |-> DomesticClose(m, memo[<<m, r.date>>], r.date, r.prior)]
         vk == DomesticClose("vkospi", world.vkospi, r.date, r.prior)
     IN run' = [run EXCEPT ![p] = [r EXCEPT
          !.pc = "flows", !.memo = memo,
          !.prior = IF r.prior = 0 THEN home["kospi"].bd ELSE r.prior,
          !.in = Filled(Filled(Filled(r.in, us), home), [vkospi |-> vk])]]
  /\ UNCHANGED <<world, revised, file>>

\* Quotes, the foreign flow of the prior day, credit balances, margin debt.
CollectFlows(p) ==
  /\ run[p].pc = "flows"
  /\ LET r == run[p]
         quotes == [s \in QuoteSymbols |-> QuoteOrBar(s, Cutoff(r.date, r.now))]
         memo == IF r.prior = 0 THEN r.memo ELSE Ask(r.memo, <<"flow", r.prior>>, FlowAnswer)
         flow == IF r.prior # 0 /\ memo[<<"flow", r.prior>>].ok
                 THEN LET a == memo[<<"flow", r.prior>>] IN
                      RowNumber(DatedRow(a.rows, r.date, r.prior), "v", "DAILY_FLOW", a.edition)
                 ELSE Missing
         lag(o) == IF Available(o) THEN [o EXCEPT !.status = "LAGGED"] ELSE o
         credit == lag(RowNumber(DatedRow(world.funds, r.date, 0), "v", "DAILY_STATISTIC", 0))
         k == world.kofia
         margin == IF k.d \in 1..(r.date - 1) /\ k.v > 0
                   THEN lag(Valid(k.v, k.d, "DAILY_STATISTIC", 0)) ELSE Missing
     IN run' = [run EXCEPT ![p] = [r EXCEPT
          !.pc = "domestic", !.memo = memo,
          !.in = Filled(Filled(r.in, quotes),
                        [foreign_flow |-> flow, credit |-> credit, margin |-> margin])]]
  /\ UNCHANGED <<world, revised, file>>

\* The domestic table, from the answers the closes already fetched; KOSDAQ's
\* flows, breadth and calendars are asked for here.
CollectDomestic(p) ==
  /\ run[p].pc = "domestic"
  /\ LET r == run[p]
         memo == IF r.prior = 0 THEN r.memo
                 ELSE Ask(AskIndices(r.memo, r.date), <<"flow", r.prior>>, FlowAnswer)
         flow(m) == IF m = "kospi" THEN memo[<<"flow", r.prior>>] ELSE FlowAnswer
     IN run' = [run EXCEPT ![p] = [r EXCEPT
          !.pc = "load", !.memo = memo,
          !.dom = IF r.prior = 0 THEN EmptyDomestic
                  ELSE [m \in Markets |->
                          DomesticTable(memo[<<m, r.date>>], flow(m),
                                        Breadth(world.stocks, r.prior)[m], r.date, r.prior)],
          !.share = IF r.prior = 0 THEN <<>> ELSE Share(world.share, world.investor, r.date, r.prior),
          !.events = Calendar(FetchCalendar(world.feeds, Year), r.date, Cutoff(r.date, r.now))]]
  /\ UNCHANGED <<world, revised, file>>

\* The file is read only now; the tiers are derived from it.
LoadStore(p) ==
  /\ run[p].pc = "load"
  /\ LET r == run[p]
         recs == IF file.ok THEN file.recs ELSE {}
         in == [r.in EXCEPT !["composite"] = SemiComposite(r.in)]
     IN run' = [run EXCEPT ![p] = [r EXCEPT
          !.pc = "save", !.store = [ok |-> file.ok, recs |-> recs], !.in = in,
          !.tier2 = Tier2(in, recs, r.date), !.vul = VulnerabilityMatrix(in)]]
  /\ UNCHANGED <<world, revised, file>>

\* Upsert and save; an unreadable file, a bad date or --no-save saves nothing.
SaveStore(p) ==
  /\ run[p].pc = "save"
  /\ LET r == run[p]
         rec == [date |-> r.date, seen |-> r.now, by |-> p,
                 in |-> [k \in {"vkospi", "credit"} |-> r.in[k]]]
     IN file' = IF r.store.ok /\ r.saves
                THEN [ok |-> TRUE, recs |-> Saved(UpsertRecord(r.store.recs, rec))]
                ELSE file
  /\ run' = [run EXCEPT ![p].pc = "done"]
  /\ UNCHANGED <<world, revised>>

\* The temporary file cannot be written: the history file stays as it is.
SaveFails(p) ==
  /\ run[p].pc = "save" /\ run[p].store.ok /\ run[p].saves
  /\ run' = [run EXCEPT ![p].pc = "done"]
  /\ UNCHANGED <<world, revised, file>>

\* A provider restates its tables.
Revise == revised = 1 /\ revised' = 2 /\ UNCHANGED <<world, run, file>>

Next ==
  \/ Revise
  \/ \E p \in Runs : \/ Start(p) \/ CollectCloses(p) \/ CollectFlows(p)
                     \/ CollectDomestic(p) \/ LoadStore(p) \/ SaveStore(p) \/ SaveFails(p)

-----------------------------------------------------------------------------
Reported == {p \in Runs : run[p].pc \in {"save", "done"}}

\* Also when a past day is reported again in the afternoon or days later: every input is
\* of a business day before the report's; a value its source stamps with an instant, and
\* the close of a US session, is not of after the hour of the run or 09:00 of the report
\* day; every sample behind a percentile is of an earlier day than the value it is
\* compared with and from the report of an earlier day; and what the calendar calls
\* scheduled had not begun (premarket.go: cutoff, inputs.go, store.go: History).  It does
\* not say that the report could have been made that morning: a table restated since, or
\* a sample observed since, is used, as PREMARKET_DATA_CONTRACT.md says of re-runs.
NoLookAhead ==
  \A p \in Reported : LET r == run[p] IN
    /\ \A k \in InputKeys : Available(r.in[k]) =>
         /\ r.in[k].bd < r.date
         /\ r.in[k].asof <= r.now /\ r.in[k].asof <= Hour(r.date, 9)
         /\ k \in CashSymbols \union {"composite"} =>
              USCloseAt(r.in[k].bd) <= r.now /\ USCloseAt(r.in[k].bd) <= Hour(r.date, 9)
    /\ \A k \in DOMAIN r.tier2 : \A s \in r.tier2[k].samples :
         s.bd < r.in[k].bd /\ s.date < r.date
    /\ \A e \in r.events : e.state = "SCHEDULED" => e.at > r.now \/ e.at > Hour(r.date, 9)

\* "One request per market/date ensures the displayed close, turnover and
\* cumulative flow agree" (domestic.go:25): once the business days are known
\* every domestic value is of the same session, and those of one table come
\* from one edition of it, even if the provider restates it meanwhile.
DaysKnown(r) == world.times.ok /\ \E d \in world.times.days : d \in 1..(r.date - 1)
TableAgrees ==
  \A p \in Reported : LET r == run[p] IN
    \A m \in DOMAIN r.dom :
      LET t == r.dom[m]
          one(S) == \A a, b \in {o \in S : Available(o) /\ o.edition # 0} : a.edition = b.edition
      IN /\ one({r.in[m], t.turnover, t.mean, t.ratio})
         /\ m = "kospi" => one({r.in["foreign_flow"]} \union {t.flows[n] : n \in Spans})
         /\ \A o \in {t.turnover, t.mean, t.ratio, r.in["foreign_flow"]}
                       \union Range(t.flows) \union Range(t.breadth) : Available(o) => o.bd = r.prior
         /\ \A f \in DOMAIN r.share : Available(r.share[f]) => r.share[f].bd = r.prior
         /\ DaysKnown(r) /\ Available(r.in[m]) => r.in[m].bd = r.prior

\* A save drops or sets back no day it had loaded, except days past the
\* capacity, and leaves one record a day; only what another run saved between
\* its load and its rename can be lost (store.go: UpsertRecord, Save).
SavesKeepRecords ==
  [][\A p \in Runs : run[p].pc = "save" /\ run'[p].pc = "done" /\ file' # file =>
       /\ \A rec \in run[p].store.recs :
            \/ \E new \in file'.recs : new.date = rec.date /\ new.seen >= rec.seen
            \/ /\ Cardinality(file'.recs) = MaxRecords
               /\ \A new \in file'.recs : new.date > rec.date
       /\ \A a, b \in file'.recs : a.date = b.date => a = b]_vars

Spec == Init /\ [][Next]_vars
=============================================================================
