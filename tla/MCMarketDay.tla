----------------------------- MODULE MCMarketDay -----------------------------
(* A trading day, with the next one in view.  A world is one of three base     *)
(* worlds (pulses; the collector; snapshots with a backfill), in which every   *)
(* provider answers well, with some answers replaced.                          *)
EXTENDS MarketDay

MarketSymmetry == Permutations(Pulses) \cup Permutations(Snappers)

\* Just before the open, the open of the sidecars' window, and the hours after it;
\* the collector's minutes; and for the snapshots the close and the morning after.
PulseTimes == {At(1, 8, 59), At(1, 9, 5), At(1, 10, 7), At(1, 11, 9), At(2, 9, 5)}
TickTimes == {At(1, 8, 59), At(1, 9, 8)}
SnapTimes == {At(1, 10, 7), At(1, 15, 31), At(2, 9, 5)}
MCInstants == PulseTimes \cup TickTimes \cup SnapTimes \cup {At(8, 8, 59), At(8, 9, 8)}
Step(t) == Cardinality({u \in PulseTimes : u <= t})

\* A line of the futures master and one of the KOSPI master; a code, its KOSPI 200
\* future by month class, with an option and a line cut short among them.
Contract(code, info, under, month) ==
  [fields |-> 9, code |-> code, named |-> TRUE, info |-> info, under |-> under, month |-> month,
   is101 |-> info = 1, kospi |-> info = 1]
FutureLines(near) ==
  <<Contract(near + 1, 1, 2001, 2), Contract(near, 1, 2001, 1), Contract(1, 5, 2001, 1),
    [Contract(2, 1, 2001, 1) EXCEPT !.fields = 3], Contract(near + 20, 3, 3003, 1),
    Contract(near + 21, 3, 3003, 2)>>
Share(code, cap) == [whole |-> TRUE, code |-> code, member |-> TRUE, class |-> 0, cap |-> cap]
Shares(cap) == <<Share(3, 1), Share(1, cap), Share(2, 4), [Share(4, 9) EXCEPT !.member = FALSE]>>
Master(lines) == [ok |-> TRUE, lines |-> lines]
CacheFiles == [futures |-> <<>>, kospi |-> <<>>, kofia |-> <<>>]
Cached(days) == [CacheFiles EXCEPT !.futures = [d \in days |-> FutureLines(7)],
                                   !.kospi = [d \in days |-> Shares(4)]]
Environment == [future |-> 0, vkospi |-> 0, writable |-> TRUE]
IndexAnswer(t, pct) ==
  [ok |-> TRUE, price |-> 100 + pct, diff |-> AbsOf(pct), down |-> pct < 0, pct |-> pct,
   low |-> 100 + pct, ts |-> t]
FutureAnswer(t, spot, pct, spotPct) ==
  [ok |-> TRUE, price |-> 100 + pct, pct |-> pct, spotCode |-> spot,
   spot |-> 100 + spotPct, spotPct |-> spotPct, basis |-> pct - spotPct, ts |-> t]
FlowAnswer(t) ==
  [ok |-> TRUE, foreign |-> 1500 * (Step(t) - 1) * (Step(t) - 2), total |-> 2, parts |-> 0,
   etc |-> TRUE, ts |-> t]
ProgramRow(t) == [hour |-> MinuteOf(t), day |-> Day(t), net |-> 7 * Step(t)]
YahooAnswer(t) == [ok |-> TRUE, symbol |-> TRUE, price |-> 1000, at |-> t]
BarsOf(t) ==
  LET times == SetToSortSeq({v \in PulseTimes : v <= t}, <)
  IN [ok |-> TRUE, times |-> times, closes |-> [i \in DOMAIN times |-> 1000 + Step(times[i])]]

QuotesAt(t) ==
  [bd |-> [ok |-> TRUE, today |-> Day(t), dates |-> {Day(t)}],
   idx |-> [m \in Markets |-> IndexAnswer(t, -1)],
   spot |-> IndexAnswer(t, -4),
   flow |-> [m \in Markets |-> FlowAnswer(t)],
   prog |-> [m \in Markets |->
     [ok |-> TRUE, rows |-> <<ProgramRow(t), [ProgramRow(t) EXCEPT !.hour = 1, !.net = 99]>>]],
   fut |-> [m \in Markets |-> FutureAnswer(t, IF m = "KOSPI" THEN "2001" ELSE "3003", -1, -1)],
   vkospi |-> [ok |-> TRUE, value |-> 18, pct |-> 2, ts |-> t], probe |-> 503 :> 18,
   idxMaster |-> Master(<<[vkospi |-> TRUE, code |-> 901]>>),
   naver |-> [ok |-> TRUE, success |-> TRUE, quotes |-> "VKOSPI" :> 2100],
   futMaster |-> Master(FutureLines(7)), kospiMaster |-> Master(Shares(4)),
   prices |-> [c \in 1 .. 3 |-> c],
   yahoo |-> [s \in MacroSymbols \cup {"BTC-USD", "^VIX"} |-> YahooAnswer(t)],
   bars |-> [s \in MacroSymbols |-> BarsOf(t)]]

Nothing == [pulses |-> 0, options |-> {[save |-> TRUE, history |-> TRUE]},
            ticks |-> 0, backfills |-> 0, snapshots |-> 0, dates |-> {}]
Calm ==
  [times |-> PulseTimes, quotes |-> [t \in PulseTimes |-> QuotesAt(t)],
   events |-> [readable |-> {TRUE}, events |-> <<>>], rows |-> {},
   env |-> Environment, files |-> Cached({1, 2}),
   plan |-> [Nothing EXCEPT !.pulses = 2]]
Official(market, device, at, released, seen) ==
  [date |-> 1, https |-> TRUE, market |-> market, device |-> device, at |-> at,
   released |-> released, seen |-> seen, gone |-> NoTime]
T(n) == CHOOSE t \in PulseTimes : Step(t) = n

\* Three pulses against answers that lag, so that distances and hours disagree.
Lagging ==
  [Calm EXCEPT !.plan.pulses = 3,
     !.quotes[T(4)].flow["KOSPI"].ts = At(1, 10, 30),
     !.quotes[T(4)].prog["KOSDAQ"].rows[1].hour = HM(10, 30)]
\* A sidecar is triggered and released while the future's quote goes stale; now and then
\* the file is being written.
SidecarDay ==
  [Calm EXCEPT
     !.events.readable = BOOLEAN,
     !.events.events = <<Official("KOSDAQ", "SIDECAR_SELL", At(1, 9, 7), NoTime, T(3)),
                         Official("KOSDAQ", "SIDECAR_SELL", At(1, 9, 7), At(1, 9, 12), T(3))>>,
     !.quotes[T(3)].fut["KOSDAQ"] = FutureAnswer(T(3), "3003", -7, -5),
     !.quotes[T(4)].fut["KOSDAQ"].ts = T(3)]
\* A circuit breaker is told before the file knows the time, which is put right later and
\* struck out at last; the spot comes apart.
CrashDay ==
  [Calm EXCEPT
     !.events.events = <<Official("KOSPI", "CB1", NoTime, NoTime, T(2)),
                         [Official("KOSPI", "CB1", At(1, 10, 1), NoTime, T(3)) EXCEPT !.gone = T(5)],
                         Official("KOSPI", "CB1", At(1, 10, 0), At(1, 10, 20), T(4)),
                         [Official("KOSPI", "CB2", T(2), NoTime, T(2)) EXCEPT !.https = FALSE]>>,
     !.quotes[T(3)].idx["KOSPI"] = IndexAnswer(T(3), -16),
     !.quotes[T(3)].fut["KOSDAQ"] = FutureAnswer(T(3), "none", -7, -4),
     !.quotes[T(4)].idx["KOSPI"].ts = T(3)]
\* Future and spot move apart; some answers fail or are refused.
Apart ==
  [Calm EXCEPT !.plan.options = {[save |-> FALSE, history |-> FALSE]},
     !.events.readable = {FALSE}, !.files = CacheFiles,
     !.quotes[T(3)].fut["KOSDAQ"] = FutureAnswer(T(3), "3003", 7, -4),
     !.quotes[T(3)].flow["KOSPI"].foreign = NoNum,
     !.quotes[T(3)].prog["KOSPI"].rows = <<>>,
     !.quotes[T(3)].vkospi.value = 1,
     !.quotes[T(3)].kospiMaster.ok = FALSE,
     !.quotes[T(3)].bd.today = NoTime,
     !.quotes[T(3)].yahoo["^KS11"].ok = FALSE, !.quotes[T(3)].bars["^KS11"].ok = FALSE,
     !.quotes[T(3)].bars["CL=F"].times = <<>>, !.quotes[T(4)].bars["CL=F"].closes[1] = 0,
     !.quotes[T(4)].idx["KOSPI"].ok = FALSE,
     !.files.futures = 1 :> <<Contract(27, 3, 3003, 1)>>,
     !.quotes[T(4)].naver.success = FALSE, !.quotes[T(4)].probe = <<>>]

-----------------------------------------------------------------------------
\* What the collector and the snapshots ask for besides.
DailyRow(d, close, prev) ==
  [d |-> d, open |-> 100, high |-> 120, low |-> 90, close |-> close, prev |-> prev,
   diff |-> AbsOf(close - 100), down |-> close < 100, yearHigh |-> 120, traded |-> 5]
FlowRow(d) == [d |-> d, foreign |-> 5, inst |-> -3, ind |-> -2, other |-> NoNum]
ProgramPart(who, non) == [who |-> who, arb |-> 1, non |-> non, net |-> non + 1]
KofiaRow(d) == [d |-> d, margin |-> 3, forced |-> 0]
FundRow(d, deposit) == [d |-> d, credit |-> 10, deposit |-> deposit, change |-> 1]
MoreAt(t) ==
  [investor |-> [foreign |-> 3, organ |-> -2, individual |-> NoNum],
   daily |-> [ok |-> TRUE, rows |-> <<DailyRow(Day(t), 118, 100), DailyRow(Day(t) - 1, 95, NoNum)>>],
   dailyFlow |-> [ok |-> TRUE, rows |-> <<FlowRow(Day(t)), FlowRow(Day(t) - 1)>>],
   vkDaily |-> <<[ok |-> TRUE, rows |-> <<>>, more |-> FALSE]>>,
   naverDaily |-> [ok |-> TRUE, rows |-> <<[d |-> Day(t), v |-> 20], [d |-> Day(t), v |-> 21]>>],
   k200 |-> [ok |-> TRUE, price |-> 101, ts |-> t],
   chart |-> [ok |-> TRUE, rows |-> <<[ts |-> At(Day(t), 15, 30), price |-> 103]>>],
   investors |-> [ok |-> TRUE, rows |-> <<ProgramPart("foreign", 4), ProgramPart("inst", -2),
                                          ProgramPart("foreign", 9)>>],
   flowTimes |-> [ok |-> TRUE, rows |->
     <<[ts |-> At(Day(t), 15, 20), foreign |-> 1, inst |-> 2],
       [ts |-> At(Day(t), 15, 30), foreign |-> 4, inst |-> 3]>>],
   funds |-> [ok |-> TRUE, rows |-> <<FundRow(Day(t), 31), FundRow(Day(t) - 1, 30)>>],
   kofia |-> [ok |-> TRUE, unit |-> "", rows |-> <<KofiaRow(Day(t) - 1)>>]]
Fuller(t) ==
  MoreAt(t) @@ [QuotesAt(t) EXCEPT
    !.prog = [m \in Markets |-> [ok |-> TRUE, rows |->
      <<[hour |-> MinuteOf(t), day |-> Day(t), arb |-> 1, non |-> 2, net |-> 3],
        [hour |-> HM(15, 20), day |-> Day(t), arb |-> 1, non |-> 1, net |-> 2]>>]]]

\* Two collections of the daemon and of a single call.
Ticking ==
  [times |-> TickTimes, quotes |-> [t \in TickTimes |-> Fuller(t)], events |-> Calm.events, rows |-> {},
   env |-> Environment, files |-> CacheFiles, plan |-> [Nothing EXCEPT !.ticks = 2]]

\* VKOSPI can be had at the first instant and is withheld later: from a snapshot of
\* the same day, which was backfilled before the close, with the store knowing older
\* observations, of which one is too old,
WithheldAt(times) ==
  LET without(q) == [q EXCEPT !.vkospi.ok = FALSE, !.naverDaily.ok = FALSE]
  IN [times |-> times, events |-> Calm.events, plan |-> Nothing, rows |-> {},
      env |-> Environment, files |-> CacheFiles,
      quotes |-> [t \in times |-> IF t = Min(times) THEN Fuller(t) ELSE without(Fuller(t))]]
Withheld ==
  [WithheldAt({At(8, 8, 59), At(8, 9, 8)}) EXCEPT !.files = Cached({8}),
     !.rows = {Observation("vkospi.value", 14, At(0, 15, 30), "daemon"),
               Observation("vkospi.value", 15, At(7, 15, 0), "daemon")},
     !.plan.backfills = 1, !.plan.snapshots = 2]
\* or from the next day's, with what a collection stored.
Overnight ==
  [WithheldAt({At(1, 8, 59), At(2, 9, 5)}) EXCEPT
     !.env = [future |-> 99, vkospi |-> 777, writable |-> FALSE],
     !.plan.ticks = 1, !.plan.snapshots = 1, !.plan.dates = {1}]
\* The exchange publishes another master while two programs are under way: a pulse and a
\* snapshot, two pulses, or two snapshots that lack the shares only.
Rollover ==
  LET times == {At(1, 10, 7), At(1, 11, 9)}
  IN [WithheldAt(times) EXCEPT
        !.quotes[At(1, 11, 9)] = [Fuller(At(1, 11, 9)) EXCEPT
          !.futMaster = Master(FutureLines(8)), !.kospiMaster = Master(Shares(5))],
        !.plan.pulses = 1, !.plan.snapshots = 1, !.plan.options = {[save |-> FALSE, history |-> FALSE]}]
RolloverPulses == [Rollover EXCEPT !.plan.pulses = 2, !.plan.snapshots = 0]
RolloverSnapshots ==
  [Rollover EXCEPT !.plan.pulses = 0, !.plan.snapshots = 2, !.files.futures = Cached({1}).futures]
\* Three snapshots, some of the day before; some answers fail or are refused.
Archiving ==
  LET closes == [i \in 1 .. 5 |-> [d |-> 6 - i, v |-> 20 + i]]
      Page(rs, more) == [ok |-> TRUE, rows |-> rs, more |-> more]
  IN [times |-> SnapTimes, events |-> Calm.events, rows |-> {},
      env |-> Environment,
      files |-> [Cached({1, 2}) EXCEPT !.kospi[2][1].whole = FALSE, !.kofia = 2 :> [schema |-> 1, rows |-> <<>>]],
      quotes |-> [[t \in SnapTimes |-> Fuller(t)] EXCEPT
        ![At(1, 10, 7)].vkospi.ts = NoTime, ![At(1, 10, 7)].k200.ok = FALSE,
        ![At(1, 10, 7)].investors.ok = FALSE, ![At(1, 10, 7)].flowTimes.ok = FALSE,
        ![At(1, 10, 7)].prog["KOSPI"].ok = FALSE, ![At(1, 10, 7)].kofia.unit = "dollar",
        ![At(1, 15, 31)].kofia.unit = "thousand",
        ![At(1, 15, 31)].probe = 503 :> 3 @@ 901 :> 18, ![At(1, 15, 31)].k200.ts = At(1, 15, 30),
        ![At(1, 15, 31)].dailyFlow.rows[1].inst = NoNum,
        ![At(1, 15, 31)].vkDaily = <<Page(closes, TRUE), [Page(<<>>, FALSE) EXCEPT !.ok = FALSE]>>,
        ![At(2, 9, 5)].vkDaily = <<Page(SubSeq(closes, 1, 2), TRUE), Page(SubSeq(closes, 3, 5), FALSE)>>,
        ![At(2, 9, 5)].daily.ok = FALSE, ![At(2, 9, 5)].funds.ok = FALSE],
      plan |-> [Nothing EXCEPT !.snapshots = 3, !.dates = {1, 3}]]

\* A snapshot of the last day of the year is taken on the first of the next.
YearEnd ==
  [WithheldAt({At(8, 8, 59), At(8, 9, 8)}) EXCEPT
     !.rows = {Observation("vkospi.value", 15, At(7, 15, 0), "daemon"),
               Observation("vkospi.value", 16, At(8, 8, 50), "daemon")},
     !.plan.snapshots = 1, !.plan.dates = {7}]
\* A snapshot of a past day is taken, and the store knows the day after it.
PastDay ==
  [YearEnd EXCEPT !.rows = {Observation("vkospi.value", 15, At(7, 15, 0), "daemon")}, !.plan.dates = {6}]

MCWorlds ==
  {Lagging, SidecarDay, CrashDay, Apart, Ticking, Withheld, Overnight, Rollover,
   RolloverPulses, RolloverSnapshots, Archiving, YearEnd, PastDay}
=============================================================================
