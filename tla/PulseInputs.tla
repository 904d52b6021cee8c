----------------------------- MODULE PulseInputs -----------------------------
(* What the intraday pulse makes of the providers' answers: one operator per  *)
(* collector (internal/collector/pulse).  An answer that failed, or that      *)
(* lacks a mandatory field, gives a snapshot that is not ok; numbers are      *)
(* whole, percentages whole or in hundredths where a threshold is finer.      *)
EXTENDS MarketSafety, Providers

\* The business date KIS reports: today when it is one of the five dates listed,
\* else the latest of them not after today; the wall date when it says nothing.
ResolveBusinessDate(a, wall) ==
  LET listed == {d \in a.dates : a.today = NoTime \/ d <= a.today}
  IN IF ~a.ok THEN wall
     ELSE IF a.today \in a.dates THEN a.today
     ELSE IF listed # {} THEN Max(listed)
     ELSE IF a.today # NoTime THEN a.today ELSE wall

NoIndex == [ok |-> FALSE, price |-> 0, prev |-> 0, pct |-> 0, low |-> 0, ts |-> NoTime, fresh |-> ""]
\* The index level; the sign field corrects the sign of the day's difference.
CollectIndex(a, now) ==
  LET diff == IF a.down THEN -AbsOf(a.diff) ELSE a.diff
  IN IF ~a.ok \/ NoNum \in {a.price, a.diff, a.pct} \/ a.price <= 0 \/ a.price - diff <= 0
     THEN NoIndex
     ELSE [ok |-> TRUE, price |-> a.price, prev |-> a.price - diff, pct |-> a.pct,
           low |-> IF a.low = NoNum THEN 0 ELSE a.low, ts |-> a.ts,
           fresh |-> PulseFreshness("KRX", a.ts, now, FALSE)]

NoFlow == [ok |-> FALSE, foreign |-> 0, total |-> 0, parts |-> 0, etc |-> FALSE, ts |-> NoTime]
\* The day's flows so far: the foreigners' net buying, the sum over all investors
\* and the institutions' parts against their total.  All but one field is mandatory.
CollectFlow(a) ==
  IF ~a.ok \/ a.foreign = NoNum THEN NoFlow
  ELSE [ok |-> TRUE, foreign |-> a.foreign, total |-> a.total, parts |-> a.parts,
        etc |-> a.etc, ts |-> a.ts]

NoProgram == [ok |-> FALSE, net |-> 0, ts |-> NoTime]
LatestRow(rows) ==
  CHOOSE i \in DOMAIN rows : /\ \A j \in DOMAIN rows : rows[j].hour <= rows[i].hour
                             /\ \A j \in 1 .. i - 1 : rows[j].hour < rows[i].hour
\* Program trading: the first of the rows with the latest hour, whatever the order.
CollectProgramTrade(a) ==
  LET latest == a.rows[LatestRow(a.rows)]
  IN IF ~a.ok \/ a.rows = <<>> THEN NoProgram
     ELSE IF latest.net = NoNum THEN NoProgram
     ELSE [ok |-> TRUE, net |-> latest.net,
           ts |-> IF latest.day = NoTime THEN NoTime ELSE At(latest.day, 0, latest.hour)]

NoFuture == [ok |-> FALSE, code |-> 0, price |-> 0, pct |-> 0, spotOK |-> FALSE, spotPct |-> 0,
             match |-> FALSE, fresh |-> "", ts |-> NoTime]
\* The near-month future of a market with the spot index the answer carries, which
\* is used only when its code is the expected one.  The basis given with it matches
\* when it is the difference of the two prices.
CollectFuture(a, market, code, now) ==
  LET spot == IF market = "KOSPI" THEN "2001" ELSE "3003"
      spotOK == a.spotCode = spot /\ a.spotPct # NoNum /\ a.spot > 0
  IN IF ~a.ok \/ code = 0 \/ NoNum \in {a.pct, a.spot} \/ a.price <= 0
     THEN NoFuture
     ELSE [ok |-> TRUE, code |-> code, price |-> a.price, pct |-> a.pct,
           spotOK |-> spotOK, spotPct |-> IF a.spotPct = NoNum THEN 0 ELSE a.spotPct,
           match |-> spotOK /\ a.basis = a.price - a.spot,
           fresh |-> PulseFreshness("KRX", a.ts, now, FALSE), ts |-> a.ts]
\* The KOSDAQ 150 spot is asked for on its own when the future's answer lacks it.
WithSpot(f, idx) ==
  IF f.ok /\ ~f.spotOK /\ idx.ok
  THEN [f EXCEPT !.spotOK = TRUE, !.spotPct = idx.pct, !.match = FALSE] ELSE f

NoVolatility == [ok |-> FALSE, value |-> 0, source |-> "", ts |-> NoTime, fresh |-> "UNKNOWN"]
PlausibleVKOSPI(v) == v # NoNum /\ v >= 5 /\ v <= 100
\* VKOSPI from KIS, else from Naver; Naver's value keeps the time of the KIS row
\* that was refused, if there was one.
CollectVKOSPI(code, kis, naver, now) ==
  LET ts == IF code # 0 /\ kis.ok THEN kis.ts ELSE NoTime
      from(v, source) == [ok |-> TRUE, value |-> v, source |-> source, ts |-> ts,
                          fresh |-> PulseFreshness("KRX", ts, now, FALSE)]
  IN IF code # 0 /\ kis.ok /\ PlausibleVKOSPI(kis.value) THEN from(kis.value, "KIS")
     ELSE IF naver.ok /\ PlausibleVKOSPI(naver.value) THEN from(naver.value, "Naver")
     ELSE NoVolatility

TopCount == 2   \* the code takes the ten largest
\* The largest constituents with their moves, all of them or none: a universe that
\* is not the index's of that date, does not add up or holds a stranger is refused.
CollectContributions(a, prices, bizDate, idx) ==
  LET sound == /\ a.ok /\ a.date = bizDate /\ a.total > 0
               /\ \A s \in a.items : s.member /\ s.cap > 0
               /\ \A s, t \in a.items : s.code = t.code => s = t
               /\ MapThenSumSet(LAMBDA s : s.cap, a.items) = a.total
      order == SetToSortSeq(a.items, LAMBDA s, t : s.cap > t.cap \/ (s.cap = t.cap /\ s.code < t.code))
      top == SubSeq(order, 1, IF Len(order) < TopCount THEN Len(order) ELSE TopCount)
  IN IF ~idx.ok \/ ~sound \/ (\E i \in DOMAIN top : prices[top[i].code] = NoNum) THEN <<>>
     ELSE [i \in DOMAIN top |-> [code |-> top[i].code, weight |-> (100 * top[i].cap) \div a.total,
                                 pct |-> prices[top[i].code]]]

SymbolVenue(sym) ==
  CASE sym \in {"^KS11", "^KQ11"} -> "KRX" [] sym = "KRW=X" -> "USD/KRW"
    [] sym \in {"NQ=F", "ES=F", "YM=F"} -> "CME" [] sym = "CL=F" -> "NYMEX"
    [] sym = "^TNX" -> "CBOE" [] sym = "^N225" -> "JPX"

\* The latest bar at or before the target, if it is not more than 5 minutes earlier.
AtOrBefore(bars, target) ==
  LET before == {b \in bars : b.at <= target}
  IN {b \in before : (\A c \in before : c.at <= b.at) /\ target - b.at <= 5}

NoWindow == [ok |-> FALSE, current |-> 0, ts |-> NoTime, fresh |-> "", h1 |-> NoNum, h2 |-> NoNum]
\* A symbol's window: its latest bar that is not in the future, else the quote, and
\* from it the moves over one and two hours when a bar anchors them, in hundredths
\* of a percent.  A stale symbol and an anchor of another day give no move.
BuildWindow(sym, quote, series, now) ==
  LET bars == {b \in series : b.at > 0 /\ b.at <= now /\ b.close > 0}
      last == CHOOSE b \in bars : \A c \in bars : c.at <= b.at
      base == IF bars # {} THEN [price |-> last.close, at |-> last.at] ELSE quote
      venue == SymbolVenue(sym)
      fresh == PulseFreshness(venue, base.at, now, IsHoliday(venue, Day(now)))
      move(h) ==
        LET refs == {b \in AtOrBefore(bars, base.at - 60 * h) :
                       sym \in {"^KS11", "^KQ11", "^N225"} => SameDay(b.at, base.at)}
        IN IF ~Usable(fresh) \/ refs = {} THEN NoNum
           ELSE LET r == CHOOSE b \in refs : TRUE
                IN ((base.price - r.close) * 10000) \div r.close
  IN IF base.price <= 0 THEN NoWindow
     ELSE [ok |-> TRUE, current |-> base.price, ts |-> base.at, fresh |-> fresh,
           h1 |-> move(1), h2 |-> move(2)]

MacroSymbols == {"^KS11", "^KQ11", "KRW=X", "NQ=F", "ES=F", "YM=F", "^N225", "CL=F", "^TNX"}
\* The windows of the nine symbols; a symbol whose call failed has no bar or quote.
CollectMarket(answers, series, now) ==
  LET quotes == GetQuotes(answers, MacroSymbols)
      quote(s) == IF s \in DOMAIN quotes THEN quotes[s] ELSE [price |-> 0, at |-> NoTime]
  IN [s \in MacroSymbols |-> BuildWindow(s, quote(s), GetChartHistory(series[s]), now)]
=============================================================================
