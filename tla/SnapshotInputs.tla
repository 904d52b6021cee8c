--------------------------- MODULE SnapshotInputs ---------------------------
(* What the market snapshot makes of the providers' answers: one operator per *)
(* section (internal/collector/snapshot).  Every section is about one date;   *)
(* a row of another date is never put in its place.  A section that cannot be *)
(* had is not ok.                                                             *)
EXTENDS PulseInputs

\* The whole session state of a snapshot of a date, taken now.
SessionStatus(date, now) ==
  IF date > Day(now) THEN "INVALID_DATE"
  ELSE IF date # Day(now) THEN "HISTORICAL_DATED_DATA_ONLY"
  ELSE IF MinuteOf(now) < HM(9, 0) THEN "PREOPEN"
  ELSE IF MinuteOf(now) >= HM(15, 30) THEN "POST_CLOSE_UNRECONCILED"
  ELSE "INTRADAY_PROVISIONAL"

NoSection == [ok |-> FALSE]

\* The first daily row of the date, when its prices fit together.
PriceSection(a, date) ==
  LET dated == SelectSeq(a.rows, LAMBDA r : r.d = date)
      r == dated[1]
      prev == IF r.prev # NoNum THEN r.prev ELSE IF r.diff # NoNum
              THEN r.close - (IF r.down THEN -AbsOf(r.diff) ELSE r.diff) ELSE 0
      sound == /\ NoNum \notin {r.open, r.high, r.low, r.close}
               /\ r.low > 0 /\ {r.open, r.close} \subseteq r.low .. r.high
      position == IF r.high = r.low THEN 0 ELSE ((r.close - r.low) * 100) \div (r.high - r.low)
  IN IF ~a.ok \/ dated = <<>> THEN NoSection
     ELSE IF ~sound \/ prev <= 0 THEN NoSection
     ELSE [ok |-> TRUE, close |-> r.close, prev |-> prev, range |-> r.high - r.low,
           regime |-> IF r.close > prev
                      THEN IF position < 80 THEN "KOSPI_UP_OFF_HIGH" ELSE "KOSPI_UP"
                      ELSE IF r.close = prev THEN "KOSPI_FLAT" ELSE "KOSPI_DOWN",
           yearHigh |-> r.yearHigh > 0 /\ r.high >= r.yearHigh,
           missing |-> {f \in {"trading_value", "year_high", "close_position"} :
                          \/ f = "trading_value" /\ r.traded < 0
                          \/ f = "year_high" /\ r.yearHigh <= 0
                          \/ f = "close_position" /\ r.high = r.low}]

\* The day's investor flows beside those of the session before, if it is complete.
DailyFlowSection(a, date) ==
  LET of(d) == SelectSeq(a.rows, LAMBDA r : r.d = d)
      earlier == {r.d : r \in {s \in ToSet(a.rows) : s.d # NoTime /\ s.d < date}}
      r == of(date)[1]
      p == of(Max(earlier))[1]
      complete(x) == NoNum \notin {x.foreign, x.inst, x.ind}
  IN IF ~a.ok \/ Len(of(date)) # 1 THEN NoSection
     ELSE IF ~complete(r) THEN NoSection
     ELSE [ok |-> TRUE, foreign |-> r.foreign, residual |-> r.foreign + r.inst + r.ind,
           reconciled |-> IF r.other # NoNum \/ r.foreign + r.inst + r.ind # 0
                          THEN "PARTIALLY_RECONCILED" ELSE "PARTICIPANT_SCOPE_UNVERIFIED",
           previous |-> IF earlier = {} THEN NoTime
                        ELSE IF complete(p) THEN Max(earlier) ELSE NoTime]

\* The quotes that are worth something; none of them, no section.
CleanQuotes(quotes) == Restrict(quotes, {s \in DOMAIN quotes : quotes[s].price > 0})
QuoteSection(answers, symbols) ==
  LET good == CleanQuotes(GetQuotes(answers, symbols))
  IN IF good = <<>> THEN NoSection ELSE [ok |-> TRUE, quotes |-> good]
GlobalSymbols == {"^N225", "NQ=F", "CL=F", "BTC-USD", "KRW=X"}
ChannelSymbols == {"KRW=X", "CL=F", "^TNX"}

\* The near-month future, asked for only today; an answer without its price or its
\* change gives what it has.
ImpactSection(a, contract, date, now, flow) ==
  LET today == date = Day(now)
      resolved == today /\ contract # 0
      answered == resolved /\ a.ok
  IN [eligibility |-> IF ~today \/ MinuteOf(now) >= HM(15, 30) THEN "EXPIRED_FOR_DAY"
                      ELSE "NOT_EVALUATED",
      reason |-> IF flow.ok THEN "NOT_RECONCILED" ELSE "FLOW_UNAVAILABLE",
      code |-> IF resolved THEN contract ELSE 0,
      pct |-> IF answered THEN a.pct ELSE NoNum,
      price |-> IF answered THEN a.price ELSE NoNum,
      ts |-> IF answered THEN a.ts ELSE NoTime]

\* The whole index universe of the date, largest first, or nothing.
IndexCapSummary(a, date) ==
  IF /\ a.ok /\ a.date = date /\ a.total > 0 /\ a.items # {}
     /\ \A s \in a.items : s.member /\ s.cap > 0
     /\ \A s, t \in a.items : s.code = t.code => s = t
     /\ MapThenSumSet(LAMBDA s : s.cap, a.items) = a.total
  THEN SetToSortSeq(a.items, LAMBDA s, t : s.cap > t.cap \/ (s.cap = t.cap /\ s.code < t.code))
  ELSE <<>>

Semiconductors == {1, 2}   \* Samsung Electronics and SK Hynix
\* Their share of the market, when the universe has both.
CapRatio(a, date) ==
  LET caps == {s \in ToSet(IndexCapSummary(a, date)) : s.code \in Semiconductors}
  IN IF Cardinality(caps) # 2 THEN NoNum
     ELSE (100 * MapThenSumSet(LAMBDA s : s.cap, caps)) \div a.total

\* A Herfindahl index below the squares of known weights contradicts them.
ValidateHHI(hhi, weights) ==
  IF hhi <= 0 THEN "INSUFFICIENT_DATA"
  ELSE IF \E w \in Range(weights) : w \notin 0 .. 100 THEN "INSUFFICIENT_DATA"
  ELSE IF hhi < FoldFunction(LAMBDA w, sum : w * w + sum, 0, weights)
  THEN "INCONSISTENT_WITH_RELATED_METRIC" ELSE "VALID"

\* How concentrated the index is in its largest members.
ConcentrationSection(a, date) ==
  LET caps == IndexCapSummary(a, date)
      share == [i \in DOMAIN caps |-> (100 * caps[i].cap) \div a.total]
      top(n) == FoldFunctionOnSet(+, 0, share, 1 .. (IF Len(caps) < n THEN Len(caps) ELSE n))
      hhi == FoldFunction(LAMBDA w, sum : w * w + sum, 0, share)
      checked == ValidateHHI(hhi, [i \in DOMAIN share \cap 1 .. 5 |-> share[i]])
      band(low, middle, high) == IF hhi >= 2500 THEN high ELSE IF hhi >= 1500 THEN middle ELSE low
      twoChips == {caps[i].code : i \in DOMAIN caps \cap {1, 2}} = Semiconductors
  IN IF caps = <<>> THEN NoSection
     ELSE [ok |-> TRUE, top2 |-> top(2), top5 |-> top(5), hhi |-> band("LOW", "MEDIUM", "HIGH"),
           extreme |-> top(2) > 45,
           risk |-> IF twoChips THEN IF top(2) > 45 THEN "VERY_HIGH" ELSE "BELOW_THRESHOLD"
                    ELSE IF top(5) > 55 THEN "HIGH" ELSE "NORMAL",
           status |-> IF checked = "VALID" THEN "ESTIMATED" ELSE checked]

\* The deposit's change must be the difference of the two balances, within one.
ValidateCredit(current, previous, reported) ==
  IF current <= 0 \/ previous <= 0 THEN "INSUFFICIENT_DATA"
  ELSE IF AbsOf(current - previous - reported) > 1 THEN "ARITHMETIC_MISMATCH" ELSE "VALID"

\* The latest balances not after the date, with KOFIA's when they can be trusted.
CreditSection(a, kofia, date) ==
  LET of(d) == SelectSeq(a.rows, LAMBDA r : r.d = d)[1]
      days == {r.d : r \in ToSet(a.rows)} \ {NoTime}
      past == {d \in days : d <= date}
      r == of(Max(past))
      before == {d \in days : d < r.d}
      p == of(Max(before))
      trusted == kofia.ok /\ kofia.d \in 0 .. date /\ kofia.margin > 0 /\ kofia.forced >= 0
  IN IF ~a.ok \/ past = {} THEN NoSection
     ELSE IF r.credit <= 0 \/ r.deposit <= 0 THEN NoSection
     ELSE [ok |-> TRUE, date |-> r.d, lag |-> date - r.d, credit |-> r.credit,
           deposit |-> IF before = {} \/ r.change = NoNum THEN "NOT_EVALUATED"
                       ELSE IF p.deposit = NoNum THEN "NOT_EVALUATED"
                       ELSE ValidateCredit(r.deposit, p.deposit, r.change),
           kofia |-> IF trusted THEN kofia.d ELSE NoTime]
=============================================================================
