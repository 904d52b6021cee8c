--------------------------- MODULE PremarketProofs ---------------------------
(* The premarket report, for any answers of the providers, any hours and days  *)
(* of any number of runs and any capacity of the history file: what a report   *)
(* shows was known by then, its tables agree, and a save keeps the history.    *)
EXTENDS Premarket, FiniteSetTheorems, WellFoundedInduction, TLAPS

-----------------------------------------------------------------------------
(* Extremes of sets of numbers.                                                *)

\* A set of naturals that is not empty has a least element, and Min is one.
LEMMA LeastExists ==
  ASSUME NEW S \in SUBSET Nat, S # {}
  PROVE  /\ \E x \in S : \A y \in S : x <= y
         /\ Min(S) \in S
<1> DEFINE R == OpToRel(<, Nat)
<1>1. IsWellFoundedOn(R, Nat)
  BY NatLessThanWellFounded
<1>2. \E x \in S : \A y \in S : ~ (<<y, x>> \in R)
  <2> HIDE DEF R
  <2> QED BY <1>1, WFMin
<1>3. PICK x \in S : \A y \in S : ~ (<<y, x>> \in R)
  BY <1>2
<1>4. ASSUME NEW y \in S PROVE x <= y
  <2>1. x \in Nat /\ y \in Nat /\ <<y, x>> \notin R
    BY <1>3
  <2>2. R = {q \in Nat \X Nat : q[1] < q[2]}
    BY DEF OpToRel
  <2>3. ~ (y < x)
    <3> HIDE DEF R
    <3> QED BY <2>1, <2>2
  <2> HIDE DEF R
  <2> QED BY <2>1, <2>3
<1>5. \E e \in S : \A y \in S : e <= y
  BY <1>4
<1>6. Min(S) \in S
  BY <1>5 DEF Min
<1> QED BY <1>5, <1>6

\* A bounded one has a greatest element, and Max is one.
LEMMA GreatestExists ==
  ASSUME NEW S \in SUBSET Nat, S # {}, NEW b \in Nat, \A x \in S : x <= b
  PROVE  /\ \E x \in S : \A y \in S : y <= x
         /\ Max(S) \in S /\ \A y \in S : y <= Max(S)
<1> DEFINE T == {b - x : x \in S}
<1>1. T \in SUBSET Nat /\ T # {}
  <2>1. ASSUME NEW x \in S PROVE b - x \in Nat
    <3>1. x \in Nat /\ x <= b
      OBVIOUS
    <3> QED BY <3>1
  <2> QED BY <2>1
<1>2. \E t \in T : \A u \in T : t <= u
  <2> HIDE DEF T
  <2> QED BY <1>1, LeastExists
<1>3. PICK x \in S : \A u \in T : b - x <= u
  BY <1>2
<1>4. ASSUME NEW y \in S PROVE y <= x
  <2>1. b - x <= b - y
    BY <1>3
  <2> QED BY <2>1
<1>5. \E e \in S : \A y \in S : y <= e
  BY <1>4
<1> QED BY <1>5 DEF Max

-----------------------------------------------------------------------------
(* Observations.                                                               *)

ObsFields == DOMAIN Missing

\* A missing observation has no day and no time.
LEMMA MissingIs ==
  /\ ~Available(Missing) /\ Missing.bd = 0 /\ Missing.asof = 0
  /\ ObsFields = {"val", "bd", "ref", "asof", "prev", "session", "status", "edition"}
  BY DEF Missing, Available, ObsFields

\* A valid one is of the day, the session and the edition it was made with.
LEMMA ValidIs ==
  ASSUME NEW v, NEW d, NEW s, NEW e
  PROVE  LET o == Valid(v, d, s, e)
         IN  /\ DOMAIN o = ObsFields /\ Available(o)
             /\ o.val = v /\ o.bd = d /\ o.session = s /\ o.edition = e /\ o.asof = 0
  BY DEF Valid, Missing, Available, ObsFields

\* A number of a row carries the row's day and the table's edition.
LEMMA RowNumberIs ==
  ASSUME NEW row, NEW field, NEW session, NEW edition
  PROVE  LET o == RowNumber(row, field, session, edition)
         IN  /\ DOMAIN o = ObsFields /\ o.asof = 0 /\ o.bd \in {0, row.d}
             /\ Available(o) => row.d # 0 /\ o.bd = row.d /\ o.edition = edition
<1>1. CASE RowNumber(row, field, session, edition) = Missing
  BY <1>1, MissingIs DEF ObsFields
<1>2. CASE /\ row.d # 0
           /\ RowNumber(row, field, session, edition) = Valid(row[field], row.d, session, edition)
  BY <1>2, ValidIs
<1> QED BY <1>1, <1>2 DEF RowNumber

\* A negative number is a missing one.
LEMMA NonnegativeIs ==
  ASSUME NEW o
  PROVE  /\ Nonnegative(o) \in {o, Missing}
         /\ Available(Nonnegative(o)) => Nonnegative(o) = o
  BY MissingIs DEF Nonnegative

\* The row of a day, or of the latest day, is of an earlier one.
LEMMA DatedRowIs ==
  ASSUME NEW rows, Listed(rows), NEW before \in Nat, NEW exact \in Nat
  PROVE  LET row == DatedRow(rows, before, exact)
         IN  \/ row.d = 0
             \/ row.d \in 1 .. before - 1 /\ exact \in {0, row.d}
<1> DEFINE fit == {i \in DOMAIN rows : rows[i].d \in 1 .. (before - 1) /\ exact \in {0, rows[i].d}}
           last == {i \in fit : \A j \in fit : rows[j].d <= rows[i].d}
           days == {rows[i].d : i \in fit}
<1>1. DatedRow(rows, before, exact) = IF fit = {} THEN NoRow ELSE rows[Min(last)]
  BY DEF DatedRow
<1>2. NoRow.d = 0
  BY DEF NoRow
<1>3. ASSUME fit # {} PROVE Min(last) \in fit
  <2>1. days \in SUBSET Nat /\ days # {} /\ \A x \in days : x <= before
    BY <1>3
  <2>2. PICK x \in days : \A y \in days : y <= x
    <3> HIDE DEF days
    <3> QED BY <2>1, GreatestExists
  <2>3. last # {} /\ last \in SUBSET Nat
    BY <2>2 DEF Listed
  <2>4. Min(last) \in last
    <3> HIDE DEF last
    <3> QED BY <2>3, LeastExists
  <2> QED BY <2>4
<1> QED BY <1>1, <1>2, <1>3

-----------------------------------------------------------------------------
(* What is known by an hour.                                                   *)

\* The cut-off is the hour of the run or 09:00, whichever is first.
LEMMA CutoffIs ==
  ASSUME NEW date \in Nat, NEW now \in Nat
  PROVE  /\ Cutoff(date, now) \in Nat
         /\ Cutoff(date, now) <= now /\ Cutoff(date, now) <= Hour(date, 9)
         /\ Cutoff(date, now) \in {now, Hour(date, 9)}
  BY DEF Cutoff, Hour

CloseOf(v, w, x, d) ==
  [Valid(v, d, "DAILY_CLOSE", 0) EXCEPT !.asof = BarAt(d), !.prev = w, !.ref = x]
\* A US close is of its bar's day.
LEMMA CloseOfIs ==
  ASSUME NEW v, NEW w, NEW x, NEW d
  PROVE  CloseOf(v, w, x, d).bd = d /\ CloseOf(v, w, x, d).asof = BarAt(d)
  BY ValidIs, MissingIs DEF CloseOf

\* A US close is of a session that had ended by the cut-off.
LEMMA CompletedIs ==
  ASSUME NEW bars, \A b \in bars : b.d \in Nat, NEW cutoff \in Nat
  PROVE  LET o == CompletedUSClose(bars, cutoff)
         IN  Available(o) => /\ o.bd \in Nat /\ USCloseAt(o.bd) <= cutoff
                             /\ o.asof = BarAt(o.bd)
<1> DEFINE done == {b \in bars : b.close > 0 /\ USCloseAt(b.d) <= cutoff}
           last == CHOOSE b \in done : \A c \in done : c.d <= b.d
           older == {b.d : b \in done} \ {last.d}
           days == {b.d : b \in done}
           o == CompletedUSClose(bars, cutoff)
<1>1. ASSUME done # {} PROVE last \in done
  <2>1. days \in SUBSET Nat /\ days # {}
    BY <1>1
  <2>2. \A x \in days : x <= cutoff
    BY DEF USCloseAt, NewYork, Hour
  <2>3. PICK x \in days : \A y \in days : y <= x
    <3> HIDE DEF days
    <3> QED BY <2>1, <2>2, GreatestExists
  <2>4. \E b \in done : \A c \in done : c.d <= b.d
    BY <2>3
  <2> QED BY <2>4
<1>2. o = Missing \/ \E v, w, x : o = CloseOf(v, w, x, last.d)
  BY DEF CompletedUSClose, CloseOf
<1>3. o # Missing => done # {}
  BY DEF CompletedUSClose
<1>4. CASE o = Missing
  BY <1>4, MissingIs
<1>5. CASE o # Missing
  <2>1. last \in bars /\ last.d \in Nat /\ USCloseAt(last.d) <= cutoff
    BY <1>1, <1>3, <1>5
  <2>2. PICK d : d = last.d
    OBVIOUS
  <2> HIDE DEF last, o
  <2>3. PICK v, w, x : o = CloseOf(v, w, x, d)
    BY <1>2, <1>5, <2>2
  <2>4. o.bd = d /\ o.asof = BarAt(d)
    BY <2>3, CloseOfIs
  <2> QED BY <2>1, <2>2, <2>4 DEF o
<1> QED BY <1>4, <1>5

\* A quote, or the bar that stands in for one, had been given by the cut-off.
LEMMA QuoteIs ==
  ASSUME NEW q, q.at \in Int, NEW cutoff \in Nat
  PROVE  LET o == ProviderQuote(q, cutoff)
         IN  /\ o.bd = 0
             /\ DOMAIN o = ObsFields
             /\ Available(o) => o.asof \in Int /\ o.asof <= cutoff
<1>1. CASE ProviderQuote(q, cutoff) = Missing
  BY <1>1, MissingIs DEF ObsFields
<1>2. CASE /\ ~ (q.at > cutoff)
           /\ ProviderQuote(q, cutoff) = [Valid(q.price, 0, "PROVIDER_QUOTE", 0) EXCEPT !.asof = q.at]
  BY <1>2, ValidIs, MissingIs
<1> QED BY <1>1, <1>2 DEF ProviderQuote

\* A provider's daily bar had been closed for a day by the cut-off.
LEMMA BarIs ==
  ASSUME NEW bars, \A b \in bars : b.d \in Nat, NEW cutoff \in Nat
  PROVE  LET o == CompletedProviderBar(bars, cutoff)
         IN  Available(o) => o.bd = 0 /\ o.asof \in Int /\ o.asof <= cutoff
<1> DEFINE done == {b \in bars : b.close > 0 /\ BarAt(b.d) + 24 <= cutoff}
           last == CHOOSE b \in done : \A c \in done : c.d <= b.d
           days == {b.d : b \in done}
           q == [price |-> last.close, at |-> BarAt(last.d)]
           o == CompletedProviderBar(bars, cutoff)
<1>1. ASSUME done # {} PROVE last \in done
  <2>1. days \in SUBSET Nat /\ days # {}
    BY <1>1
  <2>2. \A x \in days : x <= cutoff
    BY DEF BarAt, NewYork, Hour
  <2>3. PICK x \in days : \A y \in days : y <= x
    <3> HIDE DEF days
    <3> QED BY <2>1, <2>2, GreatestExists
  <2>4. \E b \in done : \A c \in done : c.d <= b.d
    BY <2>3
  <2> QED BY <2>4
<1>2. \/ o = Missing
      \/ done # {} /\ Available(ProviderQuote(q, cutoff))
         /\ o = [ProviderQuote(q, cutoff) EXCEPT !.session = "PROVIDER_DAILY"]
  BY DEF CompletedProviderBar
<1>3. done # {} => q.at \in Int
  BY <1>1 DEF BarAt, NewYork, Hour
<1> HIDE DEF last, o, q, done
<1>4. CASE o = Missing
  BY <1>4, MissingIs DEF o
<1>5. CASE /\ done # {} /\ Available(ProviderQuote(q, cutoff))
           /\ o = [ProviderQuote(q, cutoff) EXCEPT !.session = "PROVIDER_DAILY"]
  <2>1. PICK e : e = ProviderQuote(q, cutoff)
    OBVIOUS
  <2>2. e.bd = 0 /\ DOMAIN e = ObsFields /\ e.asof \in Int /\ e.asof <= cutoff
    BY <1>3, <1>5, <2>1, QuoteIs
  <2>3. o = [e EXCEPT !.session = "PROVIDER_DAILY"]
    BY <1>5, <2>1
  <2> QED BY <2>2, <2>3, MissingIs DEF o
<1> QED BY <1>2, <1>4, <1>5

\* The close of a domestic index is of a day before the report's, of the expected one
\* when there is one, and of the edition of the table that was asked for.
CloseBefore(o, date, expected, edition) ==
  /\ o.bd \in Nat /\ o.asof = 0
  /\ Available(o) => /\ o.bd \in 1 .. date - 1
                     /\ expected \in {0, o.bd}
                     /\ o.edition \in {0, edition}
\* Both the exchange's answer and the fallback give a close of an earlier day, the
\* expected one if there is one.
LEMMA DomesticCloseIs ==
  ASSUME NEW key, NEW kis, Listed(kis.rows), Listed(world.fallback[key].rows),
         world.fallback[key].edition = 0, NEW date \in Nat, NEW expected \in Nat
  PROVE  CloseBefore(DomesticClose(key, kis, date, expected), date, expected, kis.edition)
<1> DEFINE From(a) == RowNumber(DatedRow(a.rows, date, expected), "close", "DAILY_CLOSE", a.edition)
<1>1. DomesticClose(key, kis, date, expected) \in {Missing, From(kis), From(world.fallback[key])}
  BY DEF DomesticClose
<1>2. ASSUME NEW a, Listed(a.rows) PROVE CloseBefore(From(a), date, expected, a.edition)
  <2>1. PICK row : row = DatedRow(a.rows, date, expected)
    OBVIOUS
  <2>2. row.d = 0 \/ (row.d \in 1 .. date - 1 /\ expected \in {0, row.d})
    BY <1>2, <2>1, DatedRowIs
  <2>3. PICK o : o = RowNumber(row, "close", "DAILY_CLOSE", a.edition)
    OBVIOUS
  <2>4. /\ o.asof = 0 /\ o.bd \in {0, row.d}
        /\ Available(o) => row.d # 0 /\ o.bd = row.d /\ o.edition = a.edition
    BY <2>3, RowNumberIs
  <2>5. CloseBefore(o, date, expected, a.edition)
    BY <2>2, <2>4 DEF CloseBefore
  <2> QED BY <2>1, <2>3, <2>5
<1>3. \A e : CloseBefore(Missing, date, expected, e)
  BY MissingIs DEF CloseBefore
<1>4. \A o : CloseBefore(o, date, expected, 0) => CloseBefore(o, date, expected, kis.edition)
  BY DEF CloseBefore
<1> HIDE DEF From
<1> QED BY <1>1, <1>2, <1>3, <1>4

-----------------------------------------------------------------------------
(* What the parts of a report are made of.                                     *)

\* Nothing is a list.
LEMMA NoRows == Listed(<<>>) /\ DOMAIN <<>> = {}
  BY DEF Listed

\* Rows in the order of their days, each day once, are listed by them.
LEMMA OrderedListed ==
  ASSUME NEW rows, NEW before \in Nat
  PROVE  Listed(OrderedRows(rows, before))
<1> DEFINE kept == {r \in ToSet(rows) : r.d \in 1 .. (before - 1)}
<1>1. \/ OrderedRows(rows, before) = <<>>
      \/ DOMAIN OrderedRows(rows, before) = {r.d : r \in kept}
  BY DEF OrderedRows
<1>2. {r.d : r \in kept} \subseteq Nat
  OBVIOUS
<1> QED BY <1>1, <1>2, NoRows DEF Listed

\* A number of the row of the prior day.
LEMMA PriorNumberIs ==
  ASSUME NEW rows, Listed(rows), NEW before \in Nat, NEW prior \in Nat \ {0},
         NEW field, NEW session, NEW edition
  PROVE  LET o == RowNumber(DatedRow(rows, before, prior), field, session, edition)
         IN  /\ DOMAIN o = ObsFields /\ o.asof = 0
             /\ Available(o) => o.bd = prior /\ prior < before /\ o.edition = edition
<1>1. PICK row : row = DatedRow(rows, before, prior)
  OBVIOUS
<1>2. row.d = 0 \/ (row.d \in 1 .. before - 1 /\ prior \in {0, row.d})
  BY <1>1, DatedRowIs
<1>3. PICK o : o = RowNumber(row, field, session, edition)
  OBVIOUS
<1>4. /\ DOMAIN o = ObsFields /\ o.asof = 0
      /\ Available(o) => row.d # 0 /\ o.bd = row.d /\ o.edition = edition
  BY <1>3, RowNumberIs
<1> QED BY <1>1, <1>2, <1>3, <1>4

\* A value over several days is given for the prior one.
Since(v, d, session, e, first) == [Valid(v, d, session, e) EXCEPT !.ref = first]
\* Such a value has the fields of an observation.
LEMMA SinceIs ==
  ASSUME NEW v, NEW d, NEW session, NEW e, NEW first
  PROVE  LET o == Since(v, d, session, e, first)
         IN  DOMAIN o = ObsFields /\ o.bd = d /\ o.edition = e /\ o.asof = 0
  BY ValidIs, MissingIs DEF Since

OfPrior(o, prior, edition) == Available(o) => o.bd = prior /\ o.edition = edition

\* Flows that are summed over days, and
LEMMA SumFlowsIs ==
  ASSUME NEW rows, NEW dates, NEW n, NEW date, NEW prior, NEW edition
  PROVE  OfPrior(SumFlows(rows, dates, n, date, prior, edition), prior, edition)
<1>1. \/ SumFlows(rows, dates, n, date, prior, edition) = Missing
      \/ \E v, first :
            SumFlows(rows, dates, n, date, prior, edition) = Since(v, prior, "DAILY_FLOW", edition, first)
  BY DEF SumFlows, Since
<1> QED BY <1>1, SinceIs, MissingIs DEF OfPrior

\* the mean of turnovers, are of the prior day and one edition.
LEMMA TurnoverMeanIs ==
  ASSUME NEW ordered, NEW dates, NEW prior, NEW edition
  PROVE  LET o == TurnoverMean(ordered, dates, prior, edition)
         IN  DOMAIN o = ObsFields /\ OfPrior(o, prior, edition)
<1>1. \/ TurnoverMean(ordered, dates, prior, edition) = Missing
      \/ \E v, first :
            TurnoverMean(ordered, dates, prior, edition) = Since(v, prior, "PRIOR_MEAN", edition, first)
  BY DEF TurnoverMean, Since
<1> QED BY <1>1, SinceIs, MissingIs DEF OfPrior, ObsFields

\* A market's table is of the prior day and of the editions it was made from.
AllOfPrior(values, prior) == \A f \in DOMAIN values : Available(values[f]) => values[f].bd = prior
TableOf(t, prior, indexEdition, flowEdition) ==
  /\ OfPrior(t.turnover, prior, indexEdition)
  /\ OfPrior(t.mean, prior, indexEdition)
  /\ OfPrior(t.ratio, prior, indexEdition)
  /\ DOMAIN t.flows = Spans
  /\ \A n \in Spans : OfPrior(t.flows[n], prior, flowEdition)
  /\ AllOfPrior(t.breadth, prior)

\* Everything in a market's table is of the prior day and of the editions asked for.
LEMMA DomesticTableIs ==
  ASSUME NEW index, NEW flow, NEW breadth, NEW date \in Nat, NEW prior \in Nat \ {0},
         AllOfPrior(breadth, prior)
  PROVE  TableOf(DomesticTable(index, flow, breadth, date, prior), prior, index.edition, flow.edition)
<1> DEFINE ordered == IF index.ok THEN OrderedRows(index.rows, date) ELSE <<>>
           dates == SetToSortSeq({d \in DOMAIN ordered : d <= prior}, >)
           flows == IF flow.ok THEN OrderedRows(flow.rows, date) ELSE <<>>
           row == RowNumber(DatedRow(ordered, date, prior), "tr", "DAILY_CLOSE", index.edition)
           turnover == Nonnegative(row)
           mean == TurnoverMean(ordered, dates, prior, index.edition)
           t == DomesticTable(index, flow, breadth, date, prior)
<1>1. /\ t.turnover = turnover /\ t.mean = mean /\ t.breadth = breadth
      /\ t.ratio = IF Available(turnover) /\ Available(mean)
                   THEN [mean EXCEPT !.val = (100 * turnover.val) \div mean.val] ELSE Missing
      /\ DOMAIN t.flows = Spans
      /\ \A n \in Spans : \E dd : t.flows[n] = SumFlows(flows, dd, n, date, prior, flow.edition)
  BY DEF DomesticTable
<1>2. Listed(ordered)
  BY OrderedListed, NoRows
<1> HIDE DEF t, ordered, dates, flows
<1>3. OfPrior(row, prior, index.edition)
  BY <1>2, PriorNumberIs DEF OfPrior
<1>4. OfPrior(turnover, prior, index.edition)
  <2> HIDE DEF row
  <2> QED BY <1>3, NonnegativeIs DEF OfPrior
<1>5. DOMAIN mean = ObsFields /\ OfPrior(mean, prior, index.edition)
  BY TurnoverMeanIs
<1>6. ASSUME NEW m, NEW v, DOMAIN m = ObsFields, OfPrior(m, prior, index.edition), Available(m)
      PROVE  OfPrior([m EXCEPT !.val = v], prior, index.edition)
  BY <1>6, MissingIs DEF OfPrior
<1>7. OfPrior(t.ratio, prior, index.edition)
  <2> HIDE DEF turnover, mean
  <2>1. CASE Available(turnover) /\ Available(mean)
    <3>1. PICK m, v : m = mean /\ v = (100 * turnover.val) \div mean.val
      OBVIOUS
    <3>2. OfPrior([m EXCEPT !.val = v], prior, index.edition)
      BY <1>5, <1>6, <2>1, <3>1
    <3>3. t.ratio = [m EXCEPT !.val = v]
      BY <1>1, <2>1, <3>1
    <3> QED BY <3>2, <3>3
  <2>2. CASE ~ (Available(turnover) /\ Available(mean))
    BY <1>1, <2>2, MissingIs DEF OfPrior
  <2> QED BY <2>1, <2>2
<1>8. ASSUME NEW n \in Spans PROVE OfPrior(t.flows[n], prior, flow.edition)
  <2>1. PICK dd : t.flows[n] = SumFlows(flows, dd, n, date, prior, flow.edition)
    BY <1>1
  <2> QED BY <2>1, SumFlowsIs
<1> HIDE DEF turnover, mean
<1>9. TableOf(t, prior, index.edition, flow.edition)
  BY <1>1, <1>4, <1>5, <1>7, <1>8 DEF TableOf
<1> QED BY <1>9 DEF t

\* The breadth of a market is of the prior day.
LEMMA BreadthIs ==
  ASSUME NEW rows, NEW prior, NEW m \in Markets
  PROVE  AllOfPrior(Breadth(rows, prior)[m], prior)
<1> DEFINE b == Breadth(rows, prior)[m]
<1>1. \/ b = <<>>
      \/ \A f \in DOMAIN b : \E v : b[f] = Valid(v, prior, "DAILY_BREADTH", 0)
  BY DEF Breadth
<1> HIDE DEF b
<1>2. AllOfPrior(b, prior)
  BY <1>1, NoRows, ValidIs DEF AllOfPrior
<1> QED BY <1>2 DEF b

\* So is what is shown of a share.
LEMMA ShareIs ==
  ASSUME NEW price, NEW investor, NEW date \in Nat, NEW prior \in Nat \ {0}
  PROVE  AllOfPrior(Share(price, investor, date, prior), prior)
<1> DEFINE Ordered(answer) == IF answer.ok THEN OrderedRows(answer.rows, date) ELSE <<>>
           rows == Ordered(price)
           flows == Ordered(investor)
           close == RowNumber(DatedRow(rows, date, prior), "close", "DAILY_CLOSE", 0)
           turnover == RowNumber(DatedRow(rows, date, prior), "tr", "DAILY_CLOSE", 0)
           s == Share(price, investor, date, prior)
<1>1. /\ DOMAIN s = {"close", "turnover", "foreign"}
      /\ (s.close = Missing \/ (Available(close) /\ \E v : s.close = [close EXCEPT !.prev = v]))
      /\ s.turnover = Nonnegative(turnover)
      /\ s.foreign = SumFlows(flows, <<prior>>, 1, date, prior, 0)
  BY DEF Share
<1>2. Listed(rows) /\ Listed(flows)
  BY OrderedListed, NoRows
<1> HIDE DEF rows, flows, s
<1>3. /\ DOMAIN close = ObsFields /\ OfPrior(close, prior, 0)
      /\ OfPrior(turnover, prior, 0)
  BY <1>2, PriorNumberIs DEF OfPrior
<1> HIDE DEF close, turnover
<1>4. ASSUME NEW c, NEW v, DOMAIN c = ObsFields, OfPrior(c, prior, 0), Available(c)
      PROVE  OfPrior([c EXCEPT !.prev = v], prior, 0)
  BY <1>4, MissingIs DEF OfPrior
<1>5. OfPrior(s.close, prior, 0)
  <2>1. CASE s.close = Missing
    BY <2>1, MissingIs DEF OfPrior
  <2>2. ASSUME NEW v, Available(close), s.close = [close EXCEPT !.prev = v]
        PROVE  OfPrior(s.close, prior, 0)
    <3>1. PICK c : c = close
      OBVIOUS
    <3> QED BY <1>3, <1>4, <2>2, <3>1
  <2> QED BY <1>1, <2>1, <2>2
<1>6. OfPrior(s.turnover, prior, 0) /\ OfPrior(s.foreign, prior, 0)
  BY <1>1, <1>2, <1>3, NonnegativeIs, SumFlowsIs DEF OfPrior
<1> QED BY <1>1, <1>5, <1>6 DEF AllOfPrior, OfPrior, s

\* What the calendar calls scheduled begins after the cut-off.
LEMMA ScheduledIs ==
  ASSUME NEW events, NEW date, NEW cutoff \in Nat,
         NEW e \in Calendar(events, date, cutoff), e.state = "SCHEDULED"
  PROVE  e.at \in Int /\ e.at > cutoff
<1>1. PICK i \in DOMAIN events : e = [id |-> events[i].id, at |-> events[i].at,
                                      state |-> EventState(events[i], date, cutoff)]
  BY DEF Calendar
<1>2. PICK v : v = events[i]
  OBVIOUS
<1>3. EventState(v, date, cutoff) = "SCHEDULED" /\ e.at = v.at
  BY <1>1, <1>2
<1>4. v.at \in Int /\ ~ (v.at <= cutoff)
  BY <1>3 DEF EventState
<1> QED BY <1>3, <1>4

\* The composite is of the session of its members.
LEMMA CompositeIs ==
  ASSUME NEW in
  PROVE  LET o == SemiComposite(in)
         IN  Available(o) => \E s \in Members : Available(in[s]) /\ o.bd = in[s].bd /\ o.asof = 0
<1> DEFINE one == CHOOSE s \in Members : TRUE
           o == SemiComposite(in)
<1>1. one \in Members
  BY PremarketAssumption
<1>2. o = Missing \/ (Available(in[one]) /\ o = Since(0, in[one].bd, "DAILY_CLOSE", 0, in[one].ref))
  BY <1>1 DEF SemiComposite, Since
<1> HIDE DEF one, o
<1>3. Available(o) => Available(in[one]) /\ o.bd = in[one].bd /\ o.asof = 0
  BY <1>2, SinceIs, MissingIs
<1> QED BY <1>1, <1>3 DEF o

\* A sample is of an earlier day than the value it is compared with, and was reported
\* before the report.
LEMMA HistoryIs ==
  ASSUME NEW recs, NEW key, NEW source \in Nat, NEW date, NEW limit,
         NEW s \in History(recs, key, source, date, limit)
  PROVE  s.bd < source /\ s.date < date
<1>1. PICK r \in recs : /\ r.date < date /\ r.in[key].bd \in 1 .. (source - 1)
                        /\ s = [bd |-> r.in[key].bd, val |-> r.in[key].val, date |-> r.date]
  BY DEF History
<1> QED BY <1>1

-----------------------------------------------------------------------------
(* The history file.                                                           *)

HistoryOK(recs) ==
  /\ IsFiniteSet(recs)
  /\ \A a \in recs : a.date \in Nat /\ a.seen \in Nat
  /\ \A a, b \in recs : a.date = b.date => a = b

\* A record that is not among the last MaxRecords is older than each of them, and
\* there are as many as the file holds.
LEMMA SavedIs ==
  ASSUME NEW recs, HistoryOK(recs)
  PROVE  /\ HistoryOK(Saved(recs))
         /\ \A u \in recs \ Saved(recs) : /\ Cardinality(Saved(recs)) = MaxRecords
                                          /\ \A new \in Saved(recs) : new.date > u.date
<1> DEFINE Above(r) == {s \in recs : s.date > r.date}
           kept == Saved(recs)
           left == recs \ kept
           Rank(r) == Cardinality(Above(r))
<1> USE PremarketAssumption
<1>1. kept = {r \in recs : Rank(r) < MaxRecords}
  BY DEF Saved
<1>2. /\ \A r \in recs : r.date \in Nat
      /\ \A r, s \in recs : r.date = s.date => r = s
      /\ IsFiniteSet(recs)
  BY DEF HistoryOK
<1>3. ASSUME NEW r \in recs PROVE IsFiniteSet(Above(r)) /\ Rank(r) \in Nat
  <2>1. Above(r) \in SUBSET recs
    OBVIOUS
  <2>2. IsFiniteSet(Above(r))
    <3> HIDE DEF Above
    <3> QED BY <1>2, <2>1, FS_Subset
  <2> HIDE DEF Above
  <2> QED BY <2>2, FS_CardinalityType
<1>4. ASSUME NEW r \in recs, NEW s \in recs, r.date <= s.date
      PROVE  Rank(s) <= Rank(r) /\ (r # s => Rank(s) < Rank(r))
  <2>1. Above(s) \in SUBSET Above(r)
    BY <1>2, <1>4
  <2>2. r # s => s \in Above(r) /\ s \notin Above(s)
    BY <1>2, <1>4
  <2> HIDE DEF Above
  <2>3. IsFiniteSet(Above(r)) /\ Rank(r) \in Nat /\ Rank(s) \in Nat
    BY <1>3
  <2>4. Rank(s) <= Rank(r) /\ (Rank(r) = Rank(s) => Above(r) = Above(s))
    BY <2>1, <2>3, FS_Subset
  <2> QED BY <2>2, <2>3, <2>4
<1>5. kept \in SUBSET recs
  BY <1>1
<1>6. HistoryOK(kept)
  <2>1. IsFiniteSet(kept)
    <3> HIDE DEF kept
    <3> QED BY <1>2, <1>5, FS_Subset
  <2> HIDE DEF kept
  <2> QED BY <1>5, <2>1 DEF HistoryOK
<1>7. ASSUME NEW u \in left, NEW new \in kept PROVE new.date > u.date
  <2>1. Rank(u) \in Nat /\ Rank(new) \in Nat /\ Rank(new) < MaxRecords /\ ~ (Rank(u) < MaxRecords)
    <3> HIDE DEF Rank
    <3>1. u \in recs /\ new \in recs /\ Rank(new) < MaxRecords /\ ~ (Rank(u) < MaxRecords)
      BY <1>1
    <3> QED BY <3>1, <1>3
  <2>2. u \in recs /\ new \in recs
    BY <1>1
  <2>3. new.date <= u.date => Rank(u) <= Rank(new)
    BY <1>4, <2>2
  <2> HIDE DEF Rank, Above, kept
  <2> QED BY <1>2, <2>1, <2>2, <2>3
<1>8. ASSUME NEW u \in left PROVE Cardinality(kept) = MaxRecords
  <2> DEFINE ranks == {Rank(r) : r \in left}
             keptRanks == {r.date : r \in kept}
  <2>1. \A r \in left : r \in recs /\ Rank(r) \in Nat /\ MaxRecords <= Rank(r)
    <3> HIDE DEF Rank
    <3>1. \A r \in left : r \in recs /\ ~ (Rank(r) < MaxRecords)
      BY <1>1
    <3>2. \A r \in recs : Rank(r) \in Nat
      BY <1>3
    <3> QED BY <3>1, <3>2
  <2>2. PICK v \in left : \A r \in left : Rank(v) <= Rank(r)
    <3>1. ranks \in SUBSET Nat /\ ranks # {}
      BY <2>1, <1>8
    <3>2. PICK x \in ranks : \A y \in ranks : x <= y
      <4> HIDE DEF ranks
      <4> QED BY <3>1, LeastExists
    <3>3. PICK v \in left : x = Rank(v)
      BY <3>2
    <3>4. \A r \in left : Rank(r) \in ranks
      <4> HIDE DEF Rank
      <4> QED OBVIOUS
    <3>5. \A r \in left : Rank(v) <= Rank(r)
      <4> HIDE DEF ranks, Rank
      <4> QED BY <3>2, <3>3, <3>4
    <3> QED BY <3>5
  <2>3. Above(v) = kept
    <3>1. ASSUME NEW s \in Above(v) PROVE s \in kept
      <4>1. SUFFICES ASSUME s \notin kept PROVE FALSE
        OBVIOUS
      <4>2. s \in recs /\ s \in left /\ v \in recs /\ v.date <= s.date /\ v # s
        BY <1>2, <2>1, <4>1
      <4>3. Rank(s) < Rank(v)
        BY <1>4, <4>2
      <4>4. Rank(v) <= Rank(s) /\ Rank(v) \in Nat /\ Rank(s) \in Nat
        BY <2>1, <2>2, <4>2
      <4> HIDE DEF Rank
      <4> QED BY <4>3, <4>4
    <3>2. ASSUME NEW s \in kept PROVE s \in Above(v)
      BY <1>5, <1>7, <2>2
    <3> QED BY <3>1, <3>2
  <2>4. Cardinality(kept) \in Nat /\ MaxRecords <= Cardinality(kept)
    BY <2>1, <2>2, <2>3
  <2>5. kept # {}
    <3> HIDE DEF kept
    <3> QED BY <2>4, FS_EmptySet
  <2>6. PICK w \in kept : \A r \in kept : w.date <= r.date
    <3>1. keptRanks \in SUBSET Nat /\ keptRanks # {}
      BY <1>2, <1>5, <2>5
    <3>2. \E x \in keptRanks : \A y \in keptRanks : x <= y
      <4> HIDE DEF keptRanks
      <4> QED BY <3>1, LeastExists
    <3> QED BY <3>2
  <2>7. kept \ {w} \in SUBSET Above(w)
    <3>1. ASSUME NEW r \in kept, r # w PROVE r \in recs /\ r.date > w.date
      <4>1. r \in recs /\ w \in recs /\ w.date <= r.date /\ r.date \in Nat /\ w.date \in Nat
        BY <1>2, <1>5, <2>6
      <4> HIDE DEF kept
      <4> QED BY <1>2, <3>1, <4>1
    <3> QED BY <3>1
  <2>8. w \in recs /\ Rank(w) \in Nat /\ Rank(w) < MaxRecords /\ IsFiniteSet(Above(w))
    <3>1. w \in recs /\ Rank(w) < MaxRecords
      BY <1>1
    <3> QED BY <1>3, <3>1
  <2>9. Cardinality(kept \ {w}) <= Rank(w)
    <3> HIDE DEF Above, kept
    <3> QED BY <2>7, <2>8, FS_Subset
  <2>10. Cardinality(kept \ {w}) = Cardinality(kept) - 1
    <3> HIDE DEF kept
    <3> QED BY <1>6, FS_RemoveElement DEF HistoryOK
  <2> HIDE DEF Rank, kept
  <2> QED BY <2>4, <2>8, <2>9, <2>10
<1> QED BY <1>6, <1>7, <1>8

\* The record of a day is replaced by one that was seen no earlier.
LEMMA UpsertIs ==
  ASSUME NEW recs, HistoryOK(recs), NEW rec, rec.date \in Nat, rec.seen \in Nat
  PROVE  LET u == UpsertRecord(recs, rec)
         IN  /\ HistoryOK(u)
             /\ \A old \in recs : \E new \in u : new.date = old.date /\ new.seen >= old.seen
<1> DEFINE others == {r \in recs : r.date # rec.date}
           u == UpsertRecord(recs, rec)
<1>1. CASE \E r \in recs : r.date = rec.date /\ r.seen > rec.seen
  <2>1. u = recs
    BY <1>1 DEF UpsertRecord
  <2> HIDE DEF u
  <2>2. \A old \in recs : old \in u /\ old.date = old.date /\ old.seen >= old.seen
    BY <2>1 DEF HistoryOK
  <2>3. HistoryOK(u)
    BY <2>1
  <2> QED BY <2>2, <2>3 DEF u
<1>2. CASE ~ \E r \in recs : r.date = rec.date /\ r.seen > rec.seen
  <2>1. u = others \union {rec}
    BY <1>2 DEF UpsertRecord
  <2> HIDE DEF u
  <2>2. IsFiniteSet(others)
    <3>1. others \in SUBSET recs /\ IsFiniteSet(recs)
      BY DEF HistoryOK
    <3> HIDE DEF others
    <3> QED BY <3>1, FS_Subset
  <2>3. IsFiniteSet(u)
    <3> HIDE DEF others
    <3> QED BY <2>1, <2>2, FS_AddElement
  <2>4. HistoryOK(u)
    <3>1. \A a \in u : a.date \in Nat /\ a.seen \in Nat
      BY <2>1 DEF HistoryOK
    <3>2. \A a, b \in u : a.date = b.date => a = b
      BY <2>1 DEF HistoryOK
    <3> QED BY <2>3, <3>1, <3>2 DEF HistoryOK
  <2>5. ASSUME NEW old \in recs PROVE \E new \in u : new.date = old.date /\ new.seen >= old.seen
    <3>1. old.seen \in Nat /\ old.date \in Nat
      BY DEF HistoryOK
    <3>2. CASE old.date = rec.date
      <4>1. ~ (old.seen > rec.seen)
        BY <1>2, <3>2
      <4>2. rec \in u /\ rec.seen >= old.seen
        BY <2>1, <3>1, <4>1
      <4> QED BY <3>2, <4>2
    <3>3. CASE old.date # rec.date
      <4>1. old \in u /\ old.seen >= old.seen
        BY <2>1, <3>1, <3>3
      <4> QED BY <4>1
    <3> QED BY <3>2, <3>3
  <2> QED BY <2>4, <2>5 DEF u
<1> QED BY <1>1, <1>2

-----------------------------------------------------------------------------
(* The inductive invariant: of the reports being built, and of the file.       *)

RunFields == DOMAIN Blank

\* An input was known at the hour of the run and at 09:00 of the report day.
KnownInTime(k, o, date, now) ==
  Available(o) =>
    /\ o.bd \in Nat /\ o.bd < date
    /\ o.asof \in Int /\ o.asof <= now /\ o.asof <= Hour(date, 9)
    /\ k \in CashSymbols \union {"composite"} =>
         USCloseAt(o.bd) <= now /\ USCloseAt(o.bd) <= Hour(date, 9)

Timely(r) == \A k \in InputKeys : KnownInTime(k, r.in[k], r.date, r.now)

\* The close of an index is of the prior day, when that is known, and of the edition
\* the report's requests remember; so is the foreign flow.
Known(w, r) == w.times.ok /\ \E d \in w.times.days : d \in 1 .. (r.date - 1)
OfMemo(o, memo, key) ==
  Available(o) /\ o.edition # 0 => key \in DOMAIN memo /\ o.edition = memo[key].edition
ClosesAgree(w, r) ==
  \A m \in Markets :
    /\ OfMemo(r.in[m], r.memo, <<m, r.date>>)
    /\ Known(w, r) /\ Available(r.in[m]) => r.in[m].bd = r.prior
FlowAgrees(r) ==
  Available(r.in["foreign_flow"]) =>
    /\ r.in["foreign_flow"].bd = r.prior
    /\ OfMemo(r.in["foreign_flow"], r.memo, <<"flow", r.prior>>)

TablesAgree(r) ==
  /\ \A m \in DOMAIN r.dom :
       /\ m \in Markets
       /\ \E e : /\ TableOf(r.dom[m], r.prior, r.memo[<<m, r.date>>].edition, e)
                 /\ m = "kospi" => e = r.memo[<<"flow", r.prior>>].edition
  /\ AllOfPrior(r.share, r.prior)

\* The samples are older than what they are compared with, and nothing that is
\* called scheduled had begun.
SamplesOlder(r) ==
  \A k \in DOMAIN r.tier2 : \A s \in r.tier2[k].samples : s.bd < r.in[k].bd /\ s.date < r.date
EventsAhead(r) ==
  \A e \in r.events : e.state = "SCHEDULED" =>
    e.at \in Int /\ (e.at > r.now \/ e.at > Hour(r.date, 9))

\* What a run has not yet made.
NotYet(w, r) ==
  /\ r.pc = "closes" => r.in = EmptyInputs /\ r.memo = <<>> /\ (Known(w, r) => r.prior # 0)
  /\ r.pc \in {"closes", "flows"} => ~Available(r.in["foreign_flow"])
  /\ r.pc \in {"closes", "flows", "domestic"} => r.dom = <<>> /\ r.share = <<>> /\ r.events = {}
  /\ r.pc \notin {"save", "done"} => r.tier2 = <<>>

Shaped(r) ==
  /\ r.date \in Nat \ {0} /\ r.now \in Nat /\ r.prior \in Nat
  /\ DOMAIN r.in = InputKeys
  /\ \A key \in DOMAIN r.memo : Listed(r.memo[key].rows)
  /\ HistoryOK(r.store.recs)

ReportInv(w, r) ==
  /\ DOMAIN r = RunFields
  /\ r.pc \in {"idle", "closes", "flows", "domestic", "load", "save", "done"}
  /\ r.pc # "idle" =>
       /\ Shaped(r) /\ NotYet(w, r)
       /\ Timely(r) /\ ClosesAgree(w, r) /\ FlowAgrees(r) /\ TablesAgree(r)
       /\ SamplesOlder(r) /\ EventsAhead(r)

IInv ==
  /\ world \in Worlds /\ revised \in 1..2
  /\ HistoryOK(file.recs)
  /\ DOMAIN run = Runs
  /\ \A p \in Runs : ReportInv(world, run[p])

-----------------------------------------------------------------------------
(* What the steps are made of.                                                 *)

\* The fields an input may have.
LEMMA FieldsAre ==
  RunFields = {"pc", "date", "now", "prior", "in", "dom", "share", "memo", "events", "tier2",
               "vul", "store", "saves"}
  BY DEF RunFields, Blank

\* What a run may rely on of the providers.
LEMMA WorldIs ==
  ASSUME world \in Worlds
  PROVE  /\ world.times.days \subseteq Nat
         /\ \A m \in Markets, edition \in 1..2 : Listed(world.index[m].rows[edition])
         /\ \A edition \in 1..2 : Listed(world.flow.rows[edition])
         /\ \A k \in Markets \union {"vkospi"} : Listed(world.fallback[k].rows) /\ world.fallback[k].edition = 0
         /\ Listed(world.vkospi.rows) /\ world.vkospi.edition = 0 /\ Listed(world.funds)
         /\ \A s \in CashSymbols : \A b \in world.us[s] : b.d \in Nat
         /\ \A s \in QuoteSymbols : world.quotes[s].at \in Int /\ \A b \in world.bars[s] : b.d \in Nat
         /\ HistoryOK(world.file.recs)
  BY WorldsAssumption DEF HistoryOK

\* Filling in an input leaves the others.
LEMMA FilledIs ==
  ASSUME NEW in, NEW new
  PROVE  /\ DOMAIN Filled(in, new) = DOMAIN in
         /\ \A k \in DOMAIN in : Filled(in, new)[k] = IF k \in DOMAIN new THEN new[k] ELSE in[k]
  BY DEF Filled

\* An answer once remembered is the answer of the report.
Grows(memo, more) == \A k \in DOMAIN memo : k \in DOMAIN more /\ more[k] = memo[k]
AllListed(memo) == \A k \in DOMAIN memo : Listed(memo[k].rows)

\* Asking remembers an answer and keeps those there are,
LEMMA AskIs ==
  ASSUME NEW memo, NEW key, NEW answer
  PROVE  LET more == Ask(memo, key, answer)
         IN  /\ Grows(memo, more) /\ key \in DOMAIN more
             /\ AllListed(memo) /\ Listed(answer.rows) => AllListed(more)
<1> DEFINE more == Ask(memo, key, answer)
<1>1. /\ DOMAIN more = DOMAIN memo \union {key}
      /\ \A k \in DOMAIN more : more[k] = IF k \in DOMAIN memo THEN memo[k] ELSE answer
  BY DEF Ask
<1> HIDE DEF more
<1>2. Grows(memo, more) /\ key \in DOMAIN more
  BY <1>1 DEF Grows
<1>3. AllListed(memo) /\ Listed(answer.rows) => AllListed(more)
  BY <1>1 DEF AllListed
<1> QED BY <1>2, <1>3 DEF more

\* the answers are listed rows,
LEMMA AnswersListed ==
  ASSUME world \in Worlds, revised \in 1..2
  PROVE  /\ \A m \in Markets : Listed(IndexAnswer(m).rows)
         /\ Listed(FlowAnswer.rows)
  BY WorldIs DEF IndexAnswer, FlowAnswer, Edition

\* and after both indices have been asked for both are remembered.
LEMMA AskIndicesIs ==
  ASSUME world \in Worlds, revised \in 1..2, NEW memo, NEW date
  PROVE  LET more == AskIndices(memo, date)
         IN  /\ Grows(memo, more)
             /\ \A m \in Markets : <<m, date>> \in DOMAIN more
             /\ AllListed(memo) => AllListed(more)
<1>1. PICK a, b : a = IndexAnswer("kospi") /\ b = IndexAnswer("kosdaq") /\ Listed(a.rows) /\ Listed(b.rows)
  BY AnswersListed DEF Markets
<1>2. PICK half : half = Ask(memo, <<"kospi", date>>, a)
  OBVIOUS
<1>3. PICK more : more = Ask(half, <<"kosdaq", date>>, b)
  OBVIOUS
<1>4. AskIndices(memo, date) = more
  BY <1>1, <1>2, <1>3 DEF AskIndices
<1>5. Grows(memo, half) /\ <<"kospi", date>> \in DOMAIN half /\ (AllListed(memo) => AllListed(half))
  BY <1>1, <1>2, AskIs
<1>6. Grows(half, more) /\ <<"kosdaq", date>> \in DOMAIN more /\ (AllListed(half) => AllListed(more))
  BY <1>1, <1>3, AskIs
<1>7. Grows(memo, more) /\ \A m \in Markets : <<m, date>> \in DOMAIN more
  BY <1>5, <1>6 DEF Grows, Markets
<1> QED BY <1>4, <1>5, <1>6, <1>7

\* What is of a remembered answer stays so.
LEMMA MemoGrows ==
  ASSUME NEW o, NEW memo, NEW more, NEW key, Grows(memo, more), OfMemo(o, memo, key)
  PROVE  OfMemo(o, more, key)
  BY DEF Grows, OfMemo

-----------------------------------------------------------------------------
(* A step at a time.                                                           *)

\* Tables, samples and events that have not been made claim nothing.
LEMMA NothingYet ==
  ASSUME NEW r, r.dom = <<>>, r.share = <<>>, r.events = {}, r.tier2 = <<>>
  PROVE  TablesAgree(r) /\ SamplesOlder(r) /\ EventsAhead(r)
  BY NoRows DEF TablesAgree, AllOfPrior, SamplesOlder, EventsAhead

\* What the days are known to be depends on a report's date alone.
LEMMA KnownIs ==
  ASSUME NEW q, NEW r, q.date = r.date
  PROVE  Known(world, q) = Known(world, r)
  BY DEF Known

\* A US close known by the cut-off is known in time,
LEMMA SoonerIs ==
  ASSUME NEW o, NEW k, NEW date \in Nat, NEW now \in Nat,
         Available(o) => /\ o.bd \in Nat /\ USCloseAt(o.bd) <= Cutoff(date, now)
                         /\ o.asof = BarAt(o.bd)
  PROVE  KnownInTime(k, o, date, now)
<1>1. /\ Cutoff(date, now) \in Nat
      /\ Cutoff(date, now) <= now /\ Cutoff(date, now) <= Hour(date, 9)
  BY CutoffIs
<1> SUFFICES ASSUME Available(o) PROVE KnownInTime(k, o, date, now)
  BY DEF KnownInTime
<1> DEFINE c == Cutoff(date, now)
<1>2. c \in Nat /\ c <= now /\ c <= 24 * date + 9 /\ USCloseAt(o.bd) <= c /\ o.bd \in Nat /\ o.asof = BarAt(o.bd)
  BY <1>1 DEF Hour
<1> HIDE DEF c
<1>3. /\ USCloseAt(o.bd) \in Int /\ BarAt(o.bd) \in Int /\ BarAt(o.bd) <= USCloseAt(o.bd)
      /\ 24 * o.bd < USCloseAt(o.bd) - 24
  BY <1>2 DEF USCloseAt, BarAt, NewYork, Hour
<1> QED BY <1>2, <1>3 DEF KnownInTime, Hour

\* and so is a close of an earlier day at home.
LEMMA HomeIs ==
  ASSUME NEW o, NEW k \in InputKeys \ (CashSymbols \union {"composite"}), NEW date \in Nat, NEW now \in Nat,
         Available(o) => o.bd \in 1 .. date - 1 /\ o.asof = 0
  PROVE  KnownInTime(k, o, date, now)
  BY DEF KnownInTime, Hour

\* The groups of inputs do not overlap.
LEMMA KeysAre ==
  /\ Named \subseteq InputKeys /\ CashSymbols \subseteq InputKeys /\ QuoteSymbols \subseteq InputKeys
  /\ Markets \subseteq Named /\ "vkospi" \in Named /\ "foreign_flow" \in Named
  /\ "credit" \in Named /\ "margin" \in Named /\ "composite" \in Named
  /\ Named \intersect CashSymbols = {} /\ Named \intersect QuoteSymbols = {}
  /\ CashSymbols \intersect QuoteSymbols = {}
  /\ \A k \in InputKeys : k \in CashSymbols \/ k \in QuoteSymbols \/ k \in Named
  BY PremarketAssumption DEF InputKeys, Named, Markets

\* A US close stays as it is or is left out.
LEMMA OneSessionIs ==
  ASSUME NEW in
  PROVE  /\ DOMAIN OfOneSession(in) = CashSymbols
         /\ \A s \in CashSymbols : OfOneSession(in)[s] \in {in[s], Missing}
  BY DEF OfOneSession

\* VKOSPI is of an earlier day.
LEMMA VolatilityIs ==
  ASSUME world \in Worlds, NEW day \in Nat, NEW prior \in Nat
  PROVE  LET o == DomesticClose("vkospi", world.vkospi, day, prior)
         IN  Available(o) => o.bd \in 1 .. day - 1 /\ o.asof = 0
<1>1. PICK a, k : a = world.vkospi /\ k = "vkospi"
  OBVIOUS
<1>2. Listed(a.rows) /\ Listed(world.fallback[k].rows) /\ world.fallback[k].edition = 0
  BY <1>1, WorldIs
<1>3. PICK o : o = DomesticClose(k, a, day, prior)
  OBVIOUS
<1>4. CloseBefore(o, day, prior, a.edition)
  BY <1>2, <1>3, DomesticCloseIs
<1>5. Available(o) => o.bd \in 1 .. day - 1 /\ o.asof = 0
  BY <1>4 DEF CloseBefore
<1> QED BY <1>1, <1>3, <1>5

Named1(o) == [vkospi |-> o]
\* What asking for the closes fills in,
LEMMA CloseInputs ==
  ASSUME NEW was, DOMAIN was = InputKeys, \A k \in InputKeys : was[k] = Missing,
         NEW us, DOMAIN us = CashSymbols, NEW home, DOMAIN home = Markets, NEW vk,
         NEW a, a = Filled(was, us), NEW b, b = Filled(a, home),
         NEW v, v = Named1(vk), NEW got, got = Filled(b, v)
  PROVE  /\ DOMAIN got = InputKeys
         /\ \A s \in CashSymbols : got[s] = us[s]
         /\ \A m \in Markets : got[m] = home[m]
         /\ got["vkospi"] = vk
         /\ \A k \in InputKeys : k \in CashSymbols \/ k \in Markets \/ k = "vkospi" \/ got[k] = Missing
<1>1. DOMAIN v = {"vkospi"} /\ \A k \in DOMAIN v : v[k] = vk
  BY DEF Named1
<1>2. /\ DOMAIN a = InputKeys
      /\ \A k \in InputKeys : a[k] = IF k \in CashSymbols THEN us[k] ELSE Missing
  BY FilledIs
<1>3. /\ DOMAIN b = InputKeys
      /\ \A k \in InputKeys : b[k] = IF k \in Markets THEN home[k] ELSE a[k]
  BY <1>2, FilledIs
<1>4. /\ DOMAIN got = InputKeys
      /\ \A k \in InputKeys : got[k] = IF k = "vkospi" THEN vk ELSE b[k]
  BY <1>1, <1>3, FilledIs
<1>5. "vkospi" \notin Markets
  BY DEF Markets
<1> HIDE DEF InputKeys
<1> QED BY <1>2, <1>3, <1>4, <1>5, KeysAre

\* The closes: what they were asked with, and what they leave.
USCloses(r) == OfOneSession([s \in CashSymbols |-> CompletedUSClose(world.us[s], Cutoff(r.date, r.now))])
HomeCloses(r, memo) == [m \in Markets |-> DomesticClose(m, memo[<<m, r.date>>], r.date, r.prior)]
AfterCloses(r, memo, prior, in) ==
  [r EXCEPT !.pc = "flows", !.memo = memo, !.prior = prior, !.in = in]
\* and what it makes of a run.
LEMMA ClosesStep ==
  ASSUME world \in Worlds, revised \in 1..2, NEW r, ReportInv(world, r), r.pc = "closes",
         NEW us, us = USCloses(r),
         NEW memo, memo = AskIndices(r.memo, r.date),
         NEW home, home = HomeCloses(r, memo),
         NEW vk, vk = DomesticClose("vkospi", world.vkospi, r.date, r.prior),
         NEW prior, prior = (IF r.prior = 0 THEN home["kospi"].bd ELSE r.prior),
         NEW a, a = Filled(r.in, us), NEW b, b = Filled(a, home),
         NEW v, v = Named1(vk), NEW in, in = Filled(b, v),
         NEW q, q = AfterCloses(r, memo, prior, in)
  PROVE  ReportInv(world, q)
<1>1. /\ DOMAIN r = RunFields /\ Shaped(r) /\ NotYet(world, r)
      /\ Timely(r) /\ ClosesAgree(world, r) /\ FlowAgrees(r) /\ TablesAgree(r)
      /\ SamplesOlder(r) /\ EventsAhead(r)
  BY DEF ReportInv
<1>2. /\ DOMAIN q = RunFields /\ q.pc = "flows" /\ q.memo = memo /\ q.prior = prior /\ q.in = in
      /\ q.date = r.date /\ q.now = r.now /\ q.dom = r.dom /\ q.share = r.share
      /\ q.events = r.events /\ q.tier2 = r.tier2 /\ q.store = r.store
  BY <1>1, FieldsAre DEF AfterCloses
<1>3. /\ r.date \in Nat \ {0} /\ r.now \in Nat /\ r.prior \in Nat /\ DOMAIN r.in = InputKeys
      /\ \A k \in InputKeys : r.in[k] = Missing
      /\ r.memo = <<>> /\ (Known(world, r) => r.prior # 0)
      /\ r.dom = <<>> /\ r.share = <<>> /\ r.events = {} /\ r.tier2 = <<>>
  BY <1>1 DEF Shaped, NotYet, EmptyInputs
<1>4. AllListed(memo) /\ \A m \in Markets : <<m, r.date>> \in DOMAIN memo
  <2>1. AllListed(r.memo)
    BY <1>1 DEF Shaped, AllListed
  <2> QED BY <2>1, AskIndicesIs
<1>5. ASSUME NEW s \in CashSymbols PROVE KnownInTime(s, us[s], r.date, r.now)
  <2>1. PICK cutoff : cutoff = Cutoff(r.date, r.now) /\ cutoff \in Nat
    BY <1>3, CutoffIs
  <2>2. PICK o : o = CompletedUSClose(world.us[s], cutoff)
    OBVIOUS
  <2>3. Available(o) => o.bd \in Nat /\ USCloseAt(o.bd) <= cutoff /\ o.asof = BarAt(o.bd)
    BY <2>1, <2>2, CompletedIs, WorldIs
  <2>4. us[s] \in {o, Missing}
    BY <2>1, <2>2, OneSessionIs DEF USCloses
  <2>5. KnownInTime(s, o, r.date, r.now)
    BY <1>3, <2>1, <2>3, SoonerIs
  <2>6. KnownInTime(s, Missing, r.date, r.now)
    BY MissingIs DEF KnownInTime
  <2> QED BY <2>4, <2>5, <2>6
<1>6. ASSUME NEW m \in Markets
      PROVE  CloseBefore(home[m], r.date, r.prior, memo[<<m, r.date>>].edition)
  <2>1. PICK kis : kis = memo[<<m, r.date>>] /\ Listed(kis.rows)
    BY <1>4 DEF AllListed
  <2>2. home[m] = DomesticClose(m, kis, r.date, r.prior)
    BY <2>1 DEF HomeCloses
  <2>3. Listed(world.fallback[m].rows) /\ world.fallback[m].edition = 0
    BY WorldIs
  <2>4. r.date \in Nat /\ r.prior \in Nat
    BY <1>3
  <2>5. CloseBefore(DomesticClose(m, kis, r.date, r.prior), r.date, r.prior, kis.edition)
    BY <2>1, <2>3, <2>4, DomesticCloseIs
  <2> QED BY <2>1, <2>2, <2>5
<1>7. Available(vk) => vk.bd \in 1 .. r.date - 1 /\ vk.asof = 0
  BY <1>3, VolatilityIs
<1>8. DOMAIN us = CashSymbols /\ DOMAIN home = Markets
  BY OneSessionIs DEF USCloses, HomeCloses
<1>9. /\ DOMAIN in = InputKeys
      /\ \A s \in CashSymbols : in[s] = us[s]
      /\ \A m \in Markets : in[m] = home[m]
      /\ in["vkospi"] = vk
      /\ \A k \in InputKeys : k \in CashSymbols \/ k \in Markets \/ k = "vkospi" \/ in[k] = Missing
  BY <1>3, <1>8, CloseInputs
<1>10. prior \in Nat /\ (r.prior # 0 => prior = r.prior)
  BY <1>3, <1>6 DEF Markets, CloseBefore
<1>11. Known(world, q) => r.prior # 0
  BY <1>2, <1>3 DEF Known
<1>12. Shaped(q)
  <2>1. HistoryOK(q.store.recs) /\ AllListed(q.memo)
    <3>1. HistoryOK(r.store.recs)
      BY <1>1 DEF Shaped
    <3>2. AllListed(memo)
      BY <1>4
    <3> QED BY <1>2, <3>1, <3>2
  <2>2. q.date \in Nat \ {0} /\ q.now \in Nat /\ q.prior \in Nat /\ DOMAIN q.in = InputKeys
    BY <1>2, <1>3, <1>9, <1>10
  <2> QED BY <2>1, <2>2 DEF Shaped, AllListed
<1>13. NotYet(world, q)
  <2>1. "foreign_flow" \notin CashSymbols /\ "foreign_flow" \notin Markets /\ "foreign_flow" \in InputKeys
    BY KeysAre DEF Markets
  <2>2. ~Available(in["foreign_flow"])
    BY <1>9, <2>1, MissingIs
  <2> QED BY <1>2, <1>3, <2>2 DEF NotYet
<1>14. Timely(q)
  <2>1. ASSUME NEW k \in InputKeys PROVE KnownInTime(k, in[k], r.date, r.now)
    <3>1. CASE k \in CashSymbols
      BY <1>5, <1>9, <3>1
    <3>2. CASE k \in Markets
      <4>1. k \notin CashSymbols /\ k # "composite"
        BY <3>2, KeysAre DEF Markets
      <4>2. PICK o : o = home[k]
        OBVIOUS
      <4>3. Available(o) => o.bd \in 1 .. r.date - 1 /\ o.asof = 0
        BY <1>6, <3>2, <4>2 DEF CloseBefore
      <4>4. KnownInTime(k, o, r.date, r.now)
        BY <1>3, <4>1, <4>3, HomeIs
      <4> QED BY <1>9, <3>2, <4>2, <4>4
    <3>3. CASE k = "vkospi"
      <4>1. k \notin CashSymbols /\ k # "composite"
        BY <3>3, KeysAre
      <4> QED BY <1>3, <1>7, <1>9, <3>3, <4>1, HomeIs
    <3>4. CASE in[k] = Missing
      BY <3>4, MissingIs DEF KnownInTime
    <3> QED BY <1>9, <3>1, <3>2, <3>3, <3>4
  <2> QED BY <1>2, <2>1 DEF Timely
<1>15. ClosesAgree(world, q)
  <2>1. ASSUME NEW m \in Markets
        PROVE  /\ OfMemo(in[m], memo, <<m, r.date>>)
               /\ Known(world, q) /\ Available(in[m]) => in[m].bd = prior
    <3>1. in[m] = home[m]
      BY <1>9
    <3>2. OfMemo(home[m], memo, <<m, r.date>>)
      <4> HIDE DEF OfMemo
      <4>1. PICK o, e : o = home[m] /\ e = memo[<<m, r.date>>].edition
        OBVIOUS
      <4>2. <<m, r.date>> \in DOMAIN memo /\ (Available(o) => o.edition \in {0, e})
        BY <1>4, <1>6, <4>1 DEF CloseBefore
      <4> QED BY <4>1, <4>2 DEF OfMemo
    <3>3. Known(world, q) /\ Available(home[m]) => home[m].bd = prior
      BY <1>6, <1>10, <1>11 DEF CloseBefore
    <3> QED BY <3>1, <3>2, <3>3
  <2> QED BY <1>2, <2>1 DEF ClosesAgree
<1>16. FlowAgrees(q)
  BY <1>2, <1>13 DEF FlowAgrees, NotYet
<1>17. TablesAgree(q) /\ SamplesOlder(q) /\ EventsAhead(q)
  BY <1>2, <1>3, NothingYet
<1> QED BY <1>2, <1>12, <1>13, <1>14, <1>15, <1>16, <1>17 DEF ReportInv

-----------------------------------------------------------------------------
(* The quotes, the foreign flow, the credit balances and the margin debt.      *)

GivenBy(o, c) == Available(o) => o.bd = 0 /\ o.asof \in Int /\ o.asof <= c
\* A quote, or the bar that stands in, had been given by the cut-off.
LEMMA QuoteOrBarIs ==
  ASSUME world \in Worlds, NEW s \in QuoteSymbols, NEW c \in Nat
  PROVE  GivenBy(QuoteOrBar(s, c), c)
<1>1. PICK q, bars : q = world.quotes[s] /\ bars = world.bars[s]
  OBVIOUS
<1>2. q.at \in Int /\ \A b \in bars : b.d \in Nat
  BY <1>1, WorldIs
<1>3. PICK o, e : o = ProviderQuote(q, c) /\ e = CompletedProviderBar(bars, c)
  OBVIOUS
<1>4. o.bd = 0 /\ (Available(o) => o.asof \in Int /\ o.asof <= c)
  BY <1>2, <1>3, QuoteIs
<1>5. Available(e) => e.bd = 0 /\ e.asof \in Int /\ e.asof <= c
  BY <1>2, <1>3, BarIs
<1>6. QuoteOrBar(s, c) \in {o, e} /\ (Available(QuoteOrBar(s, c)) => Available(o) \/ QuoteOrBar(s, c) = e)
  BY <1>1, <1>3 DEF QuoteOrBar
<1> QED BY <1>4, <1>5, <1>6 DEF GivenBy

Lagged(o) == IF Available(o) THEN [o EXCEPT !.status = "LAGGED"] ELSE o
Earlier(o, date) == Available(o) => o.bd \in 1 .. date - 1 /\ o.asof = 0

\* A lagged value stays of an earlier day.
LEMMA LaggedIs ==
  ASSUME NEW o, DOMAIN o = ObsFields, NEW date, Earlier(o, date)
  PROVE  Earlier(Lagged(o), date)
  BY MissingIs DEF Lagged, Earlier

\* The balances of credit and
LEMMA CreditIs ==
  ASSUME world \in Worlds, NEW date \in Nat
  PROVE  Earlier(Lagged(RowNumber(DatedRow(world.funds, date, 0), "v", "DAILY_STATISTIC", 0)), date)
<1>1. PICK rows : rows = world.funds /\ Listed(rows)
  BY WorldIs
<1>2. PICK row : row = DatedRow(rows, date, 0)
  OBVIOUS
<1>3. row.d = 0 \/ row.d \in 1 .. date - 1
  BY <1>1, <1>2, DatedRowIs
<1>4. PICK o : o = RowNumber(row, "v", "DAILY_STATISTIC", 0)
  OBVIOUS
<1>5. DOMAIN o = ObsFields /\ o.asof = 0 /\ (Available(o) => row.d # 0 /\ o.bd = row.d)
  BY <1>4, RowNumberIs
<1>6. Earlier(o, date)
  BY <1>3, <1>5 DEF Earlier
<1>7. Earlier(Lagged(o), date)
  BY <1>5, <1>6, LaggedIs
<1> QED BY <1>1, <1>2, <1>4, <1>7

\* the margin debt are of earlier days.
LEMMA MarginIs ==
  ASSUME NEW k, NEW date \in Nat
  PROVE  Earlier(IF k.d \in 1..(date - 1) /\ k.v > 0
                 THEN Lagged(Valid(k.v, k.d, "DAILY_STATISTIC", 0)) ELSE Missing, date)
<1>1. CASE ~ (k.d \in 1..(date - 1) /\ k.v > 0)
  BY <1>1, MissingIs DEF Earlier
<1>2. CASE k.d \in 1..(date - 1) /\ k.v > 0
  <2>1. PICK o : o = Valid(k.v, k.d, "DAILY_STATISTIC", 0)
    OBVIOUS
  <2>2. DOMAIN o = ObsFields /\ o.bd = k.d /\ o.asof = 0
    BY <2>1, ValidIs
  <2>3. Earlier(o, date)
    BY <1>2, <2>2 DEF Earlier
  <2>4. Earlier(Lagged(o), date)
    BY <2>2, <2>3, LaggedIs
  <2> QED BY <1>2, <2>1, <2>4
<1> QED BY <1>1, <1>2

\* The flow of the prior day, of the edition the report remembers.
FlowOf(memo, date, prior) ==
  IF prior # 0 /\ memo[<<"flow", prior>>].ok
  THEN LET a == memo[<<"flow", prior>>] IN
       RowNumber(DatedRow(a.rows, date, prior), "v", "DAILY_FLOW", a.edition)
  ELSE Missing
FlowBefore(o, memo, date, prior) ==
  Available(o) => /\ o.bd = prior /\ prior # 0 /\ prior < date /\ o.asof = 0
                  /\ o.edition = memo[<<"flow", prior>>].edition
\* It is of that edition and day.
LEMMA FlowOfIs ==
  ASSUME NEW memo, NEW date \in Nat, NEW prior \in Nat, AllListed(memo),
         prior # 0 => <<"flow", prior>> \in DOMAIN memo
  PROVE  FlowBefore(FlowOf(memo, date, prior), memo, date, prior)
<1>1. CASE prior = 0
  BY <1>1, MissingIs DEF FlowOf, FlowBefore
<1>2. CASE prior # 0
  <2>1. PICK a : a = memo[<<"flow", prior>>] /\ Listed(a.rows)
    BY <1>2 DEF AllListed
  <2>2. PICK o : o = RowNumber(DatedRow(a.rows, date, prior), "v", "DAILY_FLOW", a.edition)
    OBVIOUS
  <2>3. o.asof = 0 /\ (Available(o) => o.bd = prior /\ prior < date /\ o.edition = a.edition)
    BY <1>2, <2>1, <2>2, PriorNumberIs
  <2>4. FlowOf(memo, date, prior) \in {o, Missing}
    BY <2>1, <2>2 DEF FlowOf
  <2> QED BY <1>2, <2>1, <2>3, <2>4, MissingIs DEF FlowBefore
<1> QED BY <1>1, <1>2

Named3(flow, credit, margin) == [foreign_flow |-> flow, credit |-> credit, margin |-> margin]
\* What asking for the flows fills in,
LEMMA FlowInputs ==
  ASSUME NEW was, DOMAIN was = InputKeys, NEW quotes, DOMAIN quotes = QuoteSymbols,
         NEW flow, NEW credit, NEW margin,
         NEW a, a = Filled(was, quotes),
         NEW v, v = Named3(flow, credit, margin),
         NEW got, got = Filled(a, v)
  PROVE  /\ DOMAIN got = InputKeys
         /\ \A s \in QuoteSymbols : got[s] = quotes[s]
         /\ got["foreign_flow"] = flow /\ got["credit"] = credit /\ got["margin"] = margin
         /\ \A k \in InputKeys : \/ k \in QuoteSymbols \/ k \in {"foreign_flow", "credit", "margin"}
                                 \/ got[k] = was[k]
<1>1. DOMAIN v = {"foreign_flow", "credit", "margin"}
  BY DEF Named3
<1>2. v["foreign_flow"] = flow /\ v["credit"] = credit /\ v["margin"] = margin
  BY DEF Named3
<1>3. /\ DOMAIN a = InputKeys
      /\ \A k \in InputKeys : a[k] = IF k \in QuoteSymbols THEN quotes[k] ELSE was[k]
  BY FilledIs
<1>4. /\ DOMAIN got = InputKeys
      /\ \A k \in InputKeys : got[k] = IF k \in {"foreign_flow", "credit", "margin"} THEN v[k] ELSE a[k]
  BY <1>1, <1>3, FilledIs
<1> HIDE DEF InputKeys
<1>5. "foreign_flow" \in InputKeys /\ "credit" \in InputKeys /\ "margin" \in InputKeys
  BY KeysAre
<1>6. QuoteSymbols \subseteq InputKeys /\ \A s \in QuoteSymbols : s \notin {"foreign_flow", "credit", "margin"}
  BY KeysAre
<1> QED BY <1>2, <1>3, <1>4, <1>5, <1>6

AfterFlows(r, memo, in) == [r EXCEPT !.pc = "domestic", !.memo = memo, !.in = in]
Quotes(r) == [s \in QuoteSymbols |-> QuoteOrBar(s, Cutoff(r.date, r.now))]

\* and what it makes of a run.
LEMMA FlowsStep ==
  ASSUME world \in Worlds, revised \in 1..2, NEW r, ReportInv(world, r), r.pc = "flows",
         NEW quotes, quotes = Quotes(r),
         NEW memo, memo = (IF r.prior = 0 THEN r.memo ELSE Ask(r.memo, <<"flow", r.prior>>, FlowAnswer)),
         NEW flow, flow = FlowOf(memo, r.date, r.prior),
         NEW credit, Earlier(credit, r.date), NEW margin, Earlier(margin, r.date),
         NEW a, a = Filled(r.in, quotes),
         NEW v, v = Named3(flow, credit, margin),
         NEW in, in = Filled(a, v),
         NEW q, q = AfterFlows(r, memo, in)
  PROVE  ReportInv(world, q)
<1>1. /\ DOMAIN r = RunFields /\ Shaped(r) /\ NotYet(world, r)
      /\ Timely(r) /\ ClosesAgree(world, r)
      /\ SamplesOlder(r) /\ EventsAhead(r)
  BY DEF ReportInv
<1>2. /\ DOMAIN q = RunFields /\ q.pc = "domestic" /\ q.memo = memo /\ q.prior = r.prior /\ q.in = in
      /\ q.date = r.date /\ q.now = r.now /\ q.dom = r.dom /\ q.share = r.share
      /\ q.events = r.events /\ q.tier2 = r.tier2 /\ q.store = r.store
  BY <1>1, FieldsAre DEF AfterFlows
<1>3. /\ r.date \in Nat \ {0} /\ r.now \in Nat /\ r.prior \in Nat /\ DOMAIN r.in = InputKeys
      /\ r.dom = <<>> /\ r.share = <<>> /\ r.events = {} /\ r.tier2 = <<>>
      /\ AllListed(r.memo)
  BY <1>1 DEF Shaped, NotYet, AllListed
<1>4. Grows(r.memo, memo) /\ AllListed(memo) /\ (r.prior # 0 => <<"flow", r.prior>> \in DOMAIN memo)
  <2>1. CASE r.prior = 0
    BY <1>3, <2>1 DEF Grows
  <2>2. CASE r.prior # 0
    <3>1. PICK answer : answer = FlowAnswer /\ Listed(answer.rows)
      BY AnswersListed
    <3>2. memo = Ask(r.memo, <<"flow", r.prior>>, answer)
      BY <2>2, <3>1
    <3> QED BY <1>3, <3>1, <3>2, AskIs
  <2> QED BY <2>1, <2>2
<1>5. ASSUME NEW s \in QuoteSymbols PROVE KnownInTime(s, quotes[s], r.date, r.now)
  <2>1. PICK c : c = Cutoff(r.date, r.now) /\ c \in Nat /\ c <= r.now /\ c <= Hour(r.date, 9)
    BY <1>3, CutoffIs
  <2>2. GivenBy(QuoteOrBar(s, c), c)
    BY <2>1, QuoteOrBarIs
  <2>3. PICK o : o = quotes[s]
    OBVIOUS
  <2>4. GivenBy(o, c)
    BY <2>1, <2>2, <2>3 DEF Quotes
  <2>5. s \notin CashSymbols /\ s # "composite"
    BY KeysAre
  <2>6. Hour(r.date, 9) \in Nat
    BY <1>3 DEF Hour
  <2>7. KnownInTime(s, o, r.date, r.now)
    BY <1>3, <2>1, <2>4, <2>5, <2>6 DEF KnownInTime, GivenBy
  <2> QED BY <2>3, <2>7
<1>6. FlowBefore(flow, memo, r.date, r.prior)
  <2>1. r.date \in Nat /\ r.prior \in Nat
    BY <1>3
  <2> QED BY <1>4, <2>1, FlowOfIs
<1>7. /\ DOMAIN in = InputKeys
      /\ \A s \in QuoteSymbols : in[s] = quotes[s]
      /\ in["foreign_flow"] = flow /\ in["credit"] = credit /\ in["margin"] = margin
      /\ \A k \in InputKeys : \/ k \in QuoteSymbols \/ k \in {"foreign_flow", "credit", "margin"}
                              \/ in[k] = r.in[k]
  <2>1. DOMAIN quotes = QuoteSymbols
    BY DEF Quotes
  <2> QED BY <1>3, <2>1, FlowInputs
<1>8. Shaped(q)
  <2>1. HistoryOK(q.store.recs) /\ AllListed(q.memo)
    <3>1. HistoryOK(r.store.recs)
      BY <1>1 DEF Shaped
    <3>2. AllListed(memo)
      BY <1>4
    <3> QED BY <1>2, <3>1, <3>2
  <2> QED BY <1>2, <1>3, <1>7, <2>1 DEF Shaped, AllListed
<1>9. NotYet(world, q)
  BY <1>2, <1>3 DEF NotYet
<1>10. Timely(q)
  <2>1. ASSUME NEW k \in InputKeys PROVE KnownInTime(k, in[k], r.date, r.now)
    <3>1. CASE k \in QuoteSymbols
      BY <1>5, <1>7, <3>1
    <3>2. CASE k \in {"foreign_flow", "credit", "margin"}
      <4>1. k \notin CashSymbols /\ k # "composite"
        BY <3>2, KeysAre
      <4>2. PICK o : o = in[k]
        OBVIOUS
      <4>3. Available(o) => o.bd \in 1 .. r.date - 1 /\ o.asof = 0
        <5>1. CASE k = "foreign_flow"
          BY <1>3, <1>6, <1>7, <4>2, <5>1 DEF FlowBefore
        <5>2. CASE k \in {"credit", "margin"}
          BY <1>7, <4>2, <5>2 DEF Earlier
        <5> QED BY <3>2, <5>1, <5>2
      <4>4. KnownInTime(k, o, r.date, r.now)
        BY <1>3, <4>1, <4>3, HomeIs
      <4> QED BY <4>2, <4>4
    <3>3. CASE in[k] = r.in[k]
      BY <1>1, <3>3 DEF Timely
    <3> QED BY <1>7, <3>1, <3>2, <3>3
  <2> QED BY <1>2, <2>1 DEF Timely
<1>11. ClosesAgree(world, q)
  <2>1. ASSUME NEW m \in Markets
        PROVE  /\ OfMemo(in[m], memo, <<m, r.date>>)
               /\ Known(world, q) /\ Available(in[m]) => in[m].bd = r.prior
    <3>1. m \in InputKeys /\ m \notin QuoteSymbols /\ m \notin {"foreign_flow", "credit", "margin"}
      BY KeysAre DEF Markets
    <3>2. in[m] = r.in[m]
      BY <1>7, <3>1
    <3>3. OfMemo(r.in[m], r.memo, <<m, r.date>>)
      BY <1>1 DEF ClosesAgree
    <3>4. PICK o, key : o = in[m] /\ key = <<m, r.date>>
      OBVIOUS
    <3>5. OfMemo(o, memo, key)
      BY <1>4, <3>2, <3>3, <3>4, MemoGrows
    <3>6. Known(world, q) = Known(world, r)
      BY <1>2, KnownIs
    <3>7. Known(world, r) /\ Available(r.in[m]) => r.in[m].bd = r.prior
      BY <1>1 DEF ClosesAgree
    <3> QED BY <3>2, <3>4, <3>5, <3>6, <3>7
  <2> QED BY <1>2, <2>1 DEF ClosesAgree
<1>12. FlowAgrees(q)
  BY <1>2, <1>4, <1>6, <1>7 DEF FlowAgrees, OfMemo, FlowBefore
<1>13. TablesAgree(q) /\ SamplesOlder(q) /\ EventsAhead(q)
  BY <1>2, <1>3, NothingYet
<1> QED BY <1>2, <1>8, <1>9, <1>10, <1>11, <1>12, <1>13 DEF ReportInv

-----------------------------------------------------------------------------
(* The domestic table.                                                         *)

\* A table nobody could fill claims nothing.
LEMMA EmptyTableIs ==
  ASSUME NEW m \in Markets, NEW prior, NEW e, NEW f
  PROVE  TableOf(EmptyDomestic[m], prior, e, f)
<1>1. PICK t : t = EmptyDomestic[m]
  OBVIOUS
<1>2. /\ t.turnover = Missing /\ t.mean = Missing /\ t.ratio = Missing /\ t.breadth = <<>>
      /\ DOMAIN t.flows = Spans /\ \A n \in Spans : t.flows[n] = Missing
  BY <1>1 DEF EmptyDomestic
<1>3. TableOf(t, prior, e, f)
  BY <1>2, MissingIs, NoRows DEF TableOf, OfPrior, AllOfPrior
<1> QED BY <1>1, <1>3

Tables(r, memo, flow) ==
  [m \in Markets |-> DomesticTable(memo[<<m, r.date>>], flow[m],
                                   Breadth(world.stocks, r.prior)[m], r.date, r.prior)]
AfterDomestic(r, memo, dom, share, events) ==
  [r EXCEPT !.pc = "load", !.memo = memo, !.dom = dom, !.share = share, !.events = events]

\* What the domestic table makes of a run.
LEMMA DomesticStep ==
  ASSUME world \in Worlds, revised \in 1..2, NEW r, ReportInv(world, r), r.pc = "domestic",
         NEW half, half = AskIndices(r.memo, r.date),
         NEW memo, memo = (IF r.prior = 0 THEN r.memo ELSE Ask(half, <<"flow", r.prior>>, FlowAnswer)),
         NEW flow, \A m \in Markets :
                     flow[m] = IF m = "kospi" THEN memo[<<"flow", r.prior>>] ELSE FlowAnswer,
         NEW dom, dom = (IF r.prior = 0 THEN EmptyDomestic
                         ELSE Tables(r, memo, flow)),
         NEW share, share = (IF r.prior = 0 THEN <<>> ELSE Share(world.share, world.investor, r.date, r.prior)),
         NEW feeds, NEW events, events = Calendar(feeds, r.date, Cutoff(r.date, r.now)),
         NEW q, q = AfterDomestic(r, memo, dom, share, events)
  PROVE  ReportInv(world, q)
<1>1. /\ DOMAIN r = RunFields /\ Shaped(r) /\ NotYet(world, r)
      /\ Timely(r) /\ ClosesAgree(world, r) /\ FlowAgrees(r)
      /\ SamplesOlder(r)
  BY DEF ReportInv
<1>2. /\ DOMAIN q = RunFields /\ q.pc = "load" /\ q.memo = memo /\ q.prior = r.prior /\ q.in = r.in
      /\ q.date = r.date /\ q.now = r.now /\ q.dom = dom /\ q.share = share
      /\ q.events = events /\ q.tier2 = r.tier2 /\ q.store = r.store
  BY <1>1, FieldsAre DEF AfterDomestic
<1>3. /\ r.date \in Nat \ {0} /\ r.now \in Nat /\ r.prior \in Nat /\ DOMAIN r.in = InputKeys
      /\ r.tier2 = <<>> /\ AllListed(r.memo)
  BY <1>1 DEF Shaped, NotYet, AllListed
<1>4. Grows(r.memo, memo) /\ AllListed(memo)
  <2>1. CASE r.prior = 0
    BY <1>3, <2>1 DEF Grows
  <2>2. CASE r.prior # 0
    <3>1. PICK answer : answer = FlowAnswer /\ Listed(answer.rows)
      BY AnswersListed
    <3>2. memo = Ask(half, <<"flow", r.prior>>, answer)
      BY <2>2, <3>1
    <3>3. Grows(r.memo, half) /\ AllListed(half)
      BY <1>3, AskIndicesIs
    <3>4. Grows(half, memo) /\ AllListed(memo)
      BY <3>1, <3>2, <3>3, AskIs
    <3> QED BY <3>3, <3>4 DEF Grows
  <2> QED BY <2>1, <2>2
<1>5. DOMAIN dom = Markets
  BY DEF EmptyDomestic, Tables
<1>6. ASSUME NEW m \in Markets
      PROVE  \E e : /\ TableOf(dom[m], r.prior, memo[<<m, r.date>>].edition, e)
                    /\ m = "kospi" => e = memo[<<"flow", r.prior>>].edition
  <2>1. PICK index, f : index = memo[<<m, r.date>>] /\ f = flow[m]
    OBVIOUS
  <2>2. m = "kospi" => f.edition = memo[<<"flow", r.prior>>].edition
    BY <2>1
  <2>3. CASE r.prior = 0
    <3>1. TableOf(EmptyDomestic[m], r.prior, index.edition, f.edition)
      BY EmptyTableIs
    <3>2. dom[m] = EmptyDomestic[m]
      BY <2>3
    <3>3. PICK t, e : t = dom[m] /\ e = f.edition
      OBVIOUS
    <3>4. TableOf(t, r.prior, index.edition, e)
      BY <3>1, <3>2, <3>3
    <3> QED BY <2>1, <2>2, <3>3, <3>4
  <2>4. CASE r.prior # 0
    <3>1. PICK b : b = Breadth(world.stocks, r.prior)[m] /\ AllOfPrior(b, r.prior)
      BY BreadthIs
    <3>2. r.date \in Nat /\ r.prior \in Nat \ {0}
      BY <1>3, <2>4
    <3>3. TableOf(DomesticTable(index, f, b, r.date, r.prior), r.prior, index.edition, f.edition)
      BY <3>1, <3>2, DomesticTableIs
    <3>4. dom[m] = DomesticTable(index, f, b, r.date, r.prior)
      BY <2>1, <2>4, <3>1 DEF Tables
    <3>5. PICK t, e : t = dom[m] /\ e = f.edition
      OBVIOUS
    <3>6. TableOf(t, r.prior, index.edition, e)
      BY <3>3, <3>4, <3>5
    <3> QED BY <2>1, <2>2, <3>5, <3>6
  <2> QED BY <2>3, <2>4
<1>7. AllOfPrior(share, r.prior)
  <2>1. CASE r.prior = 0
    BY <2>1, NoRows DEF AllOfPrior
  <2>2. CASE r.prior # 0
    <3>1. r.date \in Nat /\ r.prior \in Nat \ {0} /\ share = Share(world.share, world.investor, r.date, r.prior)
      BY <1>3, <2>2
    <3>2. AllOfPrior(Share(world.share, world.investor, r.date, r.prior), r.prior)
      BY <3>1, ShareIs
    <3> QED BY <3>1, <3>2
  <2> QED BY <2>1, <2>2
<1>8. Shaped(q)
  <2>1. HistoryOK(q.store.recs) /\ AllListed(q.memo)
    <3>1. HistoryOK(r.store.recs)
      BY <1>1 DEF Shaped
    <3>2. AllListed(memo)
      BY <1>4
    <3> QED BY <1>2, <3>1, <3>2
  <2> QED BY <1>2, <1>3, <2>1 DEF Shaped, AllListed
<1>9. NotYet(world, q)
  BY <1>2, <1>3 DEF NotYet
<1>10. Timely(q)
  BY <1>1, <1>2 DEF Timely
<1>11. ClosesAgree(world, q)
  <2>1. ASSUME NEW m \in Markets
        PROVE  /\ OfMemo(r.in[m], memo, <<m, r.date>>)
               /\ Known(world, q) /\ Available(r.in[m]) => r.in[m].bd = r.prior
    <3>1. OfMemo(r.in[m], r.memo, <<m, r.date>>)
      BY <1>1 DEF ClosesAgree
    <3>2. PICK o, key : o = r.in[m] /\ key = <<m, r.date>>
      OBVIOUS
    <3>3. OfMemo(o, memo, key)
      BY <1>4, <3>1, <3>2, MemoGrows
    <3>4. Known(world, q) /\ Available(r.in[m]) => r.in[m].bd = r.prior
      BY <1>1, <1>2 DEF ClosesAgree, Known
    <3> QED BY <3>2, <3>3, <3>4
  <2> QED BY <1>2, <2>1 DEF ClosesAgree
<1>12. FlowAgrees(q)
  <2>1. PICK o, key : o = r.in["foreign_flow"] /\ key = <<"flow", r.prior>>
    OBVIOUS
  <2>2. CASE Available(o)
    <3>1. OfMemo(o, r.memo, key) /\ o.bd = r.prior
      BY <1>1, <2>1, <2>2 DEF FlowAgrees
    <3>2. OfMemo(o, memo, key)
      BY <1>4, <3>1, MemoGrows
    <3> QED BY <1>2, <2>1, <3>1, <3>2 DEF FlowAgrees
  <2>3. CASE ~Available(o)
    BY <1>2, <2>1, <2>3 DEF FlowAgrees
  <2> QED BY <2>2, <2>3
<1>13. TablesAgree(q)
  <2>1. ASSUME NEW m \in DOMAIN q.dom
        PROVE  /\ m \in Markets
               /\ \E e : /\ TableOf(q.dom[m], q.prior, q.memo[<<m, q.date>>].edition, e)
                         /\ m = "kospi" => e = q.memo[<<"flow", q.prior>>].edition
    <3>1. m \in Markets
      BY <1>2, <1>5
    <3>2. \E e : /\ TableOf(dom[m], r.prior, memo[<<m, r.date>>].edition, e)
                 /\ m = "kospi" => e = memo[<<"flow", r.prior>>].edition
      BY <1>6, <3>1
    <3>3. PICK e : /\ TableOf(dom[m], r.prior, memo[<<m, r.date>>].edition, e)
                   /\ m = "kospi" => e = memo[<<"flow", r.prior>>].edition
      BY <3>2
    <3>4. /\ TableOf(q.dom[m], q.prior, q.memo[<<m, q.date>>].edition, e)
          /\ m = "kospi" => e = q.memo[<<"flow", q.prior>>].edition
      BY <1>2, <3>3
    <3> QED BY <3>1, <3>4
  <2>2. AllOfPrior(q.share, q.prior)
    BY <1>2, <1>7
  <2> QED BY <2>1, <2>2 DEF TablesAgree
<1>14. SamplesOlder(q)
  BY <1>2, <1>3, NoRows DEF SamplesOlder
<1>15. EventsAhead(q)
  <2>1. PICK c : c = Cutoff(r.date, r.now) /\ c \in Nat /\ c \in {r.now, Hour(r.date, 9)}
    BY <1>3, CutoffIs
  <2>2. ASSUME NEW e \in Calendar(feeds, r.date, c), e.state = "SCHEDULED"
        PROVE  e.at \in Int /\ e.at > c
    BY <2>1, <2>2, ScheduledIs
  <2>3. ASSUME NEW e \in events, e.state = "SCHEDULED"
        PROVE  e.at \in Int /\ (e.at > r.now \/ e.at > Hour(r.date, 9))
    <3>1. e \in Calendar(feeds, r.date, c)
      BY <2>1
    <3>2. e.at \in Int /\ e.at > c
      BY <2>2, <2>3, <3>1
    <3> QED BY <2>1, <3>2
  <2> QED BY <1>2, <2>3 DEF EventsAhead
<1> QED BY <1>2, <1>8, <1>9, <1>10, <1>11, <1>12, <1>13, <1>14, <1>15 DEF ReportInv

-----------------------------------------------------------------------------
(* The first and the last steps of a run.                                      *)

DaysBefore(date) ==
  IF world.times.ok THEN {d \in world.times.days : d \in 1..(date - 1)} ELSE {}
AtStart(s, ok, prior, saves) ==
  [Blank EXCEPT !.pc = IF ok THEN "closes" ELSE "load", !.date = s.date, !.now = s.now,
                !.saves = saves, !.prior = prior, !.in = EmptyInputs]

\* A run that starts has its date, its hour and nothing else.
LEMMA StartStep ==
  ASSUME world \in Worlds, NEW s \in Starts, NEW ok \in BOOLEAN, NEW days, days = DaysBefore(s.date),
         NEW prior, prior = (IF ok THEN Max(days \union {0}) ELSE 0),
         NEW saves,
         NEW q, q = AtStart(s, ok, prior, saves)
  PROVE  ReportInv(world, q)
<1>1. /\ DOMAIN q = RunFields /\ q.pc = (IF ok THEN "closes" ELSE "load")
      /\ q.date = s.date /\ q.now = s.now /\ q.prior = prior /\ q.in = EmptyInputs
      /\ q.memo = <<>> /\ q.dom = <<>> /\ q.share = <<>> /\ q.events = {} /\ q.tier2 = <<>>
      /\ q.store = [ok |-> TRUE, recs |-> {}]
  BY FieldsAre DEF Blank, AtStart
<1>2. s.date \in Nat \ {0} /\ s.now \in Nat
  BY StartsAssumption
<1>3. DOMAIN EmptyInputs = InputKeys /\ \A k \in InputKeys : EmptyInputs[k] = Missing
  BY DEF EmptyInputs
<1>4. prior \in Nat /\ (ok /\ Known(world, q) => prior # 0)
  <2>1. CASE ~ok
    BY <2>1
  <2>2. CASE ok
    <3> DEFINE D == days \union {0}
    <3>1. D \in SUBSET Nat /\ D # {} /\ \A x \in D : x <= s.date
      BY <1>2, WorldIs DEF DaysBefore
    <3>2. Max(D) \in D /\ \A y \in D : y <= Max(D)
      <4> HIDE DEF D
      <4> QED BY <1>2, <3>1, GreatestExists
    <3>3. prior = Max(D)
      BY <2>2
    <3>4. Known(world, q) => \E d \in D : d \in Nat /\ d >= 1
      BY <1>1, <1>2 DEF Known, DaysBefore
    <3> HIDE DEF D
    <3>5. prior \in Nat
      BY <3>1, <3>2, <3>3
    <3>6. Known(world, q) => prior # 0
      BY <3>1, <3>2, <3>3, <3>4, <3>5
    <3> QED BY <3>5, <3>6
  <2> QED BY <2>1, <2>2
<1>5. Shaped(q)
  <2>1. HistoryOK({})
    BY FS_EmptySet DEF HistoryOK
  <2>3. q.store.recs = {}
    BY <1>1
  <2>2. \A key \in DOMAIN q.memo : Listed(q.memo[key].rows)
    BY <1>1, NoRows
  <2> QED BY <1>1, <1>2, <1>3, <1>4, <2>1, <2>2, <2>3 DEF Shaped
<1>6. \A k \in InputKeys : ~Available(q.in[k])
  BY <1>1, <1>3, MissingIs
<1>7. NotYet(world, q)
  BY <1>1, <1>4, <1>6, KeysAre DEF NotYet
<1>8. Timely(q)
  BY <1>6 DEF Timely, KnownInTime
<1>9. ClosesAgree(world, q) /\ FlowAgrees(q)
  BY <1>6, KeysAre DEF ClosesAgree, FlowAgrees, OfMemo
<1>10. TablesAgree(q) /\ SamplesOlder(q) /\ EventsAhead(q)
  BY <1>1, NoRows DEF TablesAgree, AllOfPrior, SamplesOlder, EventsAhead
<1> QED BY <1>1, <1>5, <1>7, <1>8, <1>9, <1>10 DEF ReportInv

WithComposite(in) == [in EXCEPT !["composite"] = SemiComposite(in)]
AfterLoad(r, ok, recs, in, tier2, vul) ==
  [r EXCEPT !.pc = "save", !.store = [ok |-> ok, recs |-> recs], !.in = in,
            !.tier2 = tier2, !.vul = vul]
AfterSave(r) == [r EXCEPT !.pc = "done"]

\* Reading the history and the calendars gives earlier records and events ahead.
LEMMA LoadStep ==
  ASSUME world \in Worlds, NEW r, ReportInv(world, r), r.pc = "load",
         NEW recs, HistoryOK(recs), NEW ok, NEW vul,
         NEW in, in = WithComposite(r.in),
         NEW tier2, tier2 = Tier2(in, recs, r.date),
         NEW q, q = AfterLoad(r, ok, recs, in, tier2, vul)
  PROVE  ReportInv(world, q)
<1>1. /\ DOMAIN r = RunFields /\ Shaped(r) /\ NotYet(world, r)
      /\ Timely(r) /\ ClosesAgree(world, r) /\ FlowAgrees(r) /\ TablesAgree(r) /\ EventsAhead(r)
  BY DEF ReportInv
<1>2. /\ DOMAIN q = RunFields /\ q.pc = "save" /\ q.memo = r.memo /\ q.prior = r.prior /\ q.in = in
      /\ q.date = r.date /\ q.now = r.now /\ q.dom = r.dom /\ q.share = r.share
      /\ q.events = r.events /\ q.tier2 = tier2 /\ q.store = [ok |-> ok, recs |-> recs]
  BY <1>1, FieldsAre DEF AfterLoad
<1>3. r.date \in Nat \ {0} /\ r.now \in Nat /\ r.prior \in Nat /\ DOMAIN r.in = InputKeys
  BY <1>1 DEF Shaped
<1>4. PICK o : o = SemiComposite(r.in)
  OBVIOUS
<1>5. /\ DOMAIN in = InputKeys /\ in["composite"] = o
      /\ \A k \in InputKeys : k # "composite" => in[k] = r.in[k]
  BY <1>3, <1>4, KeysAre DEF WithComposite
<1>6. KnownInTime("composite", o, r.date, r.now)
  <2>1. CASE ~Available(o)
    BY <2>1 DEF KnownInTime
  <2>2. CASE Available(o)
    <3>1. PICK m \in Members : Available(r.in[m]) /\ o.bd = r.in[m].bd /\ o.asof = 0
      BY <1>4, <2>2, CompositeIs
    <3>2. m \in CashSymbols /\ m \in InputKeys
      BY PremarketAssumption, KeysAre
    <3>3. KnownInTime(m, r.in[m], r.date, r.now)
      BY <1>1, <3>2 DEF Timely
    <3>4. Hour(r.date, 9) \in Nat
      BY <1>3 DEF Hour
    <3> QED BY <1>3, <3>1, <3>2, <3>3, <3>4 DEF KnownInTime
  <2> QED BY <2>1, <2>2
<1>7. Timely(q)
  BY <1>1, <1>2, <1>5, <1>6 DEF Timely
<1>8. Shaped(q)
  <2>1. HistoryOK(q.store.recs)
    BY <1>2
  <2>2. \A key \in DOMAIN q.memo : Listed(q.memo[key].rows)
    BY <1>1, <1>2 DEF Shaped
  <2> QED BY <1>2, <1>3, <1>5, <2>1, <2>2 DEF Shaped
<1>9. NotYet(world, q)
  BY <1>2 DEF NotYet
<1>10. ClosesAgree(world, q)
  <2>1. \A m \in Markets : in[m] = r.in[m]
    BY <1>5, KeysAre DEF Markets
  <2> QED BY <1>1, <1>2, <2>1 DEF ClosesAgree, Known
<1>11. FlowAgrees(q)
  BY <1>1, <1>2, <1>5, KeysAre DEF FlowAgrees
<1>12. TablesAgree(q) /\ EventsAhead(q)
  BY <1>1, <1>2 DEF TablesAgree, EventsAhead
<1>13. SamplesOlder(q)
  <2>1. ASSUME NEW k \in DOMAIN tier2, NEW s \in tier2[k].samples
        PROVE  s.bd < in[k].bd /\ s.date < r.date
    <3>1. k \in {"vkospi", "credit"}
      BY DEF Tier2
    <3>2. tier2[k].samples = IF Available(in[k])
                             THEN History(recs, k, in[k].bd, r.date, SampleSize) ELSE {}
      BY <3>1 DEF Tier2
    <3>3. PICK v : v = in[k]
      OBVIOUS
    <3>4. Available(v) /\ s \in History(recs, k, v.bd, r.date, SampleSize)
      BY <3>2, <3>3
    <3>5. k \in InputKeys
      BY <3>1, KeysAre
    <3>6. v.bd \in Nat
      BY <1>2, <1>7, <3>3, <3>4, <3>5 DEF Timely, KnownInTime
    <3>7. s.bd < v.bd /\ s.date < r.date
      BY <3>4, <3>6, HistoryIs
    <3> QED BY <3>3, <3>7
  <2> QED BY <1>2, <2>1 DEF SamplesOlder
<1> QED BY <1>2, <1>7, <1>8, <1>9, <1>10, <1>11, <1>12, <1>13 DEF ReportInv

\* Saving or failing to save ends a run and changes nothing it shows.
LEMMA DoneStep ==
  ASSUME NEW r, ReportInv(world, r), r.pc = "save", NEW q, q = AfterSave(r)
  PROVE  ReportInv(world, q)
<1>1. DOMAIN r = RunFields
  BY DEF ReportInv
<1>2. /\ DOMAIN q = RunFields /\ q.pc = "done" /\ q.memo = r.memo /\ q.prior = r.prior /\ q.in = r.in
      /\ q.date = r.date /\ q.now = r.now /\ q.dom = r.dom /\ q.share = r.share
      /\ q.events = r.events /\ q.tier2 = r.tier2 /\ q.store = r.store
  BY <1>1, FieldsAre DEF AfterSave
<1>3. Shaped(r) /\ NotYet(world, r) /\ Timely(r) /\ ClosesAgree(world, r)
      /\ FlowAgrees(r) /\ TablesAgree(r) /\ SamplesOlder(r) /\ EventsAhead(r)
  BY DEF ReportInv
<1>4. Shaped(q)
  BY <1>2, <1>3 DEF Shaped
<1>5. NotYet(world, q)
  BY <1>2 DEF NotYet
<1>6. Timely(q) /\ ClosesAgree(world, q)
  BY <1>2, <1>3 DEF Timely, ClosesAgree, Known
<1>7. FlowAgrees(q) /\ TablesAgree(q)
  BY <1>2, <1>3 DEF FlowAgrees, TablesAgree
<1>8. SamplesOlder(q) /\ EventsAhead(q)
  BY <1>2, <1>3 DEF SamplesOlder, EventsAhead
<1> QED BY <1>2, <1>4, <1>5, <1>6, <1>7, <1>8 DEF ReportInv

-----------------------------------------------------------------------------
(* The invariant is inductive.                                                 *)

\* A step of one run leaves the others and the world as they are.
Moves(p, q) == run' = [run EXCEPT ![p] = q] /\ world' = world /\ revised' = revised

\* If it keeps what a report must satisfy, it keeps the invariant.
LEMMA MovesIs ==
  ASSUME IInv, NEW p \in Runs, NEW q, ReportInv(world, q), Moves(p, q), HistoryOK(file'.recs)
  PROVE  IInv'
<1>1. /\ world \in Worlds /\ revised \in 1..2 /\ DOMAIN run = Runs
      /\ \A o \in Runs : ReportInv(world, run[o])
  BY DEF IInv
<1>2. DOMAIN run' = Runs /\ \A o \in Runs : run'[o] = IF o = p THEN q ELSE run[o]
  BY <1>1 DEF Moves
<1>3. world' = world /\ revised' = revised
  BY DEF Moves
<1>4. \A o \in Runs : ReportInv(world, run'[o])
  BY <1>1, <1>2
<1>5. world' \in Worlds /\ revised' \in 1..2 /\ \A o \in Runs : ReportInv(world', run'[o])
  BY <1>1, <1>3, <1>4
<1> QED BY <1>2, <1>5 DEF IInv

\* The initial states satisfy the invariant.
LEMMA InitInv == Init => IInv
<1> SUFFICES ASSUME Init PROVE IInv
  OBVIOUS
<1>1. world \in Worlds /\ revised \in 1..2 /\ run = [p \in Runs |-> Blank] /\ file = world.file
  BY DEF Init
<1>2. ReportInv(world, Blank)
  BY DEF ReportInv, RunFields, Blank
<1>3. HistoryOK(file.recs)
  BY <1>1, WorldIs
<1> QED BY <1>1, <1>2, <1>3 DEF IInv

\* Starting a run keeps it;
LEMMA StartInv ==
  ASSUME IInv, NEW p \in Runs, Start(p)
  PROVE  IInv'
<1>1. PICK s \in Starts :
        LET dateOk == Hour(s.date, 0) <= s.now
        IN run' = [run EXCEPT ![p] = AtStart(s, dateOk,
                     IF dateOk THEN Max(DaysBefore(s.date) \union {0}) ELSE 0, s.save /\ dateOk)]
  BY DEF Start, AtStart, DaysBefore
<1>2. PICK ok : ok = (Hour(s.date, 0) <= s.now)
  OBVIOUS
<1>3. PICK days, saves : days = DaysBefore(s.date) /\ saves = (s.save /\ ok)
  OBVIOUS
<1>4. PICK prior : prior = IF ok THEN Max(days \union {0}) ELSE 0
  OBVIOUS
<1>5. PICK q : q = AtStart(s, ok, prior, saves)
  OBVIOUS
<1>6. run' = [run EXCEPT ![p] = q]
  BY <1>1, <1>2, <1>3, <1>4, <1>5, Zenon
<1>7. world' = world /\ revised' = revised /\ file' = file
  BY DEF Start
<1>8. ok \in BOOLEAN
  BY <1>2
<1>9. ReportInv(world, q)
  <2>1. world \in Worlds
    BY DEF IInv
  <2> QED BY <1>3, <1>4, <1>5, <1>8, <2>1, StartStep
<1>10. HistoryOK(file'.recs) /\ Moves(p, q)
  BY <1>6, <1>7 DEF Moves, IInv
<1> QED BY <1>9, <1>10, MovesIs

\* asking for the closes keeps it;
LEMMA ClosesInv ==
  ASSUME IInv, NEW p \in Runs, CollectCloses(p)
  PROVE  IInv'
<1>1. PICK r : r = run[p]
  OBVIOUS
<1>2. PICK us, memo : us = USCloses(r) /\ memo = AskIndices(r.memo, r.date)
  OBVIOUS
<1>3. PICK home, vk : /\ home = HomeCloses(r, memo)
                      /\ vk = DomesticClose("vkospi", world.vkospi, r.date, r.prior)
  OBVIOUS
<1>4. PICK prior, a, v : /\ prior = IF r.prior = 0 THEN home["kospi"].bd ELSE r.prior
                         /\ a = Filled(r.in, us) /\ v = Named1(vk)
  OBVIOUS
<1>5. PICK b : b = Filled(a, home)
  OBVIOUS
<1>6. PICK in : in = Filled(b, v)
  OBVIOUS
<1>7. PICK q : q = AfterCloses(r, memo, prior, in)
  OBVIOUS
<1>8. /\ r.pc = "closes" /\ run' = [run EXCEPT ![p] = q]
      /\ world' = world /\ revised' = revised /\ file' = file
  BY <1>1, <1>2, <1>3, <1>4, <1>5, <1>6, <1>7
     DEF CollectCloses, USCloses, HomeCloses, Named1, AfterCloses
<1>9. ReportInv(world, q)
  <2>1. world \in Worlds /\ revised \in 1..2 /\ ReportInv(world, r)
    BY <1>1 DEF IInv
  <2> QED BY <1>2, <1>3, <1>4, <1>5, <1>6, <1>7, <1>8, <2>1, ClosesStep
<1>10. HistoryOK(file'.recs) /\ Moves(p, q)
  BY <1>8 DEF Moves, IInv
<1> QED BY <1>9, <1>10, MovesIs

\* asking for the flows keeps it: the closes stay with what was memoised;
LEMMA FlowsInv ==
  ASSUME IInv, NEW p \in Runs, CollectFlows(p)
  PROVE  IInv'
<1>1. PICK r : r = run[p]
  OBVIOUS
<1>2. PICK quotes, memo :
        /\ quotes = Quotes(r)
        /\ memo = IF r.prior = 0 THEN r.memo ELSE Ask(r.memo, <<"flow", r.prior>>, FlowAnswer)
  OBVIOUS
<1>3. PICK flow, credit, margin :
        /\ flow = FlowOf(memo, r.date, r.prior)
        /\ credit = Lagged(RowNumber(DatedRow(world.funds, r.date, 0), "v", "DAILY_STATISTIC", 0))
        /\ margin = IF world.kofia.d \in 1..(r.date - 1) /\ world.kofia.v > 0
                    THEN Lagged(Valid(world.kofia.v, world.kofia.d, "DAILY_STATISTIC", 0)) ELSE Missing
  OBVIOUS
<1>4. PICK a, v : a = Filled(r.in, quotes) /\ v = Named3(flow, credit, margin)
  OBVIOUS
<1>5. PICK in : in = Filled(a, v)
  OBVIOUS
<1>6. PICK q : q = AfterFlows(r, memo, in)
  OBVIOUS
<1>7. /\ r.pc = "flows" /\ run' = [run EXCEPT ![p] = q]
      /\ world' = world /\ revised' = revised /\ file' = file
  BY <1>1, <1>2, <1>3, <1>4, <1>5, <1>6
     DEF CollectFlows, Quotes, FlowOf, Lagged, Named3, AfterFlows
<1>8. world \in Worlds /\ revised \in 1..2 /\ ReportInv(world, r)
  BY <1>1 DEF IInv
<1>9. r.date \in Nat
  BY <1>7, <1>8 DEF ReportInv, Shaped
<1>10. Earlier(credit, r.date) /\ Earlier(margin, r.date)
  BY <1>3, <1>8, <1>9, CreditIs, MarginIs
<1>11. ReportInv(world, q)
  BY <1>2, <1>3, <1>4, <1>5, <1>6, <1>7, <1>8, <1>10, FlowsStep
<1>12. HistoryOK(file'.recs) /\ Moves(p, q)
  BY <1>7 DEF Moves, IInv
<1> QED BY <1>11, <1>12, MovesIs

\* making the domestic table keeps it, since the same memoised answers are used again;
LEMMA DomesticInv ==
  ASSUME IInv, NEW p \in Runs, CollectDomestic(p)
  PROVE  IInv'
<1>1. PICK r : r = run[p]
  OBVIOUS
<1>2. PICK half : half = AskIndices(r.memo, r.date)
  OBVIOUS
<1>3. PICK memo : memo = IF r.prior = 0 THEN r.memo ELSE Ask(half, <<"flow", r.prior>>, FlowAnswer)
  OBVIOUS
<1>4. PICK flow : flow = [m \in Markets |-> IF m = "kospi" THEN memo[<<"flow", r.prior>>] ELSE FlowAnswer]
  OBVIOUS
<1>5. PICK dom, share, feeds :
        /\ dom = IF r.prior = 0 THEN EmptyDomestic ELSE Tables(r, memo, flow)
        /\ share = IF r.prior = 0 THEN <<>> ELSE Share(world.share, world.investor, r.date, r.prior)
        /\ feeds = FetchCalendar(world.feeds, Year)
  OBVIOUS
<1>6. PICK events : events = Calendar(feeds, r.date, Cutoff(r.date, r.now))
  OBVIOUS
<1>7. PICK q : q = AfterDomestic(r, memo, dom, share, events)
  OBVIOUS
<1>8. /\ r.pc = "domestic" /\ run' = [run EXCEPT ![p] = q]
      /\ world' = world /\ revised' = revised /\ file' = file
  BY <1>1, <1>2, <1>3, <1>4, <1>5, <1>6, <1>7 DEF CollectDomestic, Tables, AfterDomestic
<1>9. \A m \in Markets : flow[m] = IF m = "kospi" THEN memo[<<"flow", r.prior>>] ELSE FlowAnswer
  BY <1>4
<1>10. ReportInv(world, q)
  <2>1. world \in Worlds /\ revised \in 1..2 /\ ReportInv(world, r)
    BY <1>1 DEF IInv
  <2> QED BY <1>2, <1>3, <1>5, <1>6, <1>7, <1>8, <1>9, <2>1, DomesticStep
<1>11. HistoryOK(file'.recs) /\ Moves(p, q)
  BY <1>8 DEF Moves, IInv
<1> QED BY <1>10, <1>11, MovesIs

\* reading the history keeps it;
LEMMA LoadInv ==
  ASSUME IInv, NEW p \in Runs, LoadStore(p)
  PROVE  IInv'
<1>1. PICK r, ok : r = run[p] /\ ok = file.ok
  OBVIOUS
<1>2. PICK recs : recs = IF file.ok THEN file.recs ELSE {}
  OBVIOUS
<1>3. PICK in : in = WithComposite(r.in)
  OBVIOUS
<1>4. PICK tier2, vul : tier2 = Tier2(in, recs, r.date) /\ vul = VulnerabilityMatrix(in)
  OBVIOUS
<1>5. PICK q : q = AfterLoad(r, ok, recs, in, tier2, vul)
  OBVIOUS
<1>6. /\ r.pc = "load" /\ run' = [run EXCEPT ![p] = q]
      /\ world' = world /\ revised' = revised /\ file' = file
  BY <1>1, <1>2, <1>3, <1>4, <1>5 DEF LoadStore, WithComposite, AfterLoad
<1>7. HistoryOK(recs)
  <2>1. HistoryOK({})
    BY FS_EmptySet DEF HistoryOK
  <2> QED BY <1>2, <2>1 DEF IInv
<1>8. ReportInv(world, q)
  <2>1. world \in Worlds /\ ReportInv(world, r)
    BY <1>1 DEF IInv
  <2> QED BY <1>3, <1>4, <1>5, <1>6, <1>7, <2>1, LoadStep
<1>9. HistoryOK(file'.recs) /\ Moves(p, q)
  BY <1>6 DEF Moves, IInv
<1> QED BY <1>8, <1>9, MovesIs

\* The record a run saves.
RecordOf(r, p) ==
  [date |-> r.date, seen |-> r.now, by |-> p, in |-> [k \in {"vkospi", "credit"} |-> r.in[k]]]

\* A record is of its report's date,
LEMMA RecordIs ==
  ASSUME NEW r, NEW p
  PROVE  RecordOf(r, p).date = r.date /\ RecordOf(r, p).seen = r.now
  BY DEF RecordOf

\* and saving it, losing it, or ending without it keeps the invariant.
LEMMA SavesInv ==
  ASSUME IInv, NEW p \in Runs, SaveStore(p) \/ SaveFails(p)
  PROVE  IInv'
<1>1. PICK r : r = run[p]
  OBVIOUS
<1>2. PICK rec : rec = RecordOf(r, p)
  OBVIOUS
<1>3. PICK q : q = AfterSave(r)
  OBVIOUS
<1>4. /\ r.pc = "save" /\ run' = [run EXCEPT ![p] = q]
      /\ world' = world /\ revised' = revised
  BY <1>1, <1>3 DEF SaveStore, SaveFails, AfterSave
<1>5. ReportInv(world, r) /\ HistoryOK(file.recs)
  BY <1>1 DEF IInv
<1>6. ReportInv(world, q)
  BY <1>3, <1>4, <1>5, DoneStep
<1>7. rec.date \in Nat /\ rec.seen \in Nat /\ HistoryOK(r.store.recs)
  <2>1. r.date \in Nat /\ r.now \in Nat /\ HistoryOK(r.store.recs)
    BY <1>4, <1>5 DEF ReportInv, Shaped
  <2> QED BY <1>2, <2>1, RecordIs
<1>8. file' = file \/ file' = [ok |-> TRUE, recs |-> Saved(UpsertRecord(r.store.recs, rec))]
  BY <1>1, <1>2 DEF SaveStore, SaveFails, RecordOf
<1>9. HistoryOK(file'.recs)
  <2>1. PICK u : u = UpsertRecord(r.store.recs, rec) /\ HistoryOK(u)
    BY <1>7, UpsertIs
  <2>2. HistoryOK(Saved(u))
    BY <2>1, SavedIs
  <2>3. file' = file \/ file'.recs = Saved(u)
    BY <1>8, <2>1
  <2> QED BY <1>5, <2>2, <2>3
<1>10. Moves(p, q)
  BY <1>4 DEF Moves
<1> QED BY <1>6, <1>9, <1>10, MovesIs

\* So every step keeps it, and it always holds.
LEMMA NextInv == IInv /\ [Next]_vars => IInv'
<1> SUFFICES ASSUME IInv, [Next]_vars PROVE IInv'
  OBVIOUS
<1>1. CASE Revise
  <2>1. world' = world /\ run' = run /\ file' = file /\ revised' = 2
    BY <1>1 DEF Revise
  <2> QED BY <2>1 DEF IInv, ReportInv
<1>2. CASE UNCHANGED vars
  BY <1>2 DEF IInv, ReportInv, vars
<1>3. ASSUME NEW p \in Runs,
             Start(p) \/ CollectCloses(p) \/ CollectFlows(p) \/ CollectDomestic(p)
               \/ LoadStore(p) \/ SaveStore(p) \/ SaveFails(p)
      PROVE  IInv'
  BY <1>3, StartInv, ClosesInv, FlowsInv, DomesticInv, LoadInv, SavesInv
<1> QED BY <1>1, <1>2, <1>3 DEF Next

LEMMA Invariant == Spec => []IInv
<1>1. Init => IInv
  BY InitInv
<1>2. IInv /\ [Next]_vars => IInv'
  BY NextInv
<1> QED BY <1>1, <1>2, PTL DEF Spec

-----------------------------------------------------------------------------
(* What the invariant says of the reports.                                     *)

\* Whatever the providers answer and whenever a day is reported again, a report shows
\* nothing of the business day it is for or of a later one, no value stamped with an
\* instant after the hour of the run or 09:00, no session of New York that had not closed
\* by then, no sample of the value's own day or later or from a report of the same day,
\* and calls nothing scheduled that had begun.  What it shows of earlier days may have been
\* restated, or observed, since.
THEOREM ReportsLookBack == Spec => []NoLookAhead
<1>1. IInv => NoLookAhead
  <2> SUFFICES ASSUME IInv PROVE NoLookAhead
    OBVIOUS
  <2>1. ASSUME NEW p \in Reported
        PROVE  LET r == run[p] IN
               /\ \A k \in InputKeys : Available(r.in[k]) =>
                    /\ r.in[k].bd < r.date
                    /\ r.in[k].asof <= r.now /\ r.in[k].asof <= Hour(r.date, 9)
                    /\ k \in CashSymbols \union {"composite"} =>
                         USCloseAt(r.in[k].bd) <= r.now /\ USCloseAt(r.in[k].bd) <= Hour(r.date, 9)
               /\ \A k \in DOMAIN r.tier2 : \A s \in r.tier2[k].samples :
                    s.bd < r.in[k].bd /\ s.date < r.date
               /\ \A e \in r.events : e.state = "SCHEDULED" => e.at > r.now \/ e.at > Hour(r.date, 9)
    <3>1. PICK r : r = run[p]
      OBVIOUS
    <3>2. Timely(r) /\ SamplesOlder(r) /\ EventsAhead(r)
      BY <3>1 DEF IInv, ReportInv, Reported
    <3>3. \A k \in InputKeys : Available(r.in[k]) =>
            /\ r.in[k].bd < r.date
            /\ r.in[k].asof <= r.now /\ r.in[k].asof <= Hour(r.date, 9)
            /\ k \in CashSymbols \union {"composite"} =>
                 USCloseAt(r.in[k].bd) <= r.now /\ USCloseAt(r.in[k].bd) <= Hour(r.date, 9)
      BY <3>2 DEF Timely, KnownInTime
    <3>4. \A k \in DOMAIN r.tier2 : \A s \in r.tier2[k].samples : s.bd < r.in[k].bd /\ s.date < r.date
      BY <3>2 DEF SamplesOlder
    <3>5. \A e \in r.events : e.state = "SCHEDULED" => e.at > r.now \/ e.at > Hour(r.date, 9)
      BY <3>2 DEF EventsAhead
    <3> QED BY <3>1, <3>3, <3>4, <3>5
  <2> QED BY <2>1 DEF NoLookAhead
<1> QED BY <1>1, Invariant, PTL

\* Of one edition, when it matters.
OneEdition(S) == \A a, b \in {o \in S : Available(o) /\ o.edition # 0} : a.edition = b.edition
OfEdition(o, e) == Available(o) /\ o.edition # 0 => o.edition = e

\* Closes and flows of one memoised answer are of one edition.
LEMMA OneEditionIs ==
  ASSUME NEW S, NEW e, \A o \in S : OfEdition(o, e)
  PROVE  OneEdition(S)
  BY DEF OneEdition, OfEdition

\* The domestic part of a report is of one session and each of its tables of one
\* edition, whenever the provider restates them and whoever asked first.
THEOREM ReportsAgree == Spec => []TableAgrees
<1>1. IInv => TableAgrees
  <2> SUFFICES ASSUME IInv PROVE TableAgrees
    OBVIOUS
  <2>1. ASSUME NEW p \in Reported, NEW m \in DOMAIN run[p].dom
        PROVE  LET r == run[p]
                   t == r.dom[m]
               IN  /\ OneEdition({r.in[m], t.turnover, t.mean, t.ratio})
                   /\ m = "kospi" => OneEdition({r.in["foreign_flow"]} \union {t.flows[n] : n \in Spans})
                   /\ \A o \in {t.turnover, t.mean, t.ratio, r.in["foreign_flow"]}
                                 \union Range(t.flows) \union Range(t.breadth) :
                        Available(o) => o.bd = r.prior
                   /\ \A f \in DOMAIN r.share : Available(r.share[f]) => r.share[f].bd = r.prior
                   /\ DaysKnown(r) /\ Available(r.in[m]) => r.in[m].bd = r.prior
    <3>1. PICK r : r = run[p]
      OBVIOUS
    <3>2. ClosesAgree(world, r) /\ FlowAgrees(r) /\ TablesAgree(r)
      BY <3>1 DEF IInv, ReportInv, Reported
    <3>3. PICK t, flow : t = r.dom[m] /\ flow = r.in["foreign_flow"]
      OBVIOUS
    <3>4. PICK e, f : /\ e = r.memo[<<m, r.date>>].edition /\ TableOf(t, r.prior, e, f)
                      /\ m = "kospi" => f = r.memo[<<"flow", r.prior>>].edition
      BY <3>1, <3>2, <3>3 DEF TablesAgree
    <3>5. m \in Markets /\ AllOfPrior(r.share, r.prior)
      BY <3>1, <3>2 DEF TablesAgree
    <3>6. PICK close : close = r.in[m]
      OBVIOUS
    <3>7. OfEdition(close, e)
      BY <3>2, <3>4, <3>5, <3>6 DEF ClosesAgree, OfMemo, OfEdition
    <3>8. /\ OfPrior(t.turnover, r.prior, e) /\ OfPrior(t.mean, r.prior, e) /\ OfPrior(t.ratio, r.prior, e)
          /\ DOMAIN t.flows = Spans /\ \A n \in Spans : OfPrior(t.flows[n], r.prior, f)
          /\ AllOfPrior(t.breadth, r.prior)
      BY <3>4 DEF TableOf
    <3>9. OneEdition({close, t.turnover, t.mean, t.ratio})
      <4>1. \A o \in {close, t.turnover, t.mean, t.ratio} : OfEdition(o, e)
        BY <3>7, <3>8 DEF OfPrior, OfEdition
      <4> QED BY <4>1, OneEditionIs
    <3>10. Available(flow) => flow.bd = r.prior /\ OfEdition(flow, r.memo[<<"flow", r.prior>>].edition)
      BY <3>2, <3>3 DEF FlowAgrees, OfMemo, OfEdition
    <3>11. ASSUME m = "kospi" PROVE OneEdition({flow} \union {t.flows[n] : n \in Spans})
      <4>1. \A o \in {flow} \union {t.flows[n] : n \in Spans} : OfEdition(o, f)
        <5>1. OfEdition(flow, f)
          BY <3>4, <3>10, <3>11 DEF OfEdition
        <5>2. \A n \in Spans : OfEdition(t.flows[n], f)
          BY <3>8 DEF OfPrior, OfEdition
        <5> QED BY <5>1, <5>2
      <4> QED BY <4>1, OneEditionIs
    <3>12. \A o \in {t.turnover, t.mean, t.ratio, flow} \union Range(t.flows) \union Range(t.breadth) :
             Available(o) => o.bd = r.prior
      <4>1. \A o \in {t.turnover, t.mean, t.ratio, flow} : Available(o) => o.bd = r.prior
        BY <3>8, <3>10 DEF OfPrior
      <4>2. \A o \in Range(t.flows) : Available(o) => o.bd = r.prior
        BY <3>8 DEF OfPrior, Range
      <4>3. \A o \in Range(t.breadth) : Available(o) => o.bd = r.prior
        BY <3>8 DEF AllOfPrior, Range
      <4> QED BY <4>1, <4>2, <4>3
    <3>13. \A g \in DOMAIN r.share : Available(r.share[g]) => r.share[g].bd = r.prior
      BY <3>5 DEF AllOfPrior
    <3>14. DaysKnown(r) /\ Available(close) => close.bd = r.prior
      BY <3>2, <3>5, <3>6 DEF ClosesAgree, DaysKnown, Known
    <3> QED BY <3>1, <3>3, <3>6, <3>9, <3>11, <3>12, <3>13, <3>14
  <2> QED BY <2>1 DEF TableAgrees, OneEdition
<1> QED BY <1>1, Invariant, PTL

\* A save keeps every day it had loaded, in a version no older, but for days that are
\* older than all of a file at its capacity; and it writes one record a day.
THEOREM HistoryKept == Spec => SavesKeepRecords
<1>1. ASSUME IInv, [Next]_vars, NEW p \in Runs,
             run[p].pc = "save", run'[p].pc = "done", file' # file
      PROVE  /\ \A rec \in run[p].store.recs :
                  \/ \E new \in file'.recs : new.date = rec.date /\ new.seen >= rec.seen
                  \/ /\ Cardinality(file'.recs) = MaxRecords
                     /\ \A new \in file'.recs : new.date > rec.date
             /\ \A a, b \in file'.recs : a.date = b.date => a = b
  <2>1. PICK r : r = run[p]
    OBVIOUS
  <2>2. PICK rec : rec = RecordOf(r, p)
    OBVIOUS
  <2>3. SaveStore(p)
    <3>1. PICK o \in Runs : SaveStore(o)
      BY <1>1 DEF Next, Revise, Start, CollectCloses, CollectFlows, CollectDomestic, LoadStore,
                  SaveFails, vars
    <3>2. run' = [run EXCEPT ![o] = AfterSave(run[o])] /\ DOMAIN run = Runs
      BY <1>1, <3>1 DEF SaveStore, AfterSave, IInv
    <3>3. o # p => run'[p] = run[p]
      BY <3>2
    <3> QED BY <1>1, <3>1, <3>3
  <2>4. file' = [ok |-> TRUE, recs |-> Saved(UpsertRecord(r.store.recs, rec))]
    BY <1>1, <2>1, <2>2, <2>3 DEF SaveStore, RecordOf
  <2>5. /\ HistoryOK(r.store.recs) /\ r.date \in Nat /\ r.now \in Nat
    BY <1>1, <2>1 DEF IInv, ReportInv, Shaped
  <2>6. rec.date \in Nat /\ rec.seen \in Nat
    BY <2>2, <2>5, RecordIs
  <2>7. PICK u : /\ u = UpsertRecord(r.store.recs, rec) /\ HistoryOK(u)
                 /\ \A old \in r.store.recs : \E new \in u : new.date = old.date /\ new.seen >= old.seen
    BY <2>5, <2>6, UpsertIs
  <2>8. PICK kept : kept = Saved(u)
    OBVIOUS
  <2>9. /\ HistoryOK(kept)
        /\ \A x \in u \ kept : Cardinality(kept) = MaxRecords /\ \A new \in kept : new.date > x.date
    BY <2>7, <2>8, SavedIs
  <2>10. file'.recs = kept
    BY <2>4, <2>7, <2>8
  <2>11. ASSUME NEW old \in r.store.recs
         PROVE  \/ \E new \in kept : new.date = old.date /\ new.seen >= old.seen
                \/ Cardinality(kept) = MaxRecords /\ \A new \in kept : new.date > old.date
    <3>1. PICK x \in u : x.date = old.date /\ x.seen >= old.seen
      BY <2>7
    <3> QED BY <2>9, <3>1
  <2>12. \A a, b \in kept : a.date = b.date => a = b
    BY <2>9 DEF HistoryOK
  <2> QED BY <2>1, <2>10, <2>11, <2>12
<1>2. IInv /\ [Next]_vars =>
        [\A p \in Runs : run[p].pc = "save" /\ run'[p].pc = "done" /\ file' # file =>
           /\ \A rec \in run[p].store.recs :
                \/ \E new \in file'.recs : new.date = rec.date /\ new.seen >= rec.seen
                \/ /\ Cardinality(file'.recs) = MaxRecords
                   /\ \A new \in file'.recs : new.date > rec.date
           /\ \A a, b \in file'.recs : a.date = b.date => a = b]_vars
  BY <1>1
<1> QED BY <1>2, Invariant, PTL DEF Spec, SavesKeepRecords
=============================================================================
