----------------------------- MODULE Providers -----------------------------
(* The services that stand between the market programs and the providers      *)
(* (internal/domesticstock, domesticfutureoption, external): which contract   *)
(* and which index code is asked about, what is made of an answer, and the    *)
(* files of a date that are downloaded once and shared by all processes.      *)
EXTENDS MarketCalendar, FiniteSetsExt, SequencesExt

VARIABLES
  files,       \* the cached files: for each kind the dates that have one
  downloads    \* the master files found missing, each by whom and for which use, until
               \* their downloads end; and those that two programs downloaded at once

\* The function f with what g says of its own domain.
With(f, g) == [x \in DOMAIN f \cup DOMAIN g |-> IF x \in DOMAIN g THEN g[x] ELSE f[x]]
Put(f, x, v) == With(f, [y \in {x} |-> v])

\* A use of a master file: for a contract of the index futures or for the KOSPI shares.
KindOf(use) == IF use \in {"KOSPI", "KOSDAQ", "impact", "late"} THEN "futures" ELSE "kospi"
MasterOf(use, q) == IF KindOf(use) = "futures" THEN q.futMaster ELSE q.kospiMaster

\* Mutant: a master file is downloaded again for every use.
MasterNeverThere(kind, d) == FALSE
MasterThere(kind, d) == d \in DOMAIN files[kind]

Downloading(who) == {f \in downloads.open : f[1] = who}
Failed(c, use) == <<use, FALSE>> \in c.tried
\* The uses whose file is not there and that have not tried to get it.
Unsettled(uses, c, d) ==
  SelectSeq(uses, LAMBDA u : (\A r \in c.tried : r[1] # u) /\ ~MasterThere(KindOf(u), d))
Settled(who, uses, c, d) == Downloading(who) = {} /\ Unsettled(uses, c, d) = <<>>

\* The next use finds no file: the first half of EnsureZipCache, and nothing keeps
\* another program from finding none either.
FindNoMaster(who, uses, c, d) ==
  LET use == Unsettled(uses, c, d)[1]
      twice == \E f \in downloads.open : KindOf(f[2]) = KindOf(use) /\ f[3] = d
  IN /\ Downloading(who) = {} /\ Unsettled(uses, c, d) # <<>>
     /\ ~MasterThere(KindOf(use), d)
     /\ downloads' = [open |-> downloads.open \cup {<<who, use, d>>},
                       raced |-> downloads.raced \cup (IF twice THEN {<<KindOf(use), d>>} ELSE {})]

\* What the download comes to: the file is put in its place, whatever is there by then.
\* Two downloads share the temporary file: one may empty it under the other, and only
\* one of them can rename it.
EnsureZipCache(use, d, answer) ==
  LET holding(lines) == [files EXCEPT ![KindOf(use)] = Put(@, d, lines)]
      failure == [ok |-> FALSE, files |-> files]
      success == [ok |-> TRUE, files |-> holding(answer.lines)]
  IN IF ~answer.ok \/ ~world.env.writable THEN {failure}
     ELSE IF <<KindOf(use), d>> \notin downloads.raced THEN {success}
     ELSE {success, failure, [success EXCEPT !.ok = FALSE], [success EXCEPT !.files = holding(<<>>)]}

-----------------------------------------------------------------------------
(* The near-month contract of an index.                                        *)

\* The lines of the futures master that have all their fields, a code and a name.
FutureRecords(lines) ==
  {r \in ToSet(lines) : r.fields >= 9 /\ r.code # 0 /\ r.named}

\* How much a record looks like the KOSPI 200 future of the nearest month.
FutureCandidateScore(r) ==
  100 + (IF r.is101 THEN 50 ELSE 0) + (IF r.month \in 1 .. 3 THEN 40 - 10 * r.month ELSE 0)
      + (IF r.kospi THEN 5 ELSE 0)

\* The record that comes first: for KOSPI 200 by score, then by month and code.
NearMonth(market, records) ==
  LET mine == {r \in records : IF market = "KOSPI" THEN r.info = 1 /\ r.under \in {2001, 201}
                               ELSE r.info = 3 /\ r.under = 3003}
      score(r) == IF market = "KOSPI" THEN FutureCandidateScore(r) ELSE 0
      precedes(r, s) == \/ score(r) > score(s)
                        \/ /\ score(r) = score(s)
                           /\ r.month < s.month \/ (r.month = s.month /\ r.code <= s.code)
      first == {r \in mine : \A s \in mine : precedes(r, s)}
  IN IF first = {} THEN 0 ELSE (CHOOSE r \in first : TRUE).code

\* The code set in the environment overrides KOSPI's and leaves the master alone; a
\* file that cannot be had or holds no such contract gives none.
Needed(use) == IF world.env.future = 0 THEN <<use>> ELSE <<>>
ResolveNearMonth(market, cache, d) ==
  IF market = "KOSPI" /\ world.env.future # 0 THEN world.env.future
  ELSE IF d \notin DOMAIN cache.futures THEN 0
  ELSE NearMonth(market, FutureRecords(cache.futures[d]))

\* The contract a use comes to: none, when its download failed.
ResolvedContract(c, use, market, d) ==
  IF Failed(c, use) THEN 0 ELSE ResolveNearMonth(market, files, d)

-----------------------------------------------------------------------------
(* The universe of the KOSPI index.                                            *)

\* The lines of the KOSPI master that are long enough and about a member.
IndexMembers(lines) == SelectSeq(lines, LAMBDA l : l.whole /\ l.code # 0 /\ l.member)

NoUniverse == [ok |-> FALSE, date |-> NoTime, total |-> 0, items |-> {}]
\* The members of the index with their market values, all of them or nothing: one
\* line cut short, a member whose class or value is not known or one that is listed
\* twice refuses the file.
IndexMarketCapSummary(cache, d) ==
  LET lines == cache.kospi[d]
      members == IndexMembers(lines)
      sound == /\ \A l \in ToSet(lines) : l.whole
               /\ \A l \in ToSet(members) : l.class = 0 /\ l.cap > 0
               /\ \A i, j \in DOMAIN members : members[i].code = members[j].code => i = j
               /\ members # <<>>
      share(l) == [code |-> l.code, cap |-> l.cap, member |-> TRUE]
  IN IF d \notin DOMAIN cache.kospi THEN NoUniverse
     ELSE IF ~sound THEN NoUniverse
     ELSE [ok |-> TRUE, date |-> d, items |-> {share(l) : l \in ToSet(members)},
           total |-> MapThenSumSet(LAMBDA l : l.cap, ToSet(members))]

KOSPIIndexMarketCapSummary(c, use, d) ==
  IF Failed(c, use) THEN NoUniverse ELSE IndexMarketCapSummary(files, d)

-----------------------------------------------------------------------------
(* The index code of VKOSPI.                                                   *)

\* A code is good when its quote, asked for now, is a number a VKOSPI may have.
Probed(q, code) == code \in DOMAIN q.probe /\ q.probe[code] \in 5 .. 100
VKOSPICandidates == (IF world.env.vkospi = 0 THEN <<>> ELSE <<world.env.vkospi>>) \o <<503, 2050>>
\* The code of the first line of the exchange's index list that names VKOSPI.
DiscoverVKOSPICode(q) ==
  LET listed == SelectSeq(q.idxMaster.lines, LAMBDA l : l.vkospi /\ l.code # 0)
  IN IF q.idxMaster.ok /\ listed # <<>> THEN listed[1].code ELSE 0
\* The first candidate that is good, else the code discovered, when it is another
\* one and good; 0 when there is none.
ResolveVKOSPICode(q) ==
  LET good == SelectSeq(VKOSPICandidates, LAMBDA c : Probed(q, c))
      found == DiscoverVKOSPICode(q)
  IN IF good # <<>> THEN good[1]
     ELSE IF found \notin ToSet(VKOSPICandidates) /\ Probed(q, found) THEN found ELSE 0

\* The daily rows of an index, from at most so many pages of which each says that
\* there is another; a page that fails refuses them all.
IndexDailyPages == 10
InquireIndexDailyPrice(pages) ==
  LET final(i) == i = IndexDailyPages \/ ~pages[i].ok \/ ~pages[i].more
      last == Min({i \in DOMAIN pages : final(i)})
      rows == FlattenSeq([i \in 1 .. last |-> pages[i].rows])
  IN [ok |-> pages[last].ok /\ rows # <<>>, rows |-> rows]

-----------------------------------------------------------------------------
(* Yahoo, Naver, KOFIA.                                                        *)

\* The price and the time of a symbol's chart, if it names its symbol.
DecodeChartQuote(a) == IF a.symbol THEN {[price |-> a.price, at |-> a.at]} ELSE {}
\* The quotes of the symbols that answered: a symbol that failed is left out.
GetQuotes(answers, symbols) ==
  LET quote(s) == IF answers[s].ok THEN DecodeChartQuote(answers[s]) ELSE {}
  IN [s \in {t \in symbols : quote(t) # {}} |-> CHOOSE q \in quote(s) : TRUE]

\* A symbol's bars; one without a close is left out, and times that do not match the
\* closes refuse all of them.
DecodeChartHistory(a) ==
  IF Len(a.times) # Len(a.closes) THEN {}
  ELSE {[at |-> a.times[i], close |-> a.closes[i]] : i \in {j \in DOMAIN a.closes : a.closes[j] # 0}}
GetChartHistory(a) == IF a.ok THEN DecodeChartHistory(a) ELSE {}

\* The quote of an index by its code, given in hundredths.
DecodePollingResponse(a, code) ==
  IF a.success /\ code \in DOMAIN a.quotes
  THEN [ok |-> TRUE, value |-> a.quotes[code] \div 100] ELSE [ok |-> FALSE, value |-> 0]
GetIndexQuote(a, code) ==
  IF a.ok THEN DecodePollingResponse(a, code) ELSE [ok |-> FALSE, value |-> 0]

\* The first n rows of the page that have a day and a close, oldest first.
DecodeSiseHistory(rows, n) ==
  LET valid == SelectSeq(rows, LAMBDA r : r.d # NoTime /\ r.v > 0)
  IN Reverse(SubSeq(valid, 1, IF Len(valid) < n THEN Len(valid) ELSE n))
GetIndexDailyHistory(a, n) ==
  LET closes == DecodeSiseHistory(a.rows, n) IN [ok |-> a.ok /\ closes # <<>>, rows |-> closes]

\* KOFIA's daily rows in millions: one number that is missing or negative, or a unit
\* that is not known, refuses all of them.
Divisor(unit) == CASE unit \in {"", "million"} -> 1 [] unit = "thousand" -> 1000
                   [] unit = "won" -> 1000000 [] OTHER -> 0
DecodeMarketFunds(a) ==
  LET dated == SelectSeq(a.rows, LAMBDA r : r.d # NoTime)
      sound == \A r \in ToSet(dated) : r.margin >= 0 /\ r.forced >= 0
  IN IF a.rows = <<>> \/ Divisor(a.unit) = 0 \/ ~sound THEN <<>>
     ELSE [i \in DOMAIN dated |->
             [dated[i] EXCEPT !.margin = @ \div Divisor(a.unit), !.forced = @ \div Divisor(a.unit)]]
GetMarketFunds(a) == IF a.ok THEN DecodeMarketFunds(a) ELSE <<>>

\* The first of the rows with the latest day up to the date (a set of one or none).
FindRow(rows, date) ==
  LET past == {r.d : r \in ToSet(rows)} \cap 0 .. date
  IN IF past = {} THEN {} ELSE {SelectSeq(rows, LAMBDA r : r.d = Max(past))[1]}

\* What the cached file of the date is good for: an older scheme's is not read.
CachedFunds(date) ==
  IF date \notin DOMAIN files.kofia THEN {}
  ELSE IF files.kofia[date].schema # 2 THEN {} ELSE FindRow(files.kofia[date].rows, date)

NoFunds == [ok |-> FALSE, d |-> NoTime, margin |-> 0, forced |-> 0]
\* The row for a date.  A row that was cached for it is never asked for again, not
\* even when it was an earlier day's; the cache is written if it can be.
GetMarketFundsForDate(date, a) ==
  LET rows == GetMarketFunds(a)
      found == IF CachedFunds(date) # {} THEN CachedFunds(date) ELSE FindRow(rows, date)
      r == CHOOSE f \in found : TRUE
  IN IF found = {} THEN NoFunds ELSE [ok |-> TRUE, d |-> r.d, margin |-> r.margin, forced |-> r.forced]
FundsFile(date, a) ==
  IF CachedFunds(date) # {} \/ GetMarketFunds(a) = <<>> \/ ~world.env.writable THEN files.kofia
  ELSE Put(files.kofia, date, [schema |-> 2, rows |-> GetMarketFunds(a)])

ProvidersInit == files = world.files /\ downloads = [open |-> {}, raced |-> {}]
=============================================================================
