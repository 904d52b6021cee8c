------------------------------ MODULE Snapshot ------------------------------
(* The market snapshot (cmd/agent, internal/collector/snapshot): an invocation *)
(* collects the sections for one date, today's or a past one, falls back on    *)
(* the observations stored by the collector when no provider has VKOSPI, and   *)
(* replaces the date's file after having archived the one it found.            *)
EXTENDS SnapshotInputs, MarketFacts

CONSTANTS
  Snappers,   \* invocations that may be under way at the same time
  NewYear     \* the day on which a year begins; there is one

VARIABLES
  snap,         \* for each invocation, what it has collected
  snaps,        \* for each date, the snapshot file and its archives, oldest first
  snapsBegun,   \* how many invocations have been started
  reported,     \* for each date, the snapshots whose save reported success
  exposed       \* the dates of which two saves have overlapped, or a save could not read
                \* the file it replaced

snapVars == <<snap, snaps, snapsBegun, reported, exposed>>

SnapIdle == [pc |-> "idle"]
NoFile == [pc |-> "none"]

-----------------------------------------------------------------------------
(* VKOSPI: KIS's daily close of the date, else KIS now, else Naver's daily     *)
(* close, else the store.                                                      *)

NoVKOSPI == [value |-> 0, date |-> NoTime, at |-> NoTime, source |-> "", status |-> "UNAVAILABLE"]
VKOSPILevel(v) == CASE v < 20 -> "NORMAL" [] v < 25 -> "USUAL" [] v < 30 -> "CAUTION" [] OTHER -> "DANGER"

\* The daily closes up to the date by day; a day that is listed twice is dropped.
DatedCloses(a, date) ==
  LET good == SelectSeq(a.rows, LAMBDA r : r.d # NoTime /\ r.d <= date /\ r.v > 0)
      once == {d \in {r.d : r \in ToSet(good)} : Len(SelectSeq(good, LAMBDA r : r.d = d)) = 1}
  IN [d \in once |-> SelectSeq(good, LAMBDA r : r.d = d)[1].v]

\* KIS's daily closes, when there is a code to ask about.
DailyCloses(q, date) ==
  LET a == InquireIndexDailyPrice(q.vkDaily)
  IN IF ResolveVKOSPICode(q) # 0 /\ a.ok THEN DatedCloses(a, date) ELSE <<>>

Provided(q, date, now) ==
  LET closes == DailyCloses(q, date)
      today == date = Day(now)
      history == GetIndexDailyHistory(q.naverDaily, 10)
      naver == SelectSeq(history.rows, LAMBDA r : r.d = date)
  IN IF date \in DOMAIN closes
     THEN [value |-> closes[date], date |-> date, at |-> NoTime, source |-> "KIS_DAILY",
           status |-> "PRELIMINARY"]
     ELSE IF today /\ ResolveVKOSPICode(q) # 0 /\ q.vkospi.ok /\ q.vkospi.value > 0
     THEN [value |-> q.vkospi.value, source |-> "KIS", at |-> q.vkospi.ts,
           date |-> IF q.vkospi.ts = NoTime THEN NoTime ELSE Day(q.vkospi.ts),
           status |-> IF q.vkospi.ts = NoTime THEN "TIMESTAMP_MISSING" ELSE "PRELIMINARY"]
     ELSE IF today /\ history.ok /\ naver # <<>>
     THEN [value |-> naver[Len(naver)].v, date |-> date, at |-> NoTime,
           source |-> "NAVER_DAILY", status |-> "PRELIMINARY"]
     ELSE NoVKOSPI

\* The five latest completed closes: today's is not one before the close.
FiveDays(q, date, now) ==
  LET closes == DailyCloses(q, date)
      done == {d \in DOMAIN closes : ~(d = date /\ date = Day(now) /\ MinuteOf(now) < HM(15, 30))}
      latest == {d \in done : Cardinality({e \in done : e > d}) < 5}
  IN IF Cardinality(latest) < 5 THEN NoNum
     ELSE MapThenSumSet(LAMBDA d : closes[d], latest) \div 5

\* The change in per cent: of a daily close against the one listed before it, else
\* what KIS said with its quote of today, also when it is a daily close that is shown.
VKOSPIChange(q, v, date, now) ==
  LET closes == DailyCloses(q, date)
      before == {d \in DOMAIN closes : d < date}
      quoted == date = Day(now) /\ ResolveVKOSPICode(q) # 0 /\ q.vkospi.ok /\ q.vkospi.value > 0
  IN IF v.source = "KIS_DAILY" /\ before # {}
     THEN ((v.value - closes[Max(before)]) * 100) \div closes[Max(before)]
     ELSE IF quoted THEN q.vkospi.pct ELSE NoNum

\* The store gives the date back with dashes, the snapshot's has none: a dash comes
\* before every digit, and so the two texts are compared by their years alone.
Year(day) == IF day < NewYear THEN 0 ELSE 1
BusinessDateNotAfter(bd, date) == Year(bd) <= Year(date)

\* Mutant: an observation that lies ahead is taken too.
FallbackAhead(found, date, now) ==
  {[value |-> r.value, date |-> r.bd, at |-> r.at, source |-> "STORE",
    status |-> "PROVISIONAL_LAST_VALID"] : r \in found}
\* What the store's answer is worth: the newest observation, or nothing at all when
\* that one lies ahead of the snapshot's own time or in a later year.
Fallback(found, date, now) ==
  {[value |-> r.value, date |-> r.bd, at |-> r.at, source |-> "STORE",
    status |-> "PROVISIONAL_LAST_VALID"] :
     r \in {f \in found : f.value > 0 /\ BusinessDateNotAfter(f.bd, date) /\ f.at <= now}}

-----------------------------------------------------------------------------
(* The late session, today only.                                               *)

\* The spread of future and spot, and that of 15:30 when both can be had exactly.
Basis(spot, fut, contract, chart, date) ==
  LET exact == SelectSeq(chart.rows, LAMBDA r : r.ts = At(date, 15, 30))
  IN IF ~spot.ok \/ spot.price <= 0 \/ contract = 0 \/ ~fut.ok \/ fut.price <= 0
     THEN NoSection
     ELSE [ok |-> TRUE, point |-> fut.price - spot.price,
           crossTime |-> NoTime \notin {fut.ts, spot.ts} /\ fut.ts # spot.ts,
           close |-> IF spot.ts = At(date, 15, 30) /\ chart.ok /\ Len(exact) = 1
                     THEN exact[1].price - spot.price ELSE NoNum]

Reconciled(r) == NoNum \notin {r.arb, r.non, r.net} /\ AbsOf(r.arb + r.non - r.net) <= 2

\* The aggregates of foreigners and institutions; a second row of one stops the
\* reading, and what was read before it stays.
ProgramToday(a) ==
  LET n == Len(a.rows)
      twice == {i \in 1 .. n : \E j \in 1 .. i - 1 : a.rows[j].who = a.rows[i].who}
      upTo == IF twice = {} THEN n ELSE Min(twice) - 1
  IN IF ~a.ok THEN {}
     ELSE {<<a.rows[i].who, a.rows[i].non>> : i \in {j \in 1 .. upTo : Reconciled(a.rows[j])}}

\* The difference between two exact times of the date, each of which is there once.
Window(rs, from, to) ==
  LET at(t) == SelectSeq(rs, LAMBDA r : r.ts = t)
  IN IF Len(at(from)) = 1 /\ Len(at(to)) = 1 THEN at(to)[1].v - at(from)[1].v ELSE NoNum

\* Program trading of the date: the latest row, and the last half hour and minutes.
LateProgram(a, date) ==
  LET dated == SelectSeq(a.rows, LAMBDA r : r.day \in {NoTime, date})
      latest == CollectProgramTrade([ok |-> a.ok, rows |-> dated])
      row == CHOOSE r \in ToSet(dated) : \A s \in ToSet(dated) : s.hour <= r.hour
      timed == SelectSeq(dated, LAMBDA r : r.day = date /\ r.net # NoNum)
      stamped == [i \in DOMAIN timed |-> [ts |-> At(date, 0, timed[i].hour), v |-> timed[i].net]]
      over(m) == Window(stamped, At(date, 15, m), At(date, 15, 30))
  IN IF ~a.ok THEN NoSection
     ELSE [ok |-> dated # <<>> /\ latest.ok /\ Reconciled(row),
           half |-> over(0), close |-> over(20)]

\* Foreigners and institutions over the closing auction; one row too many at either
\* end and neither is given.
CloseFlow(a, date) ==
  LET ends == {At(date, 15, 20), At(date, 15, 30)}
      good == SelectSeq(a.rows, LAMBDA r : r.ts \in ends /\ NoNum \notin {r.foreign, r.inst})
      over(who) == Window([i \in DOMAIN good |-> [ts |-> good[i].ts, v |-> good[i][who]]],
                          At(date, 15, 20), At(date, 15, 30))
  IN IF ~a.ok THEN <<NoNum, NoNum>>
     ELSE <<over("foreign"), over("inst")>>

\* The patterns of the late session are never judged.
LateSessionPatterns == [status |-> "INSUFFICIENT_DATA", detected |-> NoNum]

LateSession(q, contract, date) ==
  [patterns |-> LateSessionPatterns,
   basis |-> Basis(q.k200, q.fut["KOSPI"], contract, q.chart, date),
   investors |-> ProgramToday(q.investors),
   program |-> LateProgram(q.prog["KOSPI"], date),
   auction |-> CloseFlow(q.flowTimes, date)]

-----------------------------------------------------------------------------
(* An invocation.                                                              *)

\* Today without a date; a date that is not past is refused.
SnapStart(s) ==
  /\ snap[s].pc = "idle" /\ snapsBegun < world.plan.snapshots
  /\ snapsBegun' = snapsBegun + 1
  /\ \E date \in {Day(clock)} \cup world.plan.dates :
       /\ SessionStatus(date, clock) # "INVALID_DATE"
       /\ snap' = [snap EXCEPT ![s] = [pc |-> "started", now |-> clock, date |-> date,
                                      tried |-> {}, spot |-> NoSection]]
  /\ UNCHANGED <<clock, world, files, downloads, snaps, reported, exposed>>

\* What needs a master file, today only: the contract twice, the second time when there
\* is a spot, and the shares twice.
SpotOf(c) == IF c.spot.ok THEN c.spot ELSE world.quotes[clock].k200
SnapUses(c) ==
  IF c.date # Day(c.now) THEN <<>>
  ELSE IF c.pc = "started" THEN Needed("impact") \o <<"chips">>
  ELSE <<"concentration">> \o
         (IF SpotOf(c).ok /\ SpotOf(c).price > 0 THEN Needed("late") ELSE <<>>)

\* The snapshot finds no master file of its date (the spot it may have asked for by then
\* is kept),
SnapLooksForMaster(s) ==
  /\ snap[s].pc \in {"started", "volatility"}
  /\ FindNoMaster(s, SnapUses(snap[s]), snap[s], snap[s].date)
  /\ snap' = [snap EXCEPT ![s].spot =
                IF Unsettled(SnapUses(snap[s]), snap[s], snap[s].date)[1] = "late"
                THEN SpotOf(snap[s]) ELSE @]
  /\ UNCHANGED <<clock, world, files, snaps, snapsBegun, reported, exposed>>

\* and downloads it.
SnapDownloadsMaster(s) ==
  /\ snap[s].pc \in {"started", "volatility"}
  /\ \E f \in Downloading(s) :
       \E end \in EnsureZipCache(f[2], f[3], MasterOf(f[2], world.quotes[clock])) :
         /\ files' = end.files
         /\ downloads' = [downloads EXCEPT !.open = @ \ {f}]
         /\ snap' = [snap EXCEPT ![s].tried = @ \cup {<<f[2], end.ok>>}]
  /\ UNCHANGED <<clock, world, snaps, snapsBegun, reported, exposed>>

\* Price, flows, quotes, impact and the accumulated figures; a past date has neither
\* quotes nor anything else that is only current.
GatherSections(s) ==
  /\ snap[s].pc = "started"
  /\ Settled(s, SnapUses(snap[s]), snap[s], snap[s].date)
  /\ LET q == world.quotes[clock]
         date == snap[s].date
         now == snap[s].now
         today == date = Day(now)
         flow == DailyFlowSection(q.dailyFlow, date)
         contract == ResolvedContract(snap[s], "impact", "KOSPI", date)
         universe == KOSPIIndexMarketCapSummary(snap[s], "chips", date)
     IN snap' = [snap EXCEPT ![s] =
          [pc |-> "sections", now |-> now, date |-> date, tried |-> @.tried, spot |-> @.spot,
           session |-> SessionStatus(date, now),
           price |-> PriceSection(q.daily, date), flow |-> flow,
           global |-> IF today THEN QuoteSection(q.yahoo, GlobalSymbols) ELSE NoSection,
           macro |-> IF today THEN QuoteSection(q.yahoo, ChannelSymbols) ELSE NoSection,
           impact |-> ImpactSection(q.fut["KOSPI"], contract, date, now, flow),
           chips |-> IF today THEN CapRatio(universe, date) ELSE NoNum]]
  /\ UNCHANGED <<clock, world, files, downloads, snaps, snapsBegun, reported, exposed>>

GatherVolatility(s) ==
  /\ snap[s].pc = "sections"
  /\ LET q == world.quotes[clock]
         v == Provided(q, snap[s].date, snap[s].now)
     IN snap' = [snap EXCEPT ![s] = With(@,
          [pc |-> IF v = NoVKOSPI THEN "fallback" ELSE "volatility", vk |-> v,
           vix |-> QuoteSection(q.yahoo, {"^VIX"}),
           change |-> VKOSPIChange(q, v, @.date, @.now), mean |-> FiveDays(q, @.date, @.now)])]
  /\ UNCHANGED <<clock, world, files, downloads, snaps, snapsBegun, reported, exposed>>

\* No provider has VKOSPI: the store is asked, which may not answer either.
ReadFallback(s) ==
  /\ snap[s].pc = "fallback"
  /\ \E v \in Fallback(LatestValid("vkospi.value", Week), snap[s].date, snap[s].now) \cup
              (IF Fallback(LatestValid("vkospi.value", Week), snap[s].date, snap[s].now) = {}
               THEN {NoVKOSPI} ELSE {}) :
       snap' = [snap EXCEPT ![s].pc = "volatility", ![s].vk = v]
  /\ UNCHANGED <<clock, world, files, downloads, snaps, snapsBegun, reported, exposed>>
FallbackFails(s) ==
  /\ snap[s].pc = "fallback"
  /\ snap' = [snap EXCEPT ![s].pc = "volatility"]
  /\ UNCHANGED <<clock, world, files, downloads, snaps, snapsBegun, reported, exposed>>

\* Of the regimes only the price's is known.
CollectRegime(price) == [status |-> "NOT_EVALUATED", price |-> IF price.ok THEN price.regime ELSE ""]

\* Credit, the regime, concentration and the late session complete the snapshot.
GatherRest(s) ==
  /\ snap[s].pc = "volatility"
  /\ Settled(s, SnapUses(snap[s]), snap[s], snap[s].date)
  /\ LET q == world.quotes[clock]
         c == snap[s]
         today == c.date = Day(c.now)
         contract == ResolvedContract(c, "late", "KOSPI", c.date)
         universe == KOSPIIndexMarketCapSummary(c, "concentration", c.date)
         balances == CreditSection(q.funds, NoFunds, c.date).ok
     IN /\ files' = [files EXCEPT !.kofia = IF balances THEN FundsFile(c.date, q.kofia) ELSE @]
        /\ snap' = [snap EXCEPT ![s] = With(@,
          [pc |-> "ready",
           credit |-> CreditSection(q.funds, GetMarketFundsForDate(c.date, q.kofia), c.date),
           regime |-> CollectRegime(c.price),
           level |-> IF c.vk.value > 0 THEN VKOSPILevel(c.vk.value) ELSE "",
           concentration |-> IF today THEN ConcentrationSection(universe, c.date) ELSE NoSection,
           late |-> IF today THEN LateSession([q EXCEPT !.k200 = SpotOf(c)], contract, c.date)
                   ELSE <<>>,
           completed |-> clock])]
  /\ UNCHANGED <<clock, world, downloads, snaps, snapsBegun, reported, exposed>>

-----------------------------------------------------------------------------
(* Saving it.                                                                  *)

\* The latest snapshot of an earlier date, for the comparison in the report.
PreviousSnapshot(date) ==
  LET dates == {d \in DOMAIN snaps : d < date /\ snaps[d].cur # NoFile}
  IN IF dates = {} THEN NoFile ELSE snaps[Max(dates)].cur

\* What the file says of a snapshot: a number that stands for nothing is left out,
\* and so are the weights of a concentration that contradicts itself.
Masked(s) ==
  LET shares == {"top2", "top5", "hhi"}
      c == s.concentration
      doubtful == IF c.ok THEN c.status # "ESTIMATED" ELSE FALSE
  IN [s EXCEPT !.pc = "saved",
               !.vk.value = IF @ > 0 THEN @ ELSE NoNum,
               !.concentration = IF doubtful
                                 THEN [f \in DOMAIN c |-> IF f \in shares THEN NoNum ELSE c[f]] ELSE c]

\* Mutant: the file found is not archived.
NotArchived(file) == file
\* Every archive has a name of its own, with the nanosecond.
Archived(file) == IF file.cur = NoFile THEN file ELSE [file EXCEPT !.arch = Append(@, file.cur)]

Saving(date) == {s \in Snappers : snap[s].pc = "archived" /\ snap[s].date = date}

\* The file that is there is read and archived,
ArchiveOld(s) ==
  /\ snap[s].pc = "ready"
  /\ LET date == snap[s].date IN
       /\ snaps' = [snaps EXCEPT ![date] = Archived(@)]
       /\ exposed' = IF Saving(date) = {} THEN exposed ELSE exposed \cup {date}
       /\ snap' = [snap EXCEPT ![s] = With(@, [pc |-> "archived",
                                              before |-> PreviousSnapshot(date).pc # "none"])]
  /\ UNCHANGED <<clock, world, files, downloads, snapsBegun, reported>>

\* or passed over when it cannot be read, which is no error,
ArchiveSkipped(s) ==
  /\ snap[s].pc = "ready"
  /\ LET date == snap[s].date IN
       /\ snaps[date].cur # NoFile
       /\ exposed' = exposed \cup {date}
       /\ snap' = [snap EXCEPT ![s] = With(@, [pc |-> "archived",
                                              before |-> PreviousSnapshot(date).pc # "none"])]
  /\ UNCHANGED <<clock, world, files, downloads, snaps, snapsBegun, reported>>

\* before the new one replaces it,
ReplaceSnapshot(s) ==
  /\ snap[s].pc = "archived"
  /\ LET date == snap[s].date
         content == Masked(snap[s])
     IN /\ snaps' = [snaps EXCEPT ![date].cur = content]
        /\ reported' = [reported EXCEPT ![date] = @ \cup {content}]
  /\ snap' = [snap EXCEPT ![s] = SnapIdle]
  /\ UNCHANGED <<clock, world, files, downloads, snapsBegun, exposed>>

\* unless the disk refuses or the process dies on the way.
SnapshotLost(s) ==
  /\ snap[s].pc \in {"ready", "archived"}
  /\ snap' = [snap EXCEPT ![s] = SnapIdle]
  /\ UNCHANGED <<clock, world, files, downloads, snaps, snapsBegun, reported, exposed>>

SnapStep(s) ==
  \/ SnapStart(s)
  \/ SnapLooksForMaster(s)
  \/ SnapDownloadsMaster(s)
  \/ GatherSections(s)
  \/ GatherVolatility(s)
  \/ ReadFallback(s)
  \/ FallbackFails(s)
  \/ GatherRest(s)
  \/ ArchiveOld(s)
  \/ ArchiveSkipped(s)
  \/ ReplaceSnapshot(s)
  \/ SnapshotLost(s)

SnapInit ==
  /\ snap = [s \in Snappers |-> SnapIdle]
  /\ snaps = [d \in {Day(t) : t \in Instants} \cup world.plan.dates |-> [cur |-> NoFile, arch |-> <<>>]]
  /\ snapsBegun = 0
  /\ reported = [d \in DOMAIN snaps |-> {}]
  /\ exposed = {}

-----------------------------------------------------------------------------
\* A snapshot that was reported saved is still there, as the date's file or as an
\* archive, unless two saves of the date have overlapped or one could not read the file
\* it replaced.
StillThere(d) == reported[d] \subseteq ToSet(snaps[d].arch) \cup {snaps[d].cur}
SnapshotsKept == \A d \in DOMAIN snaps : StillThere(d) \/ d \in exposed

\* The stored VKOSPI a snapshot shows is at most a week old when it is read, not from
\* after the snapshot's own time nor of a year after its date's, and the newest of those;
\* a snapshot that shows none although the store has one was kept from it by an
\* observation that lies ahead or in a later year.
FallbackHonest ==
  [][\A s \in Snappers :
       LET now == snap[s].now
           known == {r \in rows : r.metric = "vkospi.value" /\ r.at <= now /\ r.at >= clock - Week}
           v == snap'[s].vk
       IN ReadFallback(s) =>
            IF v = NoVKOSPI
            THEN known = {} \/ \E r \in rows : /\ r.metric = "vkospi.value"
                                             /\ \/ r.at > now
                                                \/ Year(r.bd) > Year(snap[s].date)
            ELSE \E r \in known : /\ v.at = r.at /\ v.value = r.value
                                  /\ Year(r.bd) <= Year(snap[s].date)
                                  /\ \A k \in known : k.at <= r.at]_snap

\* (internal/collector/snapshot/volatility.go:119) The stored value a snapshot shows is
\* not of a day after the snapshot's date.
PastShowsNoLater ==
  \A s \in Snappers : snap[s].pc = "volatility" /\ snap[s].vk.source = "STORE"
                         => snap[s].vk.date <= snap[s].date
=============================================================================
