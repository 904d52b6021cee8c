------------------------------- MODULE Pulse -------------------------------
(* The intraday pulse (internal/collector/pulse): every invocation collects   *)
(* the market, reads the day's file of earlier pulses, computes what changed  *)
(* since them, evaluates the market-safety board and adds itself to the file. *)
(* Nothing guards the file: invocations overlap, and a line may be cut short  *)
(* by a crash or a full disk.                                                 *)
EXTENDS PulseInputs

CONSTANT Pulses   \* invocations that may be under way at the same time

VARIABLES
  file,       \* for each day, the lines of pulse_<date>.jsonl
  pulse,      \* for each invocation, what it has gathered and concluded
  started,    \* how many invocations have been started
  saved       \* for each day, the records whose append reported success

pulseVars == <<file, pulse, started, saved>>

Days == {Day(t) : t \in Instants}
EmptyFile == [lines |-> <<>>, open |-> FALSE]
PulseIdle == [pc |-> "idle"]
NoDelta == [ok |-> FALSE, ref |-> NoTime, elapsed |-> 0, value |-> 0]

-----------------------------------------------------------------------------
(* The day's file.  A line is the pieces written to it: an append that finds   *)
(* the last line without its newline continues that line.                      *)

AppendRecord(f, rec, whole, newline) ==
  LET piece == [rec |-> rec, whole |-> whole]
      n == Len(f.lines)
  IN [lines |-> IF f.open THEN [f.lines EXCEPT ![n] = Append(@, piece)]
                ELSE Append(f.lines, <<piece>>),
      open |-> ~newline]

Readable(line) == Len(line) = 1 /\ line[1].whole

\* Mutant: corrupt lines are passed over, as the backfill does.
LoadRecordsSkipping(f) ==
  [ok |-> TRUE,
   recs |-> [i \in {j \in DOMAIN f.lines : Readable(f.lines[j])} |-> f.lines[i][1].rec]]
\* All the records of the file by their lines, or none when one line is corrupt.
LoadRecords(f) ==
  IF \E i \in DOMAIN f.lines : ~Readable(f.lines[i]) THEN [ok |-> FALSE, recs |-> <<>>]
  ELSE [ok |-> TRUE, recs |-> [i \in DOMAIN f.lines |-> f.lines[i][1].rec]]

\* The records by time, those of the same time in the order of their lines.
Before(recs, i, j) == recs[i].ts < recs[j].ts \/ (recs[i].ts = recs[j].ts /\ i < j)

\* A record may serve as a reference when it is earlier on the same business day.
ValidRecordTime(r, now) == r.ts < now /\ SameDay(r.ts, now) /\ r.bd = Day(now)

\* The latest record at most five minutes before the target (a set of one or none).
LoadNearest(recs, target) ==
  LET near == {i \in DOMAIN recs : /\ SameDay(recs[i].ts, target) /\ recs[i].ts <= target
                                   /\ target - recs[i].ts <= 5}
  IN {recs[i] : i \in {j \in near : \A k \in near : /\ recs[k].ts <= recs[j].ts
                                                     /\ k < j => recs[k].ts < recs[j].ts}}

-----------------------------------------------------------------------------
(* What changed since an earlier record: only between two provider times of    *)
(* one day, the earlier one strictly before.                                   *)

Ordered(prev, cur) == prev.ok /\ SameDay(prev.ts, cur.ts) /\ prev.ts < cur.ts
FlowDelta(refs, m, cur, now) ==
  LET usable == {r \in refs : cur.ok /\ ValidRecordTime(r, now) /\ Ordered(r.flow[m], cur)}
  IN IF usable = {} THEN NoDelta
     ELSE LET prev == (CHOOSE r \in usable : TRUE).flow[m]
          IN [ok |-> TRUE, ref |-> prev.ts, elapsed |-> cur.ts - prev.ts,
              value |-> cur.foreign - prev.foreign]
ProgramDelta(refs, m, cur, now) ==
  LET usable == {r \in refs : cur.ok /\ ValidRecordTime(r, now) /\ Ordered(r.prog[m], cur)}
  IN IF usable = {} THEN NoDelta
     ELSE LET prev == (CHOOSE r \in usable : TRUE).prog[m]
          IN [ok |-> TRUE, ref |-> prev.ts, elapsed |-> cur.ts - prev.ts,
              value |-> cur.net - prev.net]

\* Mutant: the reference's own distance is trusted, not that of the provider times.
BoundedAny(d, minutes) == d
\* An hourly delta must span its hours, with five minutes to spare.
Bounded(d, minutes) == IF d.ok /\ d.elapsed \in minutes .. minutes + 5 THEN d ELSE NoDelta

\* The record before, the day's first, and those of one and two hours ago.
References(recs, now) ==
  LET last == {i \in DOMAIN recs : \A j \in DOMAIN recs \ {i} : Before(recs, j, i)}
      first == {i \in DOMAIN recs : \A j \in DOMAIN recs \ {i} : Before(recs, i, j)}
  IN [prev |-> {recs[i] : i \in last}, anchor |-> {recs[i] : i \in first},
      h1 |-> LoadNearest(recs, now - 60), h2 |-> LoadNearest(recs, now - 120)]
HoursBounded(d) == [d EXCEPT !.h1 = Bounded(@, 60), !.h2 = Bounded(@, 120)]

HourlyRate(v, minutes) == IF minutes <= 0 THEN 0 ELSE (v * 60) \div minutes

\* The last hour's flow against that of the hour before it.
FlowAcceleration(d1, d2) ==
  LET before == d2.elapsed - d1.elapsed
      rate == HourlyRate(d1.value, d1.elapsed)
      prior == HourlyRate(d2.value - d1.value, before)
  IN IF ~d1.ok \/ ~d2.ok \/ d1.elapsed <= 0 \/ before <= 0 THEN ""
     ELSE IF SignOf(rate) * SignOf(prior) = -1
          THEN IF rate > 0 THEN "turned to buying" ELSE "turned to selling"
     ELSE IF AbsOf(rate) > AbsOf(prior) THEN "faster"
     ELSE IF AbsOf(rate) < AbsOf(prior) THEN "slower" ELSE "as before"

-----------------------------------------------------------------------------
(* The assessment and the bullets of the report.                               *)

ValidWindow(w) == w.ok /\ Usable(w.fresh) /\ w.h1 # NoNum

AssessPulse(vk, win, devices) ==
  LET two == {"^KS11", "^KQ11"}
      mean == (win["^KS11"].h1 + win["^KQ11"].h1) \div 2
      five == {"NQ=F", "ES=F", "KRW=X", "CL=F", "^TNX"}
      official == {d.device : d \in {e \in devices : e.state \in {"TRIGGERED", "RELEASED"}}}
      h(s) == win[s].h1
      adverse == \/ h("NQ=F") < -20 /\ h("ES=F") < -20
                 \/ h("KRW=X") >= 15 \/ AbsOf(h("CL=F")) >= 200 \/ h("^TNX") >= 200
  IN [direction |-> IF \E s \in two : ~ValidWindow(win[s]) THEN "NOT_EVALUATED"
                    ELSE IF mean >= 50 THEN "UP" ELSE IF mean <= -50 THEN "DOWN" ELSE "NEUTRAL",
      stress |-> IF official \cap {"CB1", "CB2", "CB3"} # {} THEN "EXTREME"
                 ELSE IF official # {} THEN "VERY_HIGH"
                 ELSE IF ~vk.ok \/ ~Usable(vk.fresh) THEN "NOT_EVALUATED"
                 ELSE IF vk.value >= 30 THEN "VERY_HIGH"
                 ELSE IF vk.value >= 22 THEN "HIGH" ELSE "NORMAL",
      macro |-> IF \E s \in five : ~ValidWindow(win[s]) THEN "NOT_EVALUATED"
                ELSE IF adverse THEN "ADVERSE"
                ELSE IF h("NQ=F") >= 20 /\ h("ES=F") >= 20 /\ h("KRW=X") <= 0 THEN "SUPPORTIVE"
                ELSE "MIXED"]

\* Large flows of the last hour, with their acceleration (the leader bullets), the
\* exchange rate beside foreign selling, and whether the US futures go along.
AnalyzeFlowLeader(d) ==
  IF d.h1.ok /\ AbsOf(HourlyRate(d.h1.value, d.h1.elapsed)) >= 1000
  THEN {<<"leader", SignOf(d.h1.value), FlowAcceleration(d.h1, d.h2)>>} ELSE {}
AnalyzeForexLink(d, flow, fx) ==
  IF ~d.h1.ok \/ ~flow.ok \/ fx.h1 = NoNum THEN {}
  ELSE IF fx.h1 <= 0 THEN {<<"won steady", 0, "">>}
  ELSE IF HourlyRate(d.h1.value, d.h1.elapsed) < -500 THEN {<<"foreigners leave", 0, "">>} ELSE {}
AnalyzeFuturesSync(kospi, nq) ==
  IF NoNum \in {kospi.h1, nq.h1} THEN {}
  ELSE {<<IF SignOf(kospi.h1) = SignOf(nq.h1) THEN "in step" ELSE "decoupled", 0, "">>}
AnalyzeIndexMomentum(kospi) ==
  IF kospi.h1 = NoNum THEN {}
  ELSE {<<"momentum", IF kospi.h1 >= 50 THEN 1 ELSE IF kospi.h1 <= -50 THEN -1 ELSE 0, "">>}
AnalyzeMacroSignals(win) ==
  {<<s, SignOf(win[s].h1), "">> : s \in {t \in {"^TNX", "CL=F"} :
                                           win[t].h1 # NoNum /\ AbsOf(win[t].h1) >= 150}}
Analyze(flow, win, d) ==
  AnalyzeIndexMomentum(win["^KS11"]) \cup AnalyzeFlowLeader(d)
    \cup AnalyzeForexLink(d, flow, win["KRW=X"])
    \cup AnalyzeFuturesSync(win["^KS11"], win["NQ=F"]) \cup AnalyzeMacroSignals(win)

\* Investors' flows must cancel out, and the institutions' parts add up, within 10.
FlowResiduals(flow) ==
  LET unsound(m, part) == flow[m].ok /\ flow[m].etc /\ AbsOf(flow[m][part]) > 10
  IN {r \in Markets \X {"total", "parts"} : unsound(r[1], r[2])}

-----------------------------------------------------------------------------
PulseStart(p) ==
  /\ pulse[p].pc = "idle"
  /\ started < world.plan.pulses
  /\ started' = started + 1
  /\ \E o \in world.plan.options :
       pulse' = [pulse EXCEPT ![p] = [pc |-> "started", now |-> clock, opts |-> o,
                                       bd |-> NoTime, tried |-> {}]]
  /\ UNCHANGED <<clock, world, files, downloads, file, saved>>

\* The business date is asked for first, once.
BusinessDate(c) ==
  IF c.pc = "started" /\ c.bd = NoTime
  THEN ResolveBusinessDate(world.quotes[clock].bd, Day(c.now)) ELSE c.bd

\* What needs a master file: the two contracts, and the contributions after them.
PulseUses(c) ==
  IF c.pc = "started" THEN Needed("KOSPI") \o <<"KOSDAQ">>
  ELSE IF c.idx["KOSPI"].ok THEN <<"contributions">> ELSE <<>>

\* The pulse finds no master file of its business date,
LookForMaster(p) ==
  /\ pulse[p].pc \in {"started", "gathered"}
  /\ LET bd == BusinessDate(pulse[p]) IN
       /\ FindNoMaster(p, PulseUses(pulse[p]), pulse[p], bd)
       /\ pulse' = [pulse EXCEPT ![p].bd = bd]
  /\ UNCHANGED <<clock, world, files, file, started, saved>>

\* and downloads it.
DownloadMaster(p) ==
  /\ pulse[p].pc \in {"started", "gathered"}
  /\ \E f \in Downloading(p) :
       \E end \in EnsureZipCache(f[2], f[3], MasterOf(f[2], world.quotes[clock])) :
         /\ files' = end.files
         /\ downloads' = [downloads EXCEPT !.open = @ \ {f}]
         /\ pulse' = [pulse EXCEPT ![p].tried = @ \cup {<<f[2], end.ok>>}]
  /\ UNCHANGED <<clock, world, file, started, saved>>

\* Everything else the pulse asks the providers, once they have all answered; they may
\* answer later than the time the pulse was started with.
Gather(p) ==
  /\ pulse[p].pc = "started"
  /\ Settled(p, PulseUses(pulse[p]), pulse[p], BusinessDate(pulse[p]))
  /\ LET q == world.quotes[clock]
         now == pulse[p].now
         bd == BusinessDate(pulse[p])
         fut == [m \in Markets |->
                   CollectFuture(q.fut[m], m, ResolvedContract(pulse[p], m, m, bd), now)]
     IN pulse' = [pulse EXCEPT ![p] =
          [pc |-> "gathered", now |-> now, opts |-> @.opts, bd |-> bd, tried |-> @.tried,
           idx |-> [m \in Markets |-> CollectIndex(q.idx[m], now)],
           flow |-> [m \in Markets |-> CollectFlow(q.flow[m])],
           prog |-> [m \in Markets |-> CollectProgramTrade(q.prog[m])],
           fut |-> [fut EXCEPT !["KOSDAQ"] = WithSpot(@, CollectIndex(q.spot, now))],
           vk |-> CollectVKOSPI(ResolveVKOSPICode(q), q.vkospi,
                                GetIndexQuote(q.naver, "VKOSPI"), now),
           win |-> CollectMarket(q.yahoo, q.bars, now)]]
  /\ UNCHANGED <<clock, world, files, downloads, file, started, saved>>

\* The contributions, the history, the deltas against it, the safety board, for which
\* the file of official events is readable or not, and the assessment.
Conclude(p) ==
  /\ pulse[p].pc = "gathered"
  /\ Settled(p, PulseUses(pulse[p]), pulse[p], pulse[p].bd)
  /\ LET c == pulse[p]
         now == c.now
         load == IF c.opts.history THEN LoadRecords(file[Day(now)]) ELSE [ok |-> TRUE, recs |-> <<>>]
         recs == Restrict(load.recs, {i \in DOMAIN load.recs : ValidRecordTime(load.recs[i], now)})
         refs == References(recs, now)
         flows == [m \in Markets |-> HoursBounded(
                    [k \in DOMAIN refs |-> FlowDelta(refs[k], m, c.flow[m], now)])]
         progs == [m \in Markets |-> HoursBounded(
                    [k \in DOMAIN refs |-> ProgramDelta(refs[k], m, c.prog[m], now)])]
     IN \E readable \in world.events.readable :
        LET events == LoadOfficialEvents(world.events, readable, Day(now), clock)
            safety == BuildMarketSafety(now, events, c.idx, c.fut)
        IN pulse' = [pulse EXCEPT ![p] =
          [pc |-> "concluded", now |-> now, opts |-> c.opts, read |-> readable, events |-> events,
           contributions |-> CollectContributions(
             KOSPIIndexMarketCapSummary(c, "contributions", c.bd),
             world.quotes[clock].prices, c.bd, c.idx["KOSPI"]),
           history |-> recs, loaded |-> load.ok, flows |-> flows, programs |-> progs,
           safety |-> safety, residuals |-> FlowResiduals(c.flow), fut |-> c.fut,
           assessment |-> AssessPulse(c.vk, c.win, safety.devices),
           analysis |-> Analyze(c.flow["KOSPI"], c.win, flows["KOSPI"]),
           rec |-> [ts |-> now, bd |-> c.bd, flow |-> c.flow, prog |-> c.prog,
                    devices |-> safety.devices]]]
  /\ UNCHANGED <<clock, world, files, downloads, file, started, saved>>

\* The record is added to the file of the wall date: the whole line,
SaveRecord(p) ==
  /\ pulse[p].pc = "concluded" /\ pulse[p].opts.save
  /\ LET d == Day(pulse[p].now) IN
       /\ file' = [file EXCEPT ![d] = AppendRecord(@, pulse[p].rec, TRUE, TRUE)]
       /\ saved' = [saved EXCEPT ![d] = @ \cup {pulse[p].rec}]
  /\ pulse' = [pulse EXCEPT ![p] = PulseIdle]
  /\ UNCHANGED <<clock, world, files, downloads, started>>

\* a part of it, or all but the newline; the invocation crashes or reports the error.
SaveCutShort(p, whole) ==
  /\ pulse[p].pc = "concluded" /\ pulse[p].opts.save
  /\ file' = [file EXCEPT ![Day(pulse[p].now)] = AppendRecord(@, pulse[p].rec, whole, FALSE)]
  /\ pulse' = [pulse EXCEPT ![p] = PulseIdle]
  /\ UNCHANGED <<clock, world, files, downloads, started, saved>>

\* The pulse is printed and nothing is saved: not wanted, or the file cannot be opened.
PulseEnd(p) ==
  /\ pulse[p].pc = "concluded"
  /\ pulse' = [pulse EXCEPT ![p] = PulseIdle]
  /\ UNCHANGED <<clock, world, files, downloads, file, started, saved>>

PulseStep(p) ==
  \/ PulseStart(p)
  \/ LookForMaster(p)
  \/ DownloadMaster(p)
  \/ Gather(p)
  \/ Conclude(p)
  \/ SaveRecord(p)
  \/ \E whole \in BOOLEAN : SaveCutShort(p, whole)
  \/ PulseEnd(p)

PulseInit ==
  /\ file = [d \in Days |-> EmptyFile]
  /\ pulse = [p \in Pulses |-> PulseIdle]
  /\ started = 0
  /\ saved = [d \in Days |-> {}]

-----------------------------------------------------------------------------
Concluded == {p \in Pulses : pulse[p].pc = "concluded"}

\* An hourly delta is what the provider published between its two times, which lie
\* the hours apart it is named for: a stale answer, a clock that moved on, a record
\* of another day or of an overlapping pulse never gives another difference.
Between(d, published(_), minutes) ==
  d.ok => /\ d.elapsed \in minutes .. minutes + 5
          /\ SameDay(d.ref, d.ref + d.elapsed)
          /\ \E a \in published(d.ref), b \in published(d.ref + d.elapsed) : d.value = b - a
PublishedFlow(m, ts) ==
  {world.quotes[t].flow[m].foreign : t \in {u \in world.times : world.quotes[u].flow[m].ts = ts}}
PublishedProgram(m, ts) ==
  UNION {{r.net : r \in {s \in ToSet(world.quotes[t].prog[m].rows) : At(s.day, 0, s.hour) = ts}} :
           t \in world.times}
Windows(c, m) ==
  LET f == c.flows[m]
      g == c.programs[m]
  IN /\ Between(f.h1, LAMBDA ts : PublishedFlow(m, ts), 60)
     /\ Between(f.h2, LAMBDA ts : PublishedFlow(m, ts), 120)
     /\ Between(g.h1, LAMBDA ts : PublishedProgram(m, ts), 60)
     /\ Between(g.h2, LAMBDA ts : PublishedProgram(m, ts), 120)
DeltasAreWindows == \A p \in Concluded, m \in Markets : Windows(pulse[p], m)

\* A history that reads without an error lacks no record whose pulse was told it
\* had been saved, and a line cut short is never passed over in silence.
ReadableMeansComplete ==
  \A d \in Days : LoadRecords(file[d]).ok => saved[d] \subseteq Range(LoadRecords(file[d]).recs)

\* A trigger that the pulse's own history reports stands for as long as the pulse finds
\* it in the file: the device, when it is shown at all, is still official and no sidecar
\* of the market is eligible again, however stale the quotes have become and whatever
\* else was written into the file; a release stands with the trigger it belongs to.
Fired(d) == d.state \in {"TRIGGERED", "RELEASED"}
Listed(c, e, field) ==
  \E i \in EventsOf(c.events, e.market, e.device) :
    c.events[i][field] = IF field = "at" THEN e.at ELSE e.released
Stands(c, e) ==
  \A d \in c.safety.devices :
    d.market = e.market =>
      /\ {d.device, e.device} \subseteq SidecarDevices => ~d.eligible
      /\ d.device = e.device =>
           /\ Fired(d)
           /\ e.state = "RELEASED" /\ d.at = e.at /\ Listed(c, e, "released")
                => d.state = "RELEASED"
TriggersStand ==
  \A p \in Concluded : \A r \in Range(pulse[p].history) : \A e \in r.devices :
    Fired(e) /\ Listed(pulse[p], e, "at") => Stands(pulse[p], e)

\* The two boards, computed apart, agree: a device observed by one is observed by the
\* other, and what the older one observes the newer one shows as observed unless the
\* window is closed or a sidecar of the market has fired.
Agree(c, m) ==
  LET devices == {d \in c.safety.devices : d.market = m /\ d.device \in SidecarDevices}
      older == c.safety.sidecars
      observed == \E d \in devices : d.state = "CONDITION_OBSERVED"
  IN m \in DOMAIN older =>
       /\ observed => older[m] = "CONDITION_OBSERVED"
       /\ older[m] = "CONDITION_OBSERVED" =>
            observed \/ \E d \in devices : Fired(d) \/ d.state = "EXPIRED_FOR_DAY"
                                             \/ MinuteOf(c.now) < HM(9, 5)
BoardsAgree == \A p \in Concluded, m \in Markets : Agree(pulse[p], m)
=============================================================================
