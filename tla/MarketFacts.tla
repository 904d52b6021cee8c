----------------------------- MODULE MarketFacts -----------------------------
(* The store of market observations (internal/market/facts) and the market    *)
(* collector that fills it (cmd/market-collector): a daemon that collects at  *)
(* every tick and single collections beside it.  A collection asks four       *)
(* questions at once and stores what was answered in one insert, under the    *)
(* context that the deadline or the signal ends.                              *)
EXTENDS Providers

VARIABLES
  rows,       \* market_observations
  tick,       \* for each collector, the collection under way
  ticks       \* how many collections have begun

factsVars == <<rows, tick, ticks>>

Collectors == {"daemon", "once"}
Queries == {"vkospi", "kospi", "kosdaq", "investor"}
Interval == 3      \* minutes between two ticks
Deadline == 2      \* minutes a single collection has
Week == 7 * 1440

-----------------------------------------------------------------------------
(* The store.                                                                  *)

\* One insert; a row whose metric and time are taken is ignored.  Two collections
\* never begin at the same nanosecond: "by" tells their rows apart.
Insert(old, new) ==
  old \cup {n \in new : \A r \in old : <<n.metric, n.at, n.by>> # <<r.metric, r.at, r.by>>}

\* Mutant: the age of the observation is not limited.
LatestValidEver(metric, maxAge) ==
  LET valid == {r \in rows : r.metric = metric}
  IN {r \in valid : \A s \in valid : s.at <= r.at}
\* The newest observations of a metric that are not too old, whatever lies ahead:
\* the query returns one of them.
LatestValid(metric, maxAge) ==
  LET valid == {r \in rows : r.metric = metric /\ r.at >= clock - maxAge}
  IN {r \in valid : \A s \in valid : s.at <= r.at}

-----------------------------------------------------------------------------
(* A collection.                                                               *)

CollectorOff == [pc |-> "off"]

Observation(metric, value, at, by) ==
  [metric |-> metric, at |-> at, by |-> by, bd |-> Day(at), value |-> value]

FlowMetrics ==
  [foreign |-> "kospi.flow.foreign_eok", organ |-> "kospi.flow.organ_eok",
   individual |-> "kospi.flow.individual_eok"]
\* What an answer is worth: index levels must be positive, flows only present.
Observed(q, a, at, by) ==
  LET level(metric, ok, v) == IF ok /\ v > 0 THEN {Observation(metric, v, at, by)} ELSE {}
  IN CASE q = "vkospi" -> level("vkospi.value", ResolveVKOSPICode(a) # 0 /\ a.vkospi.ok, a.vkospi.value)
       [] q = "kospi" -> level("kospi.index", a.idx["KOSPI"].ok, a.idx["KOSPI"].price)
       [] q = "kosdaq" -> level("kosdaq.index", a.idx["KOSDAQ"].ok, a.idx["KOSDAQ"].price)
       [] q = "investor" -> {Observation(FlowMetrics[k], a.investor[k], at, by) :
                               k \in {i \in DOMAIN FlowMetrics : a.investor[i] # NoNum}}

\* The context of a single collection ends at its deadline, the daemon's by a signal.
ContextDone(c) ==
  IF c = "once" THEN clock >= tick[c].now + Deadline ELSE tick[c].signalled

Finished(c) == [tick[c] EXCEPT !.pc = IF c = "once" THEN "off" ELSE "waiting",
                               !.left = {}, !.got = {}, !.cut = FALSE]

\* A collection begins, unless the market is closed and nothing forces it.
Begin(c, signalled) ==
  LET open == GetMarketPhase("KRX", clock, IsHoliday("KRX", Day(clock))) \in
                {"CONTINUOUS", "CLOSING_AUCTION", "POST_CLOSE"}
      go == open \/ c = "once"
  IN /\ ticks < world.plan.ticks /\ ticks' = ticks + 1
     /\ tick' = [tick EXCEPT ![c] =
          [pc |-> IF go THEN "asking" ELSE IF c = "once" THEN "off" ELSE "waiting",
           now |-> clock, signalled |-> signalled, got |-> {}, cut |-> FALSE,
           left |-> IF go THEN Queries ELSE {}]]
     /\ UNCHANGED <<clock, world, files, downloads, rows>>

\* The process is started; the daemon collects at once.
CollectorStart(c) == tick[c].pc = "off" /\ Begin(c, FALSE)

\* The ticker fires.  With the signal there too, the select may take either.
TickerFires ==
  /\ tick["daemon"].pc = "waiting" /\ clock >= tick["daemon"].now + Interval
  /\ Begin("daemon", tick["daemon"].signalled)

\* No token: the collection ends before anything is asked.
AuthFails(c) ==
  /\ tick[c].pc = "asking" /\ tick[c].left = Queries
  /\ tick' = [tick EXCEPT ![c] = Finished(c)]
  /\ UNCHANGED <<clock, world, files, downloads, rows, ticks>>

\* One goroutine gets its answer, later perhaps than the time it is stored under,
QueryAnswered(c, q) ==
  /\ tick[c].pc = "asking" /\ q \in tick[c].left /\ ~ContextDone(c)
  /\ tick' = [tick EXCEPT ![c].left = @ \ {q},
                          ![c].got = @ \cup Observed(q, world.quotes[clock], tick[c].now, c)]
  /\ UNCHANGED <<clock, world, files, downloads, rows, ticks>>

\* or fails: the provider does, or the context has ended.
QueryFails(c, q) ==
  /\ tick[c].pc = "asking" /\ q \in tick[c].left
  /\ tick' = [tick EXCEPT ![c].left = @ \ {q}, ![c].cut = @ \/ ContextDone(c)]
  /\ UNCHANGED <<clock, world, files, downloads, rows, ticks>>

\* Mutant: the insert has a context of its own.
StoreTickAnyway(c) ==
  /\ tick[c].pc = "asking" /\ tick[c].left = {}
  /\ rows' = Insert(rows, tick[c].got)
  /\ tick' = [tick EXCEPT ![c] = Finished(c)]
  /\ UNCHANGED <<clock, world, files, downloads, ticks>>
\* All four have ended: what they gathered, if anything, is inserted,
StoreTick(c) ==
  /\ tick[c].pc = "asking" /\ tick[c].left = {}
  /\ tick[c].got # {} => ~ContextDone(c)
  /\ rows' = Insert(rows, tick[c].got)
  /\ tick' = [tick EXCEPT ![c] = Finished(c)]
  /\ UNCHANGED <<clock, world, files, downloads, ticks>>

\* or the insert fails, as it must when the context has ended: the tick is lost.
LoseTick(c) ==
  /\ tick[c].pc = "asking" /\ tick[c].left = {} /\ tick[c].got # {}
  /\ tick' = [tick EXCEPT ![c] = Finished(c)]
  /\ UNCHANGED <<clock, world, files, downloads, rows, ticks>>

\* The daemon gets SIGTERM, and exits when its select sees it.
Signal ==
  /\ tick["daemon"].pc # "off" /\ ~tick["daemon"].signalled
  /\ tick' = [tick EXCEPT !["daemon"].signalled = TRUE]
  /\ UNCHANGED <<clock, world, files, downloads, rows, ticks>>
DaemonExits ==
  /\ tick["daemon"].pc = "waiting" /\ tick["daemon"].signalled
  /\ tick' = [tick EXCEPT !["daemon"] = CollectorOff]
  /\ UNCHANGED <<clock, world, files, downloads, rows, ticks>>

CollectorStep ==
  \/ \E c \in Collectors : CollectorStart(c) \/ AuthFails(c) \/ StoreTick(c) \/ LoseTick(c)
  \/ \E c \in Collectors, q \in Queries : QueryAnswered(c, q) \/ QueryFails(c, q)
  \/ TickerFires
  \/ Signal
  \/ DaemonExits

FactsInit ==
  /\ rows = world.rows
  /\ tick = [c \in Collectors |-> CollectorOff]
  /\ ticks = 0

-----------------------------------------------------------------------------
\* A tick that the deadline or a signal cut short never reaches the store, not even
\* what it had gathered before: the store has no tick that lacks an answer for
\* another reason than that its provider failed.
CutTicksAreLost ==
  [][\A c \in Collectors :
       rows' # rows /\ tick[c] # tick'[c] => ~tick[c].cut]_<<rows, tick>>
=============================================================================
