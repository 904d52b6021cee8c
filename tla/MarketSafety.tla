---------------------------- MODULE MarketSafety ----------------------------
(* The market-safety board of the pulse: the two sidecars and the three       *)
(* circuit breakers of each market, from the index and future quotes and the  *)
(* hand-kept file of official events (pulse/market_structure.go).  A device   *)
(* may fire when its window is open, what must come first has come and the    *)
(* quote is recent; an official event overrides every quote.                  *)
EXTENDS MarketCalendar, FiniteSetsExt

Markets == {"KOSPI", "KOSDAQ"}
SidecarDevices == {"SIDECAR_SELL", "SIDECAR_BUY"}
CircuitBreakers == <<"CB1", "CB2", "CB3">>

\* The events of the file that are dated today and name an official source, each by
\* its place; a file that cannot be opened or decoded counts as an empty one.  It is kept
\* by hand: what is written into it after t is not there yet, what was struck out is gone.
LoadOfficialEvents(file, readable, date, t) ==
  LET valid == {i \in DOMAIN file.events : /\ file.events[i].date = date /\ file.events[i].https
                                          /\ file.events[i].seen <= t
                                          /\ file.events[i].gone \notin 0 .. t}
  IN [i \in (IF readable THEN valid ELSE {}) |-> file.events[i]]

EventsOf(events, market, device) ==
  {i \in DOMAIN events : events[i].market = market /\ events[i].device = device}

\* When the device fired, by the first event of it that is not in the future.
TriggerTime(events, market, device, now) ==
  LET past == {i \in EventsOf(events, market, device) : events[i].at # NoTime /\ events[i].at <= now}
  IN IF past = {} THEN NoTime ELSE events[Min(past)].at

\* When it was released, by the last event that says so after the trigger; the
\* third circuit breaker closes the market and is never released.
ReleaseTime(events, market, device, trigger, now) ==
  LET ends == {i \in EventsOf(events, market, device) :
                 events[i].released > trigger /\ events[i].released <= now}
  IN IF device = "CB3" \/ ends = {} THEN NoTime ELSE events[Max(ends)].released

OfficialDevice(events, market, device, trigger, now) ==
  LET release == ReleaseTime(events, market, device, trigger, now)
  IN [market |-> market, device |-> device, verification |-> "OFFICIAL",
      state |-> IF release = NoTime THEN "TRIGGERED" ELSE "RELEASED",
      eligible |-> FALSE, at |-> trigger, released |-> release, gap |-> NoNum]

\* A device that has not fired: the window first, then what must (not) have come
\* before, then the condition.
WaitingState(now, window, allowed, met) ==
  IF MinuteOf(now) < window[1] THEN "NOT_ELIGIBLE"
  ELSE IF MinuteOf(now) > window[2] THEN "EXPIRED_FOR_DAY"
  ELSE IF ~allowed THEN "NOT_ELIGIBLE"
  ELSE IF met THEN "CONDITION_OBSERVED" ELSE "ELIGIBLE"

WaitingDevice(market, device, now, window, allowed, met, gap) ==
  LET state == WaitingState(now, window, allowed, met)
  IN [market |-> market, device |-> device, state |-> state,
      verification |-> IF state = "CONDITION_OBSERVED" THEN "UNCONFIRMED" ELSE "",
      eligible |-> state \in {"CONDITION_OBSERVED", "ELIGIBLE"},
      at |-> NoTime, released |-> NoTime,
      gap |-> IF state = "ELIGIBLE" THEN (IF gap < 0 THEN 0 ELSE gap) ELSE NoNum]

\* Mutant: the freshness of the quote is checked for every device.
EvaluatedAlways(status, freshness) ==
  IF Usable(freshness) THEN status
  ELSE [status EXCEPT !.state = "NOT_EVALUATED", !.eligible = FALSE, !.gap = NoNum]
\* Only an official event stands when the quote is unusable.
Evaluated(status, freshness) ==
  IF status.verification = "OFFICIAL" \/ Usable(freshness) THEN status
  ELSE [status EXCEPT !.state = "NOT_EVALUATED", !.eligible = FALSE, !.gap = NoNum]

FuturesThreshold(market) == IF market = "KOSPI" THEN 5 ELSE 6
SpotThreshold(market) == IF market = "KOSPI" THEN 0 ELSE 3

\* One direction of a market's sidecar, which fires once a day in either direction.
Sidecar(market, device, f, events, now) ==
  LET side == IF device = "SIDECAR_BUY" THEN 1 ELSE -1
      th == FuturesThreshold(market)
      spot == SpotThreshold(market)
      fired == TriggerTime(events, market, device, now)
      any == \E d \in SidecarDevices : TriggerTime(events, market, d, now) # NoTime
      met == side * f.pct >= th /\ (spot = 0 \/ side * f.spotPct >= spot)
  IN Evaluated(IF fired # NoTime
               THEN OfficialDevice(events, market, device, fired, now)
               ELSE WaitingDevice(market, device, now, <<HM(9, 5), HM(14, 50)>>,
                                  ~any, met, th - side * f.pct),
               f.fresh)

Sidecars(market, f, events, now) ==
  IF ~f.ok \/ (SpotThreshold(market) > 0 /\ ~f.spotOK) THEN {}
  ELSE {Sidecar(market, d, f, events, now) : d \in SidecarDevices}

Drop(device) == CASE device = "CB1" -> 8 [] device = "CB2" -> 15 [] device = "CB3" -> 20

\* A circuit breaker; the second and third need the one before to have fired.
CircuitBreaker(market, i, idx, events, now) ==
  LET device == CircuitBreakers[i]
      fired == TriggerTime(events, market, device, now)
      prior == i = 1 \/ TriggerTime(events, market, CircuitBreakers[i - 1], now) # NoTime
      until == IF device = "CB3" THEN HM(15, 30) ELSE HM(14, 50)
  IN Evaluated(IF fired # NoTime
               THEN OfficialDevice(events, market, device, fired, now)
               ELSE WaitingDevice(market, device, now, <<HM(9, 0), until>>, prior,
                                  idx.pct <= -Drop(device), idx.pct + Drop(device)),
               idx.fresh)

Breakers(market, idx, events, now) ==
  IF ~idx.ok THEN {} ELSE {CircuitBreaker(market, i, idx, events, now) : i \in 1 .. 3}

SignOf(x) == IF x > 0 THEN 1 ELSE IF x < 0 THEN -1 ELSE 0

\* Mutant: the directions of futures and spot are not compared.
LegacySidecarUnsigned(market, f) ==
  LET reached == AbsOf(f.pct) >= FuturesThreshold(market)
      spotReached == SpotThreshold(market) = 0 \/ AbsOf(f.spotPct) >= SpotThreshold(market)
  IN IF ~Usable(f.fresh) THEN "NOT_EVALUATED"
     ELSE IF reached /\ spotReached THEN "CONDITION_OBSERVED" ELSE "CONDITION_NOT_OBSERVED"
\* The older board, kept beside the devices: it knows no direction, no window and
\* no event, and a spot threshold must be met on the futures' side.
LegacySidecar(market, f) ==
  LET reached == AbsOf(f.pct) >= FuturesThreshold(market)
      spotReached == \/ SpotThreshold(market) = 0
                     \/ AbsOf(f.spotPct) >= SpotThreshold(market) /\ SignOf(f.pct) = SignOf(f.spotPct)
  IN IF ~Usable(f.fresh) THEN "NOT_EVALUATED"
     ELSE IF reached /\ spotReached THEN "CONDITION_OBSERVED" ELSE "CONDITION_NOT_OBSERVED"

LegacySidecars(fut) ==
  [m \in {n \in Markets : fut[n].ok /\ (SpotThreshold(n) = 0 \/ fut[n].spotOK)}
     |-> LegacySidecar(m, fut[m])]

\* Which drops the index and its day's low have reached.
LegacyBreakers(idx) ==
  [m \in {n \in Markets : idx[n].ok /\ idx[n].low > 0} |->
     LET low == ((idx[m].low - idx[m].prev) * 100) \div idx[m].prev
     IN [now |-> {d \in {8, 15, 20} : idx[m].pct + d <= 0},
         low |-> {d \in {8, 15, 20} : low + d <= 0}]]

BuildMarketSafety(now, events, idx, fut) ==
  [devices |-> UNION {Sidecars(m, fut[m], events, now) \cup Breakers(m, idx[m], events, now) :
                        m \in Markets},
   sidecars |-> LegacySidecars(fut),
   breakers |-> LegacyBreakers(idx)]
=============================================================================
