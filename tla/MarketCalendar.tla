--------------------------- MODULE MarketCalendar ---------------------------
(* The trading calendar (internal/market/calendar) and the wall clock the     *)
(* intraday programs read.  A time is a number of minutes since the midnight  *)
(* (KST) of day 0; the limits of the code are whole minutes.                  *)
EXTENDS Integers, Sequences, FiniteSets

CONSTANTS
  Instants,    \* the times the wall clock may show
  Weekend,     \* the days that are Saturdays or Sundays
  MarineDay    \* the one holiday the calendar knows (JPX)

ASSUME CalendarAssumption == Instants \subseteq Nat /\ MarineDay \in Nat

VARIABLES
  clock,     \* the wall clock
  world      \* the instants of the run, what the providers answer at each, how often
             \* each program is started, what the store holds: fixed by Init

NoTime == -1          \* the zero time.Time
NoNum == -1000000     \* a field that is missing or not a number

Day(t) == t \div 1440
MinuteOf(t) == t % 1440
At(day, h, m) == 1440 * day + 60 * h + m
HM(h, m) == 60 * h + m
AbsOf(x) == IF x < 0 THEN -x ELSE x

IsHoliday(venue, day) == venue = "JPX" /\ day = MarineDay

\* The sessions are tested only after the holiday and the weekend.
GetMarketPhase(venue, t, holiday) ==
  LET m == MinuteOf(t) IN
  IF holiday THEN "HOLIDAY"
  ELSE IF Day(t) \in Weekend THEN "CLOSED"
  ELSE CASE venue = "KRX" /\ m \in HM(9, 0) .. HM(15, 20) - 1 -> "CONTINUOUS"
         [] venue = "KRX" /\ m \in HM(15, 20) .. HM(15, 30) -> "CLOSING_AUCTION"
         [] venue = "KRX" /\ m \in HM(15, 30) + 1 .. HM(18, 0) - 1 -> "POST_CLOSE"
         [] venue = "JPX" /\ m \in (HM(9, 0) .. HM(11, 30) - 1) \cup (HM(12, 30) .. HM(15, 0) - 1)
              -> "CONTINUOUS"
         [] venue \notin {"KRX", "JPX"} -> "CONTINUOUS"
         [] OTHER -> "CLOSED"

\* Minutes a quote of the venue stays fresh, and stays usable at all.
FreshLimit(venue) ==
  CASE venue \in {"KRX", "USD/KRW"} -> 2 [] venue = "CBOE" -> 15 [] OTHER -> 5
DelayedLimit(venue) ==
  CASE venue \in {"KRX", "USD/KRW"} -> 5 [] venue = "CBOE" -> 60 [] OTHER -> 15

\* A time later than now counts as fresh here: the fallback for clock skew.
DetermineFreshness(venue, last, now, holiday) ==
  IF holiday THEN "HOLIDAY"
  ELSE IF last = NoTime THEN "UNKNOWN"
  ELSE IF last > now THEN "FRESH"
  ELSE CASE Day(now) \in Weekend -> "STALE"
         [] Day(now) \notin Weekend /\ now - last <= FreshLimit(venue) -> "FRESH"
         [] Day(now) \notin Weekend /\ now - last \in FreshLimit(venue) + 1 .. DelayedLimit(venue)
              -> "DELAYED"
         [] OTHER -> "STALE"

\* The pulse takes no quote from the future.
PulseFreshness(venue, last, now, holiday) ==
  IF last # NoTime /\ last > now THEN "UNKNOWN"
  ELSE DetermineFreshness(venue, last, now, holiday)

Usable(freshness) == freshness \in {"FRESH", "DELAYED"}
SameDay(a, b) == a # NoTime /\ b # NoTime /\ Day(a) = Day(b)

\* The wall clock moves to the next instant of the run.
TickClock ==
  \E t \in world.times :
    /\ t > clock
    /\ \A u \in world.times : u > clock => t <= u
    /\ clock' = t
=============================================================================
