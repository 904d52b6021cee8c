--------------------------- MODULE MarketDayProofs ---------------------------
(* One market day, for any providers' answers, clocks and invocations: the     *)
(* ticks of the collector, the fallback of a snapshot to the store, the files  *)
(* of the snapshots and of the pulses, what a pulse says of its history, and   *)
(* the master files all of them share.                                         *)
EXTENDS MarketDay, WellFoundedInduction, TLAPS

-----------------------------------------------------------------------------
(* Extremes of sets of numbers.                                                *)

\* A set of naturals that is not empty has a least element, and Min is one.
LEMMA LeastExists ==
  ASSUME NEW S \in SUBSET Nat, S # {}
  PROVE  /\ \E x \in S : \A y \in S : x <= y
         /\ Min(S) \in S /\ \A y \in S : Min(S) <= y
<1> DEFINE R == OpToRel(<, Nat)
<1>1. IsWellFoundedOn(R, Nat)
  BY NatLessThanWellFounded
<1>2. \E x \in S : \A y \in S : ~ (<<y, x>> \in R)
  <2> HIDE DEF R
  <2> QED BY <1>1, WFMin
<1>3. PICK x \in S : \A y \in S : ~ (<<y, x>> \in R)
  BY <1>2
<1>4. ASSUME NEW y \in S PROVE x <= y
  <2>1. x \in Nat /\ y \in Nat /\ <<y, x>> \notin R
    BY <1>3
  <2>2. R = {p \in Nat \X Nat : p[1] < p[2]}
    BY DEF OpToRel
  <2>3. ~ (y < x)
    <3> HIDE DEF R
    <3> QED BY <2>1, <2>2
  <2> HIDE DEF R
  <2> QED BY <2>1, <2>3
<1>5. \E z \in S : \A y \in S : z <= y
  BY <1>4
<1> QED BY <1>5 DEF Min

\* A set of integers with a lower bound has a least element,
LEMMA LeastOfBounded ==
  ASSUME NEW S \in SUBSET Int, S # {}, NEW b \in Int, \A x \in S : b <= x
  PROVE  \E x \in S : \A y \in S : x <= y
<1> DEFINE D == {x - b : x \in S}
<1>1. D \in SUBSET Nat /\ D # {}
  <2>1. ASSUME NEW x \in S PROVE x - b \in Nat
    <3>1. x \in Int /\ b <= x
      OBVIOUS
    <3> QED BY <3>1
  <2> QED BY <2>1
<1>2. \E d \in D : \A e \in D : d <= e
  <2> HIDE DEF D
  <2> QED BY <1>1, LeastExists
<1>3. PICK x \in S : \A e \in D : x - b <= e
  BY <1>2
<1>4. ASSUME NEW y \in S PROVE x <= y
  <2>1. x - b <= y - b
    BY <1>3
  <2> QED BY <2>1
<1> QED BY <1>4

\* and one with an upper bound a greatest.
LEMMA GreatestOfBounded ==
  ASSUME NEW S \in SUBSET Int, S # {}, NEW b \in Int, \A x \in S : x <= b
  PROVE  \E x \in S : \A y \in S : y <= x
<1> DEFINE N == {-x : x \in S}
<1>1. N \in SUBSET Int /\ N # {} /\ (-b) \in Int /\ \A n \in N : -b <= n
  <2>1. ASSUME NEW x \in S PROVE -x \in Int /\ -b <= -x
    <3>1. x \in Int /\ x <= b
      OBVIOUS
    <3> QED BY <3>1
  <2>2. ASSUME NEW n \in N PROVE n \in Int /\ -b <= n
    <3>1. PICK x \in S : n = -x
      OBVIOUS
    <3> QED BY <3>1, <2>1
  <2>3. N # {} /\ -b \in Int
    OBVIOUS
  <2> QED BY <2>2, <2>3
<1>2. \E m \in N : \A n \in N : m <= n
  <2> DEFINE c == -b
  <2> HIDE DEF N, c
  <2> USE <1>1 DEF c
  <2> QED BY <1>1, LeastOfBounded
<1>3. PICK x \in S : \A n \in N : -x <= n
  BY <1>2
<1>4. ASSUME NEW y \in S PROVE y <= x
  <2>1. -x <= -y
    BY <1>3
  <2> QED BY <2>1
<1> QED BY <1>4

-----------------------------------------------------------------------------
(* The clock, the world, and who moves what.                                   *)

OnTheClock == world \in Worlds /\ clock \in world.times

\* The clock shows a time of the world.
LEMMA ClockIsNat ==
  ASSUME OnTheClock PROVE clock \in Nat /\ clock \in Instants
BY WorldsAssumption, CalendarAssumption DEF OnTheClock

\* Each step is the clock's, one program's or a backfill's, and the world stays; the
\* clock only moves forward.
LEMMA WhoMoves ==
  ASSUME [MarketNext]_vars
  PROVE  /\ world' = world
         /\ \/ UNCHANGED vars
            \/ TickClock /\ UNCHANGED <<pulseVars, factsVars, snapVars>>
            \/ clock' = clock /\ (\E p \in Pulses : PulseStep(p)) /\ UNCHANGED <<factsVars, snapVars>>
            \/ clock' = clock /\ CollectorStep /\ UNCHANGED <<pulseVars, snapVars>>
            \/ clock' = clock /\ (\E s \in Snappers : SnapStep(s)) /\ UNCHANGED <<pulseVars, factsVars>>
            \/ /\ clock' = clock /\ (BackfillStart \/ BackfillFile)
               /\ UNCHANGED <<pulseVars, snapVars, tick, ticks>>
<1>1. CASE UNCHANGED vars
  BY <1>1 DEF vars
<1>2. CASE \E p \in Pulses : PulseStep(p) /\ UNCHANGED <<factsVars, snapVars, backfill, backfills>>
  <2>1. PICK p \in Pulses : PulseStep(p)
    BY <1>2
  <2>2. world' = world /\ clock' = clock
    BY <2>1 DEF PulseStep, PulseStart, LookForMaster, DownloadMaster, Gather, Conclude, SaveRecord,
                SaveCutShort, PulseEnd
  <2> QED BY <1>2, <2>2
<1>3. CASE CollectorStep /\ UNCHANGED <<pulseVars, snapVars, backfill, backfills>>
  <2>1. world' = world /\ clock' = clock
    BY <1>3 DEF CollectorStep, CollectorStart, Begin, AuthFails, StoreTick, LoseTick,
                QueryAnswered, QueryFails, TickerFires, Signal, DaemonExits
  <2> QED BY <1>3, <2>1
<1>4. CASE \E s \in Snappers : SnapStep(s) /\ UNCHANGED <<pulseVars, factsVars, backfill, backfills>>
  <2>1. PICK s \in Snappers : SnapStep(s)
    BY <1>4
  <2>2. world' = world /\ clock' = clock
    BY <2>1 DEF SnapStep, SnapStart, SnapLooksForMaster, SnapDownloadsMaster, GatherSections,
                GatherVolatility, ReadFallback, FallbackFails, GatherRest, ArchiveOld,
                ArchiveSkipped, ReplaceSnapshot, SnapshotLost
  <2> QED BY <1>4, <2>2
<1>5. CASE BackfillStart \/ BackfillFile
  BY <1>5 DEF BackfillStart, BackfillFile
<1>6. CASE TickClock /\ UNCHANGED <<world, files, downloads, pulseVars, factsVars, snapVars, backfill, backfills>>
  BY <1>6
<1> QED BY <1>1, <1>2, <1>3, <1>4, <1>5, <1>6 DEF MarketNext

LEMMA ClockStep ==
  ASSUME OnTheClock, [MarketNext]_vars
  PROVE  OnTheClock' /\ clock' \in Nat /\ clock' >= clock
<1>1. world' = world /\ (clock' = clock \/ TickClock)
  BY WhoMoves DEF vars
<1>2. clock' \in world.times /\ clock' >= clock
  <2>1. clock \in Nat /\ clock \in world.times /\ world.times \subseteq Nat
    BY ClockIsNat, WorldsAssumption, CalendarAssumption DEF OnTheClock
  <2>2. CASE clock' = clock
    BY <2>1, <2>2
  <2>3. CASE TickClock
    <3>1. PICK t \in world.times : t > clock /\ clock' = t
      BY <2>3 DEF TickClock
    <3> QED BY <3>1, <2>1
  <2> QED BY <1>1, <2>2, <2>3
<1>3. OnTheClock'
  BY <1>1, <1>2 DEF OnTheClock
<1> QED BY <1>1, <1>2, <1>3, WorldsAssumption, CalendarAssumption DEF OnTheClock

LEMMA ClockInit ==
  ASSUME MarketInit PROVE OnTheClock
<1>1. world \in Worlds /\ clock = Min(world.times)
  BY DEF MarketInit
<1>2. world.times \in SUBSET Nat /\ world.times # {}
  BY <1>1, WorldsAssumption, CalendarAssumption
<1>3. Min(world.times) \in world.times
  BY <1>2, LeastExists
<1> QED BY <1>1, <1>3 DEF OnTheClock

-----------------------------------------------------------------------------
(* The store and the collections.                                              *)

\* An observation has a time, one of VKOSPI a value.
RowSound(r) == r.at \in Int /\ (r.metric = "vkospi.value" => r.value > 0)

\* The days there are files of, and those of the files a backfill will read.
TheDays == {Day(t) : t \in Instants} \cup world.plan.dates
FilesSound == DOMAIN snaps = TheDays /\ \A f \in backfill : f[1] \in Int

\* A collection under way knows its start; one that was cut short knows that its
\* context has ended, and a context that has ended stays ended.
TickFields == {"pc", "now", "signalled", "got", "cut", "left"}
CollectionSound(c) ==
  tick[c].pc # "off" =>
    /\ DOMAIN tick[c] = TickFields /\ tick[c] = [f \in TickFields |-> tick[c][f]]
    /\ tick[c].now \in Int
    /\ tick[c].pc = "asking" => /\ tick[c].cut => ContextDone(c)
                                /\ \A r \in tick[c].got : RowSound(r)
StoreSound ==
  /\ tick = [c \in Collectors |-> tick[c]]
  /\ \A c \in Collectors : CollectionSound(c)
  /\ \A r \in rows : RowSound(r)

StoreInv == OnTheClock /\ FilesSound /\ StoreSound

LEMMA DaysAreInts ==
  ASSUME OnTheClock PROVE TheDays \subseteq Int
<1>1. world.plan.dates \subseteq Nat /\ Instants \subseteq Nat
  BY WorldsAssumption, CalendarAssumption DEF OnTheClock
<1>2. \A t \in Nat : Day(t) \in Int
  BY DEF Day
<1> QED BY <1>1, <1>2 DEF TheDays

\* What an answer is stored as is sound.
LEMMA ObservedSound ==
  ASSUME NEW q \in Queries, NEW a, NEW at \in Int, NEW by
  PROVE  \A r \in Observed(q, a, at, by) : RowSound(r)
<1> SUFFICES ASSUME NEW r \in Observed(q, a, at, by) PROVE RowSound(r)
  OBVIOUS
<1>1. ASSUME NEW m, NEW v PROVE /\ Observation(m, v, at, by).metric = m
                                /\ Observation(m, v, at, by).at = at
                                /\ Observation(m, v, at, by).value = v
  BY DEF Observation
<1>2. CASE q = "vkospi"
  <2>1. r = Observation("vkospi.value", a.vkospi.value, at, by) /\ a.vkospi.value > 0
    BY <1>2 DEF Observed
  <2> QED BY <2>1, <1>1 DEF RowSound
<1>3. CASE q = "kospi"
  <2>1. r = Observation("kospi.index", a.idx["KOSPI"].price, at, by)
    BY <1>3 DEF Observed
  <2> QED BY <2>1, <1>1 DEF RowSound
<1>4. CASE q = "kosdaq"
  <2>1. r = Observation("kosdaq.index", a.idx["KOSDAQ"].price, at, by)
    BY <1>4 DEF Observed
  <2> QED BY <2>1, <1>1 DEF RowSound
<1>5. CASE q = "investor"
  <2>1. PICK k \in DOMAIN FlowMetrics : r = Observation(FlowMetrics[k], a.investor[k], at, by)
    BY <1>5 DEF Observed
  <2>2. FlowMetrics[k] # "vkospi.value"
    BY DEF FlowMetrics
  <2> QED BY <2>1, <2>2, <1>1 DEF RowSound
<1> QED BY <1>2, <1>3, <1>4, <1>5 DEF Queries

\* Beginning a collection.
LEMMA BeginStep ==
  ASSUME StoreInv, NEW c \in Collectors, NEW signalled, Begin(c, signalled), clock' = clock
  PROVE  StoreSound'
<1>1. PICK pc, left : tick' = [tick EXCEPT ![c] =
          [pc |-> pc, now |-> clock, signalled |-> signalled, got |-> {}, cut |-> FALSE,
           left |-> left]]
  BY DEF Begin
<1>2. rows' = rows /\ clock' = clock
  BY DEF Begin
<1>3. /\ tick'[c] = [pc |-> pc, now |-> clock, signalled |-> signalled, got |-> {}, cut |-> FALSE,
                    left |-> left]
      /\ \A d \in Collectors \ {c} : tick'[d] = tick[d]
      /\ tick' = [d \in Collectors |-> tick'[d]]
  BY <1>1 DEF StoreInv, StoreSound
<1>4. CollectionSound(c)'
  <2>1. clock \in Int
    BY ClockIsNat DEF StoreInv
  <2>2. /\ tick'[c].now = clock /\ tick'[c].cut = FALSE /\ tick'[c].got = {}
        /\ DOMAIN tick'[c] = TickFields /\ tick'[c] = [f \in TickFields |-> tick'[c][f]]
    <3> DEFINE e == [pc |-> pc, now |-> clock, signalled |-> signalled, got |-> {}, cut |-> FALSE,
                     left |-> left]
    <3>1. /\ e.now = clock /\ e.cut = FALSE /\ e.got = {}
          /\ DOMAIN e = TickFields /\ e = [f \in TickFields |-> e[f]]
      BY DEF TickFields
    <3>2. tick'[c] = e
      BY <1>3
    <3> HIDE DEF e
    <3> QED BY <3>1, <3>2
  <2> QED BY <2>1, <2>2 DEF CollectionSound
<1>5. ASSUME NEW d \in Collectors \ {c} PROVE CollectionSound(d)'
  BY <1>2, <1>3, <1>5 DEF CollectionSound, StoreInv, StoreSound, ContextDone
<1> QED BY <1>2, <1>3, <1>4, <1>5 DEF StoreSound, StoreInv

\* A step of a collection under way that changes some of its fields.
LEMMA CollectionStep ==
  ASSUME StoreInv, NEW c \in Collectors, clock' = clock, tick[c].pc # "off",
         NEW e, tick' = [tick EXCEPT ![c] = e],
         \A r \in rows' : RowSound(r),
         e.pc # "off" =>
           /\ DOMAIN e = TickFields /\ e = [f \in TickFields |-> e[f]] /\ e.now = tick[c].now
           /\ e.pc = "asking" =>
                /\ e.cut => IF c = "once" THEN clock >= e.now + Deadline ELSE e.signalled
                /\ \A r \in e.got : RowSound(r)
  PROVE  StoreSound'
<1>1. /\ tick'[c] = e /\ \A d \in Collectors \ {c} : tick'[d] = tick[d]
      /\ tick' = [d \in Collectors |-> tick'[d]]
  BY DEF StoreInv, StoreSound
<1>2. CollectionSound(c)'
  BY <1>1 DEF CollectionSound, StoreInv, StoreSound, ContextDone
<1>3. ASSUME NEW d \in Collectors \ {c} PROVE CollectionSound(d)'
  BY <1>1, <1>3 DEF CollectionSound, StoreInv, StoreSound, ContextDone
<1> QED BY <1>1, <1>2, <1>3 DEF StoreSound

LEMMA CollectorSteps ==
  ASSUME StoreInv, CollectorStep, clock' = clock
  PROVE  StoreSound'
<1>1. ASSUME NEW c \in Collectors, CollectorStart(c) PROVE StoreSound'
  BY <1>1, BeginStep DEF CollectorStart
<1>2. CASE TickerFires
  BY <1>2, BeginStep DEF TickerFires, Collectors
<1>3. ASSUME NEW c \in Collectors,
             tick[c].pc = "asking", tick' = [tick EXCEPT ![c] = Finished(c)],
             rows' = rows \/ rows' = Insert(rows, tick[c].got)
      PROVE  StoreSound'
  <2> DEFINE e == Finished(c)
  <2>1. CollectionSound(c)
    BY DEF StoreInv, StoreSound
  <2>2. /\ DOMAIN e = TickFields /\ e = [f \in TickFields |-> e[f]] /\ e.now = tick[c].now
        /\ e.pc # "asking"
    BY <1>3, <2>1 DEF Finished, CollectionSound, TickFields
  <2>3. rows' \subseteq rows \cup tick[c].got
    BY <1>3 DEF Insert
  <2>4. \A r \in rows' : RowSound(r)
    BY <1>3, <2>1, <2>3 DEF StoreInv, StoreSound, CollectionSound
  <2> HIDE DEF e
  <2>5. tick' = [tick EXCEPT ![c] = e]
    BY <1>3 DEF e
  <2> QED BY <1>3, <2>2, <2>4, <2>5, CollectionStep
<1>4. ASSUME NEW c \in Collectors, AuthFails(c) \/ StoreTick(c) \/ LoseTick(c) PROVE StoreSound'
  BY <1>3, <1>4 DEF AuthFails, StoreTick, LoseTick
<1>5. ASSUME NEW c \in Collectors, NEW q \in Queries, QueryAnswered(c, q) PROVE StoreSound'
  <2> DEFINE new == Observed(q, world.quotes[clock], tick[c].now, c)
             e == [tick[c] EXCEPT !.left = @ \ {q}, !.got = @ \cup new]
  <2>1. CollectionSound(c) /\ tick[c].pc = "asking"
    BY <1>5 DEF StoreInv, StoreSound, QueryAnswered
  <2>2. \A r \in new : RowSound(r)
    BY <2>1, ObservedSound DEF CollectionSound
  <2>3. tick' = [tick EXCEPT ![c] = e] /\ rows' = rows
    BY <1>5, <2>1 DEF QueryAnswered, CollectionSound, TickFields
  <2> HIDE DEF new
  <2>4. /\ DOMAIN e = TickFields /\ e = [f \in TickFields |-> e[f]]
        /\ e.now = tick[c].now /\ e.cut = tick[c].cut /\ e.signalled = tick[c].signalled
        /\ e.got = tick[c].got \cup new
    BY <2>1 DEF CollectionSound, TickFields
  <2> HIDE DEF e
  <2>5. \A r \in rows' : RowSound(r)
    BY <2>3 DEF StoreInv, StoreSound
  <2>6. e.cut => IF c = "once" THEN clock >= e.now + Deadline ELSE e.signalled
    BY <2>1, <2>4 DEF CollectionSound, ContextDone
  <2>7. \A r \in e.got : RowSound(r)
    BY <2>1, <2>2, <2>4 DEF CollectionSound
  <2> QED BY <2>1, <2>3, <2>4, <2>5, <2>6, <2>7, CollectionStep
<1>6. ASSUME NEW c \in Collectors, NEW q \in Queries, QueryFails(c, q) PROVE StoreSound'
  <2> DEFINE e == [tick[c] EXCEPT !.left = @ \ {q}, !.cut = @ \/ ContextDone(c)]
  <2>1. CollectionSound(c) /\ tick[c].pc = "asking"
    BY <1>6 DEF StoreInv, StoreSound, QueryFails
  <2>2. tick' = [tick EXCEPT ![c] = e] /\ rows' = rows
    BY <1>6, <2>1 DEF QueryFails, CollectionSound, TickFields
  <2>3. /\ DOMAIN e = TickFields /\ e = [f \in TickFields |-> e[f]]
        /\ e.now = tick[c].now /\ e.got = tick[c].got /\ e.signalled = tick[c].signalled
        /\ e.cut = (tick[c].cut \/ ContextDone(c))
    BY <2>1 DEF CollectionSound, TickFields
  <2> HIDE DEF e
  <2>4. \A r \in rows' : RowSound(r)
    BY <2>2 DEF StoreInv, StoreSound
  <2>5. e.cut => IF c = "once" THEN clock >= e.now + Deadline ELSE e.signalled
    BY <2>1, <2>3 DEF CollectionSound, ContextDone
  <2>6. \A r \in e.got : RowSound(r)
    BY <2>1, <2>3 DEF CollectionSound
  <2> QED BY <2>1, <2>2, <2>3, <2>4, <2>5, <2>6, CollectionStep
<1>7. CASE Signal
  <2> DEFINE c == "daemon"
             e == [tick[c] EXCEPT !.signalled = TRUE]
  <2>1. c \in Collectors /\ CollectionSound(c) /\ tick[c].pc # "off"
    BY <1>7 DEF StoreInv, StoreSound, Signal, Collectors
  <2>2. tick' = [tick EXCEPT ![c] = e] /\ rows' = rows
    BY <1>7, <2>1 DEF Signal
  <2>3. /\ DOMAIN e = TickFields /\ e = [f \in TickFields |-> e[f]]
        /\ e.now = tick[c].now /\ e.got = tick[c].got /\ e.signalled /\ e.pc = tick[c].pc
    BY <2>1 DEF CollectionSound, TickFields
  <2> HIDE DEF e
  <2>4. \A r \in rows' : RowSound(r)
    BY <2>2 DEF StoreInv, StoreSound
  <2>5. e.pc = "asking" => \A r \in e.got : RowSound(r)
    BY <2>1, <2>3 DEF CollectionSound
  <2> QED BY <2>1, <2>2, <2>3, <2>4, <2>5, CollectionStep
<1>8. CASE DaemonExits
  <2>1. "daemon" \in Collectors /\ tick["daemon"].pc # "off"
    BY <1>8 DEF DaemonExits, Collectors
  <2>2. tick' = [tick EXCEPT !["daemon"] = CollectorOff] /\ rows' = rows /\ CollectorOff.pc = "off"
    BY <1>8 DEF DaemonExits, CollectorOff
  <2>3. \A r \in rows' : RowSound(r)
    BY <2>2 DEF StoreInv, StoreSound
  <2> HIDE DEF CollectorOff
  <2> QED BY <2>1, <2>2, <2>3, CollectionStep
<1> QED BY <1>1, <1>2, <1>4, <1>5, <1>6, <1>7, <1>8 DEF CollectorStep

LEMMA BackfillSteps ==
  ASSUME StoreInv, BackfillStart \/ BackfillFile, UNCHANGED <<pulseVars, snapVars, tick, ticks>>
  PROVE  FilesSound' /\ StoreSound'
<1>1. clock' = clock /\ world' = world /\ tick' = tick /\ snaps' = snaps
  BY DEF BackfillStart, BackfillFile, snapVars
<1>2. (\A r \in rows' : RowSound(r)) /\ (\A f \in backfill' : f[1] \in Int)
  <2>1. CASE BackfillStart
    <3>1. rows' = rows
      BY <2>1 DEF BackfillStart, PulseRows, Insert
    <3>2. backfill' = SnapshotFiles
      BY <2>1 DEF BackfillStart
    <3>3. \A f \in SnapshotFiles : f[1] \in DOMAIN snaps
      BY DEF SnapshotFiles
    <3> QED BY <3>1, <3>2, <3>3, DaysAreInts DEF StoreInv, StoreSound, FilesSound
  <2>2. CASE BackfillFile
    <3>1. PICK f \in backfill :
            \E content, put : /\ put \in {{}, IF content.vk.value > 0
                                THEN {Observation("vkospi.value", content.vk.value,
                                                  At(f[1], 15, 30), "backfill")}
                                ELSE {}}
                             /\ rows' = Insert(rows, put)
                             /\ backfill' = backfill \ {f}
      BY <2>2 DEF BackfillFile
    <3>2. PICK content, put : /\ put \in {{}, IF content.vk.value > 0
                                THEN {Observation("vkospi.value", content.vk.value,
                                                  At(f[1], 15, 30), "backfill")}
                                ELSE {}}
                             /\ rows' = Insert(rows, put)
                             /\ backfill' = backfill \ {f}
      BY <3>1
    <3>3. At(f[1], 15, 30) \in Int
      BY DEF StoreInv, FilesSound, At
    <3>4. \A r \in put : RowSound(r)
      BY <3>2, <3>3 DEF Observation, RowSound
    <3>5. rows' \subseteq rows \cup put
      BY <3>2 DEF Insert
    <3> QED BY <3>2, <3>4, <3>5 DEF StoreInv, StoreSound, FilesSound
  <2> QED BY <2>1, <2>2
<1>3. TheDays' = TheDays
  BY <1>1 DEF TheDays
<1>4. \A c \in Collectors : CollectionSound(c)'
  BY <1>1 DEF StoreInv, StoreSound, CollectionSound, ContextDone
<1> QED BY <1>1, <1>2, <1>3, <1>4 DEF StoreInv, StoreSound, FilesSound

\* The days of the snapshots' files stay, and what a backfill has still to read.
LEMMA FilesStay ==
  ASSUME StoreInv, [MarketNext]_vars PROVE FilesSound'
<1>1. world' = world /\ TheDays' = TheDays
  BY WhoMoves DEF TheDays
<1>2. CASE BackfillStart \/ BackfillFile
  BY <1>2, BackfillSteps DEF BackfillStart, BackfillFile
<1>3. ASSUME NEW s \in Snappers, SnapStep(s) PROVE DOMAIN snaps' = DOMAIN snaps
  <2>1. CASE ArchiveOld(s)
    BY <2>1 DEF ArchiveOld
  <2>2. CASE ReplaceSnapshot(s)
    BY <2>2 DEF ReplaceSnapshot
  <2>3. CASE ~ (ArchiveOld(s) \/ ReplaceSnapshot(s))
    BY <1>3, <2>3 DEF SnapStep, SnapStart, SnapLooksForMaster, SnapDownloadsMaster, GatherSections,
                GatherVolatility, ReadFallback, FallbackFails, GatherRest, ArchiveSkipped, SnapshotLost
  <2> QED BY <2>1, <2>2, <2>3
<1>4. CASE ~ (BackfillStart \/ BackfillFile)
  <2>1. backfill' = backfill
    BY <1>4 DEF MarketNext, vars
  <2>2. DOMAIN snaps' = DOMAIN snaps
    BY <1>3, <1>4, WhoMoves DEF vars, snapVars
  <2> QED BY <1>1, <2>1, <2>2 DEF StoreInv, FilesSound
<1> QED BY <1>2, <1>4

LEMMA StoreInductive ==
  ASSUME StoreInv, [MarketNext]_vars PROVE StoreInv'
<1>1. OnTheClock' /\ clock' \in Nat /\ clock' >= clock /\ clock \in Nat
  BY ClockStep, ClockIsNat DEF StoreInv
<1>2. FilesSound'
  BY FilesStay
<1>3. ASSUME tick' = tick, rows' = rows PROVE StoreSound'
  <2>1. ASSUME NEW c \in Collectors PROVE CollectionSound(c)'
    <3>1. CASE tick[c].pc = "off"
      BY <1>3, <3>1 DEF CollectionSound
    <3>2. CASE tick[c].pc # "off"
      <4>1. CollectionSound(c) /\ tick[c].now \in Int
        BY <3>2 DEF StoreInv, StoreSound, CollectionSound
      <4>2. ContextDone(c) => ContextDone(c)'
        BY <1>1, <1>3, <4>1 DEF ContextDone, Deadline
      <4> QED BY <1>3, <4>1, <4>2 DEF CollectionSound
    <3> QED BY <3>1, <3>2
  <2> QED BY <1>3, <2>1 DEF StoreSound, StoreInv
<1>4. ASSUME clock' = clock, CollectorStep PROVE StoreSound'
  BY <1>4, CollectorSteps
<1>5. ASSUME BackfillStart \/ BackfillFile, UNCHANGED <<pulseVars, snapVars, tick, ticks>>
      PROVE  StoreSound'
  BY <1>5, BackfillSteps
<1>6. StoreSound'
  BY <1>3, <1>4, <1>5, WhoMoves DEF vars, factsVars
<1> QED BY <1>1, <1>2, <1>6 DEF StoreInv

LEMMA StoreInit ==
  ASSUME MarketInit PROVE StoreInv
<1>1. OnTheClock
  BY ClockInit
<1>2. StoreSound
  BY <1>1, WorldsAssumption DEF MarketInit, FactsInit, StoreSound, CollectionSound, CollectorOff,
                           RowSound, OnTheClock
<1>3. FilesSound
  BY DEF MarketInit, SnapInit, FilesSound, TheDays
<1> QED BY <1>1, <1>2, <1>3 DEF StoreInv

LEMMA StoreAlways == MarketSpec => []StoreInv
<1>1. MarketInit => StoreInv
  BY StoreInit
<1>2. StoreInv /\ [MarketNext]_vars => StoreInv'
  BY StoreInductive
<1> QED BY <1>1, <1>2, PTL DEF MarketSpec

\* Only a collection that was not cut short changes the store, when it ends.
LEMMA CutLeavesStore ==
  ASSUME StoreInv, [MarketNext]_vars, NEW c \in Collectors, rows' # rows, tick[c] # tick'[c]
  PROVE  ~tick[c].cut
<1>1. CollectorStep
  BY WhoMoves DEF vars, factsVars
<1>2. PICK d \in Collectors : StoreTick(d)
  BY <1>1 DEF CollectorStep, CollectorStart, Begin, AuthFails, LoseTick,
                QueryAnswered, QueryFails, TickerFires, Signal, DaemonExits
<1>3. c = d
  BY <1>2 DEF StoreTick, StoreInv, StoreSound
<1>4. tick[c].got # {}
  BY <1>2, <1>3 DEF StoreTick, Insert
<1>5. ~ContextDone(c) /\ tick[c].pc = "asking"
  BY <1>2, <1>3, <1>4 DEF StoreTick
<1> QED BY <1>5 DEF StoreInv, StoreSound, CollectionSound

\* A collection that its deadline or a signal cut short (cmd/market-collector) never
\* reaches the store, whatever the providers answer and however long that takes: the
\* insert runs under the context that the cut has ended.
THEOREM CutTicksNeverStored == MarketSpec => CutTicksAreLost
<1>1. StoreInv /\ [MarketNext]_vars =>
        [\A c \in Collectors : rows' # rows /\ tick[c] # tick'[c] => ~tick[c].cut]_<<rows, tick>>
  BY CutLeavesStore
<1> QED BY <1>1, StoreAlways, PTL DEF MarketSpec, CutTicksAreLost

-----------------------------------------------------------------------------
(* The snapshots.                                                              *)

LEMMA WithIs ==
  ASSUME NEW f, NEW g
  PROVE  /\ DOMAIN With(f, g) = DOMAIN f \cup DOMAIN g
         /\ \A x \in DOMAIN g : With(f, g)[x] = g[x]
         /\ \A x \in DOMAIN f \ DOMAIN g : With(f, g)[x] = f[x]
BY DEF With

\* An invocation under way has a time and a date; one that turns to the store shows
\* what the providers had.
SnapshotSound(s) ==
  snap[s].pc # "idle" =>
    /\ snap[s].now \in Int /\ snap[s].date \in TheDays
    /\ {"pc", "now", "date"} \subseteq DOMAIN snap[s]
    /\ snap[s].pc \notin {"started", "sections"} => "vk" \in DOMAIN snap[s]
SnapsSound == snap = [s \in Snappers |-> snap[s]] /\ \A s \in Snappers : SnapshotSound(s)

\* What one step makes of an invocation: e with the fields it must have, or idle.
Carries(e, c) ==
  \/ e.pc = "idle"
  \/ /\ {"pc", "now", "date"} \subseteq DOMAIN e /\ e.now = c.now /\ e.date = c.date
     /\ e.pc \notin {"started", "sections"} => "vk" \in DOMAIN e

Begun(e) ==
  /\ e.pc = "started" /\ DOMAIN e = {"pc", "now", "date", "tried", "spot"}
  /\ e.now = clock /\ e.date \in TheDays
MadeOf(e, c) == IF c.pc = "idle" THEN Begun(e) ELSE Carries(e, c)
BecomesBy(e, s) ==
  snap' = [snap EXCEPT ![s] = e] /\ (e.pc = "archived" => ArchiveOld(s) \/ ArchiveSkipped(s))

LEMMA SnapStepCarries ==
  ASSUME StoreInv, SnapsSound, NEW s \in Snappers, SnapStep(s)
  PROVE  \E e : MadeOf(e, snap[s]) /\ BecomesBy(e, s)
<1> DEFINE c == snap[s]
<1>0. SnapshotSound(s) /\ snap = [t \in Snappers |-> snap[t]]
  BY DEF SnapsSound
<1>1. CASE SnapStart(s)
  <2>1. PICK date \in {Day(clock)} \cup world.plan.dates :
          snap' = [snap EXCEPT ![s] = [pc |-> "started", now |-> clock, date |-> date,
                                       tried |-> {}, spot |-> NoSection]]
    BY <1>1 DEF SnapStart
  <2>2. date \in TheDays
    BY ClockIsNat DEF TheDays, StoreInv
  <2>3. snap[s].pc = "idle"
    BY <1>1 DEF SnapStart
  <2> DEFINE e == [pc |-> "started", now |-> clock, date |-> date, tried |-> {}, spot |-> NoSection]
  <2>4. /\ e.pc = "started" /\ DOMAIN e = {"pc", "now", "date", "tried", "spot"}
        /\ e.now = clock /\ e.date = date
    OBVIOUS
  <2>5. snap' = [snap EXCEPT ![s] = e]
    BY <2>1
  <2> HIDE DEF e
  <2> QED BY <2>2, <2>3, <2>4, <2>5 DEF MadeOf, BecomesBy, Begun
<1>2. CASE GatherSections(s)
  <2>1. PICK session, price, flow, global, macro, impact, chips :
          snap' = [snap EXCEPT ![s] =
             [pc |-> "sections", now |-> c.now, date |-> c.date, tried |-> c.tried,
              spot |-> c.spot, session |-> session,
              price |-> price, flow |-> flow, global |-> global, macro |-> macro,
              impact |-> impact, chips |-> chips]]
    BY <1>2 DEF GatherSections
  <2> DEFINE e == [pc |-> "sections", now |-> c.now, date |-> c.date, tried |-> c.tried,
                   spot |-> c.spot, session |-> session,
                   price |-> price, flow |-> flow, global |-> global, macro |-> macro,
                   impact |-> impact, chips |-> chips]
  <2>2. {"pc", "now", "date"} \subseteq DOMAIN e /\ e.now = c.now /\ e.date = c.date
        /\ e.pc = "sections"
    OBVIOUS
  <2>3. snap' = [snap EXCEPT ![s] = e]
    BY <2>1
  <2> HIDE DEF e, c
  <2>4. Carries(e, c)
    BY <2>2 DEF Carries
  <2>5. c.pc = "started"
    BY <1>2 DEF GatherSections, c
  <2> QED BY <2>2, <2>3, <2>4, <2>5 DEF c, MadeOf, BecomesBy
<1>3. CASE GatherVolatility(s)
  <2>1. PICK pc \in {"fallback", "volatility"} : \E vk, vix, change, mean :
          snap' = [snap EXCEPT ![s] = With(c,
             [pc |-> pc, vk |-> vk, vix |-> vix, change |-> change, mean |-> mean])]
    BY <1>3, <1>0 DEF GatherVolatility
  <2>0. PICK vk, vix, change, mean :
          snap' = [snap EXCEPT ![s] = With(c,
             [pc |-> pc, vk |-> vk, vix |-> vix, change |-> change, mean |-> mean])]
    BY <2>1
  <2> DEFINE g == [pc |-> pc, vk |-> vk, vix |-> vix, change |-> change, mean |-> mean]
             e == With(c, g)
  <2>2. DOMAIN g = {"pc", "vk", "vix", "change", "mean"} /\ g.pc # "archived"
    OBVIOUS
  <2>3. snap' = [snap EXCEPT ![s] = e]
    BY <2>0
  <2>4. c.pc = "sections"
    BY <1>3 DEF GatherVolatility
  <2> HIDE DEF g
  <2>5. /\ DOMAIN e = DOMAIN c \cup DOMAIN g
        /\ \A x \in DOMAIN c \ DOMAIN g : e[x] = c[x]
        /\ \A x \in DOMAIN g : e[x] = g[x]
    BY WithIs
  <2> HIDE DEF e, c
  <2>6. {"pc", "now", "date"} \subseteq DOMAIN c
    BY <1>0, <2>4 DEF SnapshotSound, c
  <2>7. Carries(e, c)
    BY <2>2, <2>5, <2>6 DEF Carries
  <2>8. e.pc # "archived"
    BY <2>2, <2>5
  <2> QED BY <2>3, <2>4, <2>7, <2>8 DEF c, MadeOf, BecomesBy
<1>4. CASE ReadFallback(s)
  <2>1. c.pc = "fallback"
    BY <1>4 DEF ReadFallback
  <2>2. PICK v : snap' = [snap EXCEPT ![s] = [c EXCEPT !.pc = "volatility", !.vk = v]]
    BY <1>4, <1>0 DEF ReadFallback
  <2> DEFINE e == [c EXCEPT !.pc = "volatility", !.vk = v]
  <2>3. DOMAIN e = DOMAIN c /\ e.now = c.now /\ e.date = c.date /\ {"now", "date"} \subseteq DOMAIN c
    BY <1>0, <2>1 DEF SnapshotSound
  <2>4. Carries(e, c)
    BY <1>0, <2>1, <2>3 DEF SnapshotSound, Carries
  <2>5. e.pc = "volatility"
    BY <1>0, <2>1 DEF SnapshotSound
  <2> HIDE DEF e
  <2> QED BY <2>1, <2>2, <2>4, <2>5 DEF MadeOf, BecomesBy, e
<1>5. CASE FallbackFails(s)
  <2>1. c.pc = "fallback"
    BY <1>5 DEF FallbackFails
  <2>2. snap' = [snap EXCEPT ![s] = [c EXCEPT !.pc = "volatility"]]
    BY <1>5, <1>0 DEF FallbackFails
  <2> DEFINE e == [c EXCEPT !.pc = "volatility"]
  <2>3. DOMAIN e = DOMAIN c /\ e.now = c.now /\ e.date = c.date
    BY <1>0, <2>1 DEF SnapshotSound
  <2>4. Carries(e, c)
    BY <1>0, <2>1, <2>3 DEF SnapshotSound, Carries
  <2>5. e.pc = "volatility"
    BY <1>0, <2>1 DEF SnapshotSound
  <2> HIDE DEF e
  <2> QED BY <2>1, <2>2, <2>4, <2>5 DEF MadeOf, BecomesBy, e
<1>6. CASE GatherRest(s)
  <2>0. PICK g0 : /\ snap' = [snap EXCEPT ![s] = With(c, g0)]
                  /\ \E credit, regime, level, concentration, late, completed :
                       g0 = [pc |-> "ready", credit |-> credit, regime |-> regime, level |-> level,
                             concentration |-> concentration, late |-> late, completed |-> completed]
    <3> DEFINE q == world.quotes[clock]
               today == c.date = Day(c.now)
               contract == ResolvedContract(c, "late", "KOSPI", c.date)
               universe == KOSPIIndexMarketCapSummary(c, "concentration", c.date)
               credit == CreditSection(q.funds, GetMarketFundsForDate(c.date, q.kofia), c.date)
               regime == CollectRegime(c.price)
               level == IF c.vk.value > 0 THEN VKOSPILevel(c.vk.value) ELSE ""
               concentration == IF today THEN ConcentrationSection(universe, c.date) ELSE NoSection
               late == IF today THEN LateSession([q EXCEPT !.k200 = SpotOf(c)], contract, c.date)
                       ELSE <<>>
               g0 == [pc |-> "ready", credit |-> credit, regime |-> regime, level |-> level,
                      concentration |-> concentration, late |-> late, completed |-> clock]
    <3>1. snap' = [snap EXCEPT ![s] = With(c, g0)]
      BY <1>6, <1>0 DEF GatherRest
    <3> HIDE DEF credit, regime, level, concentration, late
    <3> QED BY <3>1
  <2>1. PICK credit, regime, level, concentration, late, completed :
          snap' = [snap EXCEPT ![s] = With(c,
             [pc |-> "ready", credit |-> credit, regime |-> regime, level |-> level,
              concentration |-> concentration, late |-> late, completed |-> completed])]
    BY <2>0
  <2> DEFINE g == [pc |-> "ready", credit |-> credit, regime |-> regime, level |-> level,
                   concentration |-> concentration, late |-> late, completed |-> completed]
             e == With(c, g)
  <2>2. /\ DOMAIN g = {"pc", "credit", "regime", "level", "concentration", "late", "completed"}
        /\ g.pc # "archived"
    OBVIOUS
  <2>3. snap' = [snap EXCEPT ![s] = e]
    BY <2>1
  <2>4. c.pc = "volatility"
    BY <1>6 DEF GatherRest
  <2> HIDE DEF g
  <2>5. /\ DOMAIN e = DOMAIN c \cup DOMAIN g
        /\ \A x \in DOMAIN c \ DOMAIN g : e[x] = c[x]
        /\ \A x \in DOMAIN g : e[x] = g[x]
    BY WithIs
  <2> HIDE DEF e, c
  <2>6. {"pc", "now", "date", "vk"} \subseteq DOMAIN c
    BY <1>0, <2>4 DEF SnapshotSound, c
  <2>7. Carries(e, c)
    BY <2>2, <2>5, <2>6 DEF Carries
  <2>8. e.pc # "archived"
    BY <2>2, <2>5
  <2> QED BY <2>3, <2>4, <2>7, <2>8 DEF c, MadeOf, BecomesBy
<1>7. CASE ArchiveOld(s) \/ ArchiveSkipped(s)
  <2>1. PICK before : snap' = [snap EXCEPT ![s] = With(c, [pc |-> "archived", before |-> before])]
    BY <1>7, <1>0 DEF ArchiveOld, ArchiveSkipped
  <2> DEFINE g == [pc |-> "archived", before |-> before]
             e == With(c, g)
  <2>2. DOMAIN g = {"pc", "before"}
    OBVIOUS
  <2>3. snap' = [snap EXCEPT ![s] = e]
    BY <2>1
  <2>4. c.pc = "ready"
    BY <1>7 DEF ArchiveOld, ArchiveSkipped
  <2> HIDE DEF g
  <2>5. /\ DOMAIN e = DOMAIN c \cup DOMAIN g
        /\ \A x \in DOMAIN c \ DOMAIN g : e[x] = c[x]
        /\ \A x \in DOMAIN g : e[x] = g[x]
    BY WithIs
  <2> HIDE DEF e, c
  <2>6. {"pc", "now", "date", "vk"} \subseteq DOMAIN c
    BY <1>0, <2>4 DEF SnapshotSound, c
  <2>7. Carries(e, c)
    BY <2>2, <2>5, <2>6 DEF Carries
  <2> QED BY <1>7, <2>3, <2>4, <2>7 DEF c, MadeOf, BecomesBy
<1>8. CASE ReplaceSnapshot(s) \/ SnapshotLost(s)
  <2>1. snap' = [snap EXCEPT ![s] = SnapIdle] /\ Carries(SnapIdle, c) /\ c.pc # "idle"
    BY <1>8 DEF ReplaceSnapshot, SnapshotLost, SnapIdle, Carries
  <2>2. SnapIdle.pc # "archived"
    BY DEF SnapIdle
  <2> QED BY <2>1, <2>2 DEF MadeOf, BecomesBy
<1>9. CASE SnapLooksForMaster(s) \/ SnapDownloadsMaster(s)
  <2>1. c.pc \in {"started", "volatility"}
    BY <1>9 DEF SnapLooksForMaster, SnapDownloadsMaster
  <2>2. PICK field \in {"spot", "tried"} : \E x : snap' = [snap EXCEPT ![s] = [c EXCEPT ![field] = x]]
    BY <1>9, <1>0 DEF SnapLooksForMaster, SnapDownloadsMaster
  <2>3. PICK x : snap' = [snap EXCEPT ![s] = [c EXCEPT ![field] = x]]
    BY <2>2
  <2> DEFINE e == [c EXCEPT ![field] = x]
  <2>4. DOMAIN e = DOMAIN c /\ e.pc = c.pc /\ e.now = c.now /\ e.date = c.date
    BY <1>0, <2>1 DEF SnapshotSound
  <2> HIDE DEF e
  <2>5. Carries(e, c)
    BY <1>0, <2>1, <2>4 DEF SnapshotSound, Carries
  <2> QED BY <2>1, <2>3, <2>4, <2>5 DEF MadeOf, BecomesBy, e
<1> QED BY <1>1, <1>2, <1>3, <1>4, <1>5, <1>6, <1>7, <1>8, <1>9 DEF SnapStep

SnapInv == StoreInv /\ SnapsSound

LEMMA SnapsInductive ==
  ASSUME SnapInv, [MarketNext]_vars PROVE SnapInv'
<1> USE DEF SnapInv
<1>1. StoreInv'
  BY StoreInductive
<1>2. TheDays' = TheDays /\ clock \in Int
  BY WhoMoves, ClockIsNat DEF TheDays, StoreInv
<1>3. ASSUME snap' = snap PROVE SnapsSound'
  BY <1>2, <1>3 DEF SnapsSound, SnapshotSound
<1>4. ASSUME NEW s \in Snappers, SnapStep(s) PROVE SnapsSound'
  <2>0. PICK e : MadeOf(e, snap[s]) /\ BecomesBy(e, s)
    BY <1>4, SnapStepCarries
  <2>1. snap' = [snap EXCEPT ![s] = e] /\ MadeOf(e, snap[s])
    BY <2>0 DEF BecomesBy
  <2>2. /\ snap' = [t \in Snappers |-> snap'[t]] /\ snap'[s] = e
        /\ \A t \in Snappers \ {s} : snap'[t] = snap[t]
    BY <2>1 DEF SnapsSound
  <2>3. \A t \in Snappers \ {s} : SnapshotSound(t)'
    BY <2>2, <1>2 DEF SnapsSound, SnapshotSound
  <2>4. SnapshotSound(s)'
    <3>1. CASE e.pc = "idle"
      BY <3>1, <2>2 DEF SnapshotSound
    <3>2. CASE snap[s].pc = "idle"
      BY <3>2, <2>1, <2>2, <1>2 DEF SnapshotSound, MadeOf, Begun
    <3>3. CASE e.pc # "idle" /\ snap[s].pc # "idle"
      BY <3>3, <2>1, <2>2, <1>2 DEF SnapsSound, SnapshotSound, Carries, MadeOf
    <3> QED BY <3>1, <3>2, <3>3
  <2> QED BY <2>2, <2>3, <2>4 DEF SnapsSound
<1> QED BY <1>1, <1>3, <1>4, WhoMoves DEF vars, snapVars

LEMMA SnapsAlways == MarketSpec => []SnapInv
<1>1. MarketInit => SnapInv
  BY StoreInit DEF MarketInit, SnapInit, SnapInv, SnapsSound, SnapshotSound, SnapIdle
<1>2. SnapInv /\ [MarketNext]_vars => SnapInv'
  BY SnapsInductive
<1> QED BY <1>1, <1>2, PTL DEF MarketSpec

\* The store's answer is a newest observation that is young enough; there is one when
\* no observation lies ahead.
LEMMA NewestExists ==
  ASSUME StoreInv, NEW now \in Int,
         \A r \in rows : r.metric = "vkospi.value" => r.at <= now,
         \E r \in rows : r.metric = "vkospi.value" /\ r.at >= clock - Week
  PROVE  LatestValid("vkospi.value", Week) # {}
<1> DEFINE valid == {r \in rows : r.metric = "vkospi.value" /\ r.at >= clock - Week}
           times == {r.at : r \in valid}
<1>1. times \in SUBSET Int /\ times # {} /\ \A t \in times : t <= now
  BY DEF StoreInv, StoreSound, RowSound
<1>2. PICK t \in times : \A u \in times : u <= t
  <2> HIDE DEF times
  <2> QED BY <1>1, GreatestOfBounded
<1>3. PICK r \in valid : r.at = t
  BY <1>2
<1>4. \A q \in valid : q.at <= r.at
  BY <1>2, <1>3
<1>5. r \in LatestValid("vkospi.value", Week)
  BY <1>3, <1>4 DEF LatestValid
<1> QED BY <1>5

LEMMA FallbackStep ==
  ASSUME SnapInv, NEW s \in Snappers, ReadFallback(s)
  PROVE  LET now == snap[s].now
             known == {r \in rows : r.metric = "vkospi.value" /\ r.at <= now /\ r.at >= clock - Week}
             v == snap'[s].vk
         IN IF v = NoVKOSPI
            THEN known = {} \/ \E r \in rows : /\ r.metric = "vkospi.value"
                                             /\ \/ r.at > now
                                                \/ Year(r.bd) > Year(snap[s].date)
            ELSE \E r \in known : /\ v.at = r.at /\ v.value = r.value
                                  /\ Year(r.bd) <= Year(snap[s].date)
                                  /\ \A k \in known : k.at <= r.at
<1> DEFINE now == snap[s].now
           date == snap[s].date
           found == LatestValid("vkospi.value", Week)
           known == {r \in rows : r.metric = "vkospi.value" /\ r.at <= now /\ r.at >= clock - Week}
           v == snap'[s].vk
<1>1. /\ SnapshotSound(s) /\ snap = [t \in Snappers |-> snap[t]]
      /\ \A r \in rows : RowSound(r)
  BY DEF SnapInv, SnapsSound, StoreInv, StoreSound
<1>2. now \in Int /\ "vk" \in DOMAIN snap[s]
  BY <1>1 DEF ReadFallback, SnapshotSound
<1>3. PICK w \in Fallback(found, date, now) \cup (IF Fallback(found, date, now) = {}
                                                  THEN {NoVKOSPI} ELSE {}) :
        snap' = [snap EXCEPT ![s].pc = "volatility", ![s].vk = w]
  BY DEF ReadFallback
<1>4. v = w
  BY <1>1, <1>2, <1>3
<1>7. \A d : Year(d) \in Int
  BY DEF Year
<1>5. CASE v = NoVKOSPI
  <2>1. ASSUME w \in Fallback(found, date, now) PROVE FALSE
    <3>1. PICK r : w = [value |-> r.value, date |-> r.bd, at |-> r.at, source |-> "STORE",
                        status |-> "PROVISIONAL_LAST_VALID"]
      BY <2>1 DEF Fallback
    <3>2. w.source = "STORE"
      BY <3>1
    <3>3. NoVKOSPI.source = ""
      BY DEF NoVKOSPI
    <3>4. w = NoVKOSPI
      BY <1>4, <1>5
    <3> QED BY <3>2, <3>3, <3>4
  <2>2. Fallback(found, date, now) = {}
    BY <1>3, <2>1
  <2>3. ASSUME known # {}, \A r \in rows : r.metric = "vkospi.value" =>
                 ~(r.at > now) /\ ~(Year(r.bd) > Year(date))
        PROVE  FALSE
    <3>1. \A r \in rows : r.metric = "vkospi.value" => r.at <= now
      BY <2>3, <1>1, <1>2 DEF RowSound
    <3>2. found # {}
      BY <3>1, <2>3, <1>2, NewestExists DEF SnapInv
    <3>3. PICK r \in found : TRUE
      BY <3>2
    <3>4. r \in rows /\ r.metric = "vkospi.value"
      BY <3>3 DEF LatestValid
    <3>5. r.value > 0 /\ r.at <= now /\ BusinessDateNotAfter(r.bd, date)
      BY <3>1, <3>4, <1>1, <1>7, <2>3 DEF RowSound, BusinessDateNotAfter
    <3> HIDE DEF found, now, date
    <3>6. [value |-> r.value, date |-> r.bd, at |-> r.at, source |-> "STORE",
           status |-> "PROVISIONAL_LAST_VALID"] \in Fallback(found, date, now)
      BY <3>3, <3>5 DEF Fallback
    <3> QED BY <3>6, <2>2
  <2> QED BY <2>3, <1>5
<1>6. CASE v # NoVKOSPI
  <2>1. w \in Fallback(found, date, now)
    BY <1>3, <1>4, <1>6
  <2>2. PICK r \in found : /\ r.at <= now /\ Year(r.bd) <= Year(date)
                           /\ w = [value |-> r.value, date |-> r.bd, at |-> r.at, source |-> "STORE",
                                   status |-> "PROVISIONAL_LAST_VALID"]
    BY <2>1 DEF Fallback, BusinessDateNotAfter
  <2>3. r \in known /\ \A k \in known : k.at <= r.at
    BY <2>2 DEF LatestValid
  <2> QED BY <1>4, <1>6, <2>2, <2>3
<1> QED BY <1>5, <1>6

\* The VKOSPI that a snapshot takes from the store (internal/market/facts) is the newest
\* observation of the last week, not from after the snapshot's time nor of a year after
\* its date's, which is as far as the code compares the two days; and one is missed only
\* when an observation lies ahead or in a later year: whatever collections and backfills
\* have stored.
THEOREM FallbackIsHonest == MarketSpec => FallbackHonest
<1>1. SnapInv /\ [MarketNext]_vars =>
        [\A s \in Snappers :
           LET now == snap[s].now
               known == {r \in rows : r.metric = "vkospi.value" /\ r.at <= now /\ r.at >= clock - Week}
               v == snap'[s].vk
           IN ReadFallback(s) =>
                IF v = NoVKOSPI
                THEN known = {} \/ \E r \in rows : /\ r.metric = "vkospi.value"
                                                 /\ \/ r.at > now
                                                    \/ Year(r.bd) > Year(snap[s].date)
                ELSE \E r \in known : /\ v.at = r.at /\ v.value = r.value
                                      /\ Year(r.bd) <= Year(snap[s].date)
                                      /\ \A k \in known : k.at <= r.at]_snap
  BY FallbackStep
<1> QED BY <1>1, SnapsAlways, PTL DEF MarketSpec, FallbackHonest

-----------------------------------------------------------------------------
(* The files of the snapshots.                                                 *)

\* Appending keeps a sequence of its own elements one, with the new one added.
LEMMA AppendedTo ==
  ASSUME NEW q, q \in Seq(ToSet(q)), NEW x
  PROVE  /\ Append(q, x) \in Seq(ToSet(Append(q, x)))
         /\ ToSet(Append(q, x)) = ToSet(q) \cup {x}
<1> DEFINE S == ToSet(q)
           T == S \cup {x}
           a == Append(q, x)
<1>1. q \in Seq(T) /\ x \in T
  <2>1. q \in Seq(S) /\ S \subseteq T
    OBVIOUS
  <2> HIDE DEF S
  <2>2. \A i \in 1 .. Len(q) : q[i] \in T
    BY <2>1
  <2> HIDE DEF T
  <2>3. q \in Seq(T)
    BY <2>1, <2>2
  <2> QED BY <2>3 DEF T
<1>2. a \in Seq(T) /\ Len(a) = Len(q) + 1 /\ DOMAIN a = 1 .. Len(q) + 1 /\ Len(q) \in Nat
  <2> HIDE DEF T
  <2> QED BY <1>1
<1>3. a[Len(q) + 1] = x /\ \A i \in 1 .. Len(q) : a[i] = q[i]
  <2> HIDE DEF T
  <2> QED BY <1>1
<1>4. S = {q[i] : i \in 1 .. Len(q)}
  <2>1. DOMAIN q = 1 .. Len(q)
    <3> HIDE DEF T
    <3> QED BY <1>1
  <2> QED BY <2>1 DEF ToSet
<1>5. ToSet(a) = {a[i] : i \in 1 .. Len(q) + 1}
  BY <1>2 DEF ToSet
<1>6. ToSet(a) = T
  <2>1. T \subseteq ToSet(a)
    BY <1>2, <1>3, <1>4, <1>5
  <2>2. ASSUME NEW i \in 1 .. Len(q) + 1 PROVE a[i] \in T
    <3>1. CASE i = Len(q) + 1
      BY <3>1, <1>3
    <3>2. CASE i # Len(q) + 1
      <4>1. i \in 1 .. Len(q)
        BY <3>2, <1>2
      <4> QED BY <4>1, <1>3, <1>4
    <3> QED BY <3>1, <3>2
  <2> QED BY <2>1, <2>2, <1>5
<1> QED BY <1>2, <1>6

\* A date's file and archives are what was reported saved, and nothing reported is
\* "no file".
FileSound(d) ==
  /\ DOMAIN snaps[d] = {"cur", "arch"} /\ snaps[d].arch \in Seq(ToSet(snaps[d].arch))
  /\ NoFile \notin reported[d]

\* What one save finds is archived before the next one takes its place: as long as one
\* save is between the two, all that was reported is in the archives.
SaveSound(d) ==
  /\ \A s, t \in Saving(d) : s = t
  /\ reported[d] \subseteq ToSet(snaps[d].arch)
                       \cup (IF Saving(d) = {} THEN {snaps[d].cur} ELSE {})
SavesSound ==
  /\ reported = [d \in DOMAIN snaps |-> reported[d]]
  /\ snaps = [d \in DOMAIN snaps |-> snaps[d]]
  /\ \A d \in DOMAIN snaps : FileSound(d) /\ (d \in exposed \/ SaveSound(d))

SaveInv == SnapInv /\ SavesSound

LEMMA ArchiveStep ==
  ASSUME SaveInv, NEW s \in Snappers, ArchiveOld(s) PROVE SavesSound'
<1>0. PICK date : date = snap[s].date
  OBVIOUS
<1> DEFINE new == Archived(snaps[date])
<1>1. PICK before : snap' = [snap EXCEPT ![s] = With(snap[s], [pc |-> "archived", before |-> before])]
  BY DEF ArchiveOld, SaveInv, SnapInv, SnapsSound
<1>2. /\ snap[s].pc = "ready" /\ {"pc", "now", "date"} \subseteq DOMAIN snap[s]
      /\ snap = [t \in Snappers |-> snap[t]] /\ date \in DOMAIN snaps
  BY <1>0 DEF ArchiveOld, SaveInv, SnapInv, SnapsSound, SnapshotSound, StoreInv, FilesSound
<1>3. snap'[s].pc = "archived" /\ snap'[s].date = date /\ \A t \in Snappers \ {s} : snap'[t] = snap[t]
  <2> DEFINE g == [pc |-> "archived", before |-> before]
             e == With(snap[s], g)
  <2>1. DOMAIN g = {"pc", "before"} /\ g.pc = "archived"
    OBVIOUS
  <2> HIDE DEF g
  <2>2. e.pc = "archived" /\ e.date = date
    <3>1. /\ \A x \in DOMAIN g : e[x] = g[x]
          /\ \A x \in DOMAIN snap[s] \ DOMAIN g : e[x] = snap[s][x]
      BY WithIs
    <3> HIDE DEF e
    <3> QED BY <1>0, <1>2, <2>1, <3>1
  <2>3. snap' = [snap EXCEPT ![s] = e]
    BY <1>1 DEF g
  <2> HIDE DEF e
  <2> QED BY <1>2, <2>2, <2>3
<1>4. /\ snaps' = [snaps EXCEPT ![date] = new] /\ reported' = reported
      /\ exposed' = IF Saving(date) = {} THEN exposed ELSE exposed \cup {date}
  BY <1>0 DEF ArchiveOld
<1>5. ASSUME NEW d \in DOMAIN snaps, d # date PROVE FileSound(d)' /\ (d \in exposed' \/ SaveSound(d)')
  <2>1. snaps'[d] = snaps[d] /\ reported'[d] = reported[d]
    BY <1>4, <1>5
  <2>2. Saving(d)' = Saving(d)
    BY <1>2, <1>3, <1>5 DEF Saving
  <2>3. FileSound(d) /\ (d \in exposed \/ SaveSound(d))
    BY <1>5 DEF SaveInv, SavesSound
  <2> QED BY <1>4, <2>1, <2>2, <2>3 DEF FileSound, SaveSound
<1>6. FileSound(date) /\ (date \in exposed \/ SaveSound(date))
  BY <1>2 DEF SaveInv, SavesSound
<1>7. /\ DOMAIN new = {"cur", "arch"} /\ new.arch \in Seq(ToSet(new.arch))
      /\ IF snaps[date].cur = NoFile THEN new = snaps[date]
         ELSE ToSet(new.arch) = ToSet(snaps[date].arch) \cup {snaps[date].cur}
  <2>1. CASE snaps[date].cur = NoFile
    BY <2>1, <1>6 DEF Archived, FileSound
  <2>2. CASE snaps[date].cur # NoFile
    <3>1. new.arch = Append(snaps[date].arch, snaps[date].cur) /\ DOMAIN new = {"cur", "arch"}
      BY <2>2, <1>6 DEF Archived, FileSound
    <3> HIDE DEF new
    <3>2. /\ new.arch \in Seq(ToSet(new.arch))
          /\ ToSet(new.arch) = ToSet(snaps[date].arch) \cup {snaps[date].cur}
      BY <3>1, <1>6, AppendedTo DEF FileSound
    <3> QED BY <2>2, <3>1, <3>2
  <2> QED BY <2>1, <2>2
<1> HIDE DEF new
<1>8. snaps'[date] = new /\ reported'[date] = reported[date]
  BY <1>2, <1>4
<1>9. FileSound(date)'
  <2>1. NoFile \notin reported[date]
    BY <1>6 DEF FileSound
  <2> QED BY <1>7, <1>8, <2>1 DEF FileSound
<1>10. date \in exposed' \/ SaveSound(date)'
  <2>1. CASE Saving(date) # {}
    BY <2>1, <1>4
  <2>2. CASE Saving(date) = {} /\ date \in exposed
    BY <2>2, <1>4
  <2>3. CASE Saving(date) = {} /\ SaveSound(date)
    <3>1. Saving(date)' = {s}
      BY <1>2, <1>3, <2>3 DEF Saving
    <3>2. reported[date] \subseteq ToSet(snaps[date].arch) \cup {snaps[date].cur}
      BY <2>3 DEF SaveSound
    <3>3. reported[date] \subseteq ToSet(new.arch)
      BY <3>2, <1>6, <1>7 DEF FileSound
    <3>4. reported'[date] \subseteq ToSet(snaps'[date].arch)
      BY <3>3, <1>8
    <3>5. \A u, v \in Saving(date)' : u = v
      BY <3>1
    <3> QED BY <3>1, <3>4, <3>5 DEF SaveSound
  <2> QED BY <2>1, <2>2, <2>3, <1>6
<1>11. /\ DOMAIN snaps' = DOMAIN snaps
       /\ snaps' = [d \in DOMAIN snaps' |-> snaps'[d]]
       /\ reported' = [d \in DOMAIN snaps' |-> reported'[d]]
  BY <1>4 DEF SaveInv, SavesSound
<1>12. ASSUME NEW d \in DOMAIN snaps PROVE FileSound(d)' /\ (d \in exposed' \/ SaveSound(d)')
  <2>1. CASE d = date
    BY <2>1, <1>9, <1>10
  <2>2. CASE d # date
    BY <2>2, <1>5
  <2> QED BY <2>1, <2>2
<1> QED BY <1>11, <1>12 DEF SavesSound

\* A save that could not read the file exposes the date, and no other.
LEMMA SkipStep ==
  ASSUME SaveInv, NEW s \in Snappers, ArchiveSkipped(s) PROVE SavesSound'
<1>0. PICK date : date = snap[s].date
  OBVIOUS
<1>1. UNCHANGED <<snaps, reported>> /\ exposed' = exposed \cup {date}
  BY <1>0 DEF ArchiveSkipped
<1>2. PICK before : snap' = [snap EXCEPT ![s] = With(snap[s], [pc |-> "archived", before |-> before])]
  BY DEF ArchiveSkipped, SaveInv, SnapInv, SnapsSound
<1>3. /\ snap[s].pc = "ready" /\ {"pc", "now", "date"} \subseteq DOMAIN snap[s]
      /\ snap = [t \in Snappers |-> snap[t]]
  BY DEF ArchiveSkipped, SaveInv, SnapInv, SnapsSound, SnapshotSound
<1>4. snap'[s].date = date /\ \A t \in Snappers \ {s} : snap'[t] = snap[t]
  <2> DEFINE g == [pc |-> "archived", before |-> before]
             e == With(snap[s], g)
  <2>1. DOMAIN g = {"pc", "before"}
    OBVIOUS
  <2> HIDE DEF g
  <2>2. e.date = date
    <3>1. \A x \in DOMAIN snap[s] \ DOMAIN g : e[x] = snap[s][x]
      BY WithIs
    <3> HIDE DEF e
    <3> QED BY <1>0, <1>3, <2>1, <3>1
  <2>3. snap' = [snap EXCEPT ![s] = e]
    BY <1>2 DEF g
  <2> HIDE DEF e
  <2> QED BY <1>3, <2>2, <2>3
<1>5. ASSUME NEW d \in DOMAIN snaps PROVE FileSound(d)' /\ (d \in exposed' \/ SaveSound(d)')
  <2>1. FileSound(d)' /\ (d \in exposed \/ SaveSound(d))
    BY <1>1 DEF SaveInv, SavesSound, FileSound
  <2>2. CASE d = date
    BY <1>1, <2>1, <2>2
  <2>3. CASE d # date
    <3>1. Saving(d)' = Saving(d)
      BY <1>0, <1>3, <1>4, <2>3 DEF Saving
    <3> QED BY <1>1, <2>1, <3>1 DEF SaveSound
  <2> QED BY <2>2, <2>3
<1> QED BY <1>1, <1>5 DEF SaveInv, SavesSound

\* The new snapshot takes the place of the old one, which is in the archives.
LEMMA ReplaceStep ==
  ASSUME SaveInv, NEW s \in Snappers, ReplaceSnapshot(s) PROVE SavesSound'
<1>0. PICK date : date = snap[s].date
  OBVIOUS
<1>1. PICK content : content = Masked(snap[s])
  OBVIOUS
<1>2. /\ snap[s].pc = "archived" /\ "pc" \in DOMAIN snap[s] /\ exposed' = exposed
      /\ snap = [t \in Snappers |-> snap[t]] /\ date \in DOMAIN snaps
      /\ snaps' = [snaps EXCEPT ![date] = [snaps[date] EXCEPT !.cur = content]]
      /\ reported' = [reported EXCEPT ![date] = reported[date] \cup {content}]
      /\ snap' = [snap EXCEPT ![s] = SnapIdle]
  BY <1>0, <1>1 DEF ReplaceSnapshot, SaveInv, SavesSound, SnapInv, SnapsSound, SnapshotSound,
                    StoreInv, FilesSound
<1>3. content # NoFile
  <2>1. content.pc = "saved"
    BY <1>1, <1>2 DEF Masked
  <2> QED BY <2>1 DEF NoFile
<1>4. snap'[s].pc = "idle" /\ \A t \in Snappers \ {s} : snap'[t] = snap[t]
  BY <1>2 DEF SnapIdle
<1>5. ASSUME NEW d \in DOMAIN snaps, d # date PROVE FileSound(d)' /\ (d \in exposed' \/ SaveSound(d)')
  <2>1. snaps'[d] = snaps[d] /\ reported'[d] = reported[d]
    BY <1>2, <1>5
  <2>2. Saving(d)' = Saving(d)
    BY <1>0, <1>2, <1>4, <1>5 DEF Saving
  <2>3. FileSound(d) /\ (d \in exposed \/ SaveSound(d))
    BY <1>5 DEF SaveInv, SavesSound
  <2> QED BY <1>2, <2>1, <2>2, <2>3 DEF FileSound, SaveSound
<1>6. FileSound(date) /\ (date \in exposed \/ SaveSound(date))
  BY <1>2 DEF SaveInv, SavesSound
<1>7. /\ DOMAIN snaps'[date] = {"cur", "arch"} /\ snaps'[date].arch = snaps[date].arch
      /\ snaps'[date].cur = content /\ reported'[date] = reported[date] \cup {content}
  BY <1>2, <1>6 DEF FileSound, SaveInv, SavesSound
<1>8. FileSound(date)'
  BY <1>3, <1>6, <1>7 DEF FileSound
<1>9. date \in exposed' \/ SaveSound(date)'
  <2>1. CASE date \in exposed
    BY <2>1, <1>2
  <2>2. CASE SaveSound(date)
    <3>1. s \in Saving(date) /\ \A t \in Saving(date) : t = s
      BY <1>0, <1>2, <2>2 DEF Saving, SaveSound
    <3>2. Saving(date)' = {}
      BY <1>4, <3>1 DEF Saving
    <3>3. reported[date] \subseteq ToSet(snaps[date].arch)
      BY <2>2, <3>1 DEF SaveSound
    <3> QED BY <1>7, <3>2, <3>3 DEF SaveSound
  <2> QED BY <2>1, <2>2, <1>6
<1>10. /\ DOMAIN snaps' = DOMAIN snaps
       /\ snaps' = [d \in DOMAIN snaps' |-> snaps'[d]]
       /\ reported' = [d \in DOMAIN snaps' |-> reported'[d]]
  BY <1>2 DEF SaveInv, SavesSound
<1>11. ASSUME NEW d \in DOMAIN snaps PROVE FileSound(d)' /\ (d \in exposed' \/ SaveSound(d)')
  <2>1. CASE d = date
    BY <2>1, <1>8, <1>9
  <2>2. CASE d # date
    BY <2>2, <1>5
  <2> QED BY <2>1, <2>2
<1> QED BY <1>10, <1>11 DEF SavesSound

\* Whatever else an invocation does leaves the files, and can only end a save.
LEMMA OtherSnapSteps ==
  ASSUME SaveInv, NEW s \in Snappers, SnapStep(s), ~ArchiveOld(s), ~ArchiveSkipped(s),
         ~ReplaceSnapshot(s)
  PROVE  SavesSound'
<1>1. UNCHANGED <<snaps, reported, exposed>>
  BY DEF SnapStep, SnapStart, SnapLooksForMaster, SnapDownloadsMaster, GatherSections,
         GatherVolatility, ReadFallback, FallbackFails, GatherRest, SnapshotLost
<1>2. PICK e : MadeOf(e, snap[s]) /\ BecomesBy(e, s)
  BY SnapStepCarries DEF SaveInv, SnapInv
<1>3. snap'[s].pc # "archived" /\ \A t \in Snappers \ {s} : snap'[t] = snap[t]
  BY <1>2 DEF SaveInv, SnapInv, SnapsSound, BecomesBy
<1>4. ASSUME NEW d \in DOMAIN snaps, SaveSound(d) PROVE SaveSound(d)'
  <2>1. Saving(d)' \subseteq Saving(d)
    BY <1>3 DEF Saving
  <2> QED BY <1>1, <1>4, <2>1 DEF SaveSound
<1>5. ASSUME NEW d \in DOMAIN snaps PROVE FileSound(d)' /\ (d \in exposed' \/ SaveSound(d)')
  BY <1>1, <1>4 DEF SaveInv, SavesSound, FileSound
<1> QED BY <1>1, <1>5 DEF SaveInv, SavesSound

LEMMA SavesInductive ==
  ASSUME SaveInv, [MarketNext]_vars PROVE SaveInv'
<1>1. SnapInv'
  BY SnapsInductive DEF SaveInv
<1>2. ASSUME snapVars' = snapVars PROVE SavesSound'
  BY <1>2 DEF SaveInv, SavesSound, FileSound, SaveSound, Saving, snapVars
<1>3. ASSUME NEW s \in Snappers, SnapStep(s) PROVE SavesSound'
  BY <1>3, ArchiveStep, SkipStep, ReplaceStep, OtherSnapSteps
<1>4. SavesSound'
  BY <1>2, <1>3, WhoMoves DEF vars
<1> QED BY <1>1, <1>4 DEF SaveInv

LEMMA SavesInit ==
  ASSUME MarketInit PROVE SaveInv
<1>1. SnapInv
  BY StoreInit DEF MarketInit, SnapInit, SnapInv, SnapsSound, SnapshotSound, SnapIdle
<1>2. \A d : Saving(d) = {}
  BY DEF MarketInit, SnapInit, Saving, SnapIdle
<1>3. \A d \in DOMAIN snaps : FileSound(d) /\ SaveSound(d)
  <2>1. <<>> \in Seq({}) /\ ToSet(<<>>) = {}
    BY DEF ToSet
  <2> QED BY <1>2, <2>1 DEF MarketInit, SnapInit, FileSound, SaveSound
<1> QED BY <1>1, <1>3 DEF SaveInv, SavesSound, MarketInit, SnapInit

\* A snapshot whose save was reported is in the date's file or in its archives ever
\* after (internal/collector/snapshot: archive, then replace), for any number of
\* invocations, unless two of them were saving the same date at once or one could not
\* read the file it replaced.
THEOREM SnapshotsAreKept == MarketSpec => []SnapshotsKept
<1>1. MarketInit => SaveInv
  BY SavesInit
<1>2. SaveInv /\ [MarketNext]_vars => SaveInv'
  BY SavesInductive
<1>3. SaveInv => SnapshotsKept
  BY DEF SaveInv, SavesSound, SaveSound, SnapshotsKept, StillThere
<1> QED BY <1>1, <1>2, <1>3, PTL DEF MarketSpec

-----------------------------------------------------------------------------
(* The day files of the pulses.                                                *)

\* A line is a sequence of pieces, and a line that lacks its newline is there.
LinesSound(f) ==
  /\ f.lines \in Seq(ToSet(f.lines))
  /\ \A i \in DOMAIN f.lines : f.lines[i] \in Seq(ToSet(f.lines[i]))
  /\ f.open => f.lines # <<>>

\* A piece of the file is of the record.
Holds(f, rec) == \E i \in DOMAIN f.lines : \E k \in DOMAIN f.lines[i] : f.lines[i][k].rec = rec

\* An append, cut short or not, adds a piece of its record and takes none away.
LEMMA AppendKeeps ==
  ASSUME NEW f, LinesSound(f), NEW rec, NEW whole, NEW newline
  PROVE  LET g == AppendRecord(f, rec, whole, newline)
         IN LinesSound(g) /\ Holds(g, rec) /\ \A r : Holds(f, r) => Holds(g, r)
<1>0. PICK g : g = AppendRecord(f, rec, whole, newline)
  OBVIOUS
<1>1. PICK piece : piece = [rec |-> rec, whole |-> whole] /\ piece.rec = rec
  <2>1. [rec |-> rec, whole |-> whole].rec = rec
    OBVIOUS
  <2> QED BY <2>1
<1>2. PICK lines : lines = f.lines
  OBVIOUS
<1>3. PICK n : n = Len(lines)
  OBVIOUS
<1>4. lines \in Seq(ToSet(lines)) /\ n \in Nat /\ DOMAIN lines = 1 .. n
  <2>1. lines \in Seq(ToSet(lines))
    BY <1>2 DEF LinesSound
  <2> DEFINE S == ToSet(lines)
  <2>2. lines \in Seq(S)
    BY <2>1
  <2> HIDE DEF S
  <2>3. n \in Nat /\ DOMAIN lines = 1 .. n
    BY <2>2, <1>3
  <2> QED BY <2>1, <2>3
<1>5. ASSUME NEW i \in 1 .. n
      PROVE  /\ lines[i] \in Seq(ToSet(lines[i])) /\ Len(lines[i]) \in Nat
             /\ DOMAIN lines[i] = 1 .. Len(lines[i])
  <2>1. lines[i] \in Seq(ToSet(lines[i]))
    BY <1>2, <1>4 DEF LinesSound
  <2> DEFINE S == ToSet(lines[i])
  <2>2. lines[i] \in Seq(S)
    BY <2>1
  <2> HIDE DEF S
  <2>3. Len(lines[i]) \in Nat /\ DOMAIN lines[i] = 1 .. Len(lines[i])
    BY <2>2
  <2> QED BY <2>1, <2>3
<1>6. CASE f.open
  <2>1. n \in 1 .. n
    <3>1. lines # <<>>
      BY <1>2, <1>6 DEF LinesSound
    <3> DEFINE S == ToSet(lines)
    <3>2. lines \in Seq(S)
      BY <1>4
    <3> HIDE DEF S
    <3>3. n # 0
      BY <3>1, <3>2, <1>3
    <3> QED BY <3>3, <1>4
  <2>2. PICK line : line = Append(lines[n], piece)
    OBVIOUS
  <2>3. /\ line \in Seq(ToSet(line)) /\ ToSet(line) = ToSet(lines[n]) \cup {piece}
    BY <2>1, <2>2, <1>5, AppendedTo
  <2>4. g = [lines |-> [lines EXCEPT ![n] = line], open |-> ~newline]
    BY <1>0, <1>1, <1>2, <1>3, <1>6, <2>2 DEF AppendRecord
  <2>5. PICK new : new = [lines EXCEPT ![n] = line]
    OBVIOUS
  <2>6. /\ new = [i \in 1 .. n |-> new[i]] /\ new[n] = line
        /\ \A i \in 1 .. n \ {n} : new[i] = lines[i]
    <3>1. lines = [i \in 1 .. n |-> lines[i]]
      <4> DEFINE S == ToSet(lines)
      <4>1. lines \in Seq(S)
        BY <1>4
      <4> HIDE DEF S
      <4> QED BY <4>1, <1>4
    <3> QED BY <3>1, <2>1, <2>5
  <2>7. new \in Seq(ToSet(new)) /\ new # <<>> /\ DOMAIN new = 1 .. n
    <3> DEFINE S == ToSet(new)
    <3>1. \A i \in 1 .. n : new[i] \in S
      BY <2>6 DEF ToSet
    <3> HIDE DEF S
    <3>2. new \in Seq(S) /\ DOMAIN new = 1 .. n /\ Len(new) = n
      BY <3>1, <2>6, <1>4
    <3>3. new # <<>>
      BY <3>2, <2>1
    <3> QED BY <3>2, <3>3 DEF S
  <2>8. \A i \in 1 .. n : new[i] \in Seq(ToSet(new[i]))
    BY <2>3, <2>6, <1>5
  <2>9. g.lines = new
    BY <2>4, <2>5
  <2>10. LinesSound(g)
    BY <2>7, <2>8, <2>9 DEF LinesSound
  <2>11. Holds(g, rec)
    <3>1. piece \in ToSet(line)
      BY <2>3
    <3>2. PICK k \in DOMAIN line : line[k] = piece
      BY <3>1 DEF ToSet
    <3> QED BY <3>2, <2>1, <2>6, <2>7, <2>9, <1>1 DEF Holds
  <2>12. ASSUME NEW r, Holds(f, r) PROVE Holds(g, r)
    <3>0. PICK i \in 1 .. n : \E k \in DOMAIN lines[i] : lines[i][k].rec = r
      BY <2>12, <1>2, <1>4 DEF Holds
    <3>1. PICK k \in DOMAIN lines[i] : lines[i][k].rec = r
      BY <3>0
    <3>2. PICK j \in DOMAIN new[i] : new[i][j] = lines[i][k]
      <4>1. CASE i = n
        <5>1. lines[i][k] \in ToSet(line)
          BY <4>1, <2>3 DEF ToSet
        <5> QED BY <5>1, <4>1, <2>6 DEF ToSet
      <4>2. CASE i # n
        BY <4>2, <2>6
      <4> QED BY <4>1, <4>2
    <3> QED BY <3>1, <3>2, <2>7, <2>9 DEF Holds
  <2> QED BY <1>0, <2>10, <2>11, <2>12
<1>7. CASE ~f.open
  <2>1. PICK line : line = <<piece>>
    OBVIOUS
  <2>2. line \in Seq({piece}) /\ Len(line) = 1 /\ line[1] = piece /\ DOMAIN line = 1 .. 1
    BY <2>1
  <2>3. ToSet(line) = {piece}
    BY <2>2 DEF ToSet
  <2>4. PICK new : new = Append(lines, line)
    OBVIOUS
  <2>5. new \in Seq(ToSet(new)) /\ ToSet(new) = ToSet(lines) \cup {line}
    BY <2>4, <1>4, AppendedTo
  <2>6. g = [lines |-> new, open |-> ~newline]
    BY <1>0, <1>1, <1>2, <1>7, <2>1, <2>4 DEF AppendRecord
  <2>7. g.lines = new
    BY <2>6
  <2>8. new # <<>>
    <3>1. ToSet(<<>>) = {}
      BY DEF ToSet
    <3> QED BY <3>1, <2>5
  <2>9. ASSUME NEW i \in DOMAIN new PROVE new[i] \in Seq(ToSet(new[i]))
    <3>1. new[i] \in ToSet(lines) \cup {line}
      BY <2>5 DEF ToSet
    <3>2. CASE new[i] = line
      BY <3>2, <2>2, <2>3
    <3>3. CASE new[i] \in ToSet(lines)
      BY <3>3, <1>4, <1>5 DEF ToSet
    <3> QED BY <3>1, <3>2, <3>3
  <2>10. LinesSound(g)
    BY <2>5, <2>7, <2>8, <2>9 DEF LinesSound
  <2>11. Holds(g, rec)
    <3>1. PICK i \in DOMAIN new : new[i] = line
      BY <2>5 DEF ToSet
    <3>2. 1 \in DOMAIN new[i] /\ new[i][1].rec = rec
      BY <3>1, <2>2, <1>1
    <3> QED BY <3>2, <2>7 DEF Holds
  <2>12. ASSUME NEW r, Holds(f, r) PROVE Holds(g, r)
    <3>0. PICK i \in DOMAIN lines : \E k \in DOMAIN lines[i] : lines[i][k].rec = r
      BY <2>12, <1>2 DEF Holds
    <3>1. PICK k \in DOMAIN lines[i] : lines[i][k].rec = r
      BY <3>0
    <3>2. PICK j \in DOMAIN new : new[j] = lines[i]
      BY <2>5 DEF ToSet
    <3> QED BY <3>1, <3>2, <2>7 DEF Holds
  <2> QED BY <1>0, <2>10, <2>11, <2>12
<1> QED BY <1>6, <1>7

\* What was reported saved has a piece in the day's file.
SavedInFile ==
  /\ file = [d \in Days |-> file[d]] /\ saved = [d \in Days |-> saved[d]]
  /\ \A d \in Days : LinesSound(file[d]) /\ \A r \in saved[d] : Holds(file[d], r)

LEMMA SavedStep ==
  ASSUME SavedInFile, NEW p \in Pulses, PulseStep(p) PROVE SavedInFile'
<1>1. CASE SaveRecord(p)
  <2>0. PICK t : t = TRUE
    OBVIOUS
  <2>1. PICK date, rec : /\ file' = [file EXCEPT ![date] = AppendRecord(file[date], rec, t, t)]
                        /\ saved' = [saved EXCEPT ![date] = saved[date] \cup {rec}]
    BY <1>1, <2>0 DEF SaveRecord
  <2>2. ASSUME NEW d \in Days PROVE LinesSound(file'[d]) /\ \A r \in saved'[d] : Holds(file'[d], r)
    <3>1. CASE d = date
      <4>1. file'[d] = AppendRecord(file[d], rec, t, t) /\ saved'[d] = saved[d] \cup {rec}
        BY <2>1, <3>1 DEF SavedInFile
      <4>2. PICK f : f = file[d]
        OBVIOUS
      <4>3. LinesSound(f) /\ \A r \in saved[d] : Holds(f, r)
        BY <4>2 DEF SavedInFile
      <4>4. PICK g : g = AppendRecord(f, rec, t, t)
        OBVIOUS
      <4>5. LinesSound(g) /\ Holds(g, rec) /\ \A r : Holds(f, r) => Holds(g, r)
        BY <4>3, <4>4, AppendKeeps
      <4>6. file'[d] = g
        BY <4>1, <4>2, <4>4
      <4> QED BY <4>1, <4>3, <4>5, <4>6
    <3>2. CASE d # date
      BY <2>1, <3>2 DEF SavedInFile
    <3> QED BY <3>1, <3>2
  <2>3. file' = [d \in Days |-> file'[d]] /\ saved' = [d \in Days |-> saved'[d]]
    BY <2>1 DEF SavedInFile
  <2> QED BY <2>2, <2>3 DEF SavedInFile
<1>2. ASSUME NEW w, SaveCutShort(p, w) PROVE SavedInFile'
  <2>0. PICK t : t = FALSE
    OBVIOUS
  <2>1. PICK date, rec : file' = [file EXCEPT ![date] = AppendRecord(file[date], rec, w, t)]
    BY <1>2, <2>0 DEF SaveCutShort
  <2>2. saved' = saved
    BY <1>2 DEF SaveCutShort
  <2>3. ASSUME NEW d \in Days PROVE LinesSound(file'[d]) /\ \A r \in saved'[d] : Holds(file'[d], r)
    <3>1. CASE d = date
      <4>1. file'[d] = AppendRecord(file[d], rec, w, t)
        BY <2>1, <3>1 DEF SavedInFile
      <4>2. PICK f : f = file[d]
        OBVIOUS
      <4>3. LinesSound(f) /\ \A r \in saved[d] : Holds(f, r)
        BY <4>2 DEF SavedInFile
      <4>4. PICK g : g = AppendRecord(f, rec, w, t)
        OBVIOUS
      <4>5. LinesSound(g) /\ \A r : Holds(f, r) => Holds(g, r)
        BY <4>3, <4>4, AppendKeeps
      <4>6. file'[d] = g
        BY <4>1, <4>2, <4>4
      <4> QED BY <2>2, <4>3, <4>5, <4>6
    <3>2. CASE d # date
      BY <2>1, <2>2, <3>2 DEF SavedInFile
    <3> QED BY <3>1, <3>2
  <2>4. file' = [d \in Days |-> file'[d]] /\ saved' = [d \in Days |-> saved'[d]]
    BY <2>1, <2>2 DEF SavedInFile
  <2> QED BY <2>3, <2>4 DEF SavedInFile
<1>3. CASE \/ PulseStart(p) \/ LookForMaster(p) \/ DownloadMaster(p)
           \/ Gather(p) \/ Conclude(p) \/ PulseEnd(p)
  <2>1. UNCHANGED <<file, saved>>
    BY <1>3 DEF PulseStart, LookForMaster, DownloadMaster, Gather, Conclude, PulseEnd
  <2> QED BY <2>1 DEF SavedInFile
<1> QED BY <1>1, <1>2, <1>3 DEF PulseStep

LEMMA SavedInit ==
  ASSUME MarketInit PROVE SavedInFile
<1>1. <<>> \in Seq({}) /\ ToSet(<<>>) = {}
  BY DEF ToSet
<1>2. LinesSound(EmptyFile)
  BY <1>1 DEF LinesSound, EmptyFile
<1> QED BY <1>2 DEF MarketInit, PulseInit, SavedInFile

LEMMA SavedAlways == MarketSpec => []SavedInFile
<1>1. MarketInit => SavedInFile
  BY SavedInit
<1>2. SavedInFile /\ [MarketNext]_vars => SavedInFile'
  <2> SUFFICES ASSUME SavedInFile, [MarketNext]_vars PROVE SavedInFile'
    OBVIOUS
  <2>1. ASSUME pulseVars' = pulseVars PROVE SavedInFile'
    BY <2>1 DEF SavedInFile, pulseVars
  <2> QED BY <2>1, SavedStep, WhoMoves DEF vars
<1> QED BY <1>1, <1>2, PTL DEF MarketSpec

\* A day file that a pulse can read holds every record whose append was reported done
\* (pulse/store.go), although invocations append side by side and crashes leave parts
\* of lines: a part makes its line unreadable, and with it the file.
THEOREM ReadableIsComplete == MarketSpec => []ReadableMeansComplete
<1>1. SavedInFile => ReadableMeansComplete
  <2> SUFFICES ASSUME SavedInFile, NEW d \in Days, LoadRecords(file[d]).ok, NEW r \in saved[d]
               PROVE  r \in Range(LoadRecords(file[d]).recs)
    BY DEF ReadableMeansComplete
  <2>1. \A i \in DOMAIN file[d].lines : Readable(file[d].lines[i])
    BY DEF LoadRecords
  <2>0. PICK i \in DOMAIN file[d].lines :
          \E k \in DOMAIN file[d].lines[i] : file[d].lines[i][k].rec = r
    BY DEF SavedInFile, Holds
  <2>2. PICK k \in DOMAIN file[d].lines[i] : file[d].lines[i][k].rec = r
    BY <2>0
  <2>3. k = 1
    <3>1. PICK line : line = file[d].lines[i]
      OBVIOUS
    <3>2. line \in Seq(ToSet(line)) /\ Len(line) = 1 /\ k \in DOMAIN line
      BY <3>1, <2>1, <2>2 DEF SavedInFile, LinesSound, Readable
    <3> DEFINE S == ToSet(line)
    <3>3. line \in Seq(S)
      BY <3>2
    <3> HIDE DEF S
    <3> QED BY <3>2, <3>3
  <2>4. LoadRecords(file[d]).recs = [j \in DOMAIN file[d].lines |-> file[d].lines[j][1].rec]
    BY <2>1 DEF LoadRecords
  <2> QED BY <2>2, <2>3, <2>4 DEF Range
<1> QED BY <1>1, SavedAlways, PTL

-----------------------------------------------------------------------------
(* The market-safety board.                                                    *)

FutureSound(f) == f.pct \in Int /\ f.spotPct \in Int
AnyFired(market, events, now) ==
  \E d \in SidecarDevices : TriggerTime(events, market, d, now) # NoTime
Met(market, device, f) ==
  LET side == IF device = "SIDECAR_BUY" THEN 1 ELSE -1
      spot == SpotThreshold(market)
  IN side * f.pct >= FuturesThreshold(market) /\ (spot = 0 \/ side * f.spotPct >= spot)

\* An event stands whatever the quote is worth; a device that has not fired waits, and
\* is not judged by a quote that cannot be used.
LEMMA FiredDevice ==
  ASSUME NEW market, NEW device, NEW events, NEW now, NEW trigger, NEW fresh
  PROVE  LET d == Evaluated(OfficialDevice(events, market, device, trigger, now), fresh)
         IN /\ d.market = market /\ d.device = device /\ ~d.eligible
            /\ d.state \in {"TRIGGERED", "RELEASED"}
            /\ d.at = trigger /\ d.released = ReleaseTime(events, market, device, trigger, now)
            /\ d.state = "RELEASED" <=> ReleaseTime(events, market, device, trigger, now) # NoTime
BY DEF Evaluated, OfficialDevice

LEMMA WaitingOne ==
  ASSUME NEW market, NEW device, NEW now, NEW window, NEW allowed \in BOOLEAN, NEW met,
         NEW gap, NEW fresh
  PROVE  LET d == Evaluated(WaitingDevice(market, device, now, window, allowed, met, gap), fresh)
             state == WaitingState(now, window, allowed, met)
         IN /\ d.market = market /\ d.device = device /\ ~Fired(d)
            /\ d.state = IF Usable(fresh) THEN state ELSE "NOT_EVALUATED"
            /\ ~allowed => ~d.eligible
<1> DEFINE w == WaitingDevice(market, device, now, window, allowed, met, gap)
           state == WaitingState(now, window, allowed, met)
<1>1. /\ state \in {"NOT_ELIGIBLE", "EXPIRED_FOR_DAY", "CONDITION_OBSERVED", "ELIGIBLE"}
      /\ ~allowed => state \in {"NOT_ELIGIBLE", "EXPIRED_FOR_DAY"}
  BY DEF WaitingState
<1>2. /\ w.market = market /\ w.device = device /\ w.state = state
      /\ w.verification # "OFFICIAL"
      /\ w.eligible = (state \in {"CONDITION_OBSERVED", "ELIGIBLE"})
      /\ {"state", "eligible", "gap", "market", "device"} \subseteq DOMAIN w
  BY DEF WaitingDevice
<1> HIDE DEF w, state
<1>3. CASE Usable(fresh)
  <2>1. Evaluated(w, fresh) = w
    BY <1>3 DEF Evaluated
  <2> QED BY <1>1, <1>2, <1>3, <2>1 DEF Fired, w, state
<1>4. CASE ~Usable(fresh)
  <2>1. Evaluated(w, fresh) = [w EXCEPT !.state = "NOT_EVALUATED", !.eligible = FALSE, !.gap = NoNum]
    BY <1>2, <1>4 DEF Evaluated
  <2>2. PICK v : v = Evaluated(w, fresh)
    OBVIOUS
  <2>3. /\ v.market = market /\ v.device = device /\ v.state = "NOT_EVALUATED"
        /\ v.eligible = FALSE
    BY <1>2, <2>1, <2>2
  <2> QED BY <1>4, <2>2, <2>3 DEF Fired, w
<1> QED BY <1>3, <1>4

SidecarWindow == <<HM(9, 5), HM(14, 50)>>
LEMMA SidecarIs ==
  ASSUME NEW market \in Markets, NEW device \in SidecarDevices, NEW f, NEW events, NEW now
  PROVE  LET d == Sidecar(market, device, f, events, now)
             fired == TriggerTime(events, market, device, now)
         IN /\ d.market = market /\ d.device = device
            /\ AnyFired(market, events, now) => ~d.eligible
            /\ fired # NoTime =>
                 /\ d.state \in {"TRIGGERED", "RELEASED"} /\ d.at = fired
                 /\ d.released = ReleaseTime(events, market, device, fired, now)
                 /\ d.state = "RELEASED" <=> ReleaseTime(events, market, device, fired, now) # NoTime
            /\ fired = NoTime =>
                 /\ ~Fired(d)
                 /\ d.state = IF Usable(f.fresh)
                             THEN WaitingState(now, SidecarWindow, ~AnyFired(market, events, now),
                                               Met(market, device, f))
                             ELSE "NOT_EVALUATED"
<1>1. PICK fired : fired = TriggerTime(events, market, device, now)
  OBVIOUS
<1>2. PICK d : d = Sidecar(market, device, f, events, now)
  OBVIOUS
<1>3. PICK allowed \in BOOLEAN : allowed = ~AnyFired(market, events, now)
  OBVIOUS
<1>4. PICK met \in BOOLEAN : met = Met(market, device, f)
  BY DEF Met
<1>5. PICK gap : gap = FuturesThreshold(market)
                         - (IF device = "SIDECAR_BUY" THEN 1 ELSE -1) * f.pct
  OBVIOUS
<1>6. d = Evaluated(IF fired # NoTime THEN OfficialDevice(events, market, device, fired, now)
                    ELSE WaitingDevice(market, device, now, SidecarWindow, allowed, met, gap), f.fresh)
  BY <1>1, <1>2, <1>3, <1>4, <1>5 DEF Sidecar, AnyFired, Met, SidecarWindow
<1>7. CASE fired # NoTime
  BY <1>1, <1>2, <1>6, <1>7, FiredDevice
<1>8. CASE fired = NoTime
  <2>1. d = Evaluated(WaitingDevice(market, device, now, SidecarWindow, allowed, met, gap), f.fresh)
    BY <1>6, <1>8
  <2>2. /\ d.market = market /\ d.device = device /\ ~Fired(d)
        /\ d.state = IF Usable(f.fresh) THEN WaitingState(now, SidecarWindow, allowed, met)
                    ELSE "NOT_EVALUATED"
        /\ ~allowed => ~d.eligible
    BY <2>1, WaitingOne
  <2> QED BY <2>2, <1>1, <1>2, <1>3, <1>4, <1>8
<1> QED BY <1>7, <1>8

LEMMA BreakerIs ==
  ASSUME NEW market \in Markets, NEW i \in 1 .. 3, NEW idx, NEW events, NEW now
  PROVE  LET d == CircuitBreaker(market, i, idx, events, now)
             fired == TriggerTime(events, market, CircuitBreakers[i], now)
         IN /\ d.market = market /\ d.device = CircuitBreakers[i] /\ d.device \notin SidecarDevices
            /\ fired # NoTime =>
                 /\ d.state \in {"TRIGGERED", "RELEASED"} /\ d.at = fired
                 /\ d.released = ReleaseTime(events, market, d.device, fired, now)
                 /\ d.state = "RELEASED" <=> ReleaseTime(events, market, d.device, fired, now) # NoTime
            /\ fired = NoTime => ~Fired(d)
<1>1. PICK device : device = CircuitBreakers[i]
  OBVIOUS
<1>2. PICK fired : fired = TriggerTime(events, market, device, now)
  OBVIOUS
<1>3. PICK d : d = CircuitBreaker(market, i, idx, events, now)
  OBVIOUS
<1>4. PICK allowed \in BOOLEAN :
        allowed = (i = 1 \/ TriggerTime(events, market, CircuitBreakers[i - 1], now) # NoTime)
  OBVIOUS
<1>5. PICK met : met = (idx.pct <= -Drop(device))
  OBVIOUS
<1>6. PICK gap : gap = idx.pct + Drop(device)
  OBVIOUS
<1>7. PICK window : window = <<HM(9, 0), IF device = "CB3" THEN HM(15, 30) ELSE HM(14, 50)>>
  OBVIOUS
<1>8. d = Evaluated(IF fired # NoTime THEN OfficialDevice(events, market, device, fired, now)
                    ELSE WaitingDevice(market, device, now, window, allowed, met, gap), idx.fresh)
  BY <1>1, <1>2, <1>3, <1>4, <1>5, <1>6, <1>7 DEF CircuitBreaker
<1>9. device \notin SidecarDevices
  BY <1>1 DEF CircuitBreakers, SidecarDevices
<1>10. CASE fired # NoTime
  <2>1. d = Evaluated(OfficialDevice(events, market, device, fired, now), idx.fresh)
    BY <1>8, <1>10
  <2>2. /\ d.market = market /\ d.device = device /\ d.state \in {"TRIGGERED", "RELEASED"}
        /\ d.at = fired /\ d.released = ReleaseTime(events, market, device, fired, now)
        /\ d.state = "RELEASED" <=> ReleaseTime(events, market, device, fired, now) # NoTime
    BY <2>1, FiredDevice
  <2> QED BY <1>1, <1>2, <1>3, <1>9, <1>10, <2>2
<1>11. CASE fired = NoTime
  <2>1. d = Evaluated(WaitingDevice(market, device, now, window, allowed, met, gap), idx.fresh)
    BY <1>8, <1>11
  <2>2. d.market = market /\ d.device = device /\ ~Fired(d)
    BY <2>1, WaitingOne
  <2> QED BY <1>1, <1>2, <1>3, <1>9, <1>11, <2>2
<1> QED BY <1>10, <1>11

\* A device of the board, whichever it is.
LEMMA DeviceIs ==
  ASSUME NEW now, NEW events, NEW idx, NEW fut,
         NEW d \in BuildMarketSafety(now, events, idx, fut).devices
  PROVE  LET fired == TriggerTime(events, d.market, d.device, now)
         IN /\ d.market \in Markets
            /\ d.device \in SidecarDevices /\ AnyFired(d.market, events, now) => ~d.eligible
            /\ fired # NoTime =>
                 /\ d.state \in {"TRIGGERED", "RELEASED"} /\ d.at = fired
                 /\ d.released = ReleaseTime(events, d.market, d.device, fired, now)
                 /\ d.state = "RELEASED" <=> ReleaseTime(events, d.market, d.device, fired, now) # NoTime
            /\ fired = NoTime => ~Fired(d)
<1>1. PICK m \in Markets : d \in Sidecars(m, fut[m], events, now) \cup Breakers(m, idx[m], events, now)
  BY DEF BuildMarketSafety
<1>2. CASE d \in Sidecars(m, fut[m], events, now)
  <2>1. PICK device \in SidecarDevices : d = Sidecar(m, device, fut[m], events, now)
    BY <1>2 DEF Sidecars
  <2> QED BY <2>1, SidecarIs
<1>3. CASE d \in Breakers(m, idx[m], events, now)
  <2>1. PICK i \in 1 .. 3 : d = CircuitBreaker(m, i, idx[m], events, now)
    BY <1>3 DEF Breakers
  <2> QED BY <2>1, BreakerIs
<1> QED BY <1>1, <1>2, <1>3

-----------------------------------------------------------------------------
(* The two boards.                                                             *)

\* The older board's condition is that of one of the two directions.
LEMMA LegacyIs ==
  ASSUME NEW m \in Markets, NEW f, FutureSound(f)
  PROVE  LegacySidecar(m, f) = "CONDITION_OBSERVED"
           <=> Usable(f.fresh) /\ \E d \in SidecarDevices : Met(m, d, f)
<1>1. f.pct \in Int /\ f.spotPct \in Int
  BY DEF FutureSound
<1>2. PICK x \in Int, y \in Int : x = f.pct /\ y = f.spotPct
  BY <1>1
<1>3. PICK th \in 1 .. 6 : th = FuturesThreshold(m)
  BY DEF FuturesThreshold
<1>4. PICK sp \in 0 .. 3 : sp = SpotThreshold(m)
  BY DEF SpotThreshold
<1>5. Met(m, "SIDECAR_BUY", f) <=> x >= th /\ (sp = 0 \/ y >= sp)
  BY <1>2, <1>3, <1>4 DEF Met
<1>6. Met(m, "SIDECAR_SELL", f) <=> -x >= th /\ (sp = 0 \/ -y >= sp)
  BY <1>2, <1>3, <1>4 DEF Met
<1>7. (\E d \in SidecarDevices : Met(m, d, f))
        <=> AbsOf(x) >= th /\ (sp = 0 \/ (AbsOf(y) >= sp /\ SignOf(x) = SignOf(y)))
  BY <1>3, <1>4, <1>5, <1>6 DEF SidecarDevices, AbsOf, SignOf
<1>8. LegacySidecar(m, f) = "CONDITION_OBSERVED"
        <=> Usable(f.fresh) /\ AbsOf(x) >= th /\ (sp = 0 \/ (AbsOf(y) >= sp /\ SignOf(x) = SignOf(y)))
  BY <1>2, <1>3, <1>4 DEF LegacySidecar
<1> QED BY <1>7, <1>8

LEMMA BoardAgrees ==
  ASSUME NEW c, NEW events, NEW idx, NEW fut, NEW m \in Markets, FutureSound(fut[m]),
         c.safety = BuildMarketSafety(c.now, events, idx, fut), c.now \in Nat
  PROVE  Agree(c, m)
<1>1. PICK now \in Nat : now = c.now
  OBVIOUS
<1>2. PICK f : f = fut[m]
  OBVIOUS
<1> DEFINE safety == BuildMarketSafety(now, events, idx, fut)
           devices == {d \in safety.devices : d.market = m /\ d.device \in SidecarDevices}
           sidecar(d) == Sidecar(m, d, f, events, now)
<1>3. safety.sidecars = LegacySidecars(fut)
  BY DEF BuildMarketSafety
<1>4. SUFFICES ASSUME m \in DOMAIN LegacySidecars(fut)
               PROVE  /\ (\E d \in devices : d.state = "CONDITION_OBSERVED")
                            => LegacySidecars(fut)[m] = "CONDITION_OBSERVED"
                      /\ LegacySidecars(fut)[m] = "CONDITION_OBSERVED" =>
                            \/ \E d \in devices : d.state = "CONDITION_OBSERVED"
                            \/ \E d \in devices : Fired(d) \/ d.state = "EXPIRED_FOR_DAY"
                                                  \/ MinuteOf(now) < HM(9, 5)
  BY <1>1, <1>3 DEF Agree
<1>5. f.ok /\ (SpotThreshold(m) = 0 \/ f.spotOK) /\ LegacySidecars(fut)[m] = LegacySidecar(m, f)
  BY <1>2, <1>4 DEF LegacySidecars
<1>6. Sidecars(m, f, events, now) = {sidecar(d) : d \in SidecarDevices}
  BY <1>5 DEF Sidecars, SpotThreshold
<1>7. ASSUME NEW d \in SidecarDevices PROVE sidecar(d) \in devices
  <2>1. sidecar(d) \in safety.devices
    BY <1>2, <1>6 DEF BuildMarketSafety
  <2>2. sidecar(d).market = m /\ sidecar(d).device = d
    BY SidecarIs
  <2> QED BY <2>1, <2>2
<1>8. ASSUME NEW d \in devices PROVE d \in {sidecar(e) : e \in SidecarDevices}
  <2>1. PICK n \in Markets : d \in Sidecars(n, fut[n], events, now) \cup Breakers(n, idx[n], events, now)
    BY DEF BuildMarketSafety
  <2>2. CASE d \in Sidecars(n, fut[n], events, now)
    <3>1. PICK e \in SidecarDevices : d = Sidecar(n, e, fut[n], events, now)
      BY <2>2 DEF Sidecars
    <3>2. n = m
      BY <3>1, SidecarIs
    <3> QED BY <1>2, <3>1, <3>2
  <2>3. CASE d \in Breakers(n, idx[n], events, now)
    <3>1. PICK i \in 1 .. 3 : d = CircuitBreaker(n, i, idx[n], events, now)
      BY <2>3 DEF Breakers
    <3> QED BY <3>1, BreakerIs
  <2> QED BY <2>1, <2>2, <2>3
<1>9. LegacySidecar(m, f) = "CONDITION_OBSERVED"
        <=> Usable(f.fresh) /\ \E d \in SidecarDevices : Met(m, d, f)
  BY <1>2, LegacyIs
<1> DEFINE any == AnyFired(m, events, now)
           waits(d) == WaitingState(now, SidecarWindow, ~any, Met(m, d, f))
<1>10. ASSUME NEW d \in devices, d.state = "CONDITION_OBSERVED"
       PROVE  LegacySidecar(m, f) = "CONDITION_OBSERVED"
  <2>1. PICK e \in SidecarDevices : d = sidecar(e)
    BY <1>8
  <2>2. Usable(f.fresh) /\ waits(e) = "CONDITION_OBSERVED"
    BY <1>10, <2>1, SidecarIs
  <2>3. Met(m, e, f)
    BY <2>2 DEF WaitingState
  <2> QED BY <1>9, <2>2, <2>3
<1>11. ASSUME LegacySidecar(m, f) = "CONDITION_OBSERVED"
       PROVE  \E d \in devices : \/ d.state = "CONDITION_OBSERVED" \/ Fired(d)
                                \/ d.state = "EXPIRED_FOR_DAY" \/ MinuteOf(now) < HM(9, 5)
  <2>1. PICK e \in SidecarDevices : Met(m, e, f) /\ Usable(f.fresh)
    BY <1>9, <1>11
  <2>2. CASE any
    <3>1. PICK g \in SidecarDevices : TriggerTime(events, m, g, now) # NoTime
      BY <2>2 DEF AnyFired
    <3>2. sidecar(g).state \in {"TRIGGERED", "RELEASED"}
      BY <3>1, SidecarIs
    <3>3. Fired(sidecar(g))
      BY <3>2 DEF Fired
    <3> QED BY <1>7, <3>3
  <2>3. CASE ~any
    <3>1. TriggerTime(events, m, e, now) = NoTime
      BY <2>3 DEF AnyFired
    <3>2. sidecar(e).state = waits(e)
      <4>1. Usable(f.fresh)
        BY <2>1
      <4> QED BY <3>1, <4>1, SidecarIs
    <3>3. waits(e) \in {"CONDITION_OBSERVED", "EXPIRED_FOR_DAY"} \/ MinuteOf(now) < HM(9, 5)
      BY <2>1, <2>3 DEF WaitingState, SidecarWindow
    <3> QED BY <1>7, <3>2, <3>3
  <2> QED BY <2>2, <2>3
<1> HIDE DEF devices
<1> QED BY <1>5, <1>10, <1>11

-----------------------------------------------------------------------------
(* What an invocation of the pulse has gathered, and its deltas.               *)

\* What a record says of the flows and of program trading is what the provider said
\* of that time.
Answered(r) ==
  \A m \in Markets :
    /\ r.flow[m].ok => /\ r.flow[m].ts \in Int
                       /\ r.flow[m].foreign \in PublishedFlow(m, r.flow[m].ts)
    /\ r.prog[m].ok /\ r.prog[m].ts # NoTime =>
         /\ r.prog[m].ts \in Int
         /\ r.prog[m].net \in PublishedProgram(m, r.prog[m].ts)

\* Among the rows with the latest hour there is a first one.
LEMMA FirstLatestExists ==
  ASSUME NEW n \in Nat, n # 0, NEW b \in Int, NEW hour \in [1 .. n -> Int],
         \A i \in 1 .. n : hour[i] <= b
  PROVE  \E i \in 1 .. n : /\ \A j \in 1 .. n : hour[j] <= hour[i]
                           /\ \A j \in 1 .. i - 1 : hour[j] < hour[i]
<1> DEFINE hours == {hour[i] : i \in 1 .. n}
<1>1. hours \in SUBSET Int /\ hours # {} /\ \A h \in hours : h <= b
  <2>1. 1 \in 1 .. n /\ \A i \in 1 .. n : hour[i] \in Int
    OBVIOUS
  <2> QED BY <2>1
<1>2. \E h \in hours : \A g \in hours : g <= h
  <2> HIDE DEF hours
  <2> QED BY <1>1, GreatestOfBounded
<1>3. PICK h \in hours : \A g \in hours : g <= h
  BY <1>2
<1> DEFINE last == {i \in 1 .. n : hour[i] = h}
<1>4. last \in SUBSET Nat /\ last # {}
  OBVIOUS
<1>5. \E i \in last : \A j \in last : i <= j
  <2> HIDE DEF last
  <2> QED BY <1>4, LeastExists
<1>6. PICK i \in last : \A j \in last : i <= j
  BY <1>5
<1>7. i \in 1 .. n /\ hour[i] = h
  OBVIOUS
<1>8. ASSUME NEW j \in 1 .. n PROVE hour[j] <= hour[i]
  BY <1>3, <1>7
<1>9. ASSUME NEW j \in 1 .. i - 1 PROVE hour[j] < hour[i]
  <2>1. j \in 1 .. n /\ j < i
    BY <1>7
  <2>2. hour[j] # h
    BY <1>6, <2>1
  <2>3. hour[j] \in Int /\ hour[i] \in Int
    <3>1. \A k \in 1 .. n : hour[k] \in Int
      OBVIOUS
    <3> QED BY <1>7, <2>1, <3>1
  <2> QED BY <1>7, <1>8, <2>1, <2>2, <2>3
<1> HIDE DEF last, hours
<1> QED BY <1>7, <1>8, <1>9

LEMMA TimedRow ==
  ASSUME NEW row, Timed(row)
  PROVE  row.day \in Int /\ row.hour \in Int /\ row.hour <= 1439
BY DEF Timed

LEMMA LatestRowIs ==
  ASSUME NEW list, Len(list) \in Nat, DOMAIN list = 1 .. Len(list), Len(list) # 0,
         \A i \in DOMAIN list : Timed(list[i])
  PROVE  LatestRow(list) \in DOMAIN list
<1>1. PICK n \in Nat : n = Len(list)
  OBVIOUS
<1> DEFINE hr == [i \in 1 .. n |-> list[i].hour]
<1>2. hr \in [1 .. n -> Int] /\ \A i \in 1 .. n : hr[i] <= 1439
  <2>1. ASSUME NEW i \in 1 .. n PROVE list[i].hour \in Int /\ list[i].hour <= 1439
    <3>1. PICK row : row = list[i]
      OBVIOUS
    <3>2. Timed(row)
      BY <1>1, <3>1
    <3>3. row.hour \in Int /\ row.hour <= 1439
      BY <3>2, TimedRow
    <3> QED BY <3>1, <3>3, Zenon
  <2> QED BY <2>1
<1>3. PICK hour : hour = hr
  OBVIOUS
<1>4. \A i \in 1 .. n : hour[i] = list[i].hour
  BY <1>3
<1> HIDE DEF hr
<1>5. PICK b \in Int : b = 1439
  OBVIOUS
<1>6. hour \in [1 .. n -> Int] /\ n # 0 /\ \A i \in 1 .. n : hour[i] <= b
  BY <1>1, <1>2, <1>3, <1>5
<1>7. PICK i \in 1 .. n : /\ \A j \in 1 .. n : hour[j] <= hour[i]
                         /\ \A j \in 1 .. i - 1 : hour[j] < hour[i]
  BY <1>6, FirstLatestExists
<1>8. /\ i \in DOMAIN list
      /\ \A j \in DOMAIN list : list[j].hour <= list[i].hour
      /\ \A j \in 1 .. i - 1 : list[j].hour < list[i].hour
  <2>1. \A j \in 1 .. i - 1 : j \in 1 .. n
    OBVIOUS
  <2> QED BY <1>1, <1>4, <1>7, <2>1
<1> QED BY <1>8 DEF LatestRow

\* Program trading is one of the provider's rows.
LEMMA ProgramIsARow ==
  ASSUME NEW a, Len(a.rows) \in Nat, DOMAIN a.rows = 1 .. Len(a.rows),
         \A i \in DOMAIN a.rows : Timed(a.rows[i]),
         NEW r, r = CollectProgramTrade(a), r.ok, r.ts # NoTime
  PROVE  /\ r.ts \in Int
         /\ \E s \in ToSet(a.rows) : r.net = s.net /\ r.ts = At(s.day, 0, s.hour)
<1>1. a.ok /\ a.rows # <<>>
  BY DEF CollectProgramTrade, NoProgram
<1>2. Len(a.rows) # 0
  <2>1. ASSUME Len(a.rows) = 0 PROVE FALSE
    <3>1. DOMAIN a.rows = {} /\ a.rows = [i \in {} |-> a.rows[i]]
      BY <2>1
    <3> QED BY <1>1, <3>1
  <2> QED BY <2>1
<1>3. PICK latest \in ToSet(a.rows) :
        /\ latest = a.rows[LatestRow(a.rows)]
        /\ Timed(latest)
  <2>1. PICK list : list = a.rows
    OBVIOUS
  <2>2. LatestRow(list) \in DOMAIN list
    BY <1>2, <2>1, LatestRowIs
  <2>3. list[LatestRow(list)] \in ToSet(list)
    BY <2>2 DEF ToSet
  <2> QED BY <2>1, <2>2, <2>3
<1>4. r = [ok |-> TRUE, net |-> latest.net,
           ts |-> IF latest.day = NoTime THEN NoTime ELSE At(latest.day, 0, latest.hour)]
  BY <1>1, <1>3 DEF CollectProgramTrade, NoProgram
<1>5. r.net = latest.net /\ r.ts = At(latest.day, 0, latest.hour)
  BY <1>4
<1>6. r.ts \in Int
  <2>1. PICK d \in Int, h \in Int : d = latest.day /\ h = latest.hour
    <3>1. latest.day \in Int /\ latest.hour \in Int
      BY <1>3, TimedRow
    <3> QED BY <3>1
  <2>2. At(d, 0, h) \in Int
    BY DEF At
  <2> QED BY <1>5, <2>1, <2>2
<1> QED BY <1>5, <1>6

\* What the providers say now is answered so.
LEMMA AnswersNow ==
  ASSUME OnTheClock, NEW r, NEW q, q = world.quotes[clock],
         r.flow = [m \in Markets |-> CollectFlow(q.flow[m])],
         r.prog = [m \in Markets |-> CollectProgramTrade(q.prog[m])]
  PROVE  Answered(r)
<1>1. SUFFICES ASSUME NEW m \in Markets
               PROVE  /\ r.flow[m].ok => /\ r.flow[m].ts \in Int
                                         /\ r.flow[m].foreign \in PublishedFlow(m, r.flow[m].ts)
                      /\ r.prog[m].ok /\ r.prog[m].ts # NoTime =>
                           /\ r.prog[m].ts \in Int
                           /\ r.prog[m].net \in PublishedProgram(m, r.prog[m].ts)
  BY DEF Answered
<1>2. world \in Worlds /\ clock \in world.times
  BY DEF OnTheClock
<1>3. /\ q.flow[m].ts \in Int /\ Len(q.prog[m].rows) \in Nat
      /\ DOMAIN q.prog[m].rows = 1 .. Len(q.prog[m].rows)
      /\ \A i \in DOMAIN q.prog[m].rows : Timed(q.prog[m].rows[i])
  <2>1. PICK w \in Worlds : w = world
    BY <1>2
  <2>2. PICK t \in w.times : t = clock
    BY <1>2, <2>1
  <2>3. q = w.quotes[t]
    BY <2>1, <2>2
  <2>4. Numeric(q, m)
    BY <2>3, QuotesAssumption
  <2> QED BY <2>4 DEF Numeric
<1>4. ASSUME r.flow[m].ok
      PROVE  r.flow[m].ts \in Int /\ r.flow[m].foreign \in PublishedFlow(m, r.flow[m].ts)
  <2>1. r.flow[m].ts = q.flow[m].ts /\ r.flow[m].foreign = q.flow[m].foreign
    <3>1. PICK a, x : a = q.flow[m] /\ x = r.flow[m] /\ x = CollectFlow(a)
      OBVIOUS
    <3>2. x.ts = a.ts /\ x.foreign = a.foreign
      BY <1>4, <3>1 DEF CollectFlow, NoFlow
    <3> QED BY <3>1, <3>2
  <2> QED BY <1>2, <1>3, <2>1 DEF PublishedFlow
<1>5. ASSUME r.prog[m].ok, r.prog[m].ts # NoTime
      PROVE  r.prog[m].ts \in Int /\ r.prog[m].net \in PublishedProgram(m, r.prog[m].ts)
  <2>1. PICK a, x : a = q.prog[m] /\ x = r.prog[m]
    OBVIOUS
  <2>2. x.ts \in Int /\ \E s \in ToSet(a.rows) : x.net = s.net /\ x.ts = At(s.day, 0, s.hour)
    <3>1. x = CollectProgramTrade(a) /\ x.ok /\ x.ts # NoTime
      BY <1>5, <2>1
    <3>2. /\ Len(a.rows) \in Nat /\ DOMAIN a.rows = 1 .. Len(a.rows)
          /\ \A i \in DOMAIN a.rows : Timed(a.rows[i])
      BY <1>3, <2>1
    <3> HIDE <2>1
    <3> QED BY <3>1, <3>2, ProgramIsARow
  <2>3. PICK s \in ToSet(q.prog[m].rows) : x.net = s.net /\ x.ts = At(s.day, 0, s.hour)
    BY <2>1, <2>2
  <2> QED BY <1>2, <2>1, <2>2, <2>3 DEF PublishedProgram
<1> QED BY <1>4, <1>5

\* A delta spans two answers of one day, and what it says is their difference.
LEMMA FlowDeltaIs ==
  ASSUME NEW refs, NEW m \in Markets, NEW c, NEW now, Answered(c), \A r \in refs : Answered(r),
         NEW d, d = FlowDelta(refs, m, c.flow[m], now), d.ok
  PROVE  /\ d.ref \in Int /\ d.elapsed \in Int /\ SameDay(d.ref, d.ref + d.elapsed)
         /\ \E a \in PublishedFlow(m, d.ref), b \in PublishedFlow(m, d.ref + d.elapsed) :
              d.value = b - a
<1>1. PICK cur : cur = c.flow[m]
  OBVIOUS
<1> DEFINE usable == {r \in refs : cur.ok /\ ValidRecordTime(r, now) /\ Ordered(r.flow[m], cur)}
           r0 == CHOOSE r \in usable : TRUE
<1>2. usable # {}
  BY <1>1 DEF FlowDelta, NoDelta
<1>3. r0 \in usable
  BY <1>2
<1>4. PICK r \in usable : r = r0
  BY <1>3
<1>5. d = [ok |-> TRUE, ref |-> r.flow[m].ts, elapsed |-> cur.ts - r.flow[m].ts,
           value |-> cur.foreign - r.flow[m].foreign]
  BY <1>1, <1>2, <1>4 DEF FlowDelta
<1>6. cur.ok /\ r.flow[m].ok /\ SameDay(r.flow[m].ts, cur.ts) /\ Answered(r)
  BY DEF Ordered
<1>7. /\ cur.ts \in Int /\ r.flow[m].ts \in Int
      /\ cur.foreign \in PublishedFlow(m, cur.ts)
      /\ r.flow[m].foreign \in PublishedFlow(m, r.flow[m].ts)
  BY <1>1, <1>6 DEF Answered
<1>8. /\ d.ref = r.flow[m].ts /\ d.elapsed = cur.ts - r.flow[m].ts
      /\ d.value = cur.foreign - r.flow[m].foreign
  BY <1>5
<1> QED BY <1>6, <1>7, <1>8

LEMMA ProgramDeltaIs ==
  ASSUME NEW refs, NEW m \in Markets, NEW c, NEW now, Answered(c), \A r \in refs : Answered(r),
         NEW d, d = ProgramDelta(refs, m, c.prog[m], now), d.ok
  PROVE  /\ d.ref \in Int /\ d.elapsed \in Int /\ SameDay(d.ref, d.ref + d.elapsed)
         /\ \E a \in PublishedProgram(m, d.ref), b \in PublishedProgram(m, d.ref + d.elapsed) :
              d.value = b - a
<1>1. PICK cur : cur = c.prog[m]
  OBVIOUS
<1> DEFINE usable == {r \in refs : cur.ok /\ ValidRecordTime(r, now) /\ Ordered(r.prog[m], cur)}
           r0 == CHOOSE r \in usable : TRUE
<1>2. usable # {}
  BY <1>1 DEF ProgramDelta, NoDelta
<1>3. r0 \in usable
  BY <1>2
<1>4. PICK r \in usable : r = r0
  BY <1>3
<1>5. d = [ok |-> TRUE, ref |-> r.prog[m].ts, elapsed |-> cur.ts - r.prog[m].ts,
           value |-> cur.net - r.prog[m].net]
  BY <1>1, <1>2, <1>4 DEF ProgramDelta
<1>6. cur.ok /\ r.prog[m].ok /\ SameDay(r.prog[m].ts, cur.ts) /\ Answered(r)
  BY DEF Ordered
<1>7. /\ cur.ts \in Int /\ r.prog[m].ts \in Int
      /\ cur.net \in PublishedProgram(m, cur.ts)
      /\ r.prog[m].net \in PublishedProgram(m, r.prog[m].ts)
  BY <1>1, <1>6 DEF Answered, SameDay
<1>8. /\ d.ref = r.prog[m].ts /\ d.elapsed = cur.ts - r.prog[m].ts
      /\ d.value = cur.net - r.prog[m].net
  BY <1>5
<1> QED BY <1>6, <1>7, <1>8

\* An hourly delta is none or spans its hours.
LEMMA BoundedIs ==
  ASSUME NEW d, NEW minutes \in Int, NEW b, b = Bounded(d, minutes), b.ok
  PROVE  b = d /\ d.elapsed \in minutes .. minutes + 5
BY DEF Bounded, NoDelta

LEMMA ReferencesAreRecords ==
  ASSUME NEW recs, NEW now, NEW refs, refs = References(recs, now)
  PROVE  /\ DOMAIN refs = {"prev", "anchor", "h1", "h2"}
         /\ \A r \in refs.h1 \cup refs.h2 : \E i \in DOMAIN recs : r = recs[i]
<1>1. /\ DOMAIN refs = {"prev", "anchor", "h1", "h2"}
      /\ refs.h1 = LoadNearest(recs, now - 60) /\ refs.h2 = LoadNearest(recs, now - 120)
  BY DEF References
<1>2. ASSUME NEW target, NEW r \in LoadNearest(recs, target)
      PROVE  \E i \in DOMAIN recs : r = recs[i]
  BY DEF LoadNearest
<1> QED BY <1>1, <1>2

\* The hourly deltas against answered records are windows of what was published.
LEMMA WindowsHold ==
  ASSUME NEW c, NEW recs, NEW now, NEW m \in Markets, NEW x, NEW refs, Answered(c),
         \A i \in DOMAIN recs : Answered(recs[i]), refs = References(recs, now),
         x.flows[m] = HoursBounded([k \in DOMAIN refs |-> FlowDelta(refs[k], m, c.flow[m], now)]),
         x.programs[m] = HoursBounded([k \in DOMAIN refs |-> ProgramDelta(refs[k], m, c.prog[m], now)])
  PROVE  Windows(x, m)
<1>1. /\ DOMAIN refs = {"prev", "anchor", "h1", "h2"}
      /\ \A r \in refs.h1 \cup refs.h2 : Answered(r)
  BY ReferencesAreRecords
<1>2. PICK f, g : f = x.flows[m] /\ g = x.programs[m]
  OBVIOUS
<1>3. PICK fd : fd = [k \in DOMAIN refs |-> FlowDelta(refs[k], m, c.flow[m], now)]
  OBVIOUS
<1>4. PICK pd : pd = [k \in DOMAIN refs |-> ProgramDelta(refs[k], m, c.prog[m], now)]
  OBVIOUS
<1>5. /\ fd.h1 = FlowDelta(refs.h1, m, c.flow[m], now)
      /\ fd.h2 = FlowDelta(refs.h2, m, c.flow[m], now)
      /\ pd.h1 = ProgramDelta(refs.h1, m, c.prog[m], now)
      /\ pd.h2 = ProgramDelta(refs.h2, m, c.prog[m], now)
  BY <1>1, <1>3, <1>4
<1>6. /\ f.h1 = Bounded(fd.h1, 60) /\ f.h2 = Bounded(fd.h2, 120)
      /\ g.h1 = Bounded(pd.h1, 60) /\ g.h2 = Bounded(pd.h2, 120)
  <2>1. ASSUME NEW d, DOMAIN d = {"prev", "anchor", "h1", "h2"}
        PROVE  HoursBounded(d).h1 = Bounded(d.h1, 60) /\ HoursBounded(d).h2 = Bounded(d.h2, 120)
    BY <2>1 DEF HoursBounded
  <2>2. DOMAIN fd = {"prev", "anchor", "h1", "h2"} /\ DOMAIN pd = {"prev", "anchor", "h1", "h2"}
    BY <1>1, <1>3, <1>4
  <2>3. f = HoursBounded(fd) /\ g = HoursBounded(pd)
    BY <1>2, <1>3, <1>4
  <2> QED BY <2>1, <2>2, <2>3
<1>7. ASSUME NEW near, \A r \in near : Answered(r), NEW minutes \in Int, NEW d, NEW b,
             d = FlowDelta(near, m, c.flow[m], now), b = Bounded(d, minutes), b.ok
      PROVE  /\ b.elapsed \in minutes .. minutes + 5 /\ SameDay(b.ref, b.ref + b.elapsed)
             /\ \E y \in PublishedFlow(m, b.ref), z \in PublishedFlow(m, b.ref + b.elapsed) :
                  b.value = z - y
  <2>1. b = d /\ d.elapsed \in minutes .. minutes + 5 /\ d.ok
    BY <1>7, BoundedIs
  <2>2. (\A r \in near : Answered(r)) /\ d = FlowDelta(near, m, c.flow[m], now) /\ d.ok
    BY <1>7, <2>1
  <2>3. /\ SameDay(d.ref, d.ref + d.elapsed)
        /\ \E y \in PublishedFlow(m, d.ref), z \in PublishedFlow(m, d.ref + d.elapsed) :
             d.value = z - y
    BY <2>2, FlowDeltaIs
  <2> QED BY <2>1, <2>3
<1>8. ASSUME NEW near, \A r \in near : Answered(r), NEW minutes \in Int, NEW d, NEW b,
             d = ProgramDelta(near, m, c.prog[m], now), b = Bounded(d, minutes), b.ok
      PROVE  /\ b.elapsed \in minutes .. minutes + 5 /\ SameDay(b.ref, b.ref + b.elapsed)
             /\ \E y \in PublishedProgram(m, b.ref), z \in PublishedProgram(m, b.ref + b.elapsed) :
                  b.value = z - y
  <2>1. b = d /\ d.elapsed \in minutes .. minutes + 5 /\ d.ok
    BY <1>8, BoundedIs
  <2>2. (\A r \in near : Answered(r)) /\ d = ProgramDelta(near, m, c.prog[m], now) /\ d.ok
    BY <1>8, <2>1
  <2>3. /\ SameDay(d.ref, d.ref + d.elapsed)
        /\ \E y \in PublishedProgram(m, d.ref), z \in PublishedProgram(m, d.ref + d.elapsed) :
             d.value = z - y
    BY <2>2, ProgramDeltaIs
  <2> QED BY <2>1, <2>3
<1>9. Between(f.h1, LAMBDA ts : PublishedFlow(m, ts), 60)
  BY <1>1, <1>5, <1>6, <1>7 DEF Between
<1>10. Between(f.h2, LAMBDA ts : PublishedFlow(m, ts), 120)
  BY <1>1, <1>5, <1>6, <1>7 DEF Between
<1>11. Between(g.h1, LAMBDA ts : PublishedProgram(m, ts), 60)
  BY <1>1, <1>5, <1>6, <1>8 DEF Between
<1>12. Between(g.h2, LAMBDA ts : PublishedProgram(m, ts), 120)
  BY <1>1, <1>5, <1>6, <1>8 DEF Between
<1> QED BY <1>2, <1>9, <1>10, <1>11, <1>12 DEF Windows
-----------------------------------------------------------------------------
(* Official events stand.                                                      *)

\* The events an evaluation has are places of a list, with times.
EventTimes(events, n) ==
  /\ DOMAIN events \subseteq 1 .. n
  /\ \A i \in DOMAIN events : {events[i].at, events[i].released} \subseteq Nat \cup {NoTime}
EventsSound(events) == \E n \in Nat : EventTimes(events, n)

LEMMA EventsAreSound ==
  ASSUME NEW w \in Worlds, NEW readable, NEW date, NEW t
  PROVE  EventsSound(LoadOfficialEvents(w.events, readable, date, t))
<1>1. PICK list, ok : list = w.events.events /\ ok = readable
  OBVIOUS
<1> DEFINE valid == {i \in DOMAIN list : /\ list[i].date = date /\ list[i].https /\ list[i].seen <= t
                                        /\ list[i].gone \notin 0 .. t}
<1>2. PICK events : events = LoadOfficialEvents(w.events, readable, date, t)
  OBVIOUS
<1>3. events = [i \in (IF ok THEN valid ELSE {}) |-> list[i]]
  BY <1>1, <1>2 DEF LoadOfficialEvents
<1>4. DOMAIN events \subseteq DOMAIN list /\ \A i \in DOMAIN events : events[i] = list[i]
  BY <1>3
<1>5. PICK n \in Nat : n = Len(list) /\ DOMAIN list = 1 .. n
  BY <1>1, EventsAssumption
<1>6. \A i \in DOMAIN list : {list[i].at, list[i].released} \subseteq Nat \cup {NoTime}
  BY <1>1, EventsAssumption
<1>7. EventTimes(events, n)
  BY <1>4, <1>5, <1>6 DEF EventTimes
<1> QED BY <1>2, <1>7 DEF EventsSound

PastEvents(events, market, device, now) ==
  {i \in EventsOf(events, market, device) : events[i].at # NoTime /\ events[i].at <= now}
LEMMA TriggerIs ==
  ASSUME NEW events, DOMAIN events \subseteq Nat, NEW market, NEW device, NEW now,
         NEW past, past = PastEvents(events, market, device, now)
  PROVE  /\ TriggerTime(events, market, device, now) # NoTime <=> past # {}
         /\ past # {} => /\ Min(past) \in past /\ \A i \in past : Min(past) <= i
                        /\ TriggerTime(events, market, device, now) = events[Min(past)].at
<1>1. past \in SUBSET Nat
  BY DEF PastEvents, EventsOf
<1>2. CASE past = {}
  BY <1>2 DEF TriggerTime, PastEvents
<1>3. CASE past # {}
  <2>1. Min(past) \in past /\ \A i \in past : Min(past) <= i
    BY <1>1, <1>3, LeastExists
  <2>2. TriggerTime(events, market, device, now) = events[Min(past)].at
    BY <1>3 DEF TriggerTime, PastEvents
  <2>3. events[Min(past)].at # NoTime
    BY <2>1 DEF PastEvents
  <2> QED BY <1>3, <2>1, <2>2, <2>3
<1> QED BY <1>2, <1>3

EndEvents(events, market, device, trigger, now) ==
  {i \in EventsOf(events, market, device) :
     events[i].released > trigger /\ events[i].released <= now}
LEMMA ReleaseIs ==
  ASSUME NEW events, NEW n \in Nat, DOMAIN events \subseteq 1 .. n, NEW market, NEW device,
         NEW trigger \in Nat, NEW now, NEW ends, ends = EndEvents(events, market, device, trigger, now),
         \A i \in DOMAIN events : events[i].released \in Int,
         NEW release, release = ReleaseTime(events, market, device, trigger, now)
  PROVE  /\ release # NoTime <=> device # "CB3" /\ ends # {}
         /\ release # NoTime => release \in Int /\ release > trigger /\ release <= now
<1>1. CASE device = "CB3" \/ ends = {}
  BY <1>1 DEF ReleaseTime, EndEvents
<1>2. CASE device # "CB3" /\ ends # {}
  <2>1. release = events[Max(ends)].released
    BY <1>2 DEF ReleaseTime, EndEvents
  <2>2. ends \in SUBSET Int /\ \A i \in ends : i <= n
    BY DEF EndEvents, EventsOf
  <2>3. \E i \in ends : \A j \in ends : j <= i
    <3>1. PICK b \in Int : b = n
      OBVIOUS
    <3>2. ends \in SUBSET Int /\ ends # {} /\ \A i \in ends : i <= b
      BY <1>2, <2>2, <3>1
    <3> HIDE <3>1
    <3> QED BY <3>2, GreatestOfBounded
  <2>4. Max(ends) \in ends
    <3>1. \E i \in ends : \A j \in ends : i >= j
      BY <2>2, <2>3
    <3> QED BY <3>1 DEF Max
  <2>5. PICK released \in Int : released = events[Max(ends)].released
    BY <2>4 DEF EndEvents, EventsOf
  <2>6. released > trigger /\ released <= now
    BY <2>4, <2>5 DEF EndEvents
  <2>7. released # NoTime
    BY <2>6 DEF NoTime
  <2> QED BY <1>2, <2>1, <2>5, <2>6, <2>7
<1> QED BY <1>1, <1>2

\* What an official device of a board says of its event.
Official(e, s) ==
  /\ e.at \in Nat /\ e.at <= s
  /\ e.state = "RELEASED" => /\ e.device # "CB3"
                             /\ e.released \in Int /\ e.released > e.at /\ e.released <= s
LEMMA OfficialIs ==
  ASSUME NEW events, EventsSound(events), NEW s, NEW idx, NEW fut,
         NEW e \in BuildMarketSafety(s, events, idx, fut).devices, Fired(e)
  PROVE  Official(e, s)
<1>1. PICK n \in Nat : EventTimes(events, n)
  BY DEF EventsSound
<1>2. PICK market, device, fired :
        market = e.market /\ device = e.device /\ fired = TriggerTime(events, market, device, s)
  OBVIOUS
<1>3. /\ fired # NoTime /\ e.at = fired /\ e.released = ReleaseTime(events, market, device, fired, s)
      /\ e.state = "RELEASED" <=> e.released # NoTime
  BY <1>2, DeviceIs
<1>4. PICK past : past = PastEvents(events, market, device, s)
  OBVIOUS
<1>5. DOMAIN events \subseteq Nat
  BY <1>1 DEF EventTimes
<1>6. Min(past) \in past /\ fired = events[Min(past)].at
  BY <1>2, <1>3, <1>4, <1>5, TriggerIs
<1>7. fired \in Nat /\ fired <= s
  <2>1. PICK i \in DOMAIN events : i = Min(past) /\ events[i].at <= s
    BY <1>4, <1>6 DEF PastEvents, EventsOf
  <2>2. events[i].at \in Nat \cup {NoTime}
    BY <1>1 DEF EventTimes
  <2> QED BY <1>3, <1>6, <2>1, <2>2
<1>8. ASSUME e.state = "RELEASED"
      PROVE  device # "CB3" /\ e.released \in Int /\ e.released > fired /\ e.released <= s
  <2>1. PICK release, ends : /\ release = ReleaseTime(events, market, device, fired, s)
                             /\ ends = EndEvents(events, market, device, fired, s)
    OBVIOUS
  <2>2. \A i \in DOMAIN events : events[i].released \in Int
    BY <1>1 DEF EventTimes, NoTime
  <2>3. DOMAIN events \subseteq 1 .. n
    BY <1>1 DEF EventTimes
  <2>4. release # NoTime
    BY <1>3, <1>8, <2>1
  <2>5. device # "CB3" /\ release \in Int /\ release > fired /\ release <= s
    BY <1>7, <2>1, <2>2, <2>3, <2>4, ReleaseIs
  <2> QED BY <1>3, <2>1, <2>5
<1> QED BY <1>2, <1>3, <1>7, <1>8 DEF Official

\* What is official stands on every later board that has its event.
LEMMA OfficialStands ==
  ASSUME NEW c, NEW events, EventsSound(events), NEW now \in Nat, NEW idx, NEW fut,
         c.events = events, c.safety = BuildMarketSafety(now, events, idx, fut),
         NEW s \in Nat, s <= now, NEW e, Official(e, s), Listed(c, e, "at")
  PROVE  Stands(c, e)
<1>1. PICK n \in Nat : EventTimes(events, n)
  BY DEF EventsSound
<1>2. PICK market, device : market = e.market /\ device = e.device
  OBVIOUS
<1>3. PICK fired : fired = TriggerTime(events, market, device, now)
  OBVIOUS
<1>4. e.at \in Nat /\ e.at <= now
  BY DEF Official
<1>5. fired # NoTime
  <2>1. PICK past : past = PastEvents(events, market, device, now)
    OBVIOUS
  <2>2. PICK i \in EventsOf(events, market, device) : events[i].at = e.at
    BY <1>2 DEF Listed
  <2>3. i \in past
    BY <1>4, <2>1, <2>2 DEF PastEvents, NoTime
  <2>4. DOMAIN events \subseteq Nat
    BY <1>1 DEF EventTimes
  <2> QED BY <1>3, <2>1, <2>3, <2>4, TriggerIs
<1>6. SUFFICES ASSUME NEW d \in c.safety.devices, d.market = e.market
      PROVE  /\ {d.device, e.device} \subseteq SidecarDevices => ~d.eligible
             /\ d.device = e.device =>
                  /\ Fired(d)
                  /\ e.state = "RELEASED" /\ d.at = e.at /\ Listed(c, e, "released")
                       => d.state = "RELEASED"
  BY DEF Stands
<1>7. ASSUME {d.device, e.device} \subseteq SidecarDevices PROVE ~d.eligible
  <2>1. AnyFired(d.market, events, now)
    BY <1>2, <1>3, <1>5, <1>6, <1>7 DEF AnyFired
  <2> QED BY <1>7, <2>1, DeviceIs
<1>8. ASSUME d.device = e.device
      PROVE  /\ d.state \in {"TRIGGERED", "RELEASED"} /\ d.at = fired
             /\ d.state = "RELEASED" <=> ReleaseTime(events, market, device, fired, now) # NoTime
  <2>1. fired = TriggerTime(events, d.market, d.device, now)
    BY <1>2, <1>3, <1>6, <1>8
  <2> QED BY <1>2, <1>5, <1>6, <1>8, <2>1, DeviceIs
<1>9. ASSUME d.device = e.device, e.state = "RELEASED", d.at = e.at, Listed(c, e, "released")
      PROVE  d.state = "RELEASED"
  <2>1. fired \in Nat /\ fired = e.at
    BY <1>4, <1>8, <1>9
  <2>2. PICK i \in EventsOf(events, market, device) : events[i].released = e.released
    BY <1>2, <1>9 DEF Listed
  <2>3. /\ device # "CB3" /\ e.released \in Int /\ e.released > fired /\ e.released <= now
    BY <1>2, <1>9, <2>1 DEF Official
  <2>4. PICK release, ends : /\ release = ReleaseTime(events, market, device, fired, now)
                             /\ ends = EndEvents(events, market, device, fired, now)
    OBVIOUS
  <2>5. i \in ends
    BY <2>2, <2>3, <2>4 DEF EndEvents
  <2>6. (\A k \in DOMAIN events : events[k].released \in Int) /\ DOMAIN events \subseteq 1 .. n
    BY <1>1 DEF EventTimes, NoTime
  <2>7. release # NoTime
    BY <2>1, <2>3, <2>4, <2>5, <2>6, ReleaseIs
  <2> QED BY <1>8, <1>9, <2>4, <2>7
<1> QED BY <1>7, <1>8, <1>9 DEF Fired

\* A record says of its official devices what their events are.
RecSound(r) == r.ts \in Nat /\ Answered(r) /\ \A e \in r.devices : Fired(e) => Official(e, r.ts)

\* What a pulse finds official in its history, and in the file, stands.
Firm(c) ==
  \A r \in Range(c.history) : \A e \in r.devices : Fired(e) /\ Listed(c, e, "at") => Stands(c, e)
LEMMA FirmHolds ==
  ASSUME NEW c, c.now \in Nat, EventsSound(c.events), NEW idx, NEW fut,
         c.safety = BuildMarketSafety(c.now, c.events, idx, fut),
         \A r \in Range(c.history) : RecSound(r) /\ ValidRecordTime(r, c.now)
  PROVE  Firm(c)
<1>1. SUFFICES ASSUME NEW r \in Range(c.history), NEW e \in r.devices, Fired(e), Listed(c, e, "at")
               PROVE  Stands(c, e)
  BY DEF Firm
<1>2. PICK s \in Nat : s = r.ts
  BY DEF RecSound
<1>3. PICK now \in Nat : now = c.now
  OBVIOUS
<1>4. Official(e, s) /\ s <= now
  BY <1>1, <1>2, <1>3 DEF RecSound, ValidRecordTime
<1>5. PICK events : events = c.events
  OBVIOUS
<1>6. EventsSound(events) /\ c.safety = BuildMarketSafety(now, events, idx, fut)
  BY <1>3, <1>5
<1> QED BY <1>1, <1>4, <1>5, <1>6, OfficialStands

\* What is read from a file is in it.
LEMMA LoadedIsHeld ==
  ASSUME NEW f, LinesSound(f), NEW recs, recs = LoadRecords(f).recs
  PROVE  \A i \in DOMAIN recs : Holds(f, recs[i])
<1>1. CASE \E i \in DOMAIN f.lines : ~Readable(f.lines[i])
  <2>1. recs = <<>>
    BY <1>1 DEF LoadRecords
  <2> QED BY <2>1
<1>2. CASE \A i \in DOMAIN f.lines : Readable(f.lines[i])
  <2>1. recs = [i \in DOMAIN f.lines |-> f.lines[i][1].rec]
    BY <1>2 DEF LoadRecords
  <2>2. ASSUME NEW i \in DOMAIN f.lines PROVE 1 \in DOMAIN f.lines[i]
    <3>1. PICK line : line = f.lines[i]
      OBVIOUS
    <3>2. line \in Seq(ToSet(line)) /\ Len(line) = 1
      BY <3>1, <1>2 DEF LinesSound, Readable
    <3> DEFINE S == ToSet(line)
    <3>3. line \in Seq(S)
      BY <3>2
    <3> HIDE DEF S
    <3>4. 1 \in DOMAIN line
      BY <3>2, <3>3
    <3> QED BY <3>1, <3>4
  <2> QED BY <2>1, <2>2 DEF Holds
<1> QED BY <1>1, <1>2

\* An append adds nothing but its record.
LEMMA AppendAdds ==
  ASSUME NEW f, LinesSound(f), NEW rec, NEW whole, NEW newline, NEW r,
         Holds(AppendRecord(f, rec, whole, newline), r)
  PROVE  r = rec \/ Holds(f, r)
<1>0. PICK g : g = AppendRecord(f, rec, whole, newline)
  OBVIOUS
<1>1. PICK piece : piece = [rec |-> rec, whole |-> whole] /\ piece.rec = rec
  <2>1. [rec |-> rec, whole |-> whole].rec = rec
    OBVIOUS
  <2> QED BY <2>1
<1>2. PICK lines : lines = f.lines
  OBVIOUS
<1>3. PICK n : n = Len(lines)
  OBVIOUS
<1>4. lines \in Seq(ToSet(lines)) /\ lines = [i \in DOMAIN lines |-> lines[i]]
  <2>1. lines \in Seq(ToSet(lines))
    BY <1>2 DEF LinesSound
  <2> DEFINE S == ToSet(lines)
  <2>2. lines \in Seq(S)
    BY <2>1
  <2> HIDE DEF S
  <2>3. lines = [i \in DOMAIN lines |-> lines[i]]
    BY <2>2
  <2> QED BY <2>1, <2>3
<1>5. PICK i \in DOMAIN g.lines : \E k \in DOMAIN g.lines[i] : g.lines[i][k].rec = r
  BY <1>0 DEF Holds
<1>6. PICK k \in DOMAIN g.lines[i] : g.lines[i][k].rec = r
  BY <1>5
<1>7. ASSUME NEW line \in ToSet(lines), NEW x \in ToSet(line), x.rec = r PROVE Holds(f, r)
  <2>1. PICK a \in DOMAIN lines : lines[a] = line
    BY DEF ToSet
  <2>2. PICK b \in DOMAIN line : line[b] = x
    BY DEF ToSet
  <2> QED BY <1>2, <1>7, <2>1, <2>2 DEF Holds
<1>8. CASE f.open
  <2>1. PICK line : line = Append(lines[n], piece)
    OBVIOUS
  <2>2. g = [lines |-> [lines EXCEPT ![n] = line], open |-> ~newline]
    BY <1>0, <1>1, <1>2, <1>3, <1>8, <2>1 DEF AppendRecord
  <2>3. g.lines = [lines EXCEPT ![n] = line]
    BY <2>2
  <2>4. i \in DOMAIN lines /\ g.lines[i] = IF i = n THEN line ELSE lines[i]
    BY <1>4, <2>3
  <2>5. CASE i = n
    <3>1. lines[n] \in Seq(ToSet(lines[n])) /\ lines[n] \in ToSet(lines)
      BY <1>2, <2>4, <2>5 DEF LinesSound, ToSet
    <3>2. ToSet(line) = ToSet(lines[n]) \cup {piece}
      BY <2>1, <3>1, AppendedTo
    <3>3. line[k] \in ToSet(line) /\ line[k].rec = r
      BY <1>6, <2>4, <2>5 DEF ToSet
    <3>4. PICK x : x = line[k]
      OBVIOUS
    <3>5. x.rec = r /\ (x = piece \/ x \in ToSet(lines[n]))
      BY <3>2, <3>3, <3>4
    <3> QED BY <1>1, <1>7, <3>1, <3>5
  <2>6. CASE i # n
    <3>1. lines[i] \in ToSet(lines) /\ lines[i][k] \in ToSet(lines[i]) /\ lines[i][k].rec = r
      BY <1>6, <2>4, <2>6 DEF ToSet
    <3> QED BY <1>7, <3>1
  <2> QED BY <2>5, <2>6
<1>9. CASE ~f.open
  <2>1. PICK line : line = <<piece>>
    OBVIOUS
  <2>2. line = [b \in {1} |-> piece]
    BY <2>1
  <2>3. ToSet(line) = {piece}
    BY <2>2 DEF ToSet
  <2>4. PICK new : new = Append(lines, line)
    OBVIOUS
  <2>5. ToSet(new) = ToSet(lines) \cup {line}
    BY <1>4, <2>4, AppendedTo
  <2>6. g.lines = new
    <3>1. g = [lines |-> new, open |-> ~newline]
      BY <1>0, <1>1, <1>2, <1>9, <2>1, <2>4 DEF AppendRecord
    <3> QED BY <3>1
  <2>7. new[i] \in ToSet(new) /\ new[i][k] \in ToSet(new[i]) /\ new[i][k].rec = r
    BY <1>5, <1>6, <2>6 DEF ToSet
  <2>8. PICK l, x : l = new[i] /\ x = new[i][k]
    OBVIOUS
  <2>9. x.rec = r /\ x \in ToSet(l) /\ (l = line \/ l \in ToSet(lines))
    BY <2>5, <2>7, <2>8
  <2> QED BY <1>1, <1>7, <2>3, <2>9
<1> QED BY <1>8, <1>9
-----------------------------------------------------------------------------
(* The invocations of the pulse.                                               *)

\* What has been concluded: a record worth keeping, deltas that are windows,
\* a board that agrees with itself and with the history.
ConcludedSound(c) ==
  /\ RecSound(c.rec)
  /\ Firm(c) /\ \A m \in Markets : Windows(c, m) /\ Agree(c, m)

\* An invocation under way carries the time it was started with; what it has gathered
\* is what the providers said.
InvocationSound(c) ==
  /\ c.pc # "idle" => c.now \in Instants
  /\ c.pc \in {"started", "gathered"} => {"pc", "now"} \subseteq DOMAIN c
  /\ c.pc = "gathered" => {"bd", "flow", "prog", "fut"} \subseteq DOMAIN c
  /\ c.pc = "gathered" => Answered(c) /\ \A m \in Markets : FutureSound(c.fut[m])
  /\ c.pc = "concluded" => ConcludedSound(c)

\* The files hold records that invocations have concluded before.
PulseSound ==
  /\ pulse = [p \in Pulses |-> pulse[p]]
  /\ \A p \in Pulses : InvocationSound(pulse[p])
  /\ \A d \in Days : \A r : Holds(file[d], r) => RecSound(r)
PulseInv == OnTheClock /\ SavedInFile /\ PulseSound

\* The future an invocation has asked for has numbers in it.
LEMMA FutureIsSound ==
  ASSUME NEW a, a.pct \in Int, a.spotPct \in Int, NEW market, NEW code, NEW now,
         NEW idx, idx.pct \in Int
  PROVE  /\ FutureSound(CollectFuture(a, market, code, now))
         /\ FutureSound(WithSpot(CollectFuture(a, market, code, now), idx))
<1>1. PICK f : f = CollectFuture(a, market, code, now)
  OBVIOUS
<1>2. f.pct \in Int /\ f.spotPct \in Int /\ {"pct", "spotOK", "spotPct", "match"} \subseteq DOMAIN f
  <2> DEFINE spot == IF market = "KOSPI" THEN "2001" ELSE "3003"
             spotOK == a.spotCode = spot /\ a.spotPct # NoNum /\ a.spot > 0
             spotPct == IF a.spotPct = NoNum THEN 0 ELSE a.spotPct
             match == spotOK /\ a.basis = a.price - a.spot
             fresh == PulseFreshness("KRX", a.ts, now, FALSE)
  <2>1. f = NoFuture \/ f = [ok |-> TRUE, code |-> code, price |-> a.price, pct |-> a.pct, spotOK |-> spotOK,
                             spotPct |-> spotPct, match |-> match, fresh |-> fresh, ts |-> a.ts]
    BY <1>1 DEF CollectFuture
  <2>4. spotPct \in Int
    OBVIOUS
  <2> HIDE DEF spotOK, spotPct, match, fresh
  <2>2. CASE f = NoFuture
    <3>1. /\ NoFuture.pct = 0 /\ NoFuture.spotPct = 0
          /\ DOMAIN NoFuture = {"ok", "code", "price", "pct", "spotOK", "spotPct", "match", "fresh", "ts"}
      BY DEF NoFuture
    <3> QED BY <2>2, <3>1
  <2>3. CASE f # NoFuture
    <3>1. /\ f.pct = a.pct /\ f.spotPct = spotPct
          /\ DOMAIN f = {"ok", "code", "price", "pct", "spotOK", "spotPct", "match", "fresh", "ts"}
      BY <2>1, <2>3
    <3> QED BY <2>4, <3>1
  <2> QED BY <2>2, <2>3
<1>3. PICK g : g = WithSpot(f, idx)
  OBVIOUS
<1>4. g = f \/ g = [f EXCEPT !.spotOK = TRUE, !.spotPct = idx.pct, !.match = FALSE]
  BY <1>3 DEF WithSpot
<1>5. g.pct \in Int /\ g.spotPct \in Int
  BY <1>2, <1>4
<1> QED BY <1>1, <1>2, <1>3, <1>5 DEF FutureSound

LEMMA IndexIsSound ==
  ASSUME NEW a, a.pct \in Int, NEW now PROVE CollectIndex(a, now).pct \in Int
BY DEF CollectIndex, NoIndex

PulseBecomes(c, p) == pulse' = [pulse EXCEPT ![p] = c]
LEMMA GatherMakes ==
  ASSUME PulseInv, NEW p \in Pulses, Gather(p)
  PROVE  \E c : /\ PulseBecomes(c, p) /\ c.pc = "gathered" /\ c.now = pulse[p].now
                /\ {"pc", "now", "bd", "flow", "prog", "fut"} \subseteq DOMAIN c
                /\ Answered(c) /\ \A m \in Markets : FutureSound(c.fut[m])
<1> DEFINE q == world.quotes[clock]
           now == pulse[p].now
           bd == BusinessDate(pulse[p])
           idx == [m \in Markets |-> CollectIndex(q.idx[m], now)]
           code(m) == ResolvedContract(pulse[p], m, m, bd)
           fut == [m \in Markets |-> CollectFuture(q.fut[m], m, code(m), now)]
           asked == [fut EXCEPT !["KOSDAQ"] = WithSpot(fut["KOSDAQ"], CollectIndex(q.spot, now))]
           flow == [m \in Markets |-> CollectFlow(q.flow[m])]
           prog == [m \in Markets |-> CollectProgramTrade(q.prog[m])]
           vk == CollectVKOSPI(ResolveVKOSPICode(q), q.vkospi, GetIndexQuote(q.naver, "VKOSPI"), now)
           win == CollectMarket(q.yahoo, q.bars, now)
           e == [pc |-> "gathered", now |-> now, opts |-> pulse[p].opts, bd |-> bd,
                 tried |-> pulse[p].tried, idx |-> idx,
                 flow |-> flow, prog |-> prog, fut |-> asked, vk |-> vk, win |-> win]
<1>1. PulseBecomes(e, p)
  BY DEF Gather, PulseInv, PulseSound, PulseBecomes
<1>2. e.pc = "gathered" /\ e.now = pulse[p].now /\ e.flow = flow /\ e.prog = prog /\ e.fut = asked
      /\ {"pc", "now", "bd", "flow", "prog", "fut"} \subseteq DOMAIN e
  OBVIOUS
<1>3. \A m \in Markets : asked[m] \in {CollectFuture(q.fut[m], m, code(m), now),
          WithSpot(CollectFuture(q.fut[m], m, code(m), now), CollectIndex(q.spot, now))}
  BY DEF Markets
<1>4. ASSUME NEW m \in Markets
      PROVE  q.fut[m].pct \in Int /\ q.fut[m].spotPct \in Int /\ q.spot.pct \in Int
  <2>1. PICK w \in Worlds : w = world
    BY DEF PulseInv, OnTheClock
  <2>2. PICK t \in w.times : t = clock
    BY <2>1 DEF PulseInv, OnTheClock
  <2>3. Numeric(q, m)
    BY <2>1, <2>2, QuotesAssumption
  <2> HIDE DEF q
  <2> QED BY <2>3 DEF Numeric
<1> HIDE DEF now, bd, idx, code, fut, asked, vk, win, e
<1>5. \A m \in Markets : FutureSound(asked[m])
  BY <1>3, <1>4, IndexIsSound, FutureIsSound
<1>6. Answered(e)
  <2>1. PICK qq : qq = world.quotes[clock]
    OBVIOUS
  <2>2. /\ e.flow = [m \in Markets |-> CollectFlow(qq.flow[m])]
        /\ e.prog = [m \in Markets |-> CollectProgramTrade(qq.prog[m])]
    BY <1>2, <2>1
  <2>3. PICK r : r = e
    OBVIOUS
  <2>4. Answered(r)
    BY <2>1, <2>2, <2>3, AnswersNow DEF PulseInv
  <2> QED BY <2>3, <2>4
<1> QED BY <1>1, <1>2, <1>5, <1>6

\* The records a history holds are sound and earlier on the same day.
LEMMA HistoryIs ==
  ASSUME PulseInv, NEW now \in Instants, NEW recs, NEW load, NEW history,
         load = (IF history THEN LoadRecords(file[Day(now)]) ELSE [ok |-> TRUE, recs |-> <<>>]),
         recs = Restrict(load.recs, {i \in DOMAIN load.recs : ValidRecordTime(load.recs[i], now)})
  PROVE  \A i \in DOMAIN recs : RecSound(recs[i]) /\ ValidRecordTime(recs[i], now)
<1>1. PICK date \in Days : date = Day(now)
  BY DEF Days
<1>2. PICK f : f = file[date]
  OBVIOUS
<1>3. LinesSound(f) /\ \A r : Holds(f, r) => RecSound(r)
  BY <1>2 DEF PulseInv, SavedInFile, PulseSound
<1>4. PICK all : all = load.recs
  OBVIOUS
<1>5. \A i \in DOMAIN all : RecSound(all[i])
  <2>1. CASE history
    <3>1. all = LoadRecords(f).recs
      BY <1>1, <1>2, <1>4, <2>1
    <3>2. \A i \in DOMAIN all : Holds(f, all[i])
      BY <1>3, <3>1, LoadedIsHeld
    <3> QED BY <1>3, <3>2
  <2>2. CASE ~history
    <3>1. all = <<>>
      BY <1>4, <2>2
    <3> QED BY <3>1
  <2> QED BY <2>1, <2>2
<1>6. recs = [i \in {j \in DOMAIN all : ValidRecordTime(all[j], now)} |-> all[i]]
  BY <1>4 DEF Restrict
<1> QED BY <1>5, <1>6

LEMMA ConcludeMakes ==
  ASSUME PulseInv, NEW p \in Pulses, Conclude(p)
  PROVE  \E c : /\ PulseBecomes(c, p) /\ c.pc = "concluded" /\ c.now = pulse[p].now
                /\ ConcludedSound(c)
<1> DEFINE c == pulse[p]
           now == c.now
           load == IF c.opts.history THEN LoadRecords(file[Day(now)]) ELSE [ok |-> TRUE, recs |-> <<>>]
           recs == Restrict(load.recs, {i \in DOMAIN load.recs : ValidRecordTime(load.recs[i], now)})
           refs == References(recs, now)
           flows == [m \in Markets |-> HoursBounded(
                      [k \in DOMAIN refs |-> FlowDelta(refs[k], m, c.flow[m], now)])]
           progs == [m \in Markets |-> HoursBounded(
                      [k \in DOMAIN refs |-> ProgramDelta(refs[k], m, c.prog[m], now)])]
           events(readable) == LoadOfficialEvents(world.events, readable, Day(now), clock)
           board(readable) == BuildMarketSafety(now, events(readable), c.idx, c.fut)
           contributions == CollectContributions(KOSPIIndexMarketCapSummary(c, "contributions", c.bd),
                              world.quotes[clock].prices, c.bd, c.idx["KOSPI"])
           residuals == FlowResiduals(c.flow)
           analysis == Analyze(c.flow["KOSPI"], c.win, flows["KOSPI"])
<1>a. PICK readable \in world.events.readable : PulseBecomes(
        [pc |-> "concluded", now |-> now, opts |-> c.opts, read |-> readable,
         events |-> events(readable), contributions |-> contributions,
         history |-> recs, loaded |-> load.ok, flows |-> flows, programs |-> progs,
         safety |-> board(readable), residuals |-> residuals, fut |-> c.fut,
         assessment |-> AssessPulse(c.vk, c.win, board(readable).devices), analysis |-> analysis,
         rec |-> [ts |-> now, bd |-> c.bd, flow |-> c.flow, prog |-> c.prog,
                  devices |-> board(readable).devices]], p)
  BY Zenon DEF Conclude, PulseBecomes
<1> DEFINE safety == board(readable)
           assessment == AssessPulse(c.vk, c.win, safety.devices)
           rec == [ts |-> now, bd |-> c.bd, flow |-> c.flow, prog |-> c.prog, devices |-> safety.devices]
           e == [pc |-> "concluded", now |-> now, opts |-> c.opts, read |-> readable,
                 events |-> events(readable), contributions |-> contributions,
                 history |-> recs, loaded |-> load.ok, flows |-> flows, programs |-> progs,
                 safety |-> safety, residuals |-> residuals, fut |-> c.fut,
                 assessment |-> assessment, analysis |-> analysis, rec |-> rec]
<1>1. PulseBecomes(e, p)
  BY <1>a
<1>2. /\ e.pc = "concluded" /\ e.now = now /\ e.history = recs /\ e.flows = flows /\ e.programs = progs
      /\ e.safety = safety /\ e.events = events(readable) /\ e.rec = rec
  OBVIOUS
<1>3. rec.ts = now /\ rec.flow = c.flow /\ rec.prog = c.prog /\ rec.devices = safety.devices
  OBVIOUS
<1>4. /\ now \in Instants /\ now \in Nat /\ Answered(c) /\ \A m \in Markets : FutureSound(c.fut[m])
  BY CalendarAssumption DEF Conclude, PulseInv, PulseSound, InvocationSound
<1>5. EventsSound(events(readable))
  BY EventsAreSound DEF PulseInv, OnTheClock
<1>6. ASSUME NEW m \in Markets PROVE
        /\ flows[m] = HoursBounded([k \in DOMAIN refs |-> FlowDelta(refs[k], m, c.flow[m], now)])
        /\ progs[m] = HoursBounded([k \in DOMAIN refs |-> ProgramDelta(refs[k], m, c.prog[m], now)])
  OBVIOUS
<1>7. \A i \in DOMAIN recs : RecSound(recs[i]) /\ ValidRecordTime(recs[i], now)
  <2>1. PICK h : h = c.opts.history
    OBVIOUS
  <2>2. load = IF h THEN LoadRecords(file[Day(now)]) ELSE [ok |-> TRUE, recs |-> <<>>]
    BY <2>1
  <2> HIDE DEF load
  <2> QED BY <1>4, <2>2, HistoryIs
<1>0. c = pulse[p] /\ now = c.now
  OBVIOUS
<1>b. safety = BuildMarketSafety(now, events(readable), c.idx, c.fut)
  OBVIOUS
<1> HIDE DEF c, now, load, recs, flows, progs, events, contributions, residuals, board, safety,
             assessment, analysis, rec, e
<1>8. RecSound(e.rec)
  <2>1. Answered(e.rec)
    BY <1>2, <1>3, <1>4 DEF Answered
  <2>2. ASSUME NEW d \in e.rec.devices, Fired(d) PROVE Official(d, now)
    <3>1. d \in BuildMarketSafety(now, events(readable), c.idx, c.fut).devices
      BY <1>2, <1>3, <1>b
    <3> QED BY <1>5, <2>2, <3>1, OfficialIs
  <2> QED BY <1>2, <1>3, <1>4, <2>1, <2>2 DEF RecSound
<1>9. ASSUME NEW m \in Markets PROVE Windows(e, m)
  <2>1. PICK x, ref, list : x = e /\ ref = refs /\ list = recs
    OBVIOUS
  <2>2. /\ ref = References(list, now)
        /\ x.flows[m] = HoursBounded([k \in DOMAIN ref |-> FlowDelta(ref[k], m, c.flow[m], now)])
        /\ x.programs[m] = HoursBounded([k \in DOMAIN ref |-> ProgramDelta(ref[k], m, c.prog[m], now)])
    BY <1>2, <1>6, <2>1
  <2>3. Answered(c) /\ \A i \in DOMAIN list : Answered(list[i])
    BY <1>4, <1>7, <2>1 DEF RecSound
  <2>4. Windows(x, m)
    <3> HIDE <2>1
    <3> QED BY <2>2, <2>3, WindowsHold
  <2> QED BY <2>1, <2>4
<1>10. ASSUME NEW m \in Markets PROVE Agree(e, m)
  <2>1. PICK x, ev, idx, fut : x = e /\ ev = events(readable) /\ idx = c.idx /\ fut = c.fut
    OBVIOUS
  <2>2. x.safety = BuildMarketSafety(x.now, ev, idx, fut) /\ x.now \in Nat /\ FutureSound(fut[m])
    BY <1>2, <1>4, <1>b, <2>1
  <2>3. Agree(x, m)
    <3> HIDE <2>1
    <3> QED BY <2>2, BoardAgrees
  <2> QED BY <2>1, <2>3
<1>11. Firm(e)
  <2>1. PICK x, idx, fut : x = e /\ idx = c.idx /\ fut = c.fut
    OBVIOUS
  <2>2. /\ x.safety = BuildMarketSafety(x.now, x.events, idx, fut)
        /\ x.now \in Nat /\ EventsSound(x.events)
    BY <1>2, <1>4, <1>5, <1>b, <2>1
  <2>3. \A r \in Range(x.history) : RecSound(r) /\ ValidRecordTime(r, x.now)
    BY <1>2, <1>7, <2>1 DEF Range
  <2>4. Firm(x)
    <3> HIDE <2>1
    <3> QED BY <2>2, <2>3, FirmHolds
  <2> QED BY <2>1, <2>4
<1> QED BY <1>0, <1>1, <1>2, <1>8, <1>9, <1>10, <1>11 DEF ConcludedSound

\* What is sound stays so: it rests on the world, which is given.
LEMMA RecordStays ==
  ASSUME NEW r, world' = world, RecSound(r) PROVE RecSound(r)'
<1>1. Answered(r)'
  BY DEF RecSound, Answered, PublishedFlow, PublishedProgram
<1> QED BY <1>1 DEF RecSound

LEMMA InvocationStays ==
  ASSUME NEW c, world' = world, InvocationSound(c) PROVE InvocationSound(c)'
<1>1. ASSUME c.pc = "gathered" PROVE Answered(c)' /\ \A m \in Markets : FutureSound(c.fut[m])
  BY <1>1 DEF InvocationSound, Answered, PublishedFlow, PublishedProgram
<1>2. ASSUME c.pc = "concluded" PROVE ConcludedSound(c)'
  <2>1. ConcludedSound(c)
    BY <1>2 DEF InvocationSound
  <2>2. PICK r : r = c.rec
    OBVIOUS
  <2>3. RecSound(r)'
    <3>1. RecSound(r)
      BY <2>1, <2>2 DEF ConcludedSound
    <3> HIDE <2>2
    <3> QED BY <3>1, RecordStays
  <2>4. ASSUME NEW m \in Markets PROVE Windows(c, m)'
    <3>1. Windows(c, m)
      BY <2>1 DEF ConcludedSound
    <3> QED BY <3>1 DEF Windows, Between, PublishedFlow, PublishedProgram
  <2> QED BY <2>1, <2>2, <2>3, <2>4 DEF ConcludedSound
<1> QED BY <1>1, <1>2 DEF InvocationSound

\* What a step of the pulse makes of its invocation is sound, and what it adds to a
\* file is the record of an invocation.
LEMMA PulseStepMakes ==
  ASSUME PulseInv, NEW p \in Pulses, PulseStep(p)
  PROVE  /\ \E c : PulseBecomes(c, p) /\ InvocationSound(c)
         /\ \A d \in Days : \A r : Holds(file'[d], r) => Holds(file[d], r) \/ RecSound(r)
<1>1. CASE PulseStart(p)
  <2>1. PICK o : pulse' = [pulse EXCEPT ![p] = [pc |-> "started", now |-> clock, opts |-> o,
                                                bd |-> NoTime, tried |-> {}]]
    BY <1>1 DEF PulseStart
  <2>2. PICK c : c = [pc |-> "started", now |-> clock, opts |-> o, bd |-> NoTime, tried |-> {}]
    OBVIOUS
  <2>3. c.pc = "started" /\ c.now = clock /\ {"pc", "now"} \subseteq DOMAIN c /\ PulseBecomes(c, p)
    BY <2>1, <2>2 DEF PulseBecomes
  <2>4. clock \in Instants
    BY ClockIsNat DEF PulseInv
  <2>5. file' = file
    BY <1>1 DEF PulseStart
  <2> QED BY <2>3, <2>4, <2>5 DEF InvocationSound
<1>5. CASE LookForMaster(p) \/ DownloadMaster(p)
  <2>1. PICK c, field : c = pulse[p] /\ field \in {"bd", "tried"}
                        /\ \E x : pulse' = [pulse EXCEPT ![p] = [c EXCEPT ![field] = x]]
    BY <1>5 DEF LookForMaster, DownloadMaster, PulseInv, PulseSound
  <2>2. PICK x : pulse' = [pulse EXCEPT ![p] = [c EXCEPT ![field] = x]]
    BY <2>1
  <2>3. PICK e : e = [c EXCEPT ![field] = x]
    OBVIOUS
  <2>4. c.pc \in {"started", "gathered"} /\ file' = file /\ InvocationSound(c)
    BY <1>5, <2>1 DEF LookForMaster, DownloadMaster, PulseInv, PulseSound
  <2>5. DOMAIN e = DOMAIN c /\ \A y \in DOMAIN c \ {"bd", "tried"} : e[y] = c[y]
    BY <2>1, <2>3
  <2>6. e.pc = c.pc /\ e.now = c.now
    BY <2>4, <2>5 DEF InvocationSound
  <2>7. c.pc = "gathered" => e.flow = c.flow /\ e.prog = c.prog /\ e.fut = c.fut
    BY <2>4, <2>5 DEF InvocationSound
  <2>8. InvocationSound(e)
    BY <2>4, <2>5, <2>6, <2>7 DEF InvocationSound, Answered
  <2> QED BY <2>2, <2>3, <2>4, <2>8 DEF PulseBecomes
<1>2. CASE Gather(p)
  <2>1. PICK c : /\ PulseBecomes(c, p) /\ c.pc = "gathered" /\ c.now = pulse[p].now
                 /\ {"pc", "now", "bd", "flow", "prog", "fut"} \subseteq DOMAIN c
                 /\ Answered(c) /\ \A m \in Markets : FutureSound(c.fut[m])
    BY <1>2, GatherMakes
  <2>2. pulse[p].now \in Instants /\ file' = file
    BY <1>2 DEF Gather, PulseInv, PulseSound, InvocationSound
  <2> QED BY <2>1, <2>2 DEF InvocationSound
<1>3. CASE Conclude(p)
  <2>1. PICK c : /\ PulseBecomes(c, p) /\ c.pc = "concluded" /\ c.now = pulse[p].now
                 /\ ConcludedSound(c)
    BY <1>3, ConcludeMakes
  <2>2. pulse[p].now \in Instants /\ file' = file
    BY <1>3 DEF Conclude, PulseInv, PulseSound, InvocationSound
  <2> QED BY <2>1, <2>2 DEF InvocationSound
<1>4. CASE SaveRecord(p) \/ (\E whole \in BOOLEAN : SaveCutShort(p, whole)) \/ PulseEnd(p)
  <2>1. PulseBecomes(PulseIdle, p) /\ PulseIdle.pc = "idle" /\ pulse[p].pc = "concluded"
    BY <1>4 DEF SaveRecord, SaveCutShort, PulseEnd, PulseBecomes, PulseIdle
  <2>2. InvocationSound(PulseIdle)
    BY <2>1 DEF InvocationSound
  <2>3. RecSound(pulse[p].rec)
    BY <2>1 DEF PulseInv, PulseSound, InvocationSound, ConcludedSound
  <2>4. \/ file' = file
        \/ \E whole, newline : file' = [file EXCEPT ![Day(pulse[p].now)] =
              AppendRecord(file[Day(pulse[p].now)], pulse[p].rec, whole, newline)]
    <3>1. ASSUME SaveRecord(p)
          PROVE  \E whole, newline : file' = [file EXCEPT ![Day(pulse[p].now)] =
                   AppendRecord(file[Day(pulse[p].now)], pulse[p].rec, whole, newline)]
      <4>1. file' = [file EXCEPT ![Day(pulse[p].now)] =
                      AppendRecord(file[Day(pulse[p].now)], pulse[p].rec, TRUE, TRUE)]
        BY <3>1 DEF SaveRecord
      <4>2. PICK t : t = TRUE
        OBVIOUS
      <4> QED BY <4>1, <4>2
    <3>2. ASSUME NEW w \in BOOLEAN, SaveCutShort(p, w)
          PROVE  \E whole, newline : file' = [file EXCEPT ![Day(pulse[p].now)] =
                   AppendRecord(file[Day(pulse[p].now)], pulse[p].rec, whole, newline)]
      <4>1. PICK t : t = FALSE
        OBVIOUS
      <4>2. file' = [file EXCEPT ![Day(pulse[p].now)] =
                      AppendRecord(file[Day(pulse[p].now)], pulse[p].rec, w, t)]
        BY <3>2, <4>1 DEF SaveCutShort
      <4> QED BY <4>2
    <3> QED BY <1>4, <3>1, <3>2 DEF PulseEnd
  <2>5. ASSUME NEW d \in Days, NEW r, Holds(file'[d], r) PROVE Holds(file[d], r) \/ RecSound(r)
    <3>1. CASE file' = file
      BY <2>5, <3>1
    <3>2. CASE file' # file
      <4>1. PICK whole, newline : file' = [file EXCEPT ![Day(pulse[p].now)] =
                AppendRecord(file[Day(pulse[p].now)], pulse[p].rec, whole, newline)]
        BY <2>4, <3>2
      <4>2. PICK date, rec, f : date = Day(pulse[p].now) /\ rec = pulse[p].rec /\ f = file[date]
        OBVIOUS
      <4>3. file' = [file EXCEPT ![date] = AppendRecord(f, rec, whole, newline)]
        BY <4>1, <4>2
      <4>4. CASE d = date
        <5>1. file'[d] = AppendRecord(f, rec, whole, newline)
          BY <4>3, <4>4 DEF PulseInv, SavedInFile
        <5>2. LinesSound(f) /\ Holds(AppendRecord(f, rec, whole, newline), r)
          BY <2>5, <4>2, <4>4, <5>1 DEF PulseInv, SavedInFile
        <5>3. r = rec \/ Holds(f, r)
          <6> HIDE <4>2
          <6> QED BY <5>2, AppendAdds
        <5> QED BY <2>3, <4>2, <4>4, <5>3
      <4>5. CASE d # date
        BY <2>5, <4>3, <4>5
      <4> QED BY <4>4, <4>5
    <3> QED BY <3>1, <3>2
  <2> QED BY <2>1, <2>2, <2>5
<1> QED BY <1>1, <1>2, <1>3, <1>4, <1>5 DEF PulseStep

LEMMA PulseInductive ==
  ASSUME PulseInv, [MarketNext]_vars PROVE PulseInv'
<1>1. OnTheClock' /\ world' = world
  BY ClockStep, WhoMoves DEF PulseInv
<1>2. SavedInFile'
  <2>1. SavedInFile
    BY DEF PulseInv
  <2>2. ASSUME pulseVars' = pulseVars PROVE SavedInFile'
    BY <2>1, <2>2 DEF SavedInFile, pulseVars
  <2> QED BY <2>1, <2>2, SavedStep, WhoMoves DEF vars
<1>4. \/ pulse' = pulse /\ file' = file
      \/ clock' = clock /\ \E p \in Pulses : PulseStep(p)
  BY WhoMoves DEF vars, pulseVars
<1>5. pulse' = [p \in Pulses |-> pulse'[p]] /\ \A p \in Pulses : InvocationSound(pulse[p])'
  <2>1. CASE pulse' = pulse /\ file' = file
    <3>1. ASSUME NEW p \in Pulses PROVE InvocationSound(pulse[p])'
      <4>1. PICK c : c = pulse[p]
        OBVIOUS
      <4>2. InvocationSound(c)
        BY <4>1 DEF PulseInv, PulseSound
      <4>3. InvocationSound(c)'
        <5> HIDE <4>1
        <5> QED BY <1>1, <4>2, InvocationStays
      <4> QED BY <2>1, <4>1, <4>3
    <3> QED BY <2>1, <3>1 DEF PulseInv, PulseSound
  <2>2. ASSUME NEW p \in Pulses, PulseStep(p)
        PROVE  pulse' = [q \in Pulses |-> pulse'[q]] /\ \A q \in Pulses : InvocationSound(pulse[q])'
    <3>1. PICK e : PulseBecomes(e, p) /\ InvocationSound(e)
      BY <2>2, PulseStepMakes
    <3>2. /\ pulse' = [q \in Pulses |-> pulse'[q]] /\ pulse'[p] = e
          /\ \A q \in Pulses \ {p} : pulse'[q] = pulse[q]
      BY <3>1 DEF PulseInv, PulseSound, PulseBecomes
    <3>3. ASSUME NEW q \in Pulses PROVE InvocationSound(pulse[q])'
      <4>1. PICK c : c = IF q = p THEN e ELSE pulse[q]
        OBVIOUS
      <4>2. InvocationSound(c)
        BY <3>1, <4>1 DEF PulseInv, PulseSound
      <4>3. InvocationSound(c)'
        <5> HIDE <4>1
        <5> QED BY <1>1, <4>2, InvocationStays
      <4>4. pulse'[q] = c
        BY <3>2, <4>1
      <4> QED BY <4>3, <4>4
    <3> QED BY <3>2, <3>3
  <2> QED BY <1>4, <2>1, <2>2
<1>6. ASSUME NEW d \in Days, NEW r, Holds(file'[d], r) PROVE RecSound(r)'
  <2>1. RecSound(r)
    BY <1>4, <1>6, PulseStepMakes DEF PulseInv, PulseSound
  <2> QED BY <1>1, <2>1, RecordStays
<1> QED BY <1>1, <1>2, <1>5, <1>6 DEF PulseInv, PulseSound

LEMMA PulseAlways == MarketSpec => []PulseInv
<1>1. MarketInit => PulseInv
  <2> SUFFICES ASSUME MarketInit PROVE PulseInv
    OBVIOUS
  <2>1. SavedInFile
    BY SavedInit
  <2>2. PulseSound
    <3>1. PulseIdle.pc = "idle" /\ EmptyFile.lines = <<>>
      BY DEF PulseIdle, EmptyFile
    <3>2. \A r : ~Holds(EmptyFile, r)
      BY <3>1 DEF Holds
    <3>3. InvocationSound(PulseIdle)
      BY <3>1 DEF InvocationSound
    <3> QED BY <3>2, <3>3 DEF MarketInit, PulseInit, PulseSound
  <2> QED BY <2>1, <2>2, ClockInit DEF PulseInv
<1>2. PulseInv /\ [MarketNext]_vars => PulseInv'
  BY PulseInductive
<1> QED BY <1>1, <1>2, PTL DEF MarketSpec

\* An hourly delta of a pulse (pulse/history.go) is the difference of two answers the
\* provider gave, an hour or two apart on one day, for any answers, any clock and any
\* number of overlapping pulses: what the history hands it are answered records.
THEOREM DeltasAreDifferences == MarketSpec => []DeltasAreWindows
<1>1. PulseInv => DeltasAreWindows
  BY DEF PulseInv, PulseSound, InvocationSound, ConcludedSound, DeltasAreWindows, Concluded
<1> QED BY <1>1, PulseAlways, PTL

\* A trigger that a pulse's history reports and the file of official events still lists
\* stands on its board (pulse/market_structure.go), for any events in any order, struck out
\* or added in between, a file that cannot be read now and then, and any quotes.
THEOREM TriggersAlwaysStand == MarketSpec => []TriggersStand
<1>1. PulseInv => TriggersStand
  BY DEF PulseInv, PulseSound, InvocationSound, ConcludedSound, Firm, TriggersStand, Concluded
<1> QED BY <1>1, PulseAlways, PTL

\* The older sidecar board and the devices agree (pulse/market_structure.go), for any
\* quotes and events.
THEOREM TwoBoardsAgree == MarketSpec => []BoardsAgree
<1>1. PulseInv => BoardsAgree
  BY DEF PulseInv, PulseSound, InvocationSound, ConcludedSound, BoardsAgree, Concluded
<1> QED BY <1>1, PulseAlways, PTL
-----------------------------------------------------------------------------
(* The master files of a date.                                                 *)

\* The master files there are, and those that two programs downloaded at once.
Cache == [futures |-> files.futures, kospi |-> files.kospi, raced |-> downloads.raced]

\* A contract is the one the date's file gives, or none; weights are those its shares
\* give, or none: of the dates whose file was not downloaded twice at once.
Rests(code, m, d, cache) ==
  <<"futures", d>> \in cache.raced \/ code \in {0, ResolveNearMonth(m, cache, d)}
Weights(cache, d) == ConcentrationSection(IndexMarketCapSummary(cache, d), d)
Weighed(c, d, cache) ==
  c.ok => /\ {"ok", "top2", "top5"} \subseteq DOMAIN c
          /\ c.top2 # NoNum /\ <<"kospi", d>> \notin cache.raced =>
               /\ d \in DOMAIN cache.kospi
               /\ c.top2 = Weights(cache, d).top2
               /\ c.top5 = Weights(cache, d).top5

\* What a pulse and a snapshot say rests on the files that are there.
PulseRests(c, cache) ==
  /\ c.pc = "gathered" => \A m \in Markets : Rests(c.fut[m].code, m, c.bd, cache)
  /\ c.pc = "concluded" => \A m \in Markets : Rests(c.fut[m].code, m, c.rec.bd, cache)
Weighing == {"ready", "archived", "saved"}
SnapRests(c, cache) ==
  c.pc \notin {"idle", "started"} =>
    /\ {"pc", "date", "impact"} \subseteq DOMAIN c
    /\ Rests(c.impact.code, "KOSPI", c.date, cache)
    /\ c.pc \in Weighing => /\ "concentration" \in DOMAIN c
                            /\ Weighed(c.concentration, c.date, cache)

AllRest(cache) ==
  /\ \A p \in Pulses : PulseRests(pulse[p], cache)
  /\ \A s \in Snappers : SnapRests(snap[s], cache)
  /\ \A d \in DOMAIN reported : \A r \in reported[d] : SnapRests(r, cache)

\* The file that a download will put in its place.
FileOf(f) == <<KindOf(f[2]), f[3]>>
\* As long as only one program downloads a file, that file is not there yet.
DownloadsSound ==
  /\ {"futures", "kospi"} \subseteq DOMAIN files
  /\ downloads = [open |-> downloads.open, raced |-> downloads.raced]
  /\ \A f \in downloads.open :
       FileOf(f) \notin downloads.raced =>
         /\ f[3] \notin DOMAIN files[KindOf(f[2])]
         /\ \A g \in downloads.open : FileOf(g) = FileOf(f) => g = f
MastersInv == DownloadsSound /\ AllRest(Cache)

\* Files that are there stay as they are, but for those downloaded twice at once.
Kept(old, new) ==
  /\ old.raced \subseteq new.raced
  /\ \A d \in DOMAIN old.futures :
       <<"futures", d>> \in new.raced \/ (d \in DOMAIN new.futures /\ new.futures[d] = old.futures[d])
  /\ \A d \in DOMAIN old.kospi :
       <<"kospi", d>> \in new.raced \/ (d \in DOMAIN new.kospi /\ new.kospi[d] = old.kospi[d])

LEMMA KeptIsFixed == \A c : Kept(c, c)
  BY DEF Kept

\* Finding no file exposes those that another program is downloading, and only those.
LEMMA FindKeeps ==
  ASSUME DownloadsSound, NEW who, NEW uses, NEW c, NEW d, FindNoMaster(who, uses, c, d), files' = files
  PROVE  DownloadsSound' /\ Kept(Cache, Cache')
<1>1. PICK use : use = Unsettled(uses, c, d)[1]
  OBVIOUS
<1>2. PICK mine : mine = <<who, use, d>> /\ mine[2] = use /\ mine[3] = d
  <2>1. <<who, use, d>>[2] = use /\ <<who, use, d>>[3] = d
    OBVIOUS
  <2> QED BY <2>1
<1>3. PICK open, raced : open = downloads.open /\ raced = downloads.raced
  OBVIOUS
<1>4. /\ d \notin DOMAIN files[KindOf(use)]
      /\ downloads' = [open |-> open \cup {mine},
                       raced |-> raced \cup (IF \E f \in open : KindOf(f[2]) = KindOf(use) /\ f[3] = d
                                             THEN {<<KindOf(use), d>>} ELSE {})]
  BY <1>1, <1>2, <1>3 DEF FindNoMaster, MasterThere
<1>5. PICK more : more = downloads'.raced
  OBVIOUS
<1>6. /\ downloads'.open = open \cup {mine} /\ raced \subseteq more
      /\ (\E f \in open : KindOf(f[2]) = KindOf(use) /\ f[3] = d) => <<KindOf(use), d>> \in more
  BY <1>4, <1>5
<1>7. ASSUME NEW f \in open \cup {mine}, NEW g \in open \cup {mine}, FileOf(f) \notin more
      PROVE  f[3] \notin DOMAIN files[KindOf(f[2])] /\ (FileOf(g) = FileOf(f) => g = f)
  <2>1. FileOf(mine) = <<KindOf(use), d>>
    BY <1>2 DEF FileOf
  <2>2. ASSUME NEW h \in open, FileOf(h) = FileOf(mine) PROVE FileOf(mine) \in more
    BY <1>6, <2>1, <2>2 DEF FileOf
  <2>3. ASSUME f \in open PROVE /\ f[3] \notin DOMAIN files[KindOf(f[2])]
                                /\ g \in open /\ FileOf(g) = FileOf(f) => g = f
    BY <1>3, <1>6, <1>7, <2>3 DEF DownloadsSound
  <2>4. CASE f \in open
    BY <1>7, <2>2, <2>3, <2>4
  <2>5. CASE f = mine
    BY <1>2, <1>4, <1>7, <2>2, <2>5
  <2> QED BY <2>4, <2>5
<1>8. DownloadsSound'
  BY <1>4, <1>5, <1>6, <1>7 DEF DownloadsSound
<1>9. Kept(Cache, Cache')
  BY <1>3, <1>5, <1>6 DEF Kept, Cache
<1> QED BY <1>8, <1>9

\* The file that is put in its place was not there, unless it was downloaded twice at once.
LEMMA DownloadKeeps ==
  ASSUME DownloadsSound, NEW f \in downloads.open, NEW answer, NEW end \in EnsureZipCache(f[2], f[3], answer),
         files' = end.files, downloads' = [downloads EXCEPT !.open = @ \ {f}]
  PROVE  DownloadsSound' /\ Kept(Cache, Cache')
<1>1. PICK open, raced, kind, d : open = downloads.open /\ raced = downloads.raced
                                  /\ kind = KindOf(f[2]) /\ d = f[3]
  OBVIOUS
<1>2. downloads'.open = open \ {f} /\ downloads'.raced = raced
      /\ downloads' = [open |-> downloads'.open, raced |-> downloads'.raced]
  BY <1>1 DEF DownloadsSound
<1>3. kind \in {"futures", "kospi"} /\ FileOf(f) = <<kind, d>>
  BY <1>1 DEF KindOf, FileOf
<1>4. files' = files \/ \E lines : files' = [files EXCEPT ![kind] = Put(files[kind], d, lines)]
  <2> DEFINE holding(lines) == [files EXCEPT ![kind] = Put(files[kind], d, lines)]
             failure == [ok |-> FALSE, files |-> files]
             success == [ok |-> TRUE, files |-> holding(answer.lines)]
             lost == [success EXCEPT !.ok = FALSE]
             emptied == [success EXCEPT !.files = holding(<<>>)]
  <2>1. end \in {failure, success, lost, emptied}
    BY <1>1 DEF EnsureZipCache
  <2>2. /\ failure.files = files /\ success.files = holding(answer.lines)
        /\ lost.files = holding(answer.lines) /\ emptied.files = holding(<<>>)
    OBVIOUS
  <2>3. end.files \in {files, holding(answer.lines), holding(<<>>)}
    <3> HIDE DEF failure, success, lost, emptied, holding
    <3> QED BY <2>1, <2>2
  <2> QED BY <2>3
<1>5. /\ {"futures", "kospi"} \subseteq DOMAIN files'
      /\ \A k \in {"futures", "kospi"} :
           /\ DOMAIN files'[k] \subseteq DOMAIN files[k] \cup (IF k = kind THEN {d} ELSE {})
           /\ \A e \in DOMAIN files[k] : ~(k = kind /\ e = d) =>
                e \in DOMAIN files'[k] /\ files'[k][e] = files[k][e]
  <2>1. CASE files' = files
    BY <2>1 DEF DownloadsSound
  <2>2. ASSUME NEW lines, files' = [files EXCEPT ![kind] = Put(files[kind], d, lines)] PROVE <1>5
    <3> DEFINE g == [y \in {d} |-> lines]
    <3>1. PICK old, new : old = files[kind] /\ new = With(old, g)
      OBVIOUS
    <3>2. DOMAIN g = {d}
      OBVIOUS
    <3>3. files' = [files EXCEPT ![kind] = new]
      BY <2>2, <3>1 DEF Put
    <3> HIDE DEF g
    <3>4. DOMAIN new = DOMAIN old \cup {d} /\ \A x \in DOMAIN old \ {d} : new[x] = old[x]
      <4>1. /\ DOMAIN With(old, g) = DOMAIN old \cup DOMAIN g
            /\ \A x \in DOMAIN old \ DOMAIN g : With(old, g)[x] = old[x]
        BY WithIs
      <4> QED BY <3>1, <3>2, <4>1
    <3>5. /\ DOMAIN files' = DOMAIN files /\ files'[kind] = new
          /\ \A k \in {"futures", "kospi"} \ {kind} : files'[k] = files[k]
      BY <1>3, <3>3 DEF DownloadsSound
    <3> QED BY <3>1, <3>4, <3>5 DEF DownloadsSound
  <2> QED BY <1>4, <2>1, <2>2
<1>6. <<kind, d>> \notin raced => d \notin DOMAIN files[kind] /\ \A g \in open : FileOf(g) = <<kind, d>> => g = f
  BY <1>1, <1>3 DEF DownloadsSound
<1>7. ASSUME NEW g \in open \ {f}, FileOf(g) \notin raced
      PROVE  /\ g[3] \notin DOMAIN files'[KindOf(g[2])]
             /\ \A h \in open : FileOf(h) = FileOf(g) => h = g
  <2>1. /\ g[3] \notin DOMAIN files[KindOf(g[2])]
        /\ \A h \in open : FileOf(h) = FileOf(g) => h = g
    BY <1>1, <1>7 DEF DownloadsSound
  <2>2. KindOf(g[2]) \in {"futures", "kospi"}
    BY DEF KindOf
  <2>3. FileOf(g) # <<kind, d>>
    BY <1>6, <1>7
  <2>4. ~(KindOf(g[2]) = kind /\ g[3] = d)
    BY <2>3 DEF FileOf
  <2> QED BY <1>5, <2>1, <2>2, <2>4
<1>8. DownloadsSound'
  BY <1>2, <1>5, <1>7 DEF DownloadsSound
<1>9. ASSUME NEW k \in {"futures", "kospi"}, NEW e \in DOMAIN files[k], <<k, e>> \notin raced
      PROVE  e \in DOMAIN files'[k] /\ files'[k][e] = files[k][e]
  BY <1>5, <1>6, <1>9
<1>10. Kept(Cache, Cache')
  <2>1. Cache.raced = raced /\ Cache.futures = files.futures /\ Cache.kospi = files.kospi
    BY <1>1 DEF Cache
  <2>2. Cache'.raced = raced /\ Cache'.futures = files'.futures /\ Cache'.kospi = files'.kospi
    BY <1>2 DEF Cache
  <2> QED BY <1>9, <2>1, <2>2 DEF Kept
<1> QED BY <1>8, <1>10

\* Whatever else happens leaves the master files.
LEMMA MastersKept ==
  ASSUME DownloadsSound, [MarketNext]_vars
  PROVE  DownloadsSound' /\ Kept(Cache, Cache')
<1>1. ASSUME downloads' = downloads, files' = files PROVE DownloadsSound' /\ Kept(Cache, Cache')
  BY <1>1, KeptIsFixed DEF DownloadsSound, Cache
<1>2. ASSUME NEW p \in Pulses, PulseStep(p) PROVE DownloadsSound' /\ Kept(Cache, Cache')
  <2>1. CASE LookForMaster(p)
    BY <2>1, FindKeeps DEF LookForMaster
  <2>2. CASE DownloadMaster(p)
    <3>1. PICK f \in downloads.open :
            \E end \in EnsureZipCache(f[2], f[3], MasterOf(f[2], world.quotes[clock])) :
              files' = end.files /\ downloads' = [downloads EXCEPT !.open = @ \ {f}]
      BY <2>2 DEF DownloadMaster, Downloading
    <3> QED BY <3>1, DownloadKeeps
  <2>3. CASE ~LookForMaster(p) /\ ~DownloadMaster(p)
    BY <1>1, <1>2, <2>3 DEF PulseStep, PulseStart, Gather, Conclude, SaveRecord, SaveCutShort, PulseEnd
  <2> QED BY <2>1, <2>2, <2>3
<1>3. ASSUME NEW s \in Snappers, SnapStep(s) PROVE DownloadsSound' /\ Kept(Cache, Cache')
  <2>1. CASE SnapLooksForMaster(s)
    BY <2>1, FindKeeps DEF SnapLooksForMaster
  <2>2. CASE SnapDownloadsMaster(s)
    <3>1. PICK f \in downloads.open :
            \E end \in EnsureZipCache(f[2], f[3], MasterOf(f[2], world.quotes[clock])) :
              files' = end.files /\ downloads' = [downloads EXCEPT !.open = @ \ {f}]
      BY <2>2 DEF SnapDownloadsMaster, Downloading
    <3> QED BY <3>1, DownloadKeeps
  <2>3. CASE GatherRest(s)
    <3>1. downloads' = downloads
      BY <2>3 DEF GatherRest
    <3>2. \E x : files' = [files EXCEPT !.kofia = x]
      BY <2>3 DEF GatherRest
    <3>3. DOMAIN files' = DOMAIN files /\ files'["futures"] = files["futures"]
          /\ files'["kospi"] = files["kospi"]
      BY <3>2 DEF DownloadsSound
    <3>4. Cache' = Cache
      BY <3>1, <3>3 DEF Cache
    <3>5. \A f : KindOf(f[2]) \in {"futures", "kospi"}
      BY DEF KindOf
    <3>6. \A f : files'[KindOf(f[2])] = files[KindOf(f[2])]
      BY <3>3, <3>5
    <3>7. DownloadsSound'
      BY <3>1, <3>3, <3>6 DEF DownloadsSound
    <3> QED BY <3>4, <3>7, KeptIsFixed
  <2>4. CASE ~SnapLooksForMaster(s) /\ ~SnapDownloadsMaster(s) /\ ~GatherRest(s)
    BY <1>1, <1>3, <2>4 DEF SnapStep, SnapStart, GatherSections, GatherVolatility, ReadFallback,
         FallbackFails, ArchiveOld, ArchiveSkipped, ReplaceSnapshot, SnapshotLost
  <2> QED BY <2>1, <2>2, <2>3, <2>4
<1>4. ASSUME CollectorStep PROVE downloads' = downloads /\ files' = files
  BY <1>4 DEF CollectorStep, CollectorStart, Begin, AuthFails, StoreTick, LoseTick,
                QueryAnswered, QueryFails, TickerFires, Signal, DaemonExits
<1>5. ASSUME BackfillStart \/ BackfillFile PROVE downloads' = downloads /\ files' = files
  BY <1>5 DEF BackfillStart, BackfillFile
<1> QED BY <1>1, <1>2, <1>3, <1>4, <1>5 DEF MarketNext, vars

\* So what was said of a date's files still is what they give.
LEMMA RestsOn ==
  ASSUME NEW old, NEW new, Kept(old, new), world' = world, NEW code, NEW m, NEW d, Rests(code, m, d, old)
  PROVE  Rests(code, m, d, new)'
<1>1. ASSUME code # 0, <<"futures", d>> \notin new.raced PROVE code = ResolveNearMonth(m, new, d)'
  <2>1. code = ResolveNearMonth(m, old, d)
    BY <1>1 DEF Rests, Kept
  <2>2. CASE m = "KOSPI" /\ world.env.future # 0
    BY <2>1, <2>2 DEF ResolveNearMonth
  <2>3. CASE ~(m = "KOSPI" /\ world.env.future # 0)
    <3>1. d \in DOMAIN old.futures /\ code = NearMonth(m, FutureRecords(old.futures[d]))
      BY <1>1, <2>1, <2>3 DEF ResolveNearMonth
    <3>2. d \in DOMAIN new.futures /\ new.futures[d] = old.futures[d]
      BY <1>1, <3>1 DEF Kept
    <3> QED BY <2>3, <3>1, <3>2 DEF ResolveNearMonth
  <2> QED BY <2>2, <2>3
<1> QED BY <1>1 DEF Rests

\* The same for the weights.
LEMMA WeighedOn ==
  ASSUME NEW old, NEW new, Kept(old, new), NEW c, NEW d, Weighed(c, d, old)
  PROVE  Weighed(c, d, new)
<1>1. ASSUME d \in DOMAIN old.kospi, <<"kospi", d>> \notin new.raced
      PROVE  d \in DOMAIN new.kospi /\ Weights(new, d) = Weights(old, d)
  <2>1. d \in DOMAIN new.kospi /\ new.kospi[d] = old.kospi[d]
    BY <1>1 DEF Kept
  <2>2. IndexMarketCapSummary(new, d) = IndexMarketCapSummary(old, d)
    BY <1>1, <2>1 DEF IndexMarketCapSummary
  <2> QED BY <2>1, <2>2 DEF Weights
<1>2. <<"kospi", d>> \notin new.raced => <<"kospi", d>> \notin old.raced
  BY DEF Kept
<1> QED BY <1>1, <1>2 DEF Weighed

\* What a pulse or a snapshot says rests on the files after the step too.
LEMMA PulseRestsOn ==
  ASSUME NEW old, NEW new, Kept(old, new), world' = world, NEW c, PulseRests(c, old)
  PROVE  PulseRests(c, new)'
BY RestsOn DEF PulseRests
LEMMA SnapRestsOn ==
  ASSUME NEW old, NEW new, Kept(old, new), world' = world, NEW c, SnapRests(c, old)
  PROVE  SnapRests(c, new)'
<1>1. ASSUME NEW w, NEW d, Weighed(w, d, old) PROVE Weighed(w, d, new)'
  BY <1>1, WeighedOn DEF Weighed, Weights
<1> QED BY <1>1, RestsOn DEF SnapRests

\* The weights come from a universe, and the universe from the date's file.
LEMMA WeightsAre ==
  ASSUME NEW cache, NEW d PROVE Weighed(Weights(cache, d), d, cache)
<1> DEFINE a == IndexMarketCapSummary(cache, d)
<1>1. CASE d \notin DOMAIN cache.kospi
  <2>1. a.ok = FALSE
    BY <1>1 DEF IndexMarketCapSummary, NoUniverse
  <2> HIDE DEF a
  <2>2. IndexCapSummary(a, d) = <<>>
    BY <2>1 DEF IndexCapSummary
  <2>3. ConcentrationSection(a, d) = NoSection
    BY <2>2 DEF ConcentrationSection
  <2>4. Weights(cache, d) = NoSection /\ NoSection.ok = FALSE
    BY <2>3 DEF Weights, NoSection, a
  <2> QED BY <2>4 DEF Weighed
<1>2. CASE d \in DOMAIN cache.kospi
  <2> HIDE DEF a
  <2>1. \/ ConcentrationSection(a, d) = NoSection
        \/ {"ok", "top2", "top5"} \subseteq DOMAIN ConcentrationSection(a, d)
    <3> DEFINE caps == IndexCapSummary(a, d)
               share == [i \in DOMAIN caps |-> (100 * caps[i].cap) \div a.total]
               top(n) == FoldFunctionOnSet(+, 0, share, 1 .. (IF Len(caps) < n THEN Len(caps) ELSE n))
               hhi == FoldFunction(LAMBDA w, sum : w * w + sum, 0, share)
               checked == ValidateHHI(hhi, [i \in DOMAIN share \cap 1 .. 5 |-> share[i]])
               two == top(2)
               five == top(5)
               band == IF hhi >= 2500 THEN "HIGH" ELSE IF hhi >= 1500 THEN "MEDIUM" ELSE "LOW"
               extreme == two > 45
               twoChips == {caps[i].code : i \in DOMAIN caps \cap {1, 2}} = Semiconductors
               risk == IF twoChips THEN IF two > 45 THEN "VERY_HIGH" ELSE "BELOW_THRESHOLD"
                       ELSE IF five > 55 THEN "HIGH" ELSE "NORMAL"
               status == IF checked = "VALID" THEN "ESTIMATED" ELSE checked
               whole == [ok |-> TRUE, top2 |-> two, top5 |-> five, hhi |-> band,
                         extreme |-> extreme, risk |-> risk, status |-> status]
    <3>1. ConcentrationSection(a, d) = IF caps = <<>> THEN NoSection ELSE whole
      BY DEF ConcentrationSection
    <3>2. {"ok", "top2", "top5"} \subseteq DOMAIN whole
      <4> HIDE DEF two, five, band, extreme, risk, status
      <4> QED OBVIOUS
    <3> HIDE DEF caps, whole
    <3> QED BY <3>1, <3>2
  <2>2. Weights(cache, d) = NoSection \/ {"ok", "top2", "top5"} \subseteq DOMAIN Weights(cache, d)
    BY <2>1 DEF Weights, a
  <2>3. NoSection.ok = FALSE
    BY DEF NoSection
  <2> QED BY <1>2, <2>2, <2>3 DEF Weighed
<1> QED BY <1>1, <1>2
\* A section that cannot be had gives no weights.
LEMMA NoWeights == \A d, cache : Weighed(NoSection, d, cache)
  BY DEF Weighed, NoSection

\* The future names the contract it was asked for, or none, with its own spot or another.
LEMMA FutureNamed ==
  ASSUME NEW a, NEW market, NEW code, NEW now, NEW idx
  PROVE  /\ CollectFuture(a, market, code, now).code \in {0, code}
         /\ WithSpot(CollectFuture(a, market, code, now), idx).code \in {0, code}
<1>1. PICK f : f = CollectFuture(a, market, code, now)
  OBVIOUS
<1>2. f.code \in {0, code} /\ {"code", "spotOK", "spotPct", "match"} \subseteq DOMAIN f
  <2>1. NoFuture.code = 0 /\ {"code", "spotOK", "spotPct", "match"} \subseteq DOMAIN NoFuture
    BY DEF NoFuture
  <2> DEFINE spot == IF market = "KOSPI" THEN "2001" ELSE "3003"
             spotOK == a.spotCode = spot /\ a.spotPct # NoNum /\ a.spot > 0
             spotPct == IF a.spotPct = NoNum THEN 0 ELSE a.spotPct
             match == spotOK /\ a.basis = a.price - a.spot
             fresh == PulseFreshness("KRX", a.ts, now, FALSE)
             g == [ok |-> TRUE, code |-> code, price |-> a.price, pct |-> a.pct, spotOK |-> spotOK,
                   spotPct |-> spotPct, match |-> match, fresh |-> fresh, ts |-> a.ts]
  <2>2. f = NoFuture \/ f = g
    BY <1>1 DEF CollectFuture
  <2>3. g.code = code /\ {"code", "spotOK", "spotPct", "match"} \subseteq DOMAIN g
    <3> HIDE DEF spotOK, spotPct, match, fresh
    <3> QED OBVIOUS
  <2> HIDE DEF g
  <2> QED BY <2>1, <2>2, <2>3
<1>3. WithSpot(f, idx) = f \/ WithSpot(f, idx) = [f EXCEPT !.spotOK = TRUE, !.spotPct = idx.pct, !.match = FALSE]
  BY DEF WithSpot
<1>4. WithSpot(f, idx).code = f.code
  BY <1>2, <1>3
<1> QED BY <1>1, <1>2, <1>4

\* What a step makes of a pulse, as far as it rests on the files there were.
PulseMoves(c, p) == PulseBecomes(c, p) /\ PulseRests(c, Cache)

\* A pulse gathers the contracts of the files it finds,
LEMMA GatherRests ==
  ASSUME PulseInv, MastersInv, NEW p \in Pulses, Gather(p)
  PROVE  \E c : PulseMoves(c, p)
<1> DEFINE q == world.quotes[clock]
           now == pulse[p].now
           bd == BusinessDate(pulse[p])
           idx == [m \in Markets |-> CollectIndex(q.idx[m], now)]
           code(m) == ResolvedContract(pulse[p], m, m, bd)
           fut == [m \in Markets |-> CollectFuture(q.fut[m], m, code(m), now)]
           asked == [fut EXCEPT !["KOSDAQ"] = WithSpot(fut["KOSDAQ"], CollectIndex(q.spot, now))]
           flow == [m \in Markets |-> CollectFlow(q.flow[m])]
           prog == [m \in Markets |-> CollectProgramTrade(q.prog[m])]
           vk == CollectVKOSPI(ResolveVKOSPICode(q), q.vkospi, GetIndexQuote(q.naver, "VKOSPI"), now)
           win == CollectMarket(q.yahoo, q.bars, now)
           e == [pc |-> "gathered", now |-> now, opts |-> pulse[p].opts, bd |-> bd,
                 tried |-> pulse[p].tried, idx |-> idx,
                 flow |-> flow, prog |-> prog, fut |-> asked, vk |-> vk, win |-> win]
<1>1. PulseBecomes(e, p)
  BY DEF Gather, PulseInv, PulseSound, PulseBecomes
<1>2. e.pc = "gathered" /\ e.bd = bd /\ e.fut = asked
  OBVIOUS
<1>3. \A m \in Markets : asked[m] \in {CollectFuture(q.fut[m], m, code(m), now),
          WithSpot(CollectFuture(q.fut[m], m, code(m), now), CollectIndex(q.spot, now))}
  BY DEF Markets
<1>4. \A m \in Markets : code(m) \in {0, ResolveNearMonth(m, Cache, bd)}
  <2>1. ASSUME NEW m \in Markets PROVE ResolveNearMonth(m, files, bd) = ResolveNearMonth(m, Cache, bd)
    <3> HIDE DEF bd
    <3>1. Cache.futures = files.futures
      BY DEF Cache
    <3> QED BY <3>1 DEF ResolveNearMonth
  <2> HIDE DEF bd
  <2> QED BY <2>1 DEF ResolvedContract
<1> HIDE DEF q, now, bd, idx, code, fut, asked, flow, prog, vk, win, e
<1>5. ASSUME NEW m \in Markets PROVE e.fut[m].code \in {0, code(m)}
  <2>1. PICK x : x = code(m)
    OBVIOUS
  <2>2. /\ CollectFuture(q.fut[m], m, x, now).code \in {0, x}
        /\ WithSpot(CollectFuture(q.fut[m], m, x, now), CollectIndex(q.spot, now)).code \in {0, x}
    BY FutureNamed
  <2>3. asked[m] \in {CollectFuture(q.fut[m], m, x, now),
          WithSpot(CollectFuture(q.fut[m], m, x, now), CollectIndex(q.spot, now))}
    BY <1>3, <2>1
  <2> QED BY <1>2, <2>1, <2>2, <2>3
<1>6. PulseRests(e, Cache)
  BY <1>2, <1>4, <1>5 DEF Rests, PulseRests
<1> QED BY <1>1, <1>6 DEF PulseMoves

\* concludes about the same date and futures,
LEMMA ConcludeRests ==
  ASSUME PulseInv, MastersInv, NEW p \in Pulses, Conclude(p)
  PROVE  \E c : PulseMoves(c, p)
<1> DEFINE c == pulse[p]
<1>1. PulseRests(c, Cache) /\ c.pc = "gathered"
  BY DEF MastersInv, AllRest, Conclude
<1>2. \E e : PulseBecomes(e, p) /\ e.pc = "concluded" /\ e.fut = c.fut /\ e.rec.bd = c.bd
  <2> DEFINE load == IF c.opts.history THEN LoadRecords(file[Day(c.now)]) ELSE [ok |-> TRUE, recs |-> <<>>]
             recs == Restrict(load.recs, {i \in DOMAIN load.recs : ValidRecordTime(load.recs[i], c.now)})
             refs == References(recs, c.now)
             flows == [m \in Markets |-> HoursBounded(
                        [k \in DOMAIN refs |-> FlowDelta(refs[k], m, c.flow[m], c.now)])]
             progs == [m \in Markets |-> HoursBounded(
                        [k \in DOMAIN refs |-> ProgramDelta(refs[k], m, c.prog[m], c.now)])]
             events(readable) == LoadOfficialEvents(world.events, readable, Day(c.now), clock)
             board(readable) == BuildMarketSafety(c.now, events(readable), c.idx, c.fut)
             contributions == CollectContributions(KOSPIIndexMarketCapSummary(c, "contributions", c.bd),
                                world.quotes[clock].prices, c.bd, c.idx["KOSPI"])
             residuals == FlowResiduals(c.flow)
             analysis == Analyze(c.flow["KOSPI"], c.win, flows["KOSPI"])
             loaded == load.ok
  <2>1. PICK readable \in world.events.readable : PulseBecomes(
          [pc |-> "concluded", now |-> c.now, opts |-> c.opts, read |-> readable,
           events |-> events(readable), contributions |-> contributions,
           history |-> recs, loaded |-> loaded, flows |-> flows, programs |-> progs,
           safety |-> board(readable), residuals |-> residuals, fut |-> c.fut,
           assessment |-> AssessPulse(c.vk, c.win, board(readable).devices), analysis |-> analysis,
           rec |-> [ts |-> c.now, bd |-> c.bd, flow |-> c.flow, prog |-> c.prog,
                    devices |-> board(readable).devices]], p)
    BY Zenon DEF Conclude, PulseBecomes
  <2> DEFINE e == [pc |-> "concluded", now |-> c.now, opts |-> c.opts, read |-> readable,
                   events |-> events(readable), contributions |-> contributions,
                   history |-> recs, loaded |-> loaded, flows |-> flows, programs |-> progs,
                   safety |-> board(readable), residuals |-> residuals, fut |-> c.fut,
                   assessment |-> AssessPulse(c.vk, c.win, board(readable).devices), analysis |-> analysis,
                   rec |-> [ts |-> c.now, bd |-> c.bd, flow |-> c.flow, prog |-> c.prog,
                            devices |-> board(readable).devices]]
  <2>2. PulseBecomes(e, p)
    BY <2>1
  <2> HIDE DEF c, loaded, recs, flows, progs, events, board, contributions, residuals, analysis
  <2>3. e.pc = "concluded" /\ e.fut = c.fut /\ e.rec.bd = c.bd
    OBVIOUS
  <2> HIDE DEF e
  <2> QED BY <2>2, <2>3
<1> HIDE DEF c
<1>3. PICK e : PulseBecomes(e, p) /\ e.pc = "concluded" /\ e.fut = c.fut /\ e.rec.bd = c.bd
  BY <1>2
<1>4. PulseRests(e, Cache)
  BY <1>1, <1>3 DEF PulseRests
<1> QED BY <1>3, <1>4 DEF PulseMoves

\* keeps them while it looks for a file, and in every other step has nothing to rest.
LEMMA PulseStepRests ==
  ASSUME PulseInv, MastersInv, NEW p \in Pulses, PulseStep(p)
  PROVE  \E c : PulseMoves(c, p)
<1>1. ASSUME NEW c, PulseBecomes(c, p), c.pc \notin {"gathered", "concluded"}
      PROVE  \E e : PulseMoves(e, p)
  BY <1>1 DEF PulseMoves, PulseRests
<1>2. CASE PulseStart(p)
  <2>1. PICK o : pulse' = [pulse EXCEPT ![p] = [pc |-> "started", now |-> clock, opts |-> o,
                                                bd |-> NoTime, tried |-> {}]]
    BY <1>2 DEF PulseStart
  <2> DEFINE e == [pc |-> "started", now |-> clock, opts |-> o, bd |-> NoTime, tried |-> {}]
  <2>2. e.pc = "started" /\ PulseBecomes(e, p)
    BY <2>1 DEF PulseBecomes
  <2> HIDE DEF e
  <2> QED BY <1>1, <2>2
<1>3. CASE SaveRecord(p) \/ (\E whole \in BOOLEAN : SaveCutShort(p, whole)) \/ PulseEnd(p)
  <2>1. PulseBecomes(PulseIdle, p) /\ PulseIdle.pc = "idle"
    BY <1>3 DEF SaveRecord, SaveCutShort, PulseEnd, PulseBecomes, PulseIdle
  <2> QED BY <1>1, <2>1
<1>4. CASE LookForMaster(p) \/ DownloadMaster(p)
  <2>1. PICK c : c = pulse[p]
    OBVIOUS
  <2>2. /\ c.pc \in {"started", "gathered"} /\ InvocationSound(c) /\ PulseRests(c, Cache)
    BY <1>4, <2>1 DEF LookForMaster, DownloadMaster, PulseInv, PulseSound, MastersInv, AllRest
  <2>3. {"pc"} \subseteq DOMAIN c /\ (c.pc = "gathered" => {"bd", "fut"} \subseteq DOMAIN c)
    BY <2>2 DEF InvocationSound
  <2>4. CASE LookForMaster(p)
    <3>1. PICK bd : bd = BusinessDate(c)
      OBVIOUS
    <3>2. PICK e : e = [c EXCEPT !.bd = bd]
      OBVIOUS
    <3>3. PulseBecomes(e, p)
      BY <2>1, <2>4, <3>1, <3>2 DEF LookForMaster, PulseInv, PulseSound, PulseBecomes
    <3>4. e.pc = c.pc /\ (c.pc = "gathered" => e.fut = c.fut /\ e.bd = bd)
      BY <2>3, <3>2
    <3>5. c.pc = "gathered" => bd = c.bd
      BY <3>1 DEF BusinessDate
    <3>6. PulseRests(e, Cache)
      BY <2>2, <3>4, <3>5 DEF PulseRests
    <3> QED BY <3>3, <3>6 DEF PulseMoves
  <2>5. CASE DownloadMaster(p)
    <3>1. PICK x : pulse' = [pulse EXCEPT ![p].tried = x]
      BY <2>5 DEF DownloadMaster
    <3>2. PICK e : e = [c EXCEPT !.tried = x]
      OBVIOUS
    <3>3. PulseBecomes(e, p)
      BY <2>1, <3>1, <3>2 DEF PulseInv, PulseSound, PulseBecomes
    <3>4. e.pc = c.pc /\ (c.pc = "gathered" => e.fut = c.fut /\ e.bd = c.bd)
      BY <2>3, <3>2
    <3>5. PulseRests(e, Cache)
      BY <2>2, <3>4 DEF PulseRests
    <3> QED BY <3>3, <3>5 DEF PulseMoves
  <2> QED BY <1>4, <2>4, <2>5
<1> QED BY <1>2, <1>3, <1>4, GatherRests, ConcludeRests DEF PulseStep

\* What a step makes of a snapshot and reports saved, as far as it rests on the files
\* there were.
Reports(content, date) == reported' = [reported EXCEPT ![date] = @ \cup {content}]
SnapMoves(e, s) ==
  /\ snap' = [snap EXCEPT ![s] = e] /\ SnapRests(e, Cache)
  /\ reported' = reported \/ \E content, date : Reports(content, date) /\ SnapRests(content, Cache)

\* A snapshot's sections name the contract of the file it finds.
LEMMA SectionsRest ==
  ASSUME SnapInv, MastersInv, NEW s \in Snappers, GatherSections(s)
  PROVE  \E e : SnapMoves(e, s)
<1> DEFINE c == snap[s]
           q == world.quotes[clock]
           flow == DailyFlowSection(q.dailyFlow, c.date)
           near == ResolvedContract(c, "impact", "KOSPI", c.date)
           impact == ImpactSection(q.fut["KOSPI"], near, c.date, c.now, flow)
<1>1. PICK session, price, fl, global, macro, chips :
          snap' = [snap EXCEPT ![s] =
             [pc |-> "sections", now |-> c.now, date |-> c.date, tried |-> c.tried,
              spot |-> c.spot, session |-> session,
              price |-> price, flow |-> fl, global |-> global, macro |-> macro,
              impact |-> impact, chips |-> chips]]
  BY DEF GatherSections
<1>2. reported' = reported
  BY DEF GatherSections
<1>3. near \in {0, ResolveNearMonth("KOSPI", Cache, c.date)}
  <2>1. ResolveNearMonth("KOSPI", files, c.date) = ResolveNearMonth("KOSPI", Cache, c.date)
    <3> HIDE DEF c
    <3>1. Cache.futures = files.futures
      BY DEF Cache
    <3> QED BY <3>1 DEF ResolveNearMonth
  <2> QED BY <2>1 DEF ResolvedContract
<1>4. impact.code \in {0, near}
  <2> HIDE DEF near, flow, q
  <2> QED BY DEF ImpactSection
<1> HIDE DEF q, flow, near, impact
<1> DEFINE e == [pc |-> "sections", now |-> c.now, date |-> c.date, tried |-> c.tried,
                 spot |-> c.spot, session |-> session,
                 price |-> price, flow |-> fl, global |-> global, macro |-> macro,
                 impact |-> impact, chips |-> chips]
<1>5. {"pc", "date", "impact"} \subseteq DOMAIN e /\ e.pc = "sections" /\ e.date = c.date /\ e.impact = impact
  OBVIOUS
<1>6. snap' = [snap EXCEPT ![s] = e]
  BY <1>1
<1> HIDE DEF e, c
<1>7. SnapRests(e, Cache)
  BY <1>3, <1>4, <1>5 DEF SnapRests, Rests, Weighing
<1> QED BY <1>2, <1>6, <1>7 DEF SnapMoves

\* An invocation whose date and impact stay and that is not weighing rests where it did.
LEMMA StillRests ==
  ASSUME NEW c, NEW e, NEW cache, SnapRests(c, cache), c.pc \notin {"idle", "started"},
         e.pc \notin Weighing, {"pc", "date", "impact"} \subseteq DOMAIN e,
         e.date = c.date, e.impact = c.impact
  PROVE  SnapRests(e, cache)
BY DEF SnapRests

\* Turning to VKOSPI, to the store or to a master file changes neither its date nor its
\* contract.
LEMMA VolatilityRests ==
  ASSUME SnapInv, MastersInv, NEW s \in Snappers,
         \/ GatherVolatility(s) \/ ReadFallback(s) \/ FallbackFails(s)
         \/ (SnapLooksForMaster(s) \/ SnapDownloadsMaster(s)) /\ snap[s].pc # "started"
  PROVE  \E e : SnapMoves(e, s)
<1> DEFINE c == snap[s]
<1>1. /\ SnapRests(c, Cache) /\ c.pc \notin {"idle", "started"}
      /\ snap = [t \in Snappers |-> snap[t]] /\ c.pc \in {"sections", "fallback", "volatility"}
  BY DEF MastersInv, AllRest, SnapInv, SnapsSound, GatherVolatility, ReadFallback, FallbackFails,
         SnapLooksForMaster, SnapDownloadsMaster
<1>2. reported' = reported
  BY DEF GatherVolatility, ReadFallback, FallbackFails, SnapLooksForMaster, SnapDownloadsMaster
<1>3. {"pc", "date", "impact"} \subseteq DOMAIN c
  BY <1>1 DEF SnapRests
<1>4. \E e : /\ snap' = [snap EXCEPT ![s] = e]
             /\ e.pc \notin Weighing /\ {"pc", "date", "impact"} \subseteq DOMAIN e
             /\ e.date = c.date /\ e.impact = c.impact
  <2>1. CASE GatherVolatility(s)
    <3>1. PICK pc \in {"fallback", "volatility"} : \E vk, vix, change, mean :
            snap' = [snap EXCEPT ![s] = With(c,
               [pc |-> pc, vk |-> vk, vix |-> vix, change |-> change, mean |-> mean])]
      BY <2>1, <1>1 DEF GatherVolatility
    <3>2. PICK vk, vix, change, mean :
            snap' = [snap EXCEPT ![s] = With(c,
               [pc |-> pc, vk |-> vk, vix |-> vix, change |-> change, mean |-> mean])]
      BY <3>1
    <3> DEFINE g == [pc |-> pc, vk |-> vk, vix |-> vix, change |-> change, mean |-> mean]
               e == With(c, g)
    <3>3. DOMAIN g = {"pc", "vk", "vix", "change", "mean"} /\ g.pc \notin Weighing
      BY DEF Weighing
    <3>4. snap' = [snap EXCEPT ![s] = e]
      BY <3>2
    <3> HIDE DEF g
    <3>5. /\ DOMAIN e = DOMAIN c \cup DOMAIN g
          /\ \A x \in DOMAIN c \ DOMAIN g : e[x] = c[x]
          /\ \A x \in DOMAIN g : e[x] = g[x]
      BY WithIs
    <3> HIDE DEF e, c
    <3> QED BY <1>3, <3>3, <3>4, <3>5
  <2>2. CASE ReadFallback(s)
    <3>1. PICK v : snap' = [snap EXCEPT ![s] = [c EXCEPT !.pc = "volatility", !.vk = v]]
      BY <2>2, <1>1 DEF ReadFallback
    <3> DEFINE e == [c EXCEPT !.pc = "volatility", !.vk = v]
    <3>2. DOMAIN e = DOMAIN c /\ e.date = c.date /\ e.impact = c.impact /\ e.pc = "volatility"
      BY <1>3
    <3>3. snap' = [snap EXCEPT ![s] = e]
      BY <3>1
    <3> HIDE DEF e, c
    <3> QED BY <1>3, <3>2, <3>3 DEF Weighing
  <2>3. CASE FallbackFails(s)
    <3>1. snap' = [snap EXCEPT ![s] = [c EXCEPT !.pc = "volatility"]]
      BY <2>3, <1>1 DEF FallbackFails
    <3> DEFINE e == [c EXCEPT !.pc = "volatility"]
    <3>2. DOMAIN e = DOMAIN c /\ e.date = c.date /\ e.impact = c.impact /\ e.pc = "volatility"
      BY <1>3
    <3>3. snap' = [snap EXCEPT ![s] = e]
      BY <3>1
    <3> HIDE DEF e, c
    <3> QED BY <1>3, <3>2, <3>3 DEF Weighing
  <2>4. CASE SnapLooksForMaster(s) \/ SnapDownloadsMaster(s)
    <3>1. PICK field \in {"spot", "tried"} : \E x : snap' = [snap EXCEPT ![s] = [c EXCEPT ![field] = x]]
      BY <2>4, <1>1 DEF SnapLooksForMaster, SnapDownloadsMaster
    <3>2. PICK x : snap' = [snap EXCEPT ![s] = [c EXCEPT ![field] = x]]
      BY <3>1
    <3> DEFINE e == [c EXCEPT ![field] = x]
    <3>3. DOMAIN e = DOMAIN c /\ e.date = c.date /\ e.impact = c.impact /\ e.pc = c.pc
      BY <1>3
    <3>4. snap' = [snap EXCEPT ![s] = e]
      BY <3>2
    <3> HIDE DEF e, c
    <3> QED BY <1>1, <1>3, <3>3, <3>4 DEF Weighing
  <2> QED BY <2>1, <2>2, <2>3, <2>4
<1>5. PICK e : /\ snap' = [snap EXCEPT ![s] = e]
               /\ e.pc \notin Weighing /\ {"pc", "date", "impact"} \subseteq DOMAIN e
               /\ e.date = c.date /\ e.impact = c.impact
  BY <1>4
<1> HIDE DEF c
<1>6. SnapRests(e, Cache)
  BY <1>1, <1>5, StillRests
<1> QED BY <1>2, <1>5, <1>6 DEF SnapMoves

\* The concentration is of the file it finds next, in which the contract still stands.
LEMMA WeighingRests ==
  ASSUME SnapInv, MastersInv, NEW s \in Snappers, GatherRest(s)
  PROVE  \E e : SnapMoves(e, s)
<1> DEFINE c == snap[s]
           q == world.quotes[clock]
           today == c.date = Day(c.now)
           universe == KOSPIIndexMarketCapSummary(c, "concentration", c.date)
           concentration == IF today THEN ConcentrationSection(universe, c.date) ELSE NoSection
<1>0. SnapRests(c, Cache) /\ c.pc = "volatility" /\ snap = [t \in Snappers |-> snap[t]]
  BY DEF MastersInv, AllRest, SnapInv, SnapsSound, GatherRest
<1>1. PICK g0 : /\ snap' = [snap EXCEPT ![s] = With(c, g0)]
                /\ \E credit, regime, level, late, completed :
                     g0 = [pc |-> "ready", credit |-> credit, regime |-> regime, level |-> level,
                           concentration |-> concentration, late |-> late, completed |-> completed]
  <2> DEFINE contract == ResolvedContract(c, "late", "KOSPI", c.date)
             credit == CreditSection(q.funds, GetMarketFundsForDate(c.date, q.kofia), c.date)
             regime == CollectRegime(c.price)
             level == IF c.vk.value > 0 THEN VKOSPILevel(c.vk.value) ELSE ""
             late == IF today THEN LateSession([q EXCEPT !.k200 = SpotOf(c)], contract, c.date)
                     ELSE <<>>
             g0 == [pc |-> "ready", credit |-> credit, regime |-> regime, level |-> level,
                    concentration |-> concentration, late |-> late, completed |-> clock]
  <2>1. snap' = [snap EXCEPT ![s] = With(c, g0)]
    BY <1>0 DEF GatherRest
  <2> HIDE DEF credit, regime, level, late, concentration
  <2> QED BY <2>1
<1>2. reported' = reported
  BY DEF GatherRest
<1>3. Weighed(concentration, c.date, Cache)
  <2>1. Cache.kospi = files.kospi
    BY DEF Cache
  <2> HIDE DEF today, c
  <2>2. IndexMarketCapSummary(files, c.date) = IndexMarketCapSummary(Cache, c.date)
    BY <2>1 DEF IndexMarketCapSummary
  <2>3. CASE ~today
    BY <2>3, NoWeights
  <2>4. CASE universe = IndexMarketCapSummary(Cache, c.date)
    BY <2>3, <2>4, WeightsAre DEF Weights
  <2>5. CASE universe = NoUniverse
    <3>1. IndexCapSummary(NoUniverse, c.date) = <<>>
      BY DEF IndexCapSummary, NoUniverse
    <3>2. ConcentrationSection(NoUniverse, c.date) = NoSection
      BY <3>1 DEF ConcentrationSection
    <3> QED BY <2>3, <2>5, <3>2, NoWeights
  <2> QED BY <2>2, <2>4, <2>5 DEF KOSPIIndexMarketCapSummary
<1> HIDE DEF c, q, today, universe, concentration
<1>4. PICK credit, regime, level, late, completed :
         snap' = [snap EXCEPT ![s] = With(c,
             [pc |-> "ready", credit |-> credit, regime |-> regime, level |-> level,
              concentration |-> concentration, late |-> late, completed |-> completed])]
  BY <1>1
<1> DEFINE g == [pc |-> "ready", credit |-> credit, regime |-> regime, level |-> level,
                 concentration |-> concentration, late |-> late, completed |-> completed]
           e == With(c, g)
<1>5. /\ DOMAIN g = {"pc", "credit", "regime", "level", "concentration", "late", "completed"}
      /\ g.pc = "ready" /\ g.concentration = concentration
  OBVIOUS
<1>6. snap' = [snap EXCEPT ![s] = e]
  BY <1>4
<1> HIDE DEF g
<1>7. /\ DOMAIN e = DOMAIN c \cup DOMAIN g
      /\ \A x \in DOMAIN c \ DOMAIN g : e[x] = c[x]
      /\ \A x \in DOMAIN g : e[x] = g[x]
  BY WithIs
<1> HIDE DEF e
<1>8. /\ {"pc", "date", "impact", "concentration"} \subseteq DOMAIN e
      /\ e.pc = "ready" /\ e.date = c.date /\ e.impact = c.impact /\ e.concentration = concentration
  BY <1>0, <1>5, <1>7 DEF SnapRests
<1>9. SnapRests(e, Cache)
  BY <1>0, <1>3, <1>8 DEF SnapRests
<1> QED BY <1>2, <1>6, <1>9 DEF SnapMoves

\* What is saved of a snapshot rests where the snapshot did: weights that contradict
\* themselves are left out.
LEMMA MaskedRests ==
  ASSUME NEW c, NEW cache, SnapRests(c, cache), c.pc = "archived", "vk" \in DOMAIN c
  PROVE  SnapRests(Masked(c), cache)
<1> DEFINE k == c.concentration
           shares == {"top2", "top5", "hhi"}
           doubtful == IF k.ok THEN k.status # "ESTIMATED" ELSE FALSE
           w == IF doubtful THEN [f \in DOMAIN k |-> IF f \in shares THEN NoNum ELSE k[f]] ELSE k
           v == [c.vk EXCEPT !.value = IF c.vk.value > 0 THEN c.vk.value ELSE NoNum]
           e == [c EXCEPT !.pc = "saved", !.vk = v, !.concentration = w]
<1>1. /\ {"pc", "date", "impact", "concentration"} \subseteq DOMAIN c
      /\ Rests(c.impact.code, "KOSPI", c.date, cache) /\ Weighed(k, c.date, cache)
  BY DEF SnapRests, Weighing
<1>2. Masked(c) = [c EXCEPT !.pc = "saved", !.vk.value = IF @ > 0 THEN @ ELSE NoNum, !.concentration = w]
  BY DEF Masked
<1>3. Weighed(w, c.date, cache)
  <2>1. CASE doubtful
    <3>1. /\ {"ok", "top2", "top5"} \subseteq DOMAIN k
          /\ w = [f \in DOMAIN k |-> IF f \in shares THEN NoNum ELSE k[f]]
      BY <1>1, <2>1 DEF Weighed
    <3>2. DOMAIN w = DOMAIN k /\ w.top2 = NoNum
      BY <3>1
    <3> HIDE DEF w
    <3> QED BY <3>1, <3>2 DEF Weighed
  <2>2. CASE ~doubtful
    BY <1>1, <2>2
  <2> QED BY <2>1, <2>2
<1> HIDE DEF w, k
<1>4. PICK y : y = Masked(c)
  OBVIOUS
<1>5. /\ DOMAIN y = DOMAIN c /\ y.pc = "saved" /\ y.date = c.date /\ y.impact = c.impact
      /\ y.concentration = w
  BY <1>1, <1>2, <1>4
<1>6. SnapRests(y, cache)
  BY <1>1, <1>3, <1>5 DEF SnapRests
<1> QED BY <1>4, <1>6

\* Starting, archiving, replacing and losing a snapshot say nothing new.
LEMMA SavesRest ==
  ASSUME SnapInv, MastersInv, NEW s \in Snappers,
         \/ SnapStart(s) \/ ArchiveOld(s) \/ ArchiveSkipped(s) \/ ReplaceSnapshot(s) \/ SnapshotLost(s)
         \/ (SnapLooksForMaster(s) \/ SnapDownloadsMaster(s)) /\ snap[s].pc = "started"
  PROVE  \E e : SnapMoves(e, s)
<1>0. SnapRests(snap[s], Cache) /\ snap = [t \in Snappers |-> snap[t]] /\ SnapshotSound(s)
  BY DEF MastersInv, AllRest, SnapInv, SnapsSound
<1>1. CASE SnapStart(s)
  <2>1. PICK date : snap' = [snap EXCEPT ![s] = [pc |-> "started", now |-> clock, date |-> date,
                                                 tried |-> {}, spot |-> NoSection]]
    BY <1>1 DEF SnapStart
  <2> DEFINE e == [pc |-> "started", now |-> clock, date |-> date, tried |-> {}, spot |-> NoSection]
  <2>2. e.pc = "started" /\ snap' = [snap EXCEPT ![s] = e]
    BY <2>1
  <2> HIDE DEF e
  <2>3. SnapRests(e, Cache)
    BY <2>2 DEF SnapRests
  <2>4. reported' = reported
    BY <1>1 DEF SnapStart
  <2> QED BY <2>2, <2>3, <2>4 DEF SnapMoves
<1>2. CASE ArchiveOld(s) \/ ArchiveSkipped(s)
  <2>1. PICK before : snap' = [snap EXCEPT ![s] = With(snap[s], [pc |-> "archived", before |-> before])]
    BY <1>2, <1>0 DEF ArchiveOld, ArchiveSkipped
  <2> DEFINE c == snap[s]
             g == [pc |-> "archived", before |-> before]
             e == With(c, g)
  <2>2. DOMAIN g = {"pc", "before"} /\ g.pc = "archived"
    OBVIOUS
  <2>3. snap' = [snap EXCEPT ![s] = e] /\ c.pc = "ready"
    BY <1>2, <2>1 DEF ArchiveOld, ArchiveSkipped
  <2> HIDE DEF g
  <2>4. /\ DOMAIN e = DOMAIN c \cup DOMAIN g
        /\ \A x \in DOMAIN c \ DOMAIN g : e[x] = c[x]
        /\ \A x \in DOMAIN g : e[x] = g[x]
    BY WithIs
  <2>5. SnapRests(c, Cache)
    BY <1>0
  <2> HIDE DEF e, c
  <2>6. SnapRests(e, Cache)
    BY <2>2, <2>3, <2>4, <2>5 DEF SnapRests, Weighing
  <2>7. reported' = reported
    BY <1>2 DEF ArchiveOld, ArchiveSkipped
  <2> QED BY <2>3, <2>6, <2>7 DEF SnapMoves
<1>3. CASE ReplaceSnapshot(s) \/ SnapshotLost(s)
  <2>1. snap' = [snap EXCEPT ![s] = SnapIdle]
    BY <1>3 DEF ReplaceSnapshot, SnapshotLost
  <2>2. SnapRests(SnapIdle, Cache)
    BY DEF SnapRests, SnapIdle
  <2>3. reported' = reported \/ \E content, date : Reports(content, date) /\ SnapRests(content, Cache)
    <3>1. CASE ReplaceSnapshot(s)
      <4>1. reported' = [reported EXCEPT ![snap[s].date] = @ \cup {Masked(snap[s])}]
        BY <3>1 DEF ReplaceSnapshot
      <4>2. snap[s].pc = "archived"
        BY <3>1 DEF ReplaceSnapshot
      <4>3. "vk" \in DOMAIN snap[s]
        BY <1>0, <4>2 DEF SnapshotSound
      <4>4. PICK c, cache : c = snap[s] /\ cache = Cache
        OBVIOUS
      <4>5. SnapRests(c, cache) /\ c.pc = "archived" /\ "vk" \in DOMAIN c
        BY <1>0, <4>2, <4>3, <4>4
      <4>6. SnapRests(Masked(c), cache)
        <5> HIDE <4>4
        <5> QED BY <4>5, MaskedRests
      <4> QED BY <4>1, <4>4, <4>6 DEF Reports
    <3>2. CASE SnapshotLost(s)
      BY <3>2 DEF SnapshotLost
    <3> QED BY <1>3, <3>1, <3>2
  <2> QED BY <2>1, <2>2, <2>3 DEF SnapMoves
<1>4. CASE (SnapLooksForMaster(s) \/ SnapDownloadsMaster(s)) /\ snap[s].pc = "started"
  <2>1. PICK c : c = snap[s]
    OBVIOUS
  <2>2. PICK field \in {"spot", "tried"} : \E x : snap' = [snap EXCEPT ![s] = [c EXCEPT ![field] = x]]
    BY <1>4, <1>0, <2>1 DEF SnapLooksForMaster, SnapDownloadsMaster
  <2>3. PICK x : snap' = [snap EXCEPT ![s] = [c EXCEPT ![field] = x]]
    BY <2>2
  <2>4. PICK e : e = [c EXCEPT ![field] = x]
    OBVIOUS
  <2>5. e.pc = "started"
    BY <1>0, <1>4, <2>1, <2>4 DEF SnapshotSound
  <2>6. SnapRests(e, Cache)
    BY <2>5 DEF SnapRests
  <2>7. reported' = reported
    BY <1>4 DEF SnapLooksForMaster, SnapDownloadsMaster
  <2> QED BY <2>3, <2>4, <2>6, <2>7 DEF SnapMoves
<1> QED BY <1>1, <1>2, <1>3, <1>4

\* So does every step of a snapshot.
LEMMA SnapStepRests ==
  ASSUME SnapInv, MastersInv, NEW s \in Snappers, SnapStep(s)
  PROVE  \E e : SnapMoves(e, s)
BY SectionsRest, VolatilityRests, WeighingRests, SavesRest DEF SnapStep

\* What rested on the files before a step rests on those after it.
LEMMA OthersRest ==
  ASSUME MastersInv, [MarketNext]_vars
  PROVE  /\ \A x : PulseRests(x, Cache) => PulseRests(x, Cache)'
         /\ \A x : SnapRests(x, Cache) => SnapRests(x, Cache)'
<1>1. PICK old, new : old = Cache /\ new = Cache'
  OBVIOUS
<1>2. Kept(old, new) /\ world' = world
  BY <1>1, MastersKept, WhoMoves DEF MastersInv
<1>3. ASSUME NEW x, PulseRests(x, old) PROVE PulseRests(x, new)'
  <2> HIDE <1>1
  <2> QED BY <1>2, <1>3, PulseRestsOn
<1>4. ASSUME NEW x, SnapRests(x, old) PROVE SnapRests(x, new)'
  <2> HIDE <1>1
  <2> QED BY <1>2, <1>4, SnapRestsOn
<1> QED BY <1>1, <1>3, <1>4

\* Every step keeps the invariant: what it adds rests on the files there were, as all
\* that is left from before does.
LEMMA MastersInductive ==
  ASSUME PulseInv, SnapInv, MastersInv, [MarketNext]_vars PROVE MastersInv'
<1>1. DownloadsSound'
  BY MastersKept DEF MastersInv
<1>2. \A x : /\ PulseRests(x, Cache) => PulseRests(x, Cache)'
             /\ SnapRests(x, Cache) => SnapRests(x, Cache)'
  BY OthersRest
<1>3. ASSUME NEW q \in Pulses PROVE PulseRests(pulse'[q], Cache)
  <2>1. CASE pulse' = pulse
    BY <2>1 DEF MastersInv, AllRest
  <2>2. ASSUME NEW p \in Pulses, PulseStep(p) PROVE PulseRests(pulse'[q], Cache)
    <3>1. PICK c : PulseBecomes(c, p) /\ PulseRests(c, Cache)
      BY <2>2, PulseStepRests DEF PulseMoves
    <3>2. pulse'[q] = IF q = p THEN c ELSE pulse[q]
      BY <3>1 DEF PulseBecomes, PulseInv, PulseSound
    <3> QED BY <3>1, <3>2 DEF MastersInv, AllRest
  <2> QED BY <2>1, <2>2, WhoMoves DEF vars, pulseVars
<1>4. ASSUME NEW s \in Snappers, SnapStep(s)
      PROVE  /\ \A t \in Snappers : SnapRests(snap'[t], Cache)
             /\ \A d \in DOMAIN reported' : \A r \in reported'[d] : SnapRests(r, Cache)
  <2>1. PICK e : SnapMoves(e, s)
    BY <1>4, SnapStepRests
  <2>2. ASSUME NEW t \in Snappers PROVE SnapRests(snap'[t], Cache)
    <3>1. snap'[t] = IF t = s THEN e ELSE snap[t]
      BY <2>1 DEF SnapMoves, SnapInv, SnapsSound
    <3> QED BY <2>1, <3>1 DEF SnapMoves, MastersInv, AllRest
  <2>3. ASSUME NEW d \in DOMAIN reported', NEW r \in reported'[d] PROVE SnapRests(r, Cache)
    <3>1. CASE d \in DOMAIN reported /\ r \in reported[d]
      BY <3>1 DEF MastersInv, AllRest
    <3>2. CASE ~(d \in DOMAIN reported /\ r \in reported[d])
      <4>1. PICK content, date : Reports(content, date) /\ SnapRests(content, Cache)
        BY <2>1, <2>3, <3>2 DEF SnapMoves
      <4>2. r = content
        BY <2>3, <3>2, <4>1 DEF Reports
      <4> QED BY <4>1, <4>2
    <3> QED BY <3>1, <3>2
  <2> QED BY <2>2, <2>3
<1>5. /\ \A t \in Snappers : SnapRests(snap'[t], Cache)
      /\ \A d \in DOMAIN reported' : \A r \in reported'[d] : SnapRests(r, Cache)
  <2>1. CASE snap' = snap /\ reported' = reported
    BY <2>1 DEF MastersInv, AllRest
  <2> QED BY <1>4, <2>1, WhoMoves DEF vars, snapVars
<1>6. AllRest(Cache)'
  <2>1. ASSUME NEW q \in Pulses PROVE PulseRests(pulse[q], Cache)'
    <3>1. PICK x : x = pulse'[q]
      OBVIOUS
    <3>2. PulseRests(x, Cache)'
      BY <1>2, <1>3, <3>1
    <3> QED BY <3>1, <3>2
  <2>2. ASSUME NEW t \in Snappers PROVE SnapRests(snap[t], Cache)'
    <3>1. PICK x : x = snap'[t]
      OBVIOUS
    <3>2. SnapRests(x, Cache)'
      BY <1>2, <1>5, <3>1
    <3> QED BY <3>1, <3>2
  <2>3. ASSUME NEW d \in DOMAIN reported', NEW r \in reported'[d] PROVE SnapRests(r, Cache)'
    <3>1. SnapRests(r, Cache)
      BY <1>5
    <3> QED BY <1>2, <3>1
  <2> QED BY <2>1, <2>2, <2>3 DEF AllRest
<1> QED BY <1>1, <1>6 DEF MastersInv

\* At first nothing has been said or downloaded.
LEMMA MastersInit ==
  ASSUME MarketInit PROVE MastersInv
<1>1. DownloadsSound
  BY FilesAssumption DEF MarketInit, ProvidersInit, DownloadsSound
<1>2. \A c : PulseRests(PulseIdle, c) /\ SnapRests(SnapIdle, c)
  BY DEF PulseRests, SnapRests, PulseIdle, SnapIdle
<1>3. /\ \A p \in Pulses : pulse[p] = PulseIdle
      /\ \A s \in Snappers : snap[s] = SnapIdle
      /\ \A d \in DOMAIN reported : reported[d] = {}
  BY DEF MarketInit, PulseInit, SnapInit
<1> QED BY <1>1, <1>2, <1>3 DEF MastersInv, AllRest

\* All that pulses and snapshots of one business date rest on is the same master files
\* (mstcache.EnsureZipCache), for any answers of the exchange, any clock and any number
\* of invocations whose downloads fail or not, unless two of them downloaded the file at
\* once: otherwise a file that is there is never replaced, and whatever names a contract
\* or gives weights still says what that file gives.
THEOREM MastersAreShared == MarketSpec => []MastersStick
<1>1. ASSUME MastersInv PROVE MastersStick
  <2> DEFINE bd(p) == IF pulse[p].pc = "gathered" THEN pulse[p].bd ELSE pulse[p].rec.bd
             asked == {p \in Pulses : pulse[p].pc \in {"gathered", "concluded"}}
             named == {<<bd(p), m, pulse[p].fut[m].code>> : p \in asked, m \in Markets}
                        \cup {<<s.date, "KOSPI", s.impact.code>> : s \in Snapshots}
             weighing == {t \in Snapshots : /\ t.pc \in {"ready", "archived", "saved"}
                                           /\ t.concentration.ok
                                           /\ t.concentration.top2 # NoNum}
             shares == {<<s.date, s.concentration.top2, s.concentration.top5>> : s \in weighing}
             once(kind, d) == <<kind, d>> \notin downloads.raced
  <2>0. Cache.raced = downloads.raced
    BY DEF Cache
  <2>1. \A s \in Snapshots : SnapRests(s, Cache) /\ s.pc \notin {"idle", "started"}
    BY <1>1 DEF MastersInv, AllRest, Snapshots
  <2>2. ASSUME NEW a \in named
        PROVE  a = <<a[1], a[2], a[3]>> /\ Rests(a[3], a[2], a[1], Cache)
    <3>1. CASE \E p \in asked, m \in Markets : a = <<bd(p), m, pulse[p].fut[m].code>>
      <4>1. PICK p \in asked, m \in Markets : a = <<bd(p), m, pulse[p].fut[m].code>>
        BY <3>1
      <4>2. PulseRests(pulse[p], Cache)
        BY <1>1 DEF MastersInv, AllRest
      <4> QED BY <4>1, <4>2 DEF PulseRests
    <3>2. CASE \E s \in Snapshots : a = <<s.date, "KOSPI", s.impact.code>>
      BY <3>2, <2>1 DEF SnapRests
    <3> QED BY <2>2, <3>1, <3>2
  <2>3. ASSUME NEW a \in shares, once("kospi", a[1])
        PROVE  a = <<a[1], Weights(Cache, a[1]).top2, Weights(Cache, a[1]).top5>>
    <3>1. PICK s \in weighing : a = <<s.date, s.concentration.top2, s.concentration.top5>>
      OBVIOUS
    <3>2. SnapRests(s, Cache) /\ s.pc \in Weighing /\ s.concentration.ok
          /\ s.concentration.top2 # NoNum /\ s.pc \notin {"idle", "started"}
      BY <2>1 DEF Weighing
    <3>3. a[1] = s.date
      BY <3>1
    <3>4. <<"kospi", s.date>> \notin Cache.raced
      BY <2>0, <2>3, <3>3
    <3>5. /\ s.concentration.top2 = Weights(Cache, s.date).top2
          /\ s.concentration.top5 = Weights(Cache, s.date).top5
      BY <3>2, <3>4 DEF SnapRests, Weighed
    <3> HIDE DEF weighing
    <3> QED BY <3>1, <3>5
  <2> HIDE DEF named, shares
  <2>4. \A a, b \in named :
          once("futures", a[1]) /\ a[1] = b[1] /\ a[2] = b[2] /\ 0 \notin {a[3], b[3]} => a = b
    BY <2>0, <2>2 DEF Rests
  <2>5. \A a, b \in shares : once("kospi", a[1]) /\ a[1] = b[1] => a = b
    BY <2>3
  <2> QED BY <2>4, <2>5 DEF MastersStick, named, shares
<1>2. MarketInit => MastersInv
  BY MastersInit
<1>3. PulseInv /\ SnapInv /\ MastersInv /\ [MarketNext]_vars => MastersInv'
  BY MastersInductive
<1> QED BY <1>1, <1>2, <1>3, PulseAlways, SnapsAlways, PTL DEF MarketSpec
=============================================================================
