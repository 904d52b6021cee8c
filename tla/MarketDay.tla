------------------------------ MODULE MarketDay ------------------------------
(* The programs that watch one market day side by side and meet in their       *)
(* files and in the store: the pulses, the market collector with its backfill, *)
(* and the snapshots.  They share the wall clock and the providers.            *)
EXTENDS Pulse, Snapshot

CONSTANT Worlds

\* A world has an instant; the dates a snapshot may be asked for are days, and what
\* the store holds at first has been observed at a time, VKOSPI with a value.
ASSUME WorldsAssumption ==
  \A w \in Worlds :
    /\ w.times \subseteq Instants /\ w.times # {}
    /\ w.plan.dates \subseteq Nat
    /\ \A r \in w.rows : r.at \in Int /\ (r.metric = "vkospi.value" => r.value > 0)

\* The changes are numbers, the times of the flows and program rows too.
Timed(row) == row.day \in Int /\ row.hour \in 0 .. 1439
Numeric(q, m) ==
  /\ {q.fut[m].pct, q.fut[m].spotPct, q.spot.pct, q.flow[m].ts} \subseteq Int
  /\ Len(q.prog[m].rows) \in Nat /\ DOMAIN q.prog[m].rows = 1 .. Len(q.prog[m].rows)
  /\ \A i \in DOMAIN q.prog[m].rows : Timed(q.prog[m].rows[i])
ASSUME QuotesAssumption ==
  \A w \in Worlds : \A t \in w.times, m \in Markets : Numeric(w.quotes[t], m)

\* The file of official events has the times of its events, which may come in any order.
ASSUME EventsAssumption ==
  \A w \in Worlds :
    /\ Len(w.events.events) \in Nat /\ DOMAIN w.events.events = 1 .. Len(w.events.events)
    /\ \A i \in DOMAIN w.events.events :
         {w.events.events[i].at, w.events.events[i].released} \subseteq Nat \cup {NoTime}

\* The cached files are kept by kind.
ASSUME FilesAssumption == \A w \in Worlds : {"futures", "kospi"} \subseteq DOMAIN w.files

VARIABLES
  backfill,     \* the snapshot files a backfill has still to read
  backfills     \* how many backfills have been started

vars == <<clock, world, files, downloads, pulseVars, factsVars, snapVars, backfill, backfills>>

\* The current files and the archives, and the order of their names: a date's file
\* comes before its archives.
SnapshotFiles ==
  LET current == {<<d, 0>> : d \in {e \in DOMAIN snaps : snaps[e].cur # NoFile}}
      archives == UNION {{d} \X DOMAIN snaps[d].arch : d \in DOMAIN snaps}
  IN current \cup archives
NotAfter(f, g) == f[1] < g[1] \/ (f[1] = g[1] /\ f[2] <= g[2])

\* The pulse files come first and give nothing: only lines with the venue KRX count,
\* and no pulse writes a venue.
PulseRows(d) == {}

BackfillStart ==
  /\ backfill = {} /\ backfills < world.plan.backfills
  /\ backfills' = backfills + 1
  /\ backfill' = SnapshotFiles
  /\ rows' = Insert(rows, UNION {PulseRows(d) : d \in Days})
  /\ UNCHANGED <<clock, world, files, downloads, pulseVars, snapVars, tick, ticks>>

\* A file's VKOSPI becomes the observation of its date's close, whatever it was in
\* the snapshot; an insert that fails is passed over.
BackfillFile ==
  /\ \E f \in backfill :
       LET d == f[1]
           k == f[2]
           content == IF k = 0 THEN snaps[d].cur ELSE snaps[d].arch[k]
           new == IF content.vk.value > 0
                  THEN {Observation("vkospi.value", content.vk.value, At(d, 15, 30), "backfill")}
                  ELSE {}
       IN /\ \A g \in backfill : NotAfter(f, g)
          /\ \E put \in {{}, new} : rows' = Insert(rows, put)
          /\ backfill' = backfill \ {f}
  /\ UNCHANGED <<clock, world, files, downloads, pulseVars, snapVars, tick, ticks, backfills>>

MarketInit ==
  /\ world \in Worlds
  /\ clock = Min(world.times)
  /\ ProvidersInit
  /\ PulseInit
  /\ FactsInit
  /\ SnapInit
  /\ backfill = {}
  /\ backfills = 0

MarketNext ==
  \/ TickClock /\ UNCHANGED <<world, files, downloads, pulseVars, factsVars, snapVars, backfill, backfills>>
  \/ \E p \in Pulses : PulseStep(p) /\ UNCHANGED <<factsVars, snapVars, backfill, backfills>>
  \/ CollectorStep /\ UNCHANGED <<pulseVars, snapVars, backfill, backfills>>
  \/ \E s \in Snappers : SnapStep(s) /\ UNCHANGED <<pulseVars, factsVars, backfill, backfills>>
  \/ BackfillStart
  \/ BackfillFile

MarketSpec == MarketInit /\ [][MarketNext]_vars

-----------------------------------------------------------------------------
\* The snapshots there are: those under way, those saved and the archived ones.
Snapshots == {s \in {snap[t] : t \in Snappers} \cup UNION {reported[d] : d \in DOMAIN reported} :
                s.pc \notin {"idle", "started"}}

\* All that is said of one business date rests on the same master files, whoever says
\* it and whatever the exchange has published since, unless two programs downloaded the
\* file at once: no two pulses or snapshots of a date name different near-month contracts
\* or give the index other largest members; a snapshot whose weights are left out gives
\* none.
MastersStick ==
  LET bd(p) == IF pulse[p].pc = "gathered" THEN pulse[p].bd ELSE pulse[p].rec.bd
      asked == {p \in Pulses : pulse[p].pc \in {"gathered", "concluded"}}
      named == {<<bd(p), m, pulse[p].fut[m].code>> : p \in asked, m \in Markets}
                 \cup {<<s.date, "KOSPI", s.impact.code>> : s \in Snapshots}
      shares == {<<s.date, s.concentration.top2, s.concentration.top5>> :
                   s \in {t \in Snapshots : t.pc \in {"ready", "archived", "saved"}
                                              /\ t.concentration.ok
                                              /\ t.concentration.top2 # NoNum}}
      once(kind, d) == <<kind, d>> \notin downloads.raced
  IN /\ \A a, b \in named :
          once("futures", a[1]) /\ a[1] = b[1] /\ a[2] = b[2] /\ 0 \notin {a[3], b[3]} => a = b
     /\ \A a, b \in shares : once("kospi", a[1]) /\ a[1] = b[1] => a = b

=============================================================================
