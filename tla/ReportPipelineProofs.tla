------------------------ MODULE ReportPipelineProofs ------------------------
(***************************************************************************)
(* Theorems about ReportPipeline, for any receipts, runs, limits and page  *)
(* size: its type invariant, that the model is paid at most once for a     *)
(* receipt (PaidOnce), that a stored report has one owner (SoleOwner), a   *)
(* run whose place agrees with the tables (Bookkeeping), that a run        *)
(* returns nil only when its listing is stored (OkRunComplete), what a     *)
(* listing may miss (ListingLosesOnlyOldest), and that the pipeline        *)
(* implements ReportLedger.                                                *)
(***************************************************************************)
EXTENDS ReportPipeline, TLAPS

Inv == TypeOK /\ PaidOnce /\ SoleOwner /\ Bookkeeping

-----------------------------------------------------------------------------
(* Types.                                                                  *)

\* A page, and a listing cut at the limit, are sequences of receipts.
LEMMA SubSeqType ==
    ASSUME NEW S, NEW s \in Seq(S), NEW m \in Nat \ {0}, NEW n \in Nat,
           n <= Len(s)
    PROVE  SubSeq(s, m, n) \in Seq(S)
  OBVIOUS

LEMMA CutType ==
    ASSUME NEW s \in Seq(Receipts), NEW n \in Nat
    PROVE  Cut(s, n) \in Seq(Receipts)
  BY SubSeqType DEF Cut

LEMMA PageType ==
    ASSUME disclosures \in Seq(Receipts), NEW n \in Nat \ {0}
    PROVE  PageOf(n) \in Seq(Receipts)
<1> DEFINE first == (n - 1) * PageSize + 1
           last == IF n * PageSize <= Len(disclosures)
                   THEN n * PageSize ELSE Len(disclosures)
<1>1. (n - 1) * PageSize \in Nat /\ n * PageSize \in Nat
  BY PageSizeAssumption
<1>2. first \in Nat \ {0} /\ last \in Nat /\ last <= Len(disclosures)
  BY <1>1
<1>3. SubSeq(disclosures, first, last) \in Seq(Receipts)
  <2> HIDE DEF first, last
  <2> QED BY <1>2, SubSeqType
<1> QED BY <1>3 DEF PageOf

LEMMA InitType == Init => TypeOK
  BY DEF Init, TypeOK, NoAnalyses, States, Ended

LEMMA AbandonType ==
    ASSUME TypeOK, NEW p \in Runs, NEW s \in States, Abandon(p, s)
    PROVE  /\ pc' \in [Runs -> States]
           /\ page' \in [Runs -> Nat]
           /\ totalPage' \in [Runs -> Nat]
           /\ listing' \in [Runs -> Seq(Receipts)]
           /\ next' \in [Runs -> Nat \ {0}]
           /\ batch' \in [Runs -> [Receipts -> Nat]]
           /\ skipped' \in [Runs -> SUBSET Receipts]
           /\ atStart' \in [Runs -> Seq(Receipts)]
  BY DEF TypeOK, Abandon, Goto, NoAnalyses

LEMMA CurType ==
    ASSUME TypeOK, NEW p \in Runs, Remaining(p)
    PROVE  Cur(p) \in Receipts
  BY DEF TypeOK, Remaining, Cur

\* The state names are those TypeOK allows.
LEMMA StateNames ==
    /\ "idle" \in States /\ "ok" \in States /\ "err" \in States
    /\ "list" \in States /\ "scan" \in States /\ "flush" \in States
    /\ "fetch" \in States /\ "insert" \in States
    /\ "analyse" \in States /\ "suggest" \in States
  BY DEF States, Ended, AtReport

LEMMA GotoType ==
    ASSUME TypeOK, NEW p \in Runs, NEW s \in States, Goto(p, s)
    PROVE  pc' \in [Runs -> States]
  BY DEF TypeOK, Goto

LEMMA AdvanceType ==
    ASSUME TypeOK, NEW p \in Runs, Advance(p)
    PROVE  pc' \in [Runs -> States] /\ next' \in [Runs -> Nat \ {0}]
<1>1. pc' \in [Runs -> States]
  BY GotoType, StateNames DEF Advance
<1>2. next' \in [Runs -> Nat \ {0}]
  BY DEF TypeOK, Advance
<1> QED BY <1>1, <1>2

LEMMA GatherType ==
    ASSUME TypeOK, NEW p \in Runs, Gather(p), Cur(p) \in Receipts
    PROVE  batch' \in [Runs -> [Receipts -> Nat]]
<1>1. batch' = [batch EXCEPT ![p] = [batch[p] EXCEPT ![Cur(p)] = @ + 1]]
  BY DEF Gather, TypeOK
<1>2. [batch[p] EXCEPT ![Cur(p)] = @ + 1] \in [Receipts -> Nat]
  BY DEF TypeOK
<1> QED BY <1>1, <1>2 DEF TypeOK

LEMMA NextType == TypeOK /\ Bookkeeping /\ [Next]_vars => TypeOK'
<1> SUFFICES ASSUME TypeOK, Bookkeeping, [Next]_vars PROVE TypeOK'
  OBVIOUS
<1> USE StateNames
<1>1. ASSUME NEW p \in Runs, Start(p) PROVE TypeOK'
  BY <1>1 DEF Start, Goto, TypeOK, db
<1>2. ASSUME NEW p \in Runs, ListPage(p) PROVE TypeOK'
  <2> DEFINE n == page[p] + 1
             total == IF n = 1 THEN PageCount ELSE totalPage[p]
             got == Cut(listing[p] \o PageOf(n), Limit[p])
             more == n < total /\ (Limit[p] = 0 \/ Len(got) < Limit[p])
  <2>1. n \in Nat \ {0}
    BY DEF TypeOK
  <2>2. PageOf(n) \in Seq(Receipts)
    BY <2>1, PageType DEF TypeOK
  <2>3. got \in Seq(Receipts)
    <3>1. listing[p] \o PageOf(n) \in Seq(Receipts)
      BY <2>2 DEF TypeOK
    <3>2. Limit[p] \in Nat
      BY LimitAssumption
    <3> QED BY <3>1, <3>2, CutType
  <2>4. PageCount \in Nat
    <3>1. Len(disclosures) \in Nat
      BY DEF TypeOK
    <3>2. Len(disclosures) + PageSize - 1 \in Nat
      BY <3>1, PageSizeAssumption
    <3> QED BY <3>2, PageSizeAssumption DEF PageCount
  <2>5. total \in Nat
    BY <2>4 DEF TypeOK
  <2>6. /\ page' = [page EXCEPT ![p] = n]
        /\ totalPage' = [totalPage EXCEPT ![p] = total]
        /\ listing' = [listing EXCEPT ![p] = got]
        /\ pc' = [pc EXCEPT ![p] = IF more THEN "list" ELSE "scan"]
        /\ UNCHANGED <<disclosures, db, next, batch, skipped, atStart>>
    BY <1>2 DEF ListPage, Goto
  <2> HIDE DEF n, total, got, more
  <2> QED BY <2>1, <2>3, <2>5, <2>6 DEF TypeOK, db
<1>3. ASSUME NEW p \in Runs, ListFails(p) PROVE TypeOK'
  BY <1>3, AbandonType DEF ListFails, TypeOK, db
<1>4. ASSUME NEW p \in Runs,
             AlreadyStored(p) \/ NotStored(p) \/ DocumentParsed(p) \/ EndLoop(p)
      PROVE  TypeOK'
  <2>1. CASE AlreadyStored(p)
    BY <2>1, AdvanceType DEF AlreadyStored, TypeOK, db, cursor
  <2>2. CASE NotStored(p)
    BY <2>2, GotoType DEF NotStored, TypeOK, db, cursor
  <2>3. CASE DocumentParsed(p)
    BY <2>3, GotoType DEF DocumentParsed, TypeOK, db, cursor
  <2>4. CASE EndLoop(p)
    BY <2>4, GotoType DEF EndLoop, TypeOK, db, cursor
  <2> QED BY <1>4, <2>1, <2>2, <2>3, <2>4
<1>5. ASSUME NEW p \in Runs, pc[p] \in AtReport PROVE Cur(p) \in Receipts
  BY <1>5, CurType DEF Bookkeeping
<1>6. ASSUME NEW p \in Runs, DocumentMissing(p) PROVE TypeOK'
  <2>1. skipped' \in [Runs -> SUBSET Receipts]
    BY <1>6, <1>5 DEF DocumentMissing, TypeOK, AtReport
  <2> QED BY <2>1, <1>6, AdvanceType DEF DocumentMissing, TypeOK, db, cursor
<1>7. ASSUME NEW p \in Runs,
             DocumentFails(p) \/ InsertConflict(p) \/ DatabaseFails(p)
                 \/ DeadlineExpires(p) \/ Crash(p)
      PROVE  TypeOK'
  BY <1>7, AbandonType
     DEF DocumentFails, InsertConflict, DatabaseFails, DeadlineExpires, Crash, TypeOK, db
<1>8. ASSUME NEW p \in Runs, InsertRaw(p) PROVE TypeOK'
  BY <1>8, <1>5 DEF InsertRaw, Goto, TypeOK, cursor, AtReport
<1>9. ASSUME NEW p \in Runs, InsertUnacked(p) PROVE TypeOK'
  BY <1>9, <1>5, AbandonType DEF InsertUnacked, TypeOK, AtReport
<1>10. ASSUME NEW p \in Runs, CallModel(p)
       PROVE  llmCalls' \in [Receipts -> Nat] /\ Cur(p) \in Receipts
  BY <1>10, <1>5 DEF CallModel, TypeOK, AtReport
<1>11. ASSUME NEW p \in Runs,
              AnalysisFails(p) \/ AnalysisArrives(p) \/ AnalysisSuggests(p)
       PROVE  TypeOK'
  <2>1. CallModel(p)
    BY <1>11 DEF AnalysisFails, AnalysisArrives, AnalysisSuggests
  <2>2. CASE AnalysisFails(p)
    BY <2>2, <2>1, <1>10, AdvanceType DEF AnalysisFails, CallModel, TypeOK, cursor
  <2>3. CASE AnalysisArrives(p)
    BY <2>3, <2>1, <1>10, AdvanceType, GatherType
       DEF AnalysisArrives, CallModel, TypeOK, cursor
  <2>4. CASE AnalysisSuggests(p)
    BY <2>4, <2>1, <1>10, GotoType DEF AnalysisSuggests, CallModel, TypeOK, cursor
  <2> QED BY <1>11, <2>2, <2>3, <2>4
<1>12. ASSUME NEW p \in Runs, StoreReportType(p) \/ StoreReportTypeUnacked(p)
       PROVE  TypeOK'
  <2>1. Cur(p) \in Receipts /\ reportTypes' \in [Receipts -> Nat]
    <3>1. pc[p] = "suggest" /\ AddReportType(p)
      BY <1>12 DEF StoreReportType, StoreReportTypeUnacked
    <3>2. Cur(p) \in Receipts
      BY <3>1, <1>5 DEF AtReport
    <3> QED BY <3>1, <3>2 DEF AddReportType, TypeOK
  <2>2. CASE StoreReportType(p)
    BY <2>2, <2>1, AdvanceType, GatherType DEF StoreReportType, TypeOK, cursor
  <2>3. CASE StoreReportTypeUnacked(p)
    BY <2>3, <2>1, AbandonType DEF StoreReportTypeUnacked, TypeOK
  <2> QED BY <1>12, <2>2, <2>3
<1>13. ASSUME NEW p \in Runs, InsertBatch(p) PROVE analyses' \in [Receipts -> Nat]
  BY <1>13 DEF InsertBatch, TypeOK
<1>14. ASSUME NEW p \in Runs, StoreAnalyses(p) PROVE TypeOK'
  BY <1>14, <1>13 DEF StoreAnalyses, InsertBatch, ReturnNil, Goto, NoAnalyses, TypeOK
<1>15. ASSUME NEW p \in Runs, StoreAnalysesUnacked(p) PROVE TypeOK'
  BY <1>15, <1>13, AbandonType DEF StoreAnalysesUnacked, InsertBatch, TypeOK
<1>16. ASSUME NEW r \in Receipts, Publish(r) PROVE TypeOK'
  BY <1>16 DEF Publish, TypeOK, db, local
<1>17. CASE UNCHANGED vars
  BY <1>17 DEF vars, TypeOK
<1> QED
  BY <1>1, <1>2, <1>3, <1>4, <1>6, <1>7, <1>8, <1>9, <1>11, <1>12, <1>14, <1>15,
     <1>16, <1>17
     DEF Next, Step

-----------------------------------------------------------------------------
(* Ownership.  A step of the run p touches p's control and memory and the   *)
(* rows of reports that p owes, or of a report nobody has stored yet.  That *)
(* alone carries the invariant of every other run over the step.            *)

\* The part of the invariant that is about one run.
RunOK(p) ==
    /\ pc[p] \in AtReport => Remaining(p)
    /\ pc[p] \in Ended => batch[p] = NoAnalyses
    /\ pc[p] = "analyse" => llmCalls[Cur(p)] = 0
    /\ pc[p] = "suggest" => llmCalls[Cur(p)] = 1 /\ reportTypes[Cur(p)] = 0
    /\ pc[p] \in {"analyse", "suggest"} => batch[p][Cur(p)] = 0
    /\ \A r \in Receipts : batch[p][r] > 0 => llmCalls[r] = 1
    /\ \A r \in Owed(p) : r \in raw /\ analyses[r] = 0 /\ batch[p][r] <= 1

SameElsewhere(p) ==
    \A q \in Runs \ {p} :
        /\ pc'[q] = pc[q] /\ listing'[q] = listing[q]
        /\ next'[q] = next[q] /\ batch'[q] = batch[q]

\* What a step of p may do to the rows.
RowsOfOwed(p) ==
    /\ \A r \in Receipts \ Owed(p) :
           /\ analyses'[r] = analyses[r]
           /\ llmCalls'[r] = llmCalls[r]
           /\ reportTypes'[r] = reportTypes[r]
    /\ raw \subseteq raw'
    /\ Owed(p)' \subseteq Owed(p) \cup (Receipts \ raw)

LEMMA OwedElsewhere ==
    ASSUME NEW p \in Runs, SameElsewhere(p), NEW q \in Runs \ {p}
    PROVE  Owed(q)' = Owed(q) /\ Cur(q)' = Cur(q) /\ Remaining(q)' = Remaining(q)
  BY DEF SameElsewhere, Owed, Cur, Remaining

LEMMA InvRuns == Inv => \A p \in Runs : RunOK(p)
  BY DEF Inv, SoleOwner, Bookkeeping, RunOK

\* The owed reports are stored ones.
LEMMA OwedType ==
    ASSUME Inv, NEW p \in Runs
    PROVE  Owed(p) \subseteq raw /\ Owed(p) \subseteq Receipts
  BY DEF Inv, SoleOwner, TypeOK

LEMMA OwnerStep ==
    ASSUME Inv, NEW p \in Runs, TypeOK', SameElsewhere(p), RowsOfOwed(p),
           PaidOnce', RunOK(p)'
    PROVE  Inv'
<1>1. ASSUME NEW q \in Runs \ {p}, NEW r \in Owed(q)
      PROVE  r \in raw /\ r \in Receipts /\ r \notin Owed(p) /\ r \notin Owed(p)'
  BY <1>1, OwedType DEF Inv, SoleOwner, RowsOfOwed
<1>2. ASSUME NEW q \in Runs \ {p} PROVE RunOK(q)'
  <2>1. RunOK(q)
    BY InvRuns
  <2>2. /\ pc'[q] = pc[q] /\ batch'[q] = batch[q]
        /\ Owed(q)' = Owed(q) /\ Cur(q)' = Cur(q) /\ Remaining(q)' = Remaining(q)
    BY OwedElsewhere DEF SameElsewhere
  <2>3. ASSUME NEW r \in Owed(q)
        PROVE  /\ r \in raw' /\ analyses'[r] = analyses[r]
               /\ llmCalls'[r] = llmCalls[r] /\ reportTypes'[r] = reportTypes[r]
    BY <1>1 DEF RowsOfOwed
  <2>4. pc[q] \in {"analyse", "suggest"} => Cur(q) \in Owed(q)
    BY DEF Owed
  <2>5. \A r \in Receipts : batch[q][r] > 0 => r \in Owed(q)
    BY DEF Owed
  <2>6. NoAnalyses' = NoAnalyses
    BY DEF NoAnalyses
  <2> QED BY <2>1, <2>2, <2>3, <2>4, <2>5, <2>6 DEF RunOK
<1>3. \A q \in Runs : RunOK(q)'
  BY <1>2
<1>4. ASSUME NEW q1 \in Runs, NEW q2 \in Runs, NEW r \in Owed(q1)', r \in Owed(q2)'
      PROVE  q1 = q2
  <2>1. CASE q1 # p /\ q2 # p
    BY <2>1, <1>4, OwedElsewhere DEF Inv, SoleOwner
  <2>2. CASE q1 = p /\ q2 # p
    BY <2>2, <1>4, <1>1, OwedElsewhere
  <2>3. CASE q1 # p /\ q2 = p
    BY <2>3, <1>4, <1>1, OwedElsewhere
  <2> QED BY <2>1, <2>2, <2>3
<1>5. SoleOwner'
  BY <1>3, <1>4 DEF SoleOwner, RunOK
<1>6. Bookkeeping'
  BY <1>3 DEF Bookkeeping, RunOK
<1> QED BY <1>5, <1>6 DEF Inv

\* A step that stores no analysis and after which p owes no report more.
Releases(p) ==
    /\ SameElsewhere(p)
    /\ analyses' = analyses
    /\ raw \subseteq raw'
    /\ Owed(p)' \subseteq Owed(p)

\* A step that writes no row and takes on no report.
LEMMA QuietStep ==
    ASSUME Inv, NEW p \in Runs, TypeOK', SameElsewhere(p), UNCHANGED db,
           Owed(p)' \subseteq Owed(p), RunOK(p)'
    PROVE  Inv' /\ Releases(p)
<1>1. PaidOnce'
  BY DEF Inv, PaidOnce, db
<1>2. RowsOfOwed(p)
  BY DEF RowsOfOwed, db
<1>3. Releases(p)
  BY DEF Releases, db
<1> QED BY <1>1, <1>2, <1>3, OwnerStep

\* The end of a run: it owes nothing any more.
LEMMA AbandonOwes ==
    ASSUME TypeOK, NEW p \in Runs, NEW s \in Ended, Abandon(p, s)
    PROVE  SameElsewhere(p) /\ Owed(p)' = {} /\ RunOK(p)'
<1>1. pc'[p] = s /\ batch'[p] = NoAnalyses
  BY DEF TypeOK, Abandon, Goto
<1>2. SameElsewhere(p)
  BY DEF TypeOK, Abandon, Goto, SameElsewhere
<1>3. s \notin {"analyse", "suggest"} /\ s \notin AtReport
  BY DEF Ended, AtReport
<1>4. Owed(p)' = {}
  BY <1>1, <1>3 DEF Owed, NoAnalyses
<1>5. RunOK(p)'
  <2>1. NoAnalyses' = NoAnalyses
    BY DEF NoAnalyses
  <2>2. \A r \in Receipts : ~(batch'[p][r] > 0)
    BY <1>1 DEF NoAnalyses
  <2> QED BY <1>1, <1>3, <1>4, <2>1, <2>2 DEF RunOK
<1> QED BY <1>2, <1>4, <1>5

\* Steps that only move the run's control between states in which it owes
\* just what it has gathered.
LEMMA ControlStep ==
    ASSUME Inv, NEW p \in Runs, TypeOK', SameElsewhere(p), UNCHANGED db,
           batch'[p] = batch[p],
           pc[p] \notin {"analyse", "suggest"}, pc'[p] \notin {"analyse", "suggest"},
           pc'[p] \in Ended => batch[p] = NoAnalyses,
           pc'[p] \in AtReport => Remaining(p)'
    PROVE  Inv' /\ Releases(p)
<1>1. Owed(p)' = Owed(p)
  BY DEF Owed
<1>2. RunOK(p)
  BY InvRuns
<1>3. NoAnalyses' = NoAnalyses
  BY DEF NoAnalyses
<1>4. RunOK(p)'
  BY <1>1, <1>2, <1>3 DEF RunOK, db
<1> QED BY <1>1, <1>4, QuietStep

\* A step of the run's own control changes no other run.
LEMMA GotoElsewhere ==
    ASSUME TypeOK, NEW p \in Runs, NEW s, Goto(p, s), listing' = listing,
           next' = next \/ next' = [next EXCEPT ![p] = @ + 1], 
           batch' = batch \/ (\E f : batch' = [batch EXCEPT ![p] = f])
    PROVE  SameElsewhere(p) /\ pc'[p] = s
  BY DEF Goto, SameElsewhere, TypeOK

LEMMA InvScan ==
    ASSUME Inv, NEW p \in Runs, TypeOK',
           \/ AlreadyStored(p) \/ NotStored(p) \/ DocumentMissing(p)
           \/ DocumentParsed(p) \/ EndLoop(p)
    PROVE  Inv' /\ Releases(p)
<1> USE DEF AtReport, Ended
<1>1. TypeOK /\ RunOK(p)
  BY InvRuns DEF Inv
<1>2. UNCHANGED db /\ listing' = listing /\ batch' = batch
  BY DEF AlreadyStored, NotStored, DocumentMissing, DocumentParsed, EndLoop
<1>3. CASE AlreadyStored(p) \/ DocumentMissing(p)
  <2>1. Advance(p) /\ pc[p] \in {"scan", "fetch"}
    BY <1>3 DEF AlreadyStored, DocumentMissing
  <2>2. SameElsewhere(p) /\ pc'[p] = "scan"
    BY <1>1, <1>2, <2>1, GotoElsewhere DEF Advance
  <2> QED BY <1>2, <2>1, <2>2, ControlStep
<1>4. CASE NotStored(p) \/ DocumentParsed(p)
  <2>1. /\ pc[p] \in {"scan", "fetch"} /\ next' = next /\ Remaining(p)
        /\ Goto(p, "fetch") \/ Goto(p, "insert")
    BY <1>1, <1>4 DEF NotStored, DocumentParsed, RunOK
  <2>2. SameElsewhere(p) /\ pc'[p] \in {"fetch", "insert"}
    BY <1>1, <1>2, <2>1, GotoElsewhere
  <2>3. Remaining(p)'
    BY <1>2, <2>1 DEF Remaining
  <2> QED BY <1>2, <2>1, <2>2, <2>3, ControlStep
<1>5. CASE EndLoop(p)
  <2>1. pc[p] = "scan" /\ next' = next
    BY <1>5 DEF EndLoop
  <2>2. CASE batch[p] = NoAnalyses
    <3>1. SameElsewhere(p) /\ pc'[p] = "ok"
      BY <1>1, <1>2, <1>5, <2>1, <2>2, GotoElsewhere DEF EndLoop
    <3> QED BY <1>2, <2>1, <2>2, <3>1, ControlStep
  <2>3. CASE batch[p] # NoAnalyses
    <3>1. SameElsewhere(p) /\ pc'[p] = "flush"
      BY <1>1, <1>2, <1>5, <2>1, <2>3, GotoElsewhere DEF EndLoop
    <3> QED BY <1>2, <2>1, <3>1, ControlStep
  <2> QED BY <2>2, <2>3
<1> QED BY <1>3, <1>4, <1>5

LEMMA InvAbandon ==
    ASSUME Inv, NEW p \in Runs, TypeOK',
           \/ ListFails(p) \/ DocumentFails(p) \/ InsertConflict(p)
           \/ DatabaseFails(p) \/ DeadlineExpires(p) \/ Crash(p)
    PROVE  Inv' /\ Releases(p)
<1>1. UNCHANGED db /\ (\E s \in Ended : Abandon(p, s))
  BY DEF ListFails, DocumentFails, InsertConflict, DatabaseFails, DeadlineExpires, Crash,
         Ended
<1>2. SameElsewhere(p) /\ Owed(p)' = {} /\ RunOK(p)'
  BY <1>1, AbandonOwes DEF Inv
<1> QED BY <1>1, <1>2, QuietStep

LEMMA InvListing ==
    ASSUME Inv, NEW p \in Runs, TypeOK', Start(p) \/ ListPage(p)
    PROVE  Inv' /\ Releases(p)
<1>1. /\ UNCHANGED db /\ batch' = batch
      /\ pc[p] \notin {"analyse", "suggest"}
      /\ Goto(p, "list") \/ Goto(p, "scan")
  BY DEF Start, ListPage, Ended
<1>2. SameElsewhere(p) /\ pc'[p] \in {"list", "scan"}
  BY <1>1 DEF Start, ListPage, Goto, SameElsewhere, Inv, TypeOK
<1> QED BY <1>1, <1>2, ControlStep DEF Ended, AtReport

\* The row of a new report: its run now owes the analysis, and nobody else can.
LEMMA InvInsertRaw ==
    ASSUME Inv, NEW p \in Runs, TypeOK', InsertRaw(p)
    PROVE  /\ Inv' /\ SameElsewhere(p) /\ Cur(p) \in Receipts
           /\ Owed(p)' = Owed(p) \cup {Cur(p)}
<1> DEFINE c == Cur(p)
<1>1. /\ pc[p] = "insert" /\ c \notin raw /\ raw' = raw \cup {c}
      /\ Goto(p, "analyse")
      /\ UNCHANGED <<reportTypes, analyses, llmCalls, listing, next, batch>>
  BY DEF InsertRaw
<1>2. TypeOK /\ RunOK(p) /\ PaidOnce
  BY InvRuns DEF Inv
<1>3. SameElsewhere(p) /\ pc'[p] = "analyse"
  BY <1>1, <1>2, GotoElsewhere
<1>4. Remaining(p) /\ c \in Receipts
  BY <1>1, <1>2, CurType DEF RunOK, AtReport
<1>5. llmCalls[c] = 0 /\ analyses[c] = 0 /\ batch[p][c] = 0
  <2>1. llmCalls[c] \in Nat /\ analyses[c] \in Nat /\ batch[p][c] \in Nat
    BY <1>2, <1>4 DEF TypeOK
  <2>2. ~(llmCalls[c] > 0) /\ analyses[c] <= llmCalls[c]
    BY <1>1, <1>2, <1>4 DEF PaidOnce
  <2>3. batch[p][c] > 0 => llmCalls[c] = 1
    BY <1>2, <1>4 DEF RunOK
  <2> HIDE DEF c
  <2> QED BY <2>1, <2>2, <2>3
<1>6. Cur(p)' = c /\ Remaining(p)'
  BY <1>1, <1>4 DEF Cur, Remaining
<1>7. Owed(p)' = Owed(p) \cup {c}
  BY <1>1, <1>3, <1>4, <1>6 DEF Owed
<1>8. PaidOnce'
  BY <1>1, <1>2 DEF PaidOnce
<1>9. RowsOfOwed(p)
  BY <1>1, <1>4, <1>7 DEF RowsOfOwed
<1>10. RunOK(p)'
  <2>1. \A r \in Receipts : batch'[p][r] > 0 => llmCalls'[r] = 1
    BY <1>1, <1>2 DEF RunOK
  <2>2. \A r \in Owed(p)' : r \in raw' /\ analyses'[r] = 0 /\ batch'[p][r] <= 1
    BY <1>1, <1>2, <1>5, <1>7 DEF RunOK
  <2> QED BY <1>1, <1>3, <1>5, <1>6, <2>1, <2>2 DEF RunOK, Ended
<1>11. Inv'
  <2> HIDE DEF c
  <2> QED BY <1>3, <1>8, <1>9, <1>10, OwnerStep
<1> QED BY <1>3, <1>4, <1>7, <1>11

LEMMA InvInsertUnacked ==
    ASSUME Inv, NEW p \in Runs, TypeOK', InsertUnacked(p)
    PROVE  Inv' /\ Releases(p)
<1>1. /\ raw \subseteq raw' /\ UNCHANGED <<reportTypes, analyses, llmCalls>>
      /\ Abandon(p, "err")
  BY DEF InsertUnacked
<1>2. SameElsewhere(p) /\ Owed(p)' = {} /\ RunOK(p)'
  BY <1>1, AbandonOwes DEF Inv, Ended
<1>3. PaidOnce' /\ RowsOfOwed(p)
  BY <1>1, <1>2 DEF Inv, PaidOnce, RowsOfOwed
<1>4. Releases(p)
  BY <1>1, <1>2 DEF Releases
<1> QED BY <1>2, <1>3, <1>4, OwnerStep

\* The one paid call for a report, by the run that owes its analysis.
LEMMA InvCallModel ==
    ASSUME Inv, NEW p \in Runs, TypeOK',
           AnalysisFails(p) \/ AnalysisArrives(p) \/ AnalysisSuggests(p)
    PROVE  Inv' /\ Releases(p)
<1> DEFINE c == Cur(p)
<1>1. /\ pc[p] = "analyse" /\ llmCalls' = [llmCalls EXCEPT ![c] = @ + 1]
      /\ UNCHANGED <<raw, reportTypes, analyses, listing>>
  BY DEF AnalysisFails, AnalysisArrives, AnalysisSuggests, CallModel
<1>2. TypeOK /\ RunOK(p) /\ PaidOnce
  BY InvRuns DEF Inv
<1>3. Remaining(p) /\ c \in Receipts
  BY <1>1, <1>2, CurType DEF RunOK, AtReport
<1>4. c \in Owed(p) /\ c \in raw /\ llmCalls[c] = 0 /\ analyses[c] = 0 /\ batch[p][c] = 0
  BY <1>1, <1>2, <1>3 DEF RunOK, Owed
<1>5. reportTypes[c] = 0
  BY <1>2, <1>3, <1>4 DEF PaidOnce, TypeOK
<1>6. llmCalls'[c] = 1 /\ \A r \in Receipts : r # c => llmCalls'[r] = llmCalls[r]
  BY <1>1, <1>2, <1>3, <1>4 DEF TypeOK
<1>7. PaidOnce'
  BY <1>1, <1>2, <1>4, <1>5, <1>6 DEF PaidOnce
<1>8. /\ SameElsewhere(p) /\ pc'[p] \in {"scan", "suggest"}
      /\ pc'[p] = "suggest" => next' = next
  <2>1. CASE AnalysisFails(p)
    BY <2>1, <1>1, <1>2, GotoElsewhere DEF AnalysisFails, Advance
  <2>2. CASE AnalysisArrives(p)
    BY <2>2, <1>1, <1>2 DEF AnalysisArrives, Gather, Advance, Goto, SameElsewhere, TypeOK
  <2>3. CASE AnalysisSuggests(p)
    BY <2>3, <1>1, <1>2, GotoElsewhere DEF AnalysisSuggests
  <2> QED BY <2>1, <2>2, <2>3
<1>9. /\ \A r \in Receipts : r # c => batch'[p][r] = batch[p][r]
      /\ batch'[p][c] \in {0, 1} /\ (pc'[p] = "suggest" => batch'[p][c] = 0)
  <2>1. CASE batch' = batch /\ ~AnalysisArrives(p)
    BY <2>1, <1>4
  <2>2. CASE AnalysisArrives(p)
    <3>1. batch'[p] = [batch[p] EXCEPT ![c] = @ + 1] /\ pc'[p] = "scan"
      BY <2>2, <1>2 DEF AnalysisArrives, Gather, Advance, Goto, TypeOK
    <3> QED BY <3>1, <1>2, <1>3, <1>4 DEF TypeOK
  <2> QED BY <2>1, <2>2 DEF AnalysisFails, AnalysisSuggests
<1>10. pc'[p] = "suggest" => Cur(p)' = c /\ Remaining(p)'
  BY <1>1, <1>3, <1>8 DEF Cur, Remaining
<1>11. Owed(p)' \subseteq Owed(p)
  BY <1>4, <1>8, <1>9, <1>10 DEF Owed
<1>12. RowsOfOwed(p)
  BY <1>1, <1>4, <1>6, <1>11 DEF RowsOfOwed
<1>13. RunOK(p)'
  <2>1. \A r \in Receipts : batch'[p][r] > 0 => llmCalls'[r] = 1
    BY <1>2, <1>6, <1>9 DEF RunOK
  <2>2. \A r \in Owed(p)' : r \in raw' /\ analyses'[r] = 0 /\ batch'[p][r] <= 1
    <3>1. \A r \in Owed(p)' : r \in Receipts
      BY <1>11, OwedType
    <3> QED BY <1>1, <1>2, <1>9, <1>11, <3>1 DEF RunOK
  <2> QED BY <1>1, <1>5, <1>6, <1>8, <1>9, <1>10, <2>1, <2>2 DEF RunOK, Ended, AtReport
<1>14. Releases(p)
  BY <1>1, <1>8, <1>11 DEF Releases
<1> HIDE DEF c
<1> QED BY <1>7, <1>8, <1>12, <1>13, <1>14, OwnerStep

\* The schema suggestion of the one answer.
LEMMA InvReportType ==
    ASSUME Inv, NEW p \in Runs, TypeOK',
           StoreReportType(p) \/ StoreReportTypeUnacked(p)
    PROVE  Inv' /\ Releases(p)
<1> DEFINE c == Cur(p)
<1>1. /\ pc[p] = "suggest" /\ reportTypes' = [reportTypes EXCEPT ![c] = @ + 1]
      /\ UNCHANGED <<raw, analyses, llmCalls>>
  BY DEF StoreReportType, StoreReportTypeUnacked, AddReportType
<1>2. TypeOK /\ RunOK(p) /\ PaidOnce
  BY InvRuns DEF Inv
<1>3. Remaining(p) /\ c \in Receipts
  BY <1>1, <1>2, CurType DEF RunOK, AtReport
<1>4. c \in Owed(p) /\ llmCalls[c] = 1 /\ reportTypes[c] = 0 /\ batch[p][c] = 0
  BY <1>1, <1>2, <1>3 DEF RunOK, Owed
<1>5. reportTypes'[c] = 1 /\ \A r \in Receipts : r # c => reportTypes'[r] = reportTypes[r]
  BY <1>1, <1>2, <1>3, <1>4 DEF TypeOK
<1>6. PaidOnce'
  BY <1>1, <1>2, <1>4, <1>5 DEF PaidOnce
<1>7. SameElsewhere(p) /\ Owed(p)' \subseteq Owed(p) /\ RunOK(p)'
  <2>1. CASE StoreReportTypeUnacked(p)
    BY <2>1, <1>2, AbandonOwes DEF StoreReportTypeUnacked, Ended
  <2>2. CASE StoreReportType(p)
    <3>1. SameElsewhere(p) /\ pc'[p] = "scan"
      BY <2>2, <1>2 DEF StoreReportType, Gather, Advance, Goto, SameElsewhere, TypeOK
    <3>2. batch'[p] = [batch[p] EXCEPT ![c] = @ + 1]
      BY <2>2, <1>2 DEF StoreReportType, Gather, TypeOK
    <3>3. batch'[p][c] = 1 /\ \A r \in Receipts : r # c => batch'[p][r] = batch[p][r]
      BY <3>2, <1>2, <1>3, <1>4 DEF TypeOK
    <3>4. Owed(p)' \subseteq Owed(p)
      BY <3>1, <3>3, <1>4 DEF Owed
    <3>5. \A r \in Receipts : batch'[p][r] > 0 => llmCalls'[r] = 1
      BY <3>3, <1>1, <1>2, <1>4 DEF RunOK
    <3>6. \A r \in Owed(p)' : r \in raw' /\ analyses'[r] = 0 /\ batch'[p][r] <= 1
      <4>1. \A r \in Owed(p)' : r \in Receipts
        BY <3>4, OwedType
      <4> QED BY <1>1, <1>2, <3>3, <3>4, <4>1 DEF RunOK
    <3> QED BY <3>1, <3>4, <3>5, <3>6 DEF RunOK, Ended, AtReport
  <2> QED BY <2>1, <2>2 DEF StoreReportType
<1>8. RowsOfOwed(p)
  BY <1>1, <1>4, <1>5, <1>7 DEF RowsOfOwed
<1>9. Releases(p)
  BY <1>1, <1>7 DEF Releases
<1> HIDE DEF c
<1> QED BY <1>6, <1>7, <1>8, <1>9, OwnerStep

\* What the final INSERT stores is what the run owes, each report once.
LEMMA FlushOwes ==
    ASSUME Inv, NEW p \in Runs, InsertBatch(p)
    PROVE  /\ \A r \in Owed(p) : analyses'[r] = 1 /\ llmCalls[r] = 1
           /\ \A r \in Receipts \ Owed(p) : analyses'[r] = analyses[r]
<1>1. /\ pc[p] = "flush"
      /\ analyses' = [r \in Receipts |-> analyses[r] + batch[p][r]]
  BY DEF InsertBatch
<1>2. TypeOK /\ RunOK(p)
  BY InvRuns DEF Inv
<1>3. Owed(p) = {r \in Receipts : batch[p][r] > 0}
  BY <1>1 DEF Owed
<1>4. ASSUME NEW r \in Receipts PROVE batch[p][r] \in Nat /\ analyses[r] \in Nat
  BY <1>2 DEF TypeOK
<1>5. ASSUME NEW r \in Owed(p) PROVE analyses'[r] = 1 /\ llmCalls[r] = 1
  BY <1>1, <1>2, <1>3, <1>4 DEF RunOK
<1>6. ASSUME NEW r \in Receipts \ Owed(p) PROVE analyses'[r] = analyses[r]
  BY <1>1, <1>3, <1>4
<1> QED BY <1>5, <1>6

LEMMA InvStoreAnalyses ==
    ASSUME Inv, NEW p \in Runs, TypeOK', StoreAnalyses(p) \/ StoreAnalysesUnacked(p)
    PROVE  Inv' /\ SameElsewhere(p) /\ Owed(p)' = {}
<1>1. InsertBatch(p) /\ UNCHANGED <<raw, reportTypes, llmCalls>>
  BY DEF StoreAnalyses, StoreAnalysesUnacked, InsertBatch
<1>2. SameElsewhere(p) /\ Owed(p)' = {} /\ RunOK(p)'
  <2>1. CASE StoreAnalysesUnacked(p)
    BY <2>1, AbandonOwes DEF StoreAnalysesUnacked, Inv, Ended
  <2>2. CASE StoreAnalyses(p)
    <3>1. SameElsewhere(p) /\ pc'[p] = "ok" /\ batch'[p] = NoAnalyses
      BY <2>2 DEF StoreAnalyses, ReturnNil, Goto, SameElsewhere, Inv, TypeOK
    <3>2. Owed(p)' = {}
      BY <3>1 DEF Owed, NoAnalyses
    <3>3. NoAnalyses' = NoAnalyses /\ \A r \in Receipts : ~(batch'[p][r] > 0)
      BY <3>1 DEF NoAnalyses
    <3> QED BY <3>1, <3>2, <3>3 DEF RunOK, AtReport
  <2> QED BY <2>1, <2>2
<1>3. PaidOnce'
  BY <1>1, FlushOwes DEF Inv, PaidOnce
<1>4. RowsOfOwed(p)
  BY <1>1, <1>2, FlushOwes DEF RowsOfOwed
<1> QED BY <1>2, <1>3, <1>4, OwnerStep

-----------------------------------------------------------------------------
(* The invariant.                                                          *)

LEMMA InvInit == Init => Inv
<1> SUFFICES ASSUME Init PROVE Inv
  OBVIOUS
<1>1. \A p \in Runs : Owed(p) = {}
  BY DEF Init, Owed, NoAnalyses
<1>2. PaidOnce /\ SoleOwner
  BY <1>1 DEF Init, PaidOnce, SoleOwner, NoAnalyses
<1>3. Bookkeeping
  BY DEF Init, Bookkeeping, NoAnalyses, Ended, AtReport
<1> QED BY <1>2, <1>3, InitType DEF Inv

LEMMA InvNext == Inv /\ [Next]_vars => Inv'
<1> SUFFICES ASSUME Inv, [Next]_vars PROVE Inv'
  OBVIOUS
<1>1. TypeOK'
  BY NextType DEF Inv
<1>2. ASSUME NEW p \in Runs, Start(p) \/ Step(p) \/ DeadlineExpires(p) \/ Crash(p)
      PROVE  Inv'
  BY <1>1, <1>2, InvListing, InvScan, InvAbandon, InvInsertRaw, InvInsertUnacked,
     InvCallModel, InvReportType, InvStoreAnalyses DEF Step
<1>3. CASE UNCHANGED <<db, local>>
  BY <1>1, <1>3 DEF Inv, PaidOnce, SoleOwner, Bookkeeping, Owed, Cur, Remaining,
                    NoAnalyses, db, local
<1>4. ASSUME NEW r \in Receipts, Publish(r) PROVE Inv'
  BY <1>3, <1>4 DEF Publish
<1>5. CASE UNCHANGED vars
  BY <1>3, <1>5 DEF vars, db, local
<1> QED BY <1>2, <1>4, <1>5 DEF Next

\* The inductive invariant of the pipeline holds in every reachable state.
THEOREM Invariance == Spec => []Inv
  BY InvInit, InvNext, PTL DEF Spec

\* Every variable keeps its type, for any receipts, runs, limits and page size.
THEOREM TypeCorrect == Spec => []TypeOK
<1>1. Inv => TypeOK
  BY DEF Inv
<1> QED BY <1>1, Invariance, PTL

\* However many runs, retries, crashes and lost answers: the model is called at
\* most once for a receipt and nothing is stored twice from its answer.
THEOREM ModelPaidOnce == Spec => []PaidOnce
<1>1. Inv => PaidOnce
  BY DEF Inv
<1> QED BY <1>1, Invariance, PTL

\* A stored report is in the hands of one run at most.
THEOREM OneOwner == Spec => []SoleOwner
<1>1. Inv => SoleOwner
  BY DEF Inv
<1> QED BY <1>1, Invariance, PTL

-----------------------------------------------------------------------------
(* Refinement: the standing of each receipt follows ReportLedger.          *)

\* The standing of one receipt, spelled out.
LEMMA StandingIs ==
    ASSUME Inv, NEW r \in Receipts
    PROVE  /\ r \notin raw => Standing[r] = "absent"
           /\ (\E p \in Runs : r \in Owed(p)) => Standing[r] = "pending"
           /\ analyses[r] = 1 => Standing[r] = "analysed"
           /\ (r \in raw /\ analyses[r] = 0 /\ ~\E p \in Runs : r \in Owed(p))
                  => Standing[r] = "stranded"
<1>1. analyses[r] \in Nat /\ llmCalls[r] \in Nat
  BY DEF Inv, TypeOK
<1>2. analyses[r] <= 1 /\ (r \notin raw => analyses[r] = 0)
  BY <1>1 DEF Inv, PaidOnce
<1>3. ASSUME NEW p \in Runs, r \in Owed(p) PROVE r \in raw /\ analyses[r] = 0
  BY <1>3 DEF Inv, SoleOwner
<1>4. Standing[r] = IF analyses[r] > 1 THEN "duplicated"
                    ELSE IF analyses[r] = 1 THEN "analysed"
                    ELSE IF r \notin raw THEN "absent"
                    ELSE IF \E p \in Runs : r \in Owed(p) THEN "pending"
                    ELSE "stranded"
  BY DEF Standing
<1> QED BY <1>1, <1>2, <1>3, <1>4

\* A step of p leaves alone the standing of what it neither owes nor stores.
LEMMA StandingElsewhere ==
    ASSUME NEW p \in Runs, SameElsewhere(p), NEW r \in Receipts,
           analyses'[r] = analyses[r], r \in raw' <=> r \in raw,
           r \in Owed(p)' <=> r \in Owed(p)
    PROVE  Standing'[r] = Standing[r]
<1>1. (\E q \in Runs : r \in Owed(q)') <=> (\E q \in Runs : r \in Owed(q))
  BY OwedElsewhere
<1> QED BY <1>1 DEF Standing

LEMMA ReleaseStrands ==
    ASSUME Inv, Inv', NEW p \in Runs, Releases(p)
    PROVE  \E S \in SUBSET Receipts : Ledger!Strand(S)
<1> DEFINE S == (Owed(p) \ Owed(p)') \cup (raw' \ raw)
<1>1. S \subseteq Receipts
  BY OwedType DEF Inv, TypeOK
<1>2. ASSUME NEW r \in S PROVE Ledger!In(r, "pending") \/ Ledger!In(r, "absent")
  BY <1>1, <1>2, StandingIs DEF Ledger!In
<1>3. ASSUME NEW r \in S PROVE Standing'[r] = "stranded"
  <2>1. r \in raw' /\ analyses'[r] = 0
    <3>1. CASE r \in raw' \ raw
      <4>1. analyses[r] \in Nat /\ llmCalls[r] \in Nat
        BY <1>1 DEF Inv, TypeOK
      <4> QED BY <3>1, <1>1, <4>1 DEF Inv, PaidOnce, Releases
    <3>2. CASE r \in Owed(p)
      BY <3>2 DEF Inv, SoleOwner, Releases
    <3> QED BY <3>1, <3>2
  <2>2. ASSUME NEW q \in Runs PROVE r \notin Owed(q)'
    <3>1. CASE q = p
      <4>1. Owed(p) \subseteq raw
        BY OwedType
      <4> QED BY <3>1, <4>1 DEF Releases
    <3>2. CASE q # p
      <4>1. Owed(q)' = Owed(q) /\ Owed(q) \subseteq raw
        BY <3>2, OwedElsewhere, OwedType DEF Releases
      <4> QED BY <3>2, <4>1 DEF Inv, SoleOwner
    <3> QED BY <3>1, <3>2
  <2> QED BY <2>1, <2>2, <1>1 DEF Standing
<1>4. ASSUME NEW r \in Receipts, r \notin S PROVE Standing'[r] = Standing[r]
  BY <1>4, StandingElsewhere DEF Releases
<1>5. Ledger!Become(S, "stranded")
  BY <1>3, <1>4 DEF Ledger!Become, Standing
<1>6. Ledger!Strand(S)
  BY <1>2, <1>5 DEF Ledger!Strand
<1> QED BY <1>1, <1>6

\* The winning INSERT makes its run responsible for the report.
LEMMA InsertStores ==
    ASSUME Inv, Inv', NEW p \in Runs, SameElsewhere(p), InsertRaw(p),
           Cur(p) \in Receipts, Owed(p)' = Owed(p) \cup {Cur(p)}
    PROVE  \E r \in Receipts : Ledger!Store(r)
<1>1. Cur(p) \notin raw /\ raw' = raw \cup {Cur(p)} /\ analyses' = analyses
  BY DEF InsertRaw
<1>2. Ledger!In(Cur(p), "absent")
  BY <1>1, StandingIs DEF Ledger!In
<1>3. Standing'[Cur(p)] = "pending"
  <2>1. analyses[Cur(p)] = 0
    <3>1. analyses[Cur(p)] \in Nat /\ llmCalls[Cur(p)] \in Nat
      BY DEF Inv, TypeOK
    <3> QED BY <1>1, <3>1 DEF Inv, PaidOnce
  <2>2. \E q \in Runs : Cur(p) \in Owed(q)'
    OBVIOUS
  <2> DEFINE c == Cur(p)
  <2>3. analyses'[c] = 0 /\ c \in raw' /\ c \in Receipts
    BY <1>1, <2>1
  <2>4. \E q \in Runs : c \in Owed(q)'
    BY <2>2
  <2> HIDE DEF c
  <2>5. Standing'[c] = "pending"
    BY <2>3, <2>4 DEF Standing
  <2> QED BY <2>5 DEF c
<1>4. ASSUME NEW r \in Receipts, r # Cur(p) PROVE Standing'[r] = Standing[r]
  BY <1>1, <1>4, StandingElsewhere
<1>5. Ledger!Become({Cur(p)}, "pending")
  BY <1>3, <1>4 DEF Ledger!Become, Standing
<1>6. Ledger!Store(Cur(p))
  BY <1>2, <1>5 DEF Ledger!Store
<1> QED BY <1>6

\* The final INSERT settles all the reports the run owes, and no others.
LEMMA FlushSettles ==
    ASSUME Inv, NEW p \in Runs, SameElsewhere(p), Owed(p)' = {}, InsertBatch(p)
    PROVE  \E S \in SUBSET Receipts : Ledger!Settle(S)
<1>1. Owed(p) \subseteq Receipts /\ raw' = raw
  BY OwedType DEF InsertBatch
<1>2. \A r \in Owed(p) : Ledger!In(r, "pending")
  BY <1>1, StandingIs DEF Ledger!In
<1>3. ASSUME NEW r \in Owed(p) PROVE Standing'[r] = "analysed"
  BY <1>1, FlushOwes DEF Standing
<1>4. ASSUME NEW r \in Receipts, r \notin Owed(p) PROVE Standing'[r] = Standing[r]
  BY <1>1, <1>4, FlushOwes, StandingElsewhere
<1>5. Ledger!Become(Owed(p), "analysed")
  BY <1>1, <1>3, <1>4 DEF Ledger!Become, Standing
<1> QED BY <1>1, <1>2, <1>5 DEF Ledger!Settle

LEMMA LedgerInit == Init => Ledger!Init
<1> SUFFICES ASSUME Init PROVE Ledger!Init
  OBVIOUS
<1>1. ASSUME NEW r \in Receipts PROVE Standing[r] = "absent"
  BY DEF Init, Standing, NoAnalyses
<1> QED BY <1>1 DEF Ledger!Init, Standing

\* Every step of the pipeline is a step of the ledger or leaves it alone.
LEMMA LedgerNext == Inv /\ Inv' /\ [Next]_vars => [Ledger!Next]_Standing
<1> SUFFICES ASSUME Inv, Inv', [Next]_vars PROVE [Ledger!Next]_Standing
  OBVIOUS
<1>1. TypeOK'
  BY DEF Inv
<1>2. ASSUME NEW p \in Runs, Releases(p) PROVE Ledger!Next
  BY <1>2, ReleaseStrands DEF Ledger!Next
<1>3. ASSUME NEW p \in Runs, Start(p) \/ Step(p) \/ DeadlineExpires(p) \/ Crash(p)
      PROVE  Ledger!Next
  <2>1. CASE InsertRaw(p)
    BY <2>1, <1>1, InvInsertRaw, InsertStores DEF Ledger!Next
  <2>2. CASE StoreAnalyses(p) \/ StoreAnalysesUnacked(p)
    BY <2>2, <1>1, InvStoreAnalyses, FlushSettles
       DEF Ledger!Next, StoreAnalyses, StoreAnalysesUnacked
  <2>3. CASE \/ Start(p) \/ ListPage(p) \/ ListFails(p) \/ AlreadyStored(p) \/ NotStored(p)
             \/ DocumentMissing(p) \/ DocumentParsed(p) \/ DocumentFails(p)
             \/ InsertConflict(p) \/ EndLoop(p) \/ DatabaseFails(p)
             \/ DeadlineExpires(p) \/ Crash(p)
    BY <2>3, <1>1, <1>2, InvListing, InvScan, InvAbandon
  <2>4. CASE InsertUnacked(p)
    BY <2>4, <1>1, <1>2, InvInsertUnacked
  <2>5. CASE AnalysisFails(p) \/ AnalysisArrives(p) \/ AnalysisSuggests(p)
    BY <2>5, <1>1, <1>2, InvCallModel
  <2>6. CASE StoreReportType(p) \/ StoreReportTypeUnacked(p)
    BY <2>6, <1>1, <1>2, InvReportType
  <2> QED BY <1>3, <2>1, <2>2, <2>3, <2>4, <2>5, <2>6 DEF Step
<1>4. CASE UNCHANGED <<db, local>>
  BY <1>4 DEF Standing, Owed, Cur, db, local
<1>5. ASSUME NEW r \in Receipts, Publish(r) PROVE UNCHANGED <<db, local>>
  BY <1>5 DEF Publish
<1>6. CASE UNCHANGED vars
  BY <1>4, <1>6 DEF vars, db, local
<1> QED BY <1>3, <1>4, <1>5, <1>6 DEF Next

\* The pipeline implements the ledger: every report is settled by the one run
\* that stored it or stranded for good.
THEOREM Refinement == Spec => LedgerSpec
  BY Invariance, LedgerInit, LedgerNext, PTL DEF Spec, LedgerSpec, Ledger!Spec

-----------------------------------------------------------------------------
(* What a run's step does to its cursor: it starts, reads a page, ends, or  *)
(* moves over the listing, one report or none at a time.                    *)

RunStep(p) == Start(p) \/ Step(p) \/ DeadlineExpires(p) \/ Crash(p)

\* The loop leaves a report that is stored or known to have no document.
MovesOn(p) ==
    /\ UNCHANGED <<cursor, listing>>
    /\ pc[p] # "list" /\ pc'[p] = "scan"
    /\ Cur(p) \in raw' \cup skipped'[p]
    /\ next' = [next EXCEPT ![p] = @ + 1]
    /\ skipped[p] \subseteq skipped'[p]

\* The loop works on, ends behind the last report, or has its batch stored.
Stays(p) ==
    /\ UNCHANGED <<cursor, listing, next, skipped>>
    /\ pc[p] # "list" /\ pc'[p] # "list"
    /\ pc'[p] \in {"flush", "ok"} => pc[p] = "flush" \/ ~Remaining(p)

LEMMA RunStepKinds ==
    ASSUME Inv, NEW p \in Runs, RunStep(p)
    PROVE  \/ Start(p) \/ ListPage(p) \/ MovesOn(p) \/ Stays(p)
           \/ \E s \in Ended : Abandon(p, s)
<1> USE DEF Inv, TypeOK, Goto
<1>1. CASE AlreadyStored(p)
  BY <1>1 DEF AlreadyStored, MovesOn, Advance, db
<1>2. CASE DocumentMissing(p)
  BY <1>2 DEF DocumentMissing, MovesOn, Advance
<1>3. CASE AnalysisFails(p) \/ AnalysisArrives(p) \/ StoreReportType(p)
  <2>1. pc[p] \in {"analyse", "suggest"} /\ raw' = raw /\ Advance(p)
        /\ UNCHANGED <<cursor, listing, skipped>>
    BY <1>3 DEF AnalysisFails, AnalysisArrives, StoreReportType, CallModel
  <2>2. Cur(p) \in raw
    BY <2>1 DEF SoleOwner, Owed
  <2> QED BY <2>1, <2>2 DEF MovesOn, Advance
<1>4. CASE NotStored(p) \/ DocumentParsed(p) \/ InsertRaw(p) \/ AnalysisSuggests(p)
  BY <1>4 DEF NotStored, DocumentParsed, InsertRaw, AnalysisSuggests, CallModel, Stays
<1>5. CASE EndLoop(p)
  BY <1>5 DEF EndLoop, Stays
<1>6. CASE StoreAnalyses(p)
  BY <1>6 DEF StoreAnalyses, InsertBatch, ReturnNil, Stays, cursor
<1>7. CASE \/ ListFails(p) \/ DocumentFails(p) \/ InsertConflict(p) \/ InsertUnacked(p)
           \/ StoreReportTypeUnacked(p) \/ StoreAnalysesUnacked(p) \/ DatabaseFails(p)
           \/ DeadlineExpires(p) \/ Crash(p)
  BY <1>7 DEF ListFails, DocumentFails, InsertConflict, InsertUnacked,
     StoreReportTypeUnacked, StoreAnalysesUnacked, DatabaseFails, DeadlineExpires,
     Crash, Ended
<1> QED BY <1>1, <1>2, <1>3, <1>4, <1>5, <1>6, <1>7 DEF RunStep, Step

\* It leaves the cursors of the other runs, and the list of disclosures, alone.
LEMMA RunStepElsewhere ==
    ASSUME Inv, NEW p \in Runs, RunStep(p)
    PROVE  /\ disclosures' = disclosures /\ raw \subseteq raw'
           /\ \A q \in Runs \ {p} :
                  /\ pc'[q] = pc[q] /\ page'[q] = page[q] /\ totalPage'[q] = totalPage[q]
                  /\ listing'[q] = listing[q] /\ next'[q] = next[q]
                  /\ skipped'[q] = skipped[q] /\ atStart'[q] = atStart[q]
<1>1. disclosures' = disclosures /\ raw \subseteq raw'
  BY DEF RunStep, Step, Start, ListPage, ListFails, AlreadyStored, NotStored,
     DocumentMissing, DocumentParsed, DocumentFails, InsertRaw, InsertConflict,
     InsertUnacked, AnalysisFails, AnalysisArrives, AnalysisSuggests, CallModel,
     StoreReportType, StoreReportTypeUnacked, EndLoop, StoreAnalyses,
     StoreAnalysesUnacked, InsertBatch, DatabaseFails, DeadlineExpires, Crash, db
<1>2. ASSUME NEW q \in Runs \ {p}
      PROVE  /\ pc'[q] = pc[q] /\ page'[q] = page[q] /\ totalPage'[q] = totalPage[q]
             /\ listing'[q] = listing[q] /\ next'[q] = next[q]
             /\ skipped'[q] = skipped[q] /\ atStart'[q] = atStart[q]
  <2> USE DEF Inv, TypeOK, Goto
  <2>1. CASE Start(p)
    BY <2>1 DEF Start
  <2>2. CASE ListPage(p)
    BY <2>2 DEF ListPage
  <2>3. CASE AlreadyStored(p) \/ NotStored(p) \/ DocumentMissing(p)
             \/ DocumentParsed(p) \/ InsertRaw(p) \/ EndLoop(p)
    BY <2>3 DEF AlreadyStored, NotStored, DocumentMissing, DocumentParsed, InsertRaw,
       EndLoop, Advance, cursor
  <2>4. CASE AnalysisFails(p) \/ AnalysisArrives(p) \/ AnalysisSuggests(p)
             \/ StoreReportType(p)
    BY <2>4 DEF AnalysisFails, AnalysisArrives, AnalysisSuggests, StoreReportType,
       CallModel, Advance, cursor
  <2>5. CASE StoreAnalyses(p)
    BY <2>5 DEF StoreAnalyses, InsertBatch, ReturnNil
  <2>6. CASE \E s \in Ended : Abandon(p, s)
    BY <2>6 DEF Abandon
  <2>7. CASE \/ ListFails(p) \/ DocumentFails(p) \/ InsertConflict(p) \/ InsertUnacked(p)
             \/ StoreReportTypeUnacked(p) \/ StoreAnalysesUnacked(p) \/ DatabaseFails(p)
             \/ DeadlineExpires(p) \/ Crash(p)
    BY <2>6, <2>7 DEF ListFails, DocumentFails, InsertConflict, InsertUnacked,
       StoreReportTypeUnacked, StoreAnalysesUnacked, DatabaseFails, DeadlineExpires,
       Crash, Ended
  <2> QED BY <2>1, <2>2, <2>3, <2>4, <2>5, <2>7 DEF RunStep, Step
<1> QED BY <1>1, <1>2

-----------------------------------------------------------------------------
(* A run that returns nil has dealt with its whole listing.                *)

Covered(p) ==
    /\ pc[p] = "list" => next[p] = 1
    /\ \A i \in DOMAIN listing[p] : i < next[p] => listing[p][i] \in raw \cup skipped[p]
    /\ pc[p] \in {"flush", "ok"} => ~Remaining(p)

LoopCovers == \A p \in Runs : Covered(p)

LEMMA CoversInit == Init => LoopCovers
  BY DEF Init, LoopCovers, Covered

LEMMA CoveredStep ==
    ASSUME Inv, LoopCovers, NEW p \in Runs, RunStep(p)
    PROVE  Covered(p)'
<1> USE DEF Inv, TypeOK, Goto
<1>1. Covered(p) /\ raw \subseteq raw' /\ next[p] \in Nat /\ listing[p] \in Seq(Receipts)
  BY RunStepElsewhere DEF LoopCovers
<1>2. CASE Start(p)
  <2>1. pc'[p] = "list" /\ next'[p] = 1 /\ listing'[p] = <<>>
    BY <1>2 DEF Start
  <2> QED BY <2>1 DEF Covered
<1>3. CASE ListPage(p)
  <2>1. pc'[p] \in {"list", "scan"} /\ next'[p] = 1
    BY <1>1, <1>3 DEF ListPage, Covered
  <2>2. ~\E i \in DOMAIN listing'[p] : i < next'[p]
    <3>1. \A s \in Seq(Receipts) : DOMAIN s = 1..Len(s)
      OBVIOUS
    <3>2. listing'[p] \in Seq(Receipts)
      <4>1. TypeOK'
        BY <1>3, NextType DEF Next, Step
      <4> QED BY <4>1
    <3> QED BY <2>1, <3>1, <3>2
  <2> QED BY <2>1, <2>2 DEF Covered
<1>4. CASE MovesOn(p)
  <2>1. next'[p] = next[p] + 1 /\ listing'[p] = listing[p] /\ pc'[p] = "scan"
    BY <1>4 DEF MovesOn
  <2>2. ASSUME NEW i \in DOMAIN listing[p], i < next[p] + 1
        PROVE  listing[p][i] \in raw' \cup skipped'[p]
    <3>1. CASE i < next[p]
      BY <3>1, <1>1, <1>4 DEF MovesOn, Covered
    <3>2. CASE i = next[p]
      BY <3>2, <1>4 DEF MovesOn, Cur
    <3> QED BY <3>1, <3>2, <2>2, <1>1
  <2> QED BY <2>1, <2>2 DEF Covered
<1>5. CASE Stays(p)
  BY <1>1, <1>5 DEF Stays, Covered, Remaining
<1>6. ASSUME NEW s \in Ended, Abandon(p, s) PROVE Covered(p)'
  <2>1. listing'[p] = <<>> /\ next'[p] = 1 /\ pc'[p] # "list"
    BY <1>6 DEF Abandon, Ended
  <2> QED BY <2>1 DEF Covered, Remaining
<1> QED BY <1>2, <1>3, <1>4, <1>5, <1>6, RunStepKinds

LEMMA CoversStep == Inv /\ LoopCovers /\ [Next]_vars => LoopCovers'
<1> SUFFICES ASSUME Inv, LoopCovers, [Next]_vars PROVE LoopCovers'
  OBVIOUS
<1>1. ASSUME NEW p \in Runs, RunStep(p), NEW q \in Runs PROVE Covered(q)'
  <2>1. CASE q = p
    BY <2>1, <1>1, CoveredStep
  <2>2. CASE q # p
    BY <2>2, <1>1, RunStepElsewhere DEF LoopCovers, Covered, Remaining
  <2> QED BY <2>1, <2>2
<1>2. CASE UNCHANGED <<raw, local>>
  BY <1>2 DEF LoopCovers, Covered, Remaining, local
<1> QED BY <1>1, <1>2 DEF Next, RunStep, Publish, LoopCovers, vars, db, local

\* What makes the ownership invariant inductive.
THEOREM BookkeepingKept == Spec => []Bookkeeping
<1>1. Inv => Bookkeeping
  BY DEF Inv
<1> QED BY <1>1, Invariance, PTL

\* A run that returns nil has stored every report it listed or was told that
\* there is no document: no interleaving with other runs makes it miss one.
THEOREM OkRunsAreComplete == Spec => []OkRunComplete
<1>1. Inv /\ LoopCovers => OkRunComplete
  <2> SUFFICES ASSUME Inv, LoopCovers, NEW p \in Runs, pc[p] = "ok",
                      NEW i \in DOMAIN listing[p]
               PROVE  listing[p][i] \in raw \cup skipped[p]
    BY DEF OkRunComplete
  <2>1. i < next[p]
    BY DEF LoopCovers, Covered, Remaining, Inv, TypeOK
  <2> QED BY <2>1 DEF LoopCovers, Covered
<1> QED BY <1>1, Invariance, CoversInit, CoversStep, PTL DEF Spec

-----------------------------------------------------------------------------
(* A listing that is read while disclosures are filed.                     *)

\* The disclosures filed since p started push the older ones this far back.
Shift(p) == Len(disclosures) - Len(atStart[p])

\* The pages read cover what has not been pushed beyond them, and the number of
\* pages asked for is enough for the list as it was at the start.
Listed(p) ==
    /\ Shift(p) \in Nat
    /\ \A i \in DOMAIN atStart[p] : disclosures[i + Shift(p)] = atStart[p][i]
    /\ Limit[p] = 0 =>
           \A i \in DOMAIN atStart[p] : i + Shift(p) <= page[p] * PageSize =>
               \E j \in DOMAIN listing[p] : listing[p][j] = atStart[p][i]
    /\ page[p] > 0 => Len(atStart[p]) <= totalPage[p] * PageSize
    /\ Limit[p] = 0 /\ page[p] > 0 /\ pc[p] # "list" => totalPage[p] <= page[p]

ListingCovers == \A p \in Runs : Listed(p)

\* The page count is rounded up.
LEMMA PageCountCovers ==
    ASSUME disclosures \in Seq(Receipts)
    PROVE  PageCount \in Nat /\ Len(disclosures) <= PageCount * PageSize
<1> DEFINE n == Len(disclosures) + PageSize - 1
<1>1. n \in Nat /\ PageSize \in Nat \ {0} /\ Len(disclosures) \in Nat
  BY PageSizeAssumption
<1>2. ASSUME NEW a \in Nat, NEW b \in Nat \ {0}
      PROVE  a \div b \in Nat /\ a < (a \div b) * b + b
  BY <1>2
<1>3. n \div PageSize \in Nat /\ n < (n \div PageSize) * PageSize + PageSize
  BY <1>1, <1>2
<1> DEFINE c == (n \div PageSize) * PageSize
<1>4. c \in Nat /\ n < c + PageSize
  BY <1>3, <1>1
<1>5. Len(disclosures) <= c
  <2> HIDE DEF c
  <2> QED BY <1>1, <1>4
<1> QED BY <1>3, <1>5 DEF PageCount

LEMMA SubSeqElement ==
    ASSUME NEW s \in Seq(Receipts), NEW m \in Nat, NEW n \in Nat, n <= Len(s),
           NEW k \in 1..(n - m)
    PROVE  SubSeq(s, m + 1, n)[k] = s[m + k]
<1>1. m + 1 \in 1..Len(s) + 1 /\ n \in m..Len(s)
  OBVIOUS
<1> QED BY <1>1

\* A page holds the disclosures at the positions behind those of the page before.
LEMMA PageHolds ==
    ASSUME disclosures \in Seq(Receipts), NEW n \in Nat, NEW m \in Nat,
           m = n * PageSize,
           NEW i \in DOMAIN disclosures, m < i, i <= m + PageSize
    PROVE  \E j \in DOMAIN PageOf(n + 1) : PageOf(n + 1)[j] = disclosures[i]
<1> DEFINE last == IF m + PageSize <= Len(disclosures)
                   THEN m + PageSize ELSE Len(disclosures)
<1>1. PageSize \in Nat /\ (n + 1 - 1) * PageSize = m /\ (n + 1) * PageSize = m + PageSize
  BY PageSizeAssumption
<1>2. PageOf(n + 1) = SubSeq(disclosures, m + 1, last)
  <2> DEFINE from == (n + 1 - 1) * PageSize
             to == (n + 1) * PageSize
  <2>1. ASSUME NEW k
        PROVE  PageOf(k) = SubSeq(disclosures, (k - 1) * PageSize + 1,
                                  IF k * PageSize <= Len(disclosures)
                                  THEN k * PageSize ELSE Len(disclosures))
    BY DEF PageOf
  <2>2. PageOf(n + 1) = SubSeq(disclosures, from + 1,
                               IF to <= Len(disclosures) THEN to ELSE Len(disclosures))
    BY <2>1
  <2>3. from = m /\ to = m + PageSize
    BY <1>1
  <2> HIDE DEF from, to
  <2> QED BY <2>2, <2>3 DEF last
<1>3. last \in Nat /\ i <= last /\ last <= Len(disclosures) /\ i \in Nat
  BY <1>1
<1> HIDE DEF last
<1>4. i - m \in 1..(last - m) /\ m + 1 \in Nat
  BY <1>3
<1>5. DOMAIN SubSeq(disclosures, m + 1, last) = 1..(last - m)
  BY <1>3
<1>6. SubSeq(disclosures, m + 1, last)[i - m] = disclosures[i]
  <2>1. SubSeq(disclosures, m + 1, last)[i - m] = disclosures[m + (i - m)]
    BY <1>3, <1>4, SubSeqElement
  <2>2. m + (i - m) = i
    BY <1>3
  <2> QED BY <2>1, <2>2
<1> QED BY <1>2, <1>4, <1>5, <1>6

LEMMA ConcatElements ==
    ASSUME NEW s \in Seq(Receipts), NEW t \in Seq(Receipts)
    PROVE  /\ \A i \in DOMAIN s : i \in DOMAIN (s \o t) /\ (s \o t)[i] = s[i]
           /\ \A i \in DOMAIN t :
                  Len(s) + i \in DOMAIN (s \o t) /\ (s \o t)[Len(s) + i] = t[i]
  OBVIOUS

LEMMA TimesMonotone ==
    ASSUME NEW a \in Nat, NEW b \in Nat, NEW c \in Nat, a <= b
    PROVE  a * c <= b * c /\ a * c \in Nat /\ b * c \in Nat
<1> DEFINE d == b - a
<1>1. d \in Nat /\ b = a + d
  OBVIOUS
<1>2. d * c \in Nat /\ a * c \in Nat /\ (a + d) * c = a * c + d * c
  BY <1>1
<1> HIDE DEF d
<1> DEFINE x == d * c
           y == a * c
<1>3. x \in Nat /\ y \in Nat /\ b * c = y + x
  BY <1>1, <1>2
<1>4. y <= b * c /\ b * c \in Nat
  <2> HIDE DEF x, y
  <2> QED BY <1>3
<1> QED BY <1>3, <1>4

LEMMA ListedInit == Init => ListingCovers
  BY DEF Init, ListingCovers, Listed, Shift

\* A page read while nothing is filed extends what is covered by a page.
LEMMA PageListed ==
    ASSUME Inv, ListingCovers, NEW p \in Runs, ListPage(p)
    PROVE  Listed(p)'
<1> DEFINE n == page[p] + 1
           total == IF n = 1 THEN PageCount ELSE totalPage[p]
           got == Cut(listing[p] \o PageOf(n), Limit[p])
           more == n < total /\ (Limit[p] = 0 \/ Len(got) < Limit[p])
           old == atStart[p]
           shift == Shift(p)
<1>1. /\ pc[p] = "list" /\ page[p] \in Nat /\ listing[p] \in Seq(Receipts)
      /\ disclosures \in Seq(Receipts) /\ old \in Seq(Receipts) /\ Listed(p)
      /\ totalPage[p] \in Nat
  BY DEF Inv, TypeOK, ListPage, ListingCovers
<1>2. /\ page'[p] = n /\ totalPage'[p] = total /\ listing'[p] = got
      /\ pc'[p] = IF more THEN "list" ELSE "scan"
      /\ atStart'[p] = old /\ disclosures' = disclosures
  BY DEF ListPage, Goto, Inv, TypeOK
<1>3. PageOf(n) \in Seq(Receipts)
  BY <1>1, PageType
<1>4. shift \in Nat /\ Shift(p)' = shift /\ Len(old) <= Len(disclosures)
      /\ shift + Len(old) = Len(disclosures) /\ Len(old) \in Nat
  <2>1. Len(old) \in Nat /\ Len(disclosures) \in Nat
    BY <1>1
  <2> QED BY <1>1, <1>2, <2>1 DEF Listed, Shift
<1>5. Limit[p] = 0 =>
          \A i \in DOMAIN old : i + shift <= n * PageSize =>
              \E j \in DOMAIN got : got[j] = old[i]
  <2> SUFFICES ASSUME Limit[p] = 0, NEW i \in DOMAIN old, i + shift <= n * PageSize
               PROVE  \E j \in DOMAIN got : got[j] = old[i]
    OBVIOUS
  <2>1. got = listing[p] \o PageOf(n)
    BY DEF Cut
  <2> DEFINE m == page[p] * PageSize
  <2>2. m \in Nat /\ n * PageSize = m + PageSize
    BY <1>1, PageSizeAssumption
  <2>3. i \in Nat /\ i <= Len(old) /\ i > 0
    BY <1>1
  <2>4. CASE i + shift <= m
    <3>1. PICK j \in DOMAIN listing[p] : listing[p][j] = old[i]
      BY <2>4, <1>1 DEF Listed
    <3> HIDE DEF got, n
    <3> QED BY <2>1, <3>1, <1>1, <1>3, ConcatElements
  <2>5. CASE i + shift > m
    <3>1. i + shift \in DOMAIN disclosures /\ disclosures[i + shift] = old[i]
      BY <1>1, <1>4, <2>3 DEF Listed
    <3>2. PICK j \in DOMAIN PageOf(n) : PageOf(n)[j] = old[i]
      <4> HIDE DEF m
      <4> QED BY <1>1, <2>2, <2>5, <3>1, PageHolds DEF m
    <3>3. Len(listing[p]) + j \in DOMAIN got /\ got[Len(listing[p]) + j] = old[i]
      <4> HIDE DEF got, n
      <4> QED BY <2>1, <3>2, <1>1, <1>3, ConcatElements
    <3> QED BY <3>3
  <2> QED BY <2>2, <2>3, <2>4, <2>5, <1>4
<1>6. total \in Nat /\ Len(old) <= total * PageSize
  <2>1. CASE n = 1
    <3>1. PageCount \in Nat /\ Len(disclosures) <= PageCount * PageSize
      BY <1>1, PageCountCovers
    <3>2. PageCount * PageSize \in Nat
      BY <3>1, PageSizeAssumption
    <3> QED BY <2>1, <3>1, <3>2, <1>4
  <2>2. CASE n # 1
    BY <2>2, <1>1 DEF Listed
  <2> QED BY <2>1, <2>2
<1>7. Limit[p] = 0 /\ ~more => total <= n
  BY <1>1, <1>6
<1> HIDE DEF n, total, got, more, old, shift
<1> QED BY <1>1, <1>2, <1>4, <1>5, <1>6, <1>7 DEF Listed, old, shift

LEMMA ListedStep ==
    ASSUME Inv, ListingCovers, NEW p \in Runs, RunStep(p)
    PROVE  Listed(p)'
<1>1. Listed(p) /\ disclosures' = disclosures /\ disclosures \in Seq(Receipts)
  BY RunStepElsewhere DEF ListingCovers, Inv, TypeOK
<1>2. CASE Start(p)
  <2>1. atStart'[p] = disclosures /\ page'[p] = 0 /\ pc'[p] = "list"
    BY <1>2 DEF Start, Goto, Inv, TypeOK
  <2> QED BY <1>1, <2>1, PageSizeAssumption DEF Listed, Shift
<1>3. CASE MovesOn(p) \/ Stays(p)
  BY <1>1, <1>3 DEF MovesOn, Stays, Listed, Shift, cursor
<1>4. ASSUME NEW s \in Ended, Abandon(p, s) PROVE Listed(p)'
  <2>1. atStart'[p] = <<>> /\ page'[p] = 0
    BY <1>4 DEF Abandon, Inv, TypeOK
  <2> QED BY <1>1, <2>1 DEF Listed, Shift
<1> QED BY <1>2, <1>3, <1>4, PageListed, RunStepKinds

\* A disclosure that is filed pushes all others one position back.
LEMMA PublishListed ==
    ASSUME Inv, ListingCovers, NEW r \in Receipts, Publish(r), NEW p \in Runs
    PROVE  Listed(p)'
<1>1. /\ disclosures' = <<r>> \o disclosures /\ disclosures \in Seq(Receipts)
      /\ atStart[p] \in Seq(Receipts) /\ Listed(p)
      /\ UNCHANGED <<pc, page, totalPage, listing, atStart>>
  BY DEF Publish, local, ListingCovers, Inv, TypeOK
<1>2. Shift(p)' = Shift(p) + 1
      /\ \A i \in 1..Len(disclosures) : disclosures'[i + 1] = disclosures[i]
  BY <1>1 DEF Shift
<1>3. page[p] * PageSize \in Nat
  BY PageSizeAssumption DEF Inv, TypeOK
<1>4. Shift(p) \in Nat /\ Shift(p) + Len(atStart[p]) = Len(disclosures)
      /\ DOMAIN atStart[p] = 1..Len(atStart[p]) /\ Len(atStart[p]) \in Nat
  BY <1>1 DEF Listed, Shift
<1>5. ASSUME NEW i \in DOMAIN atStart[p]
      PROVE  disclosures'[i + Shift(p)'] = atStart[p][i]
  <2>1. i + Shift(p) \in 1..Len(disclosures) /\ i + Shift(p)' = (i + Shift(p)) + 1
    BY <1>2, <1>4
  <2> QED BY <2>1, <1>1, <1>2 DEF Listed
<1>6. ASSUME NEW i \in DOMAIN atStart[p], i + Shift(p)' <= page[p] * PageSize
      PROVE  i + Shift(p) <= page[p] * PageSize
  BY <1>2, <1>3, <1>4, <1>6
<1>7. Limit[p] = 0 =>
          \A i \in DOMAIN atStart[p] : i + Shift(p)' <= page[p] * PageSize =>
              \E j \in DOMAIN listing[p] : listing[p][j] = atStart[p][i]
  BY <1>1, <1>6 DEF Listed
<1>8. Shift(p)' \in Nat
  BY <1>2, <1>4
<1>9. /\ page[p] > 0 => Len(atStart[p]) <= totalPage[p] * PageSize
      /\ Limit[p] = 0 /\ page[p] > 0 /\ pc[p] # "list" => totalPage[p] <= page[p]
  BY <1>1 DEF Listed
<1> HIDE DEF Shift
<1> QED BY <1>1, <1>5, <1>7, <1>8, <1>9 DEF Listed

LEMMA ListingStep == Inv /\ ListingCovers /\ [Next]_vars => ListingCovers'
<1> SUFFICES ASSUME Inv, ListingCovers, [Next]_vars PROVE ListingCovers'
  OBVIOUS
<1>1. ASSUME NEW p \in Runs, RunStep(p), NEW q \in Runs PROVE Listed(q)'
  <2>1. CASE q = p
    BY <2>1, <1>1, ListedStep
  <2>2. CASE q # p
    <3>1. /\ pc'[q] = pc[q] /\ page'[q] = page[q] /\ totalPage'[q] = totalPage[q]
          /\ listing'[q] = listing[q] /\ atStart'[q] = atStart[q]
          /\ disclosures' = disclosures
      BY <2>2, <1>1, RunStepElsewhere
    <3>2. Shift(q)' = Shift(q) /\ Listed(q)
      BY <3>1 DEF Shift, ListingCovers
    <3> QED BY <3>1, <3>2 DEF Listed
  <2> QED BY <2>1, <2>2
<1>2. CASE UNCHANGED vars
  BY <1>2 DEF ListingCovers, Listed, Shift, vars
<1> QED BY <1>1, <1>2, PublishListed DEF Next, RunStep, ListingCovers

\* However many disclosures are filed while the pages are requested, for any page
\* size: an unlimited listing misses none of the older ones but the oldest, as
\* many of them as were filed.
THEOREM OnlyOldestLost == Spec => []ListingLosesOnlyOldest
<1>1. Inv /\ ListingCovers => ListingLosesOnlyOldest
  <2> SUFFICES ASSUME Inv, ListingCovers, NEW p \in Runs, Limit[p] = 0,
                      pc[p] \in {"scan", "ok"}, page[p] > 0,
                      NEW i \in DOMAIN atStart[p], i <= Len(atStart[p]) - Shift(p)
               PROVE  \E j \in DOMAIN listing[p] : listing[p][j] = atStart[p][i]
    <3>1. ASSUME NEW p \in Runs, NEW i \in DOMAIN atStart[p], Inv, ListingCovers
          PROVE  ~(i > Len(atStart[p]) - Shift(p)) => i <= Len(atStart[p]) - Shift(p)
      BY <3>1 DEF ListingCovers, Listed, Inv, TypeOK
    <3> QED BY <3>1 DEF ListingLosesOnlyOldest, Shift
  <2>1. /\ Shift(p) \in Nat /\ i \in Nat /\ Len(atStart[p]) \in Nat
        /\ Len(atStart[p]) <= totalPage[p] * PageSize /\ totalPage[p] <= page[p]
        /\ page[p] \in Nat /\ totalPage[p] \in Nat
    <3>1. pc[p] # "list" /\ Listed(p)
      BY DEF ListingCovers
    <3>2. atStart[p] \in Seq(Receipts) /\ page[p] \in Nat /\ totalPage[p] \in Nat
      BY DEF Inv, TypeOK
    <3> QED BY <3>1, <3>2 DEF Listed
  <2>2. totalPage[p] * PageSize <= page[p] * PageSize
        /\ totalPage[p] * PageSize \in Nat /\ page[p] * PageSize \in Nat
    BY <2>1, PageSizeAssumption, TimesMonotone
  <2>3. i + Shift(p) <= page[p] * PageSize
    BY <2>1, <2>2
  <2> QED BY <2>3 DEF ListingCovers, Listed
<1> QED BY <1>1, Invariance, ListedInit, ListingStep, PTL DEF Spec

=============================================================================
