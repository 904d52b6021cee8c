---------------------------- MODULE CompanyRoster ----------------------------
(* The companies task (internal/dartfiling/tasks): it downloads DART's whole   *)
(* list of companies and brings the table up to date, one company after the    *)
(* other, with no transaction around them.  The worker runs it every midnight  *)
(* and again after an error; the command line runs it whenever it is asked to. *)
EXTENDS Integers, Sequences, FiniteSets

VARIABLES
  world,     \* what DART lists and how often each program is started: fixed by Init
  roster,    \* the companies table: a row for each corp_code that is there
  sync,      \* for each process, the run under way
  syncs      \* how many runs have begun

rosterVars == <<roster, sync, syncs>>

Syncers == {"worker", "cli"}
NoDate == 0        \* a modify_date that is not a date
NoName == ""
SyncOff == [pc |-> "off"]

\* The table f with the row v under the key x.
Put(f, x, v) == [y \in DOMAIN f \cup {x} |-> IF y = x THEN v ELSE f[y]]

Entry(s) == sync[s].list[sync[s].i]
\* A company that is added belongs to no category, so that it is not hidden either.
Row(e) == [name |-> e.name, eng |-> e.eng, modified |-> e.modified, hidden |-> FALSE]

\* DART answers with a list; two runs that are under way together overlap.
SyncStart(s) ==
  /\ sync[s].pc = "off" /\ syncs < world.plan.syncs
  /\ syncs' = syncs + 1
  /\ LET others == {t \in Syncers \ {s} : sync[t].pc # "off"}
     IN \E list \in world.lists :
          sync' = [t \in Syncers |->
            IF t = s THEN [pc |-> "next", list |-> list, i |-> 1, alone |-> others = {}]
            ELSE IF t \in others THEN [sync[t] EXCEPT !.alone = FALSE] ELSE sync[t]]
  /\ UNCHANGED <<world, roster>>

\* Is the company there already?
LookUp(s) ==
  /\ sync[s].pc = "next" /\ sync[s].i <= Len(sync[s].list)
  /\ sync' = [sync EXCEPT ![s].pc = IF Entry(s).corp \in DOMAIN roster THEN "update" ELSE "create"]
  /\ UNCHANGED <<world, roster, syncs>>

Proceed(s) == sync' = [sync EXCEPT ![s].pc = "next", ![s].i = @ + 1]

\* It was not: it is inserted, if it still is not and its date is one.
CreateCompany(s) ==
  /\ sync[s].pc = "create" /\ Entry(s).modified # NoDate /\ Entry(s).corp \notin DOMAIN roster
  /\ roster' = Put(roster, Entry(s).corp, Row(Entry(s)))
  /\ Proceed(s)
  /\ UNCHANGED <<world, syncs>>

\* It was: the fields that are not empty are written.
UpdateCompany(s) ==
  /\ sync[s].pc = "update" /\ Entry(s).modified # NoDate
  /\ LET e == Entry(s)
         row == roster[e.corp]
         kept(new, old) == IF new = NoName THEN old ELSE new
     IN roster' = [roster EXCEPT ![e.corp] =
          [row EXCEPT !.name = kept(e.name, @), !.eng = kept(e.eng, @), !.modified = e.modified]]
  /\ Proceed(s)
  /\ UNCHANGED <<world, syncs>>

\* A date that is none, a company that somebody else has inserted meanwhile, a
\* database that does not answer or the end of the process ends the run: what comes
\* later in the list waits for another one.
SyncFails(s) ==
  /\ sync[s].pc \in {"next", "create", "update"}
  /\ sync' = [sync EXCEPT ![s] = SyncOff]
  /\ UNCHANGED <<world, roster, syncs>>

\* Mutant: a date that is none ends the run without an error.
CompleteSoFar(s) ==
  sync[s].pc = "next" /\ (sync[s].i <= Len(sync[s].list) => Entry(s).modified = NoDate)
Complete(s) == sync[s].pc = "next" /\ sync[s].i > Len(sync[s].list)

\* The whole list has been gone through.
SyncReturns(s) ==
  /\ Complete(s)
  /\ sync' = [sync EXCEPT ![s] = SyncOff]
  /\ UNCHANGED <<world, roster, syncs>>

SyncStep(s) ==
  \/ SyncStart(s)
  \/ LookUp(s)
  \/ CreateCompany(s)
  \/ UpdateCompany(s)
  \/ SyncFails(s)
  \/ SyncReturns(s)

RosterInit ==
  /\ roster = world.roster
  /\ sync = [s \in Syncers |-> SyncOff]
  /\ syncs = 0

-----------------------------------------------------------------------------
\* A run that returns without an error has every company of its list in the table,
\* and when no other run overlapped it, with every value the list gave (the last, if
\* a company is listed twice), whatever runs failed or were cut off before it.
RosterCurrent ==
  [][\A s \in Syncers :
       SyncReturns(s) =>
         LET list == sync[s].list
             last(i) == \A j \in i + 1 .. Len(list) : list[j].corp # list[i].corp
         IN \A i \in DOMAIN list :
              /\ list[i].corp \in DOMAIN roster
              /\ sync[s].alone /\ last(i) =>
                   LET row == roster[list[i].corp]
                   IN /\ row.modified = list[i].modified
                      /\ list[i].name # NoName => row.name = list[i].name
                      /\ list[i].eng # NoName => row.eng = list[i].eng]_sync
=============================================================================
