--------------------------- MODULE Reconciliation ---------------------------
(***************************************************************************)
(* The reconciliation of one Clover connection: runs that page through the *)
(* orders changed since the cursor and put the locked ones in the inbox.   *)
(*                                                                         *)
(* Clover's list moves while it is read.  An order is listed under the     *)
(* time of its last change, one change at a time may show in the list      *)
(* later than that time (at most by Overlap), and a page is whatever lies  *)
(* at its offset when it is asked for.                                     *)
(***************************************************************************)
EXTENDS Integers, FiniteSets

CONSTANTS
  Orders,     \* Clover orders
  Runners,    \* processes that run reconcile_connection
  PageSize,   \* BATCH_SIZE, 100 in the code
  MaxPages,   \* MAX_PAGES, 50 in the code
  Overlap,    \* OVERLAP_MS, five minutes in the code
  MaxClock,   \* bound: Clover's clock
  MaxChanges, \* bound: changes to orders
  MaxBroken,  \* bound: runs that fail
  Unset       \* a cursor that is NULL, no order

ASSUME ReconciliationAssumption ==
  /\ IsFiniteSet(Orders) /\ Unset \notin Orders
  /\ PageSize \in Nat \ {0} /\ MaxPages \in Nat \ {0}
  /\ Overlap \in Nat /\ MaxClock \in Nat
  /\ MaxChanges \in Nat /\ MaxBroken \in Nat /\ Unset \notin Nat

VARIABLES
  clock,    \* the time of the last change
  changes,  \* changes to orders so far
  listed,   \* each order as the list shows it; time 0: not yet
  coming,   \* the change that does not show yet; time 0: none
  cursor,   \* tenant_pos_connections.last_reconciliation_cursor
  run,      \* each runner's run
  broken,   \* runs that have failed
  inbox,    \* for each order, the newest version put in pos_event_inbox
  slipped   \* history: orders that moved behind a run's offset unread

reconciliationVars == <<clock, changes, listed, coming, cursor, run, broken, inbox, slipped>>

Times    == 0 .. MaxClock
Listings == [time : Times, locked : BOOLEAN]
Nothing  == [time |-> 0, locked |-> FALSE]
Versions == [order : Orders, time : Times, locked : BOOLEAN]
NoVersion == [order |-> Unset, time |-> 0, locked |-> FALSE]
Runs     == [on : BOOLEAN, start : Times, seen : Times, page : SUBSET Versions,
             offset : 0 .. PageSize * MaxPages, more : BOOLEAN]
NoRun    == [on |-> FALSE, start |-> 0, seen |-> 0, page |-> {},
             offset |-> 0, more |-> FALSE]

ReconciliationInit ==
  /\ clock = 0 /\ changes = 0
  /\ listed = [o \in Orders |-> Nothing] /\ coming = NoVersion
  /\ cursor = Unset
  /\ run = [p \in Runners |-> NoRun]
  /\ broken = 0 /\ inbox = [o \in Orders |-> 0] /\ slipped = {}

-----------------------------------------------------------------------------
(* Clover's list: filter=modifiedTime>=start & orderBy=modifiedTime ASC.   *)

Since(list, start) ==
  {[order |-> o, time |-> list[o].time, locked |-> list[o].locked] :
     o \in {q \in Orders : list[q].time > 0 /\ list[q].time >= start}}

(* Mutant: newest first.                                                   *)
Ahead_Descending(all, v) == {w \in all : w.time > v.time}

Ahead(all, v) == {w \in all : w.time < v.time}

FirstOf(all, n) == {v \in all : Cardinality(Ahead(all, v)) < n}

Page(all, offset) == FirstOf(all, offset + PageSize) \ FirstOf(all, offset)

(* What a run has asked for and will not look at again.                    *)
Behind(p, list) == FirstOf(Since(list, run[p].start), run[p].offset)

MayChange(o, locked, now) ==
  /\ changes < MaxChanges /\ now > clock
  /\ coming = NoVersion \/ (coming.order # o /\ now <= coming.time + Overlap)
  /\ listed[o].time < now /\ (listed[o].locked => locked)

ListAs(o, version) ==
  /\ listed' = [listed EXCEPT ![o] = version]
  /\ slipped' = (slipped \ {o}) \cup
       {v.order : v \in UNION {Behind(p, listed') \ Behind(p, listed) : p \in Runners}}

(* An order is opened, edited, locked, paid or refunded; no two changes    *)
(* bear the same millisecond.                                              *)
Change(o, locked, now) ==
  /\ MayChange(o, locked, now)
  /\ clock' = now /\ changes' = changes + 1
  /\ ListAs(o, [time |-> now, locked |-> locked])
  /\ UNCHANGED <<coming, cursor, run, broken, inbox>>

ChangeLate(o, locked, now) ==
  /\ MayChange(o, locked, now) /\ coming = NoVersion
  /\ clock' = now /\ changes' = changes + 1
  /\ coming' = [order |-> o, time |-> now, locked |-> locked]
  /\ UNCHANGED <<listed, cursor, run, broken, inbox, slipped>>

ShowLate ==
  /\ coming # NoVersion /\ coming' = NoVersion
  /\ ListAs(coming.order, [time |-> coming.time, locked |-> coming.locked])
  /\ UNCHANGED <<clock, changes, cursor, run, broken, inbox>>

-----------------------------------------------------------------------------
(* One run. *)

(* Mutant: no overlap.                                                     *)
StartOf_AtCursor(c) == IF c = Unset THEN 0 ELSE c

(* The first run looks thirty days back, which holds every order here.     *)
StartOf(c) == IF c = Unset \/ c < Overlap THEN 0 ELSE c - Overlap

Begin(p) ==
  /\ run[p] = NoRun
  /\ run' = [run EXCEPT ![p] =
       [NoRun EXCEPT !.on = TRUE, !.start = StartOf(cursor), !.more = TRUE,
                     !.seen = IF cursor = Unset THEN 0 ELSE cursor]]
  /\ UNCHANGED <<clock, changes, listed, coming, cursor, broken, inbox, slipped>>

(* Mutant: a full page is the last one too.                                *)
More_Never(page, next) == FALSE

(* A short page is the last one, and so is the one that makes MAX_PAGES.   *)
More(page, next) == Cardinality(page) = PageSize /\ next < PageSize * MaxPages

FetchPage(p) ==
  LET page == Page(Since(listed, run[p].start), run[p].offset)
      next == run[p].offset + PageSize
  IN
  /\ run[p].more /\ run[p].page = {}
  /\ run' = [run EXCEPT ![p].page = page, ![p].offset = next,
                        ![p].more = More(page, next)]
  /\ UNCHANGED <<clock, changes, listed, coming, cursor, broken, inbox, slipped>>

(* The next order of the page: an open one is passed over, a locked one    *)
(* raises the run's cursor and is committed to the inbox on its own.       *)
StoreOrder(p) ==
  \E v \in FirstOf(run[p].page, 1) :
    /\ run' = [run EXCEPT
         ![p].page = run[p].page \ {v},
         ![p].seen = IF v.locked /\ v.time > run[p].seen THEN v.time ELSE run[p].seen]
    /\ inbox' = IF v.locked /\ v.time > inbox[v.order]
                THEN [inbox EXCEPT ![v.order] = v.time] ELSE inbox
    /\ UNCHANGED <<clock, changes, listed, coming, cursor, broken, slipped>>

Finish(p) ==
  /\ run[p].on /\ ~run[p].more /\ run[p].page = {}
  /\ cursor' = run[p].seen
  /\ run' = [run EXCEPT ![p] = NoRun]
  /\ UNCHANGED <<clock, changes, listed, coming, broken, inbox, slipped>>

(* Clover fails, the token is refused, or the process dies.                *)
RunFails(p) ==
  /\ run[p] # NoRun /\ broken < MaxBroken
  /\ broken' = broken + 1
  /\ run' = [run EXCEPT ![p] = NoRun]
  /\ UNCHANGED <<clock, changes, listed, coming, cursor, inbox, slipped>>

RunStep(p) == Begin(p) \/ FetchPage(p) \/ StoreOrder(p) \/ Finish(p)

ReconciliationNext ==
  \/ \E o \in Orders, locked \in BOOLEAN, now \in Times :
       Change(o, locked, now) \/ ChangeLate(o, locked, now)
  \/ ShowLate
  \/ \E p \in Runners : RunStep(p) \/ RunFails(p)

ReconciliationSpec == ReconciliationInit /\ [][ReconciliationNext]_reconciliationVars

(* The worker runs every fifteen minutes and goes on while it lives.       *)
ReconciliationFairness == \A p \in Runners : WF_reconciliationVars(RunStep(p))

-----------------------------------------------------------------------------
(* The type invariant; a run never looks past MAX_PAGES.                   *)
ReconciliationTypeOK ==
  /\ clock \in Times /\ changes \in 0 .. MaxChanges
  /\ listed \in [Orders -> Listings] /\ coming \in Versions \cup {NoVersion}
  /\ cursor \in Times \cup {Unset}
  /\ run \in [Runners -> Runs]
  /\ broken \in 0 .. MaxBroken
  /\ inbox \in [Orders -> Times] /\ slipped \subseteq Orders

(* The cursor never leaves a locked order behind: one that no later run    *)
(* will ask for is in the inbox, unless the list moved under a run that    *)
(* was between two pages (reconcile_connection; the overlap, the order of  *)
(* the pages and the stop at MAX_PAGES each matter).                       *)
NothingMissed ==
  \A o \in Orders :
    listed[o].locked /\ cursor # Unset /\ listed[o].time < StartOf(cursor) =>
      inbox[o] = listed[o].time \/ o \in slipped

Waiting(o) == listed[o].locked /\ inbox[o] < listed[o].time /\ o \notin slipped

(* As many orders as a run reads lie in its window ahead of this one.      *)
Crowded(o) ==
  LET window == Since(listed, StartOf(cursor)) IN
  \E v \in window \ FirstOf(window, PageSize * MaxPages) : v.order = o

(* A locked order is brought to the inbox in the end, also when webhooks   *)
(* never told of it, unless a full run of older orders stays ahead of it   *)
(* (reconcile_connection, run_all).                                        *)
Backfilled == \A o \in Orders : Waiting(o) ~> ~Waiting(o) \/ Crowded(o)
=============================================================================
