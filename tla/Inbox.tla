------------------------------- MODULE Inbox -------------------------------
(***************************************************************************)
(* pos_event_inbox: the durable queue between Clover and the sale          *)
(* pipeline.  The webhook and the reconciliation worker insert rows, the   *)
(* inbox worker claims them in batches, obtains the order document and     *)
(* marks each row processed, failed or dead-lettered.                      *)
(*                                                                         *)
(* What the worker does with a document is abstracted here to the single   *)
(* phase "work"; module SalePipeline refines it.  Every database           *)
(* transaction is one action, so a step of another process can fall        *)
(* between any two commits; the worker's calls to Clover are steps of      *)
(* their own for the same reason.                                          *)
(*                                                                         *)
(* An order document is represented by its revision at Clover: revision r  *)
(* contains everything revisions 1..r-1 reported.  Revision 0 stands for   *)
(* "no document" (fetched_payload IS NULL).                                *)
(***************************************************************************)
EXTENDS Naturals, FiniteSets

CONSTANTS
  Orders,      \* Clover order ids (vendor_event_id)
  Types,       \* vendor_event_type values the webhook delivers
  MaxRev,      \* bound: revisions of one order at Clover
  Workers,     \* inbox worker processes
  BatchSize,   \* claim_batch(batch_size); 10 in the code
  MaxRetries,  \* InboxWorker.MAX_RETRIES; 5 in the code
  MaxCrashes,  \* bound: worker crashes
  MaxRuns,     \* bound: reconciliation runs
  NoEvent      \* a worker that is handling no event

NoDoc == 0
Revs  == 1 .. MaxRev
Docs  == 0 .. MaxRev

(* The columns of pos_inbox_dedup_unique that can differ within a tenant.  *)
Keys == [order : Orders, type : Types, ts : Revs]

(* What RETURNING * hands the worker at claim time: it is never re-read.   *)
Snapshots == [key : Keys, payload : Docs, retry : Nat]

ASSUME InboxAssumption ==
  /\ "UPDATE" \in Types
  /\ MaxRev \in Nat \ {0}
  /\ BatchSize \in Nat \ {0}
  /\ MaxRetries \in Nat \ {0}
  /\ MaxCrashes \in Nat
  /\ MaxRuns \in Nat
  /\ NoEvent \notin Snapshots

VARIABLES
  (* Clover, external *)
  rev,       \* latest revision of each order; 0: not created yet
  gone,      \* orders deleted at Clover (get_order answers 404)
  (* tables *)
  inbox,     \* pos_event_inbox
  arrivals,  \* commits that inserted rows so far: the received_at clock
  alerts,    \* alert_count of the pos_event_dead_letter alert
  (* the reconciliation worker's memory *)
  page,      \* listed orders it has not upserted yet
  runs,      \* runs started so far
  (* each inbox worker's memory *)
  pc,        \* where it is in run() and process_event()
  hold,      \* claimed rows it has not started on
  cur,       \* the row it is handling
  doc,       \* order_data, once it has it
  crashes    \* crashes so far

cloverVars == <<rev, gone>>
reconVars  == <<page, runs>>
workerVars == <<pc, hold, cur, doc, crashes>>
queueVars  == <<rev, gone, inbox, arrivals, alerts, page, runs,
                pc, hold, cur, doc, crashes>>

RowStates == {"absent", "pending", "processing", "processed", "failed",
              "dead_letter"}
(* stale stands for claim_expires_at < now(); it is read, and so kept,     *)
(* only while the row is 'processing'.                                     *)
Rows == [state : RowStates, retry : Nat, payload : Docs, recv : Nat,
         stale : BOOLEAN]

AbsentRow == [state |-> "absent", retry |-> 0, payload |-> NoDoc,
              recv |-> 0, stale |-> FALSE]

Phases == {"idle", "batch", "fetch", "save", "work"}

QueueInit ==
  /\ rev = [o \in Orders |-> 0]
  /\ gone = {}
  /\ inbox = [k \in Keys |-> AbsentRow]
  /\ arrivals = 0
  /\ alerts = 0
  /\ page = {}
  /\ runs = 0
  /\ pc = [w \in Workers |-> "idle"]
  /\ hold = [w \in Workers |-> {}]
  /\ cur = [w \in Workers |-> NoEvent]
  /\ doc = [w \in Workers |-> NoDoc]
  /\ crashes = 0

-----------------------------------------------------------------------------
(* Clover. *)

Modify(o) ==
  /\ o \notin gone
  /\ rev[o] < MaxRev
  /\ rev' = [rev EXCEPT ![o] = @ + 1]
  /\ UNCHANGED <<gone, inbox, arrivals, alerts, reconVars, workerVars>>

Delete(o) ==
  /\ o \notin gone
  /\ rev[o] > 0
  /\ gone' = gone \cup {o}
  /\ UNCHANGED <<rev, inbox, arrivals, alerts, reconVars, workerVars>>

-----------------------------------------------------------------------------
(* Producers. *)

(* An inserted row; the other columns take their defaults.                 *)
NewRow(payload) ==
  [state |-> "pending", retry |-> 0, payload |-> payload, recv |-> arrivals,
   stale |-> FALSE]

(* One webhook request: the order events of its body, each inserted ON     *)
(* CONFLICT DO NOTHING, all under one commit.  Clover may deliver an event *)
(* late, in any order, more than once or never.                            *)
Webhook(K) ==
  LET new == {k \in K : inbox[k].state = "absent"}
  IN  /\ \A k \in K : k.ts <= rev[k.order]
      /\ inbox' = [k \in Keys |->
                     IF k \in new
                     THEN NewRow(NoDoc)
                     ELSE inbox[k]]
      /\ arrivals' = IF new = {} THEN arrivals ELSE arrivals + 1
      /\ UNCHANGED <<cloverVars, alerts, reconVars, workerVars>>

(* list_orders answers with the current documents of some orders (those    *)
(* the time filter lets through); a deleted order is not listed.           *)
ReconList(S) ==
  /\ page = {}
  /\ runs < MaxRuns
  /\ S # {}
  /\ \A o \in S : rev[o] > 0 /\ o \notin gone
  /\ page' = {[order |-> o, rev |-> rev[o]] : o \in S}
  /\ runs' = runs + 1
  /\ UNCHANGED <<cloverVars, inbox, arrivals, alerts, workerVars>>

(* Mutant: every row that is not pending is made pending again.            *)
ReconUpsert_Requeues(p) ==
  LET k == [order |-> p.order, type |-> "UPDATE", ts |-> p.rev]
  IN  /\ p \in page
      /\ page' = page \ {p}
      /\ inbox' = [inbox EXCEPT ![k].payload = p.rev, ![k].state = "pending"]
      /\ UNCHANGED <<cloverVars, arrivals, alerts, runs, workerVars>>

(* _upsert_inbox, one commit per order: a new row carries the listed       *)
(* document; an existing one gets it too, and is made pending again only   *)
(* if it was processed or dead-lettered.                                   *)
ReconUpsert(p) ==
  LET k == [order |-> p.order, type |-> "UPDATE", ts |-> p.rev]
  IN  /\ p \in page
      /\ page' = page \ {p}
      /\ IF inbox[k].state = "absent"
         THEN /\ inbox' = [inbox EXCEPT ![k] = NewRow(p.rev)]
              /\ arrivals' = arrivals + 1
         ELSE /\ inbox' = [inbox EXCEPT
                             ![k].payload = p.rev,
                             ![k].state = IF @ \in {"processed", "dead_letter"}
                                          THEN "pending" ELSE @]
              /\ UNCHANGED arrivals
      /\ UNCHANGED <<cloverVars, alerts, runs, workerVars>>

(* An API error, or a restart, ends the run between two upserts.           *)
ReconStop ==
  /\ page # {}
  /\ page' = {}
  /\ UNCHANGED <<cloverVars, inbox, arrivals, alerts, runs, workerVars>>

-----------------------------------------------------------------------------
(* The inbox worker. *)

(* Mutant: expired claims are not picked up again.                         *)
Claimable_NoExpiry == {k \in Keys : inbox[k].state = "pending"}

Claimable == {k \in Keys : \/ inbox[k].state = "pending"
                           \/ inbox[k].state = "processing" /\ inbox[k].stale}

(* ORDER BY received_at LIMIT batch_size                                   *)
OldestBatch(S) ==
  /\ S \subseteq Claimable
  /\ S # {}
  /\ \/ S = Claimable /\ Cardinality(S) <= BatchSize
     \/ Cardinality(S) = BatchSize
  /\ \A k \in S, j \in Claimable \ S : inbox[k].recv <= inbox[j].recv

Claim(w, S) ==
  /\ pc[w] = "idle"
  /\ OldestBatch(S)
  /\ inbox' = [k \in Keys |->
                 IF k \in S
                 THEN [inbox[k] EXCEPT !.state = "processing", !.stale = FALSE]
                 ELSE inbox[k]]
  /\ hold' = [hold EXCEPT ![w] = {[key |-> k, payload |-> inbox[k].payload,
                                   retry |-> inbox[k].retry] : k \in S}]
  /\ pc' = [pc EXCEPT ![w] = "batch"]
  /\ UNCHANGED <<cloverVars, arrivals, alerts, reconVars, cur, doc, crashes>>

(* process_event starts on the next claimed row; a row that came with a    *)
(* document needs no call to Clover.                                       *)
NextEvent(w, h) ==
  /\ pc[w] = "batch"
  /\ h \in hold[w]
  /\ hold' = [hold EXCEPT ![w] = @ \ {h}]
  /\ cur' = [cur EXCEPT ![w] = h]
  /\ doc' = [doc EXCEPT ![w] = h.payload]
  /\ pc' = [pc EXCEPT ![w] = IF h.payload = NoDoc THEN "fetch" ELSE "work"]
  /\ UNCHANGED <<cloverVars, inbox, arrivals, alerts, reconVars, crashes>>

(* Mutant: the answer may come from a cache.                               *)
FetchOk_Cached(w) ==
  /\ pc[w] = "fetch"
  /\ cur[w].key.order \notin gone
  /\ \E r \in 1 .. rev[cur[w].key.order] : doc' = [doc EXCEPT ![w] = r]
  /\ pc' = [pc EXCEPT ![w] = "save"]
  /\ UNCHANGED <<cloverVars, inbox, arrivals, alerts, reconVars, hold, cur,
                 crashes>>

FetchOk(w) ==
  /\ pc[w] = "fetch"
  /\ cur[w].key.order \notin gone
  /\ doc' = [doc EXCEPT ![w] = rev[cur[w].key.order]]
  /\ pc' = [pc EXCEPT ![w] = "save"]
  /\ UNCHANGED <<cloverVars, inbox, arrivals, alerts, reconVars, hold, cur,
                 crashes>>

(* Mutant: the fetched document is used and not stored.                    *)
SavePayload_NotStored(w) ==
  /\ pc[w] = "save"
  /\ pc' = [pc EXCEPT ![w] = "work"]
  /\ UNCHANGED <<cloverVars, inbox, arrivals, alerts, reconVars, hold, cur, doc,
                 crashes>>

SavePayload(w) ==
  /\ pc[w] = "save"
  /\ inbox' = [inbox EXCEPT ![cur[w].key].payload = doc[w]]
  /\ pc' = [pc EXCEPT ![w] = "work"]
  /\ UNCHANGED <<cloverVars, arrivals, alerts, reconVars, hold, cur, doc,
                 crashes>>

(* The loop moves on to the next claimed row, or back to claiming.         *)
Release(w) ==
  /\ pc' = [pc EXCEPT ![w] = IF hold[w] = {} THEN "idle" ELSE "batch"]
  /\ cur' = [cur EXCEPT ![w] = NoEvent]
  /\ doc' = [doc EXCEPT ![w] = NoDoc]
  /\ UNCHANGED <<hold, crashes>>

(* mark_processed: by inbox_id alone, whoever owns the claim by now.       *)
MarkProcessed(w) ==
  /\ inbox' = [inbox EXCEPT ![cur[w].key] =
                 [@ EXCEPT !.state = "processed", !.stale = FALSE]]
  /\ UNCHANGED alerts

(* Mutant: a state the column's CHECK does not know.                       *)
MarkFailed_Unknown(w) ==
  /\ inbox' = [inbox EXCEPT ![cur[w].key] = [@ EXCEPT !.state = "error"]]
  /\ UNCHANGED alerts

(* mark_failed and _dead_letter: the retry count is the snapshot's.        *)
MarkFailed(w) ==
  LET retries == cur[w].retry + 1
      dead    == retries >= MaxRetries
  IN  /\ inbox' = [inbox EXCEPT ![cur[w].key] =
                     [@ EXCEPT !.state = IF dead THEN "dead_letter" ELSE "failed",
                               !.retry = retries,
                               !.stale = FALSE]]
      /\ alerts' = IF dead THEN alerts + 1 ELSE alerts

(* OrderNotFoundError: the order was deleted, the row is acknowledged.     *)
FetchGone(w) ==
  /\ pc[w] = "fetch"
  /\ cur[w].key.order \in gone
  /\ MarkProcessed(w)
  /\ Release(w)
  /\ UNCHANGED <<cloverVars, arrivals, reconVars>>

Complete(w) ==
  /\ pc[w] = "work"
  /\ MarkProcessed(w)
  /\ Release(w)
  /\ UNCHANGED <<cloverVars, arrivals, reconVars>>

(* No connection, an expired token, a rate limit, a network or a database  *)
(* error: any phase of process_event can end in mark_failed.               *)
Fail(w) ==
  /\ pc[w] \in {"fetch", "save", "work"}
  /\ MarkFailed(w)
  /\ Release(w)
  /\ UNCHANGED <<cloverVars, arrivals, reconVars>>

(* The process dies, or a SIGTERM stops it between two rows: what it held  *)
(* stays 'processing' until the claim expires.                             *)
Crash(w) ==
  /\ pc[w] # "idle"
  /\ crashes < MaxCrashes
  /\ crashes' = crashes + 1
  /\ pc' = [pc EXCEPT ![w] = "idle"]
  /\ hold' = [hold EXCEPT ![w] = {}]
  /\ cur' = [cur EXCEPT ![w] = NoEvent]
  /\ doc' = [doc EXCEPT ![w] = NoDoc]
  /\ UNCHANGED <<cloverVars, inbox, arrivals, alerts, reconVars>>

(* CLAIM_TTL_SECONDS pass; the holder may be dead, or merely slow.         *)
Expire(k) ==
  /\ inbox[k].state = "processing"
  /\ ~inbox[k].stale
  /\ inbox' = [inbox EXCEPT ![k].stale = TRUE]
  /\ UNCHANGED <<cloverVars, arrivals, alerts, reconVars, workerVars>>

-----------------------------------------------------------------------------
WorkerStep(w) ==
  \/ \E S \in SUBSET Keys : Claim(w, S)
  \/ \E h \in hold[w] : NextEvent(w, h)
  \/ FetchOk(w)
  \/ FetchGone(w)
  \/ SavePayload(w)
  \/ Complete(w)
  \/ Fail(w)

QueueNext ==
  \/ \E o \in Orders : Modify(o)
  \/ \E o \in Orders : Delete(o)
  \/ \E K \in SUBSET {k \in Keys : k.ts <= rev[k.order]} : Webhook(K)
  \/ \E S \in SUBSET Orders : ReconList(S)
  \/ \E p \in page : ReconUpsert(p)
  \/ ReconStop
  \/ \E w \in Workers : WorkerStep(w)
  \/ \E w \in Workers : Crash(w)
  \/ \E k \in Keys : Expire(k)

QueueSpec == QueueInit /\ [][QueueNext]_queueVars

(* The worker loop keeps running (a restart is a Crash followed by more    *)
(* steps), and time passes.  Clover, webhooks, reconciliation and crashes  *)
(* are under no obligation.                                                *)
QueueFairness ==
  /\ \A w \in Workers : WF_queueVars(WorkerStep(w))
  /\ \A k \in Keys : WF_queueVars(Expire(k))

QueueFairSpec == QueueSpec /\ QueueFairness

-----------------------------------------------------------------------------
(* Properties. *)

(* Every column and every worker variable keeps its type.                  *)
QueueTypeOK ==
  /\ rev \in [Orders -> Docs]
  /\ gone \subseteq Orders
  /\ inbox \in [Keys -> Rows]
  /\ arrivals \in Nat
  /\ alerts \in Nat
  /\ page \subseteq [order : Orders, rev : Revs]
  /\ runs \in Nat
  /\ pc \in [Workers -> Phases]
  /\ hold \in [Workers -> SUBSET Snapshots]
  /\ cur \in [Workers -> Snapshots \cup {NoEvent}]
  /\ doc \in [Workers -> Docs]
  /\ crashes \in Nat

Handling(w) == hold[w] \cup ({cur[w]} \ {NoEvent})

(* The document a row is processed with is never older than the revision   *)
(* the row announces, whichever of the webhook, the fetch and a late       *)
(* reconciliation upsert put it there, and however many workers hold the   *)
(* row: a change Clover reported is never acknowledged unseen, unless the  *)
(* order is gone.  (process_event, fetched_payload, _upsert_inbox)         *)
ProcessedSawRevision ==
  \A k \in Keys : inbox[k].state = "processed" =>
                    inbox[k].payload >= k.ts \/ k.order \in gone

(* A row in a worker's hands is 'processing': neither a reconciliation     *)
(* requeue, nor an expired claim, nor the worker's own crash makes the row *)
(* claimable or settled under it.  Holds for the deployed single worker.   *)
HeldIsProcessing ==
  \A w \in Workers : \A h \in Handling(w) : inbox[h.key].state = "processing"

(* With a single worker no row is ever attempted again after mark_failed:  *)
(* claim_batch does not look at 'failed', so retry_count stops at 1 and    *)
(* dead-lettering is out of reach.                                         *)
NeverRetried ==
  \A k \in Keys : /\ inbox[k].retry <= 1
                  /\ inbox[k].state # "dead_letter"

Settled == {"processed", "failed", "dead_letter"}

(* Once a row is settled the only thing that can happen to it is the       *)
(* requeue by reconciliation of a processed or dead-lettered row: no mark_ *)
(* call of a worker overwrites the outcome.  Holds for a single worker.    *)
OnlyReconReopens ==
  [][\A k \in Keys :
       inbox[k].state \in Settled /\ inbox'[k].state # inbox[k].state =>
         inbox[k].state # "failed" /\ inbox'[k].state = "pending"]_queueVars

(* Every row Clover's webhook or reconciliation put in the queue is        *)
(* settled in the end, through crashes, lost batches and requeues.         *)
RowsSettle ==
  \A k \in Keys : inbox[k].state \in {"pending", "processing"} ~>
                    inbox[k].state \in Settled

(* What the documentation promises of a failed row: it is tried again.     *)
FailedIsRetried ==
  \A k \in Keys : inbox[k].state = "failed" ~> inbox[k].state # "failed"
=============================================================================
