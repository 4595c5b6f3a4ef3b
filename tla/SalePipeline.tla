---------------------------- MODULE SalePipeline ----------------------------
(***************************************************************************)
(* From a claimed event to the inventory ledger: InboxWorker.process_event *)
(* with the depletion handler, walker and writer it calls.                 *)
(*                                                                         *)
(* The queue is module Inbox; its phase "work" is refined here into the    *)
(* worker's transactions:                                                  *)
(*   ingest   T1    upsert the order, insert its lines with the recipe     *)
(*                  versions frozen as of now                              *)
(*   refund   T1.5  per refunded line: mark it and reverse its movements   *)
(*   deplete  T2    per pending line: process_line                         *)
(* process_line reads the line, decides, and only then writes, without a   *)
(* lock: at READ COMMITTED that is two steps, ReadLine and WriteLine.  The *)
(* other transactions take the row lock of what they change before they    *)
(* read anything else, so each is one step.                                *)
(***************************************************************************)
EXTENDS Inbox, SaleRules

CONSTANTS
  Lines,          \* Clover line items (clover_line_item_id)
  OrderOf,        \* the order each belongs to
  ModLines,       \* lines sold with the additive modifier
  VoidedLines,    \* lines already voided (exchanged) when first seen
  VendorDocs,     \* documents Clover can show
  MaxVersion,     \* bound: versions confirmed of each kind
  Convertible,    \* <<kind, version>>s whose ingredients all convert
  NoView          \* a worker that is inside no process_line

Kinds    == {"base", "mod"}
Versions == UNION {1 .. MaxVersion[kind] : kind \in Kinds}
Unset    == 0     \* a NULL version pointer

(* What a movement was written against: the idempotency key of a forward   *)
(* movement is its line and its source.  One inventory item per source.    *)
Sources == Kinds \X Versions

(* A locked order lists all its lines.                                     *)
Documents == [locked : BOOLEAN, pay : PayStates, refunded : SUBSET Lines]
BlankDoc  == [locked |-> FALSE, pay |-> "OPEN", refunded |-> {}]

ASSUME PipelineAssumption ==
  /\ OrderOf \in [Lines -> Orders]
  /\ ModLines \subseteq Lines
  /\ VoidedLines \subseteq Lines
  /\ VendorDocs \subseteq Documents
  /\ MaxVersion \in [Kinds -> Nat]
  /\ Convertible \subseteq Sources
  /\ NoView \notin [line : Lines, pay : PayStates, refunded : BOOLEAN]

VARIABLES
  content,    \* Clover, external: the document of each revision
  confirmed,  \* menu_items.recipe_version_id, modifiers.current_version_id
  latest,     \* newest version number of each
  order,      \* orders: payment_state, or "absent"
  line,       \* sale_line_items with their sale_line_item_modifiers
  ledger,     \* inventory_movements: rows per line and source
  job         \* each worker's place inside "work"

catalogVars == <<confirmed, latest>>
tableVars   == <<order, line, ledger>>
saleVars    == <<content, confirmed, latest, order, line, ledger, job>>
vars        == <<queueVars, saleVars>>

Terminal == {"depleted", "failed", "unmapped"}
Statuses == {"absent", "pending"} \cup Terminal
Reasons  == {"none", "sale_ineligible", "line_refunded", "no_recipe",
             "missing_conversion"}
LineRows == [status : Statuses, reason : Reasons, refunded : BOOLEAN,
             frozen : [Kinds -> {Unset} \cup Versions]]
AbsentLine == [status |-> "absent", reason |-> "none", refunded |-> FALSE,
               frozen |-> [kind \in Kinds |-> Unset]]

(* out: forward rows (sale_depletion, sale_signal); back: their reversals. *)
NoRows == [out |-> 0, back |-> 0]

Steps == {"ingest", "refund", "deplete", "write"}
Views == [line : Lines, pay : PayStates, refunded : BOOLEAN]
Jobs  == [step : Steps, todo : SUBSET Lines, view : Views \cup {NoView},
          faulty : BOOLEAN]
Rest  == [step |-> "ingest", todo |-> {}, view |-> NoView, faulty |-> FALSE]

Init ==
  /\ QueueInit
  /\ content = [o \in Orders |-> [r \in Revs |-> BlankDoc]]
  /\ confirmed = [kind \in Kinds |-> Unset]
  /\ latest = [kind \in Kinds |-> 0]
  /\ order = [o \in Orders |-> "absent"]
  /\ line = [l \in Lines |-> AbsentLine]
  /\ ledger = [l \in Lines |-> [s \in Sources |-> NoRows]]
  /\ job = [w \in Workers |-> Rest]

LinesOf(o) == {l \in Lines : OrderOf[l] = o}
OrderIn(w) == cur[w].key.order
DocIn(w)   == content[OrderIn(w)][doc[w]]

-----------------------------------------------------------------------------
(* Clover, and the operator's catalogue. *)

(* Each revision shows one more document: a locked order stays locked, a   *)
(* refunded line stays refunded.  The payment state may go either way.     *)
Sell(o, d) ==
  /\ Modify(o)
  /\ d.refunded \subseteq LinesOf(o)
  /\ rev[o] > 0 => /\ content[o][rev[o]].locked => d.locked
                   /\ content[o][rev[o]].refunded \subseteq d.refunded
  /\ content' = [content EXCEPT ![o][rev[o] + 1] = d]
  /\ UNCHANGED <<catalogVars, tableVars, job>>

(* confirm_recipe and confirm_modifier write a new version and point the   *)
(* catalogue row at it; un-confirming clears the pointer and keeps the     *)
(* version.                                                                *)
Confirm(kind) ==
  /\ confirmed[kind] = Unset
  /\ latest[kind] < MaxVersion[kind]
  /\ latest' = [latest EXCEPT ![kind] = @ + 1]
  /\ confirmed' = [confirmed EXCEPT ![kind] = latest[kind] + 1]
  /\ UNCHANGED <<queueVars, content, tableVars, job>>

Unconfirm(kind) ==
  /\ confirmed[kind] # Unset
  /\ confirmed' = [confirmed EXCEPT ![kind] = Unset]
  /\ UNCHANGED <<queueVars, content, latest, tableVars, job>>

-----------------------------------------------------------------------------
(* The queue around the pipeline.                                          *)

ListLocked(S) ==
  /\ ReconList(S)
  /\ \A o \in S : content[o][rev[o]].locked
  /\ UNCHANGED saleVars

QueueStep ==
  /\ \/ \E o \in Orders : Delete(o)
     \/ \E K \in SUBSET {k \in Keys : k.ts <= rev[k.order]} : Webhook(K)
     \/ \E p \in page : ReconUpsert(p)
     \/ ReconStop
     \/ \E k \in Keys : Expire(k)
  /\ UNCHANGED saleVars

(* Up to the point where the worker has the document.                      *)
Obtain(w) ==
  /\ \/ \E S \in SUBSET Keys : Claim(w, S)
     \/ \E h \in hold[w] : NextEvent(w, h)
     \/ FetchOk(w)
     \/ FetchGone(w)
     \/ SavePayload(w)
  /\ UNCHANGED saleVars

FetchFails(w) ==
  /\ pc[w] \in {"fetch", "save"}
  /\ Fail(w)
  /\ UNCHANGED saleVars

-----------------------------------------------------------------------------
(* process_event, from the document on. *)

At(w, step) == pc[w] = "work" /\ job[w].step = step

Goto(w, step, todo) ==
  job' = [job EXCEPT ![w] = [@ EXCEPT !.step = step, !.todo = todo]]

(* Mutant: any_line_failed survives into the next event.                   *)
Clear_KeepsFault(w) ==
  job' = [job EXCEPT ![w] = [Rest EXCEPT !.faulty = job[w].faulty]]

Clear(w) == job' = [job EXCEPT ![w] = Rest]

(* An order that is still open is acknowledged and leaves no trace.        *)
SkipOpen(w) ==
  /\ At(w, "ingest")
  /\ ~DocIn(w).locked
  /\ Complete(w)
  /\ Clear(w)
  /\ UNCHANGED <<content, catalogVars, tableVars>>

Snapshot(l) ==
  [kind \in Kinds |-> IF kind = "base" \/ l \in ModLines THEN confirmed[kind]
                                                         ELSE Unset]

Pending(l, d) ==
  [status |-> "pending", reason |-> "none", refunded |-> l \in d.refunded,
   frozen |-> Snapshot(l)]

(* Mutant: an existing line's status is set again.                         *)
Inserted_Reopens(l, d) ==
  IF line[l].status = "absent" THEN Pending(l, d)
  ELSE [line[l] EXCEPT !.status = "pending"]

(* INSERT ... ON CONFLICT DO NOTHING: a line already there is left alone,  *)
(* its snapshot included.                                                  *)
Inserted(l, d) == IF line[l].status = "absent" THEN Pending(l, d) ELSE line[l]

(* T1. *)
Ingest(w) ==
  LET o == OrderIn(w)
      d == DocIn(w)
  IN  /\ At(w, "ingest")
      /\ d.locked
      /\ order' = [order EXCEPT ![o] = IF @ = "absent" THEN d.pay
                                       ELSE MergePayment(@, d.pay)]
      /\ line' = [l \in Lines |-> IF l \in LinesOf(o) THEN Inserted(l, d)
                                                      ELSE line[l]]
      /\ Goto(w, "refund", d.refunded)
      /\ UNCHANGED <<queueVars, content, catalogVars, ledger>>

(* T1.5 for one line: the flag, and a reversal of every forward row that   *)
(* has none yet, in one transaction.                                       *)
RefundLine(w, l) ==
  /\ At(w, "refund")
  /\ l \in job[w].todo
  /\ line' = [line EXCEPT ![l].refunded = TRUE]
  /\ ledger' = [ledger EXCEPT ![l] =
                  [s \in Sources |-> [@[s] EXCEPT !.back = ledger[l][s].out]]]
  /\ Goto(w, "refund", job[w].todo \ {l})
  /\ UNCHANGED <<queueVars, content, catalogVars, order>>

(* T2 starts by collecting the order's pending lines.                      *)
Scan(w) ==
  /\ At(w, "refund")
  /\ job[w].todo = {}
  /\ Goto(w, "deplete",
          {l \in LinesOf(OrderIn(w)) : line[l].status = "pending"})
  /\ UNCHANGED <<queueVars, content, catalogVars, tableVars>>

(* process_line's first query.  A terminal line is a no-op.                *)
ReadLine(w, l) ==
  /\ At(w, "deplete")
  /\ l \in job[w].todo
  /\ job' = [job EXCEPT ![w] =
               IF line[l].status \in Terminal
               THEN [@ EXCEPT !.todo = job[w].todo \ {l}]
               ELSE [@ EXCEPT !.step = "write",
                              !.view = [line |-> l,
                                        pay |-> order[OrderOf[l]],
                                        refunded |-> line[l].refunded]]]
  /\ UNCHANGED <<queueVars, content, catalogVars, tableVars>>

(* What walk_base and walk_modifiers plan: one movement per frozen source. *)
Plan(l) == {s \in Sources : line[l].frozen[s[1]] = s[2]}

(* Eligibility from the view, then the walk of the frozen versions.  The   *)
(* walker's invalid_recipe is out of reach: confirming an empty draft is   *)
(* refused, and yield_quantity is NOT NULL.                                *)
Verdict(v) ==
  LET why  == Ineligibility(v.pay, TRUE, v.line \in VoidedLines, v.refunded)
      base == line[v.line].frozen["base"]
      no(status, reason) == [status |-> status, reason |-> reason]
  IN  IF why # "none" THEN no("failed", why)
      ELSE IF base = Unset THEN no("unmapped", "no_recipe")
      ELSE IF ~ Plan(v.line) \subseteq Convertible
           THEN no("failed", "missing_conversion")
      ELSE [status |-> "depleted", reason |-> "none"]

(* The idempotency key makes a second insert of a row do nothing.          *)
Post(l, S) ==
  ledger' = [ledger EXCEPT ![l] =
               [s \in Sources |-> IF s \in S /\ @[s].out = 0
                                  THEN [@[s] EXCEPT !.out = 1] ELSE @[s]]]

(* Mutant: sources that do not convert are skipped, the others posted.     *)
WriteLine_SkipsSources(w) ==
  LET v == job[w].view
      l == v.line
      why == Ineligibility(v.pay, TRUE, l \in VoidedLines, v.refunded)
  IN  /\ At(w, "write")
      /\ Post(l, IF why = "none" THEN Plan(l) \cap Convertible ELSE {})
      /\ line' = [line EXCEPT ![l].status = IF why = "none" THEN "depleted"
                                                            ELSE "failed",
                              ![l].reason = why]
      /\ job' = [job EXCEPT ![w] = [@ EXCEPT !.step = "deplete", !.view = NoView,
                                             !.todo = job[w].todo \ {l}]]
      /\ UNCHANGED <<queueVars, content, catalogVars, order>>

(* process_line's writes, all in the line's own transaction.               *)
WriteLine(w) ==
  LET v == job[w].view
      l == v.line
      verdict == Verdict(v)
  IN  /\ At(w, "write")
      /\ Post(l, IF verdict.status = "depleted" THEN Plan(l) ELSE {})
      /\ line' = [line EXCEPT ![l].status = verdict.status,
                              ![l].reason = verdict.reason]
      /\ job' = [job EXCEPT ![w] = [@ EXCEPT !.step = "deplete", !.view = NoView,
                                             !.todo = job[w].todo \ {l}]]
      /\ UNCHANGED <<queueVars, content, catalogVars, order>>

(* An error rolls the line's transaction back and the loop goes on.        *)
LineFault(w, l) ==
  /\ \/ At(w, "deplete") /\ l \in job[w].todo
     \/ At(w, "write") /\ l = job[w].view.line
  /\ job' = [job EXCEPT ![w] = [@ EXCEPT !.step = "deplete", !.view = NoView,
                                         !.todo = job[w].todo \ {l}, !.faulty = TRUE]]
  /\ UNCHANGED <<queueVars, content, catalogVars, tableVars>>

(* Mutant: any_line_failed is not looked at.                               *)
Finish_IgnoresFault(w) ==
  /\ At(w, "deplete")
  /\ job[w].todo = {}
  /\ Complete(w)
  /\ Clear(w)
  /\ UNCHANGED <<content, catalogVars, tableVars>>

Finish(w) ==
  /\ At(w, "deplete")
  /\ job[w].todo = {}
  /\ ~job[w].faulty
  /\ Complete(w)
  /\ Clear(w)
  /\ UNCHANGED <<content, catalogVars, tableVars>>

(* Mutant: mark_failed without the return after it.                        *)
GiveUp_NoReturn(w) ==
  /\ At(w, "refund")
  /\ MarkFailed(w)
  /\ Goto(w, "deplete", {})
  /\ UNCHANGED <<cloverVars, arrivals, reconVars, workerVars>>
  /\ UNCHANGED <<content, catalogVars, tableVars>>

(* mark_failed: after a faulty line, or an error outside the line loop.    *)
GiveUp(w) ==
  /\ \/ At(w, "ingest")
     \/ At(w, "refund")
     \/ At(w, "deplete") /\ job[w].todo = {}
  /\ Fail(w)
  /\ Clear(w)
  /\ UNCHANGED <<content, catalogVars, tableVars>>

CrashWorker(w) ==
  /\ Crash(w)
  /\ Clear(w)
  /\ UNCHANGED <<content, catalogVars, tableVars>>

-----------------------------------------------------------------------------
Work(w) ==
  \/ SkipOpen(w)
  \/ Ingest(w)
  \/ \E l \in Lines : RefundLine(w, l)
  \/ Scan(w)
  \/ \E l \in Lines : ReadLine(w, l)
  \/ WriteLine(w)
  \/ \E l \in Lines : LineFault(w, l)
  \/ Finish(w)
  \/ GiveUp(w)

Next ==
  \/ \E o \in Orders, d \in VendorDocs : Sell(o, d)
  \/ \E kind \in Kinds : Confirm(kind)
  \/ \E kind \in Kinds : Unconfirm(kind)
  \/ \E S \in SUBSET Orders : ListLocked(S)
  \/ QueueStep
  \/ \E w \in Workers : Obtain(w)
  \/ \E w \in Workers : FetchFails(w)
  \/ \E w \in Workers : Work(w)
  \/ \E w \in Workers : CrashWorker(w)

Spec == Init /\ [][Next]_vars

(* As for the queue: the worker loop runs and claims expire.               *)
Fairness ==
  /\ \A w \in Workers : WF_vars(Obtain(w) \/ FetchFails(w) \/ Work(w))
  /\ \A k \in Keys : WF_vars(Expire(k) /\ UNCHANGED saleVars)

FairSpec == Spec /\ Fairness

-----------------------------------------------------------------------------
(* Properties. *)

(* Every table and every worker variable keeps its type, and a worker that *)
(* is not inside "work" carries nothing over to the next event.            *)
TypeOK ==
  /\ QueueTypeOK
  /\ content \in [Orders -> [Revs -> Documents]]
  /\ confirmed \in [Kinds -> {Unset} \cup Versions]
  /\ latest \in [Kinds -> {0} \cup Versions]
  /\ order \in [Orders -> PayStates \cup {"absent"}]
  /\ line \in [Lines -> LineRows]
  /\ ledger \in [Lines -> [Sources -> [out : 0 .. 1, back : 0 .. 1]]]
  /\ job \in [Workers -> Jobs]
  /\ \A w \in Workers : pc[w] # "work" => job[w] = Rest

Forward(l)  == {s \in Sources : ledger[l][s].out = 1}
Reversed(l) == {s \in Sources : ledger[l][s].back = 1}

(* Base and modifiers are depleted together or not at all, against the     *)
(* versions the line froze when it was first ingested, whatever has been   *)
(* confirmed since; and they are reversed together or not at all, only     *)
(* once the line is marked refunded.  Any number of workers, replays and   *)
(* crashes.  (process_line, reverse_line, _insert_line_item)               *)
WholeLine ==
  \A l \in Lines :
    /\ Forward(l) \in {{}, Plan(l)}
    /\ Reversed(l) \in {{}, Forward(l)}
    /\ Reversed(l) # {} => line[l].refunded

(* The recorded outcome and the ledger agree: a line is 'depleted' exactly *)
(* if it has forward rows.  Needs the single worker: two that overlap on   *)
(* one order can leave a 'failed' line with rows.                          *)
StatusMatchesLedger ==
  \A l \in Lines : line[l].status = "depleted" <=> Forward(l) # {}

(* A line marked refunded nets to zero: never marked but unreversed.       *)
(* Needs the single worker: run RefundRace has two.                        *)
RefundNetsToZero ==
  \A l \in Lines : line[l].refunded => Reversed(l) = Forward(l)

(* A row is acknowledged only when its document, or a newer one of the     *)
(* order, has taken effect: every line of a locked order is recorded and   *)
(* out of 'pending', its refunds are marked and its payment state, or a    *)
(* later one, is stored.  Newer: reconciliation may put the document it    *)
(* listed over the one the worker is at work on.  The order of a 404 is    *)
(* excepted: its row is acknowledged whatever it holds.  Needs the single  *)
(* worker.                                                                 *)
Applied(o, d) ==
  /\ \A l \in LinesOf(o) : line[l].status \in Terminal
  /\ \A l \in d.refunded : line[l].refunded
  /\ Priority(order[o]) >= Priority(d.pay)

ProcessedMeansApplied ==
  \A k \in Keys :
    LET o == k.order  stored == inbox[k].payload
    IN  inbox[k].state = "processed" /\ stored # NoDoc /\ content[o][stored].locked =>
          o \in gone \/ \E r \in stored .. rev[o] : Applied(o, content[o][r])

LineKept(l) ==
  /\ Forward(l) \subseteq Forward(l)'
  /\ Reversed(l) \subseteq Reversed(l)'
  /\ line[l].refunded => line'[l].refunded
  /\ line[l].status # "absent" => line'[l].frozen = line[l].frozen

OrderKept(o) ==
  order[o] # "absent" => /\ order'[o] # "absent"
                         /\ Priority(order'[o]) >= Priority(order[o])

(* History is append-only: no movement is ever taken back, a line keeps    *)
(* the versions frozen at first ingestion, a refund mark stays, and a      *)
(* payment state never falls back, in whatever order documents arrive.     *)
HistoryKept ==
  [][(\A l \in Lines : LineKept(l)) /\ (\A o \in Orders : OrderKept(o))]_vars

(* First processing wins: a line's recorded outcome is never rewritten.    *)
(* Needs the single worker.                                                *)
TerminalFrozen ==
  [][\A l \in Lines :
       line[l].status \in Terminal =>
         /\ line'[l].status = line[l].status
         /\ line'[l].reason = line[l].reason]_vars

(* A recorded line is settled in the end, unless the handling of one of    *)
(* its order's events ended in 'failed': then it may stay pending.         *)
LinesSettle ==
  \A l \in Lines :
    line[l].status = "pending" ~>
      \/ line[l].status \in Terminal
      \/ \E k \in Keys : k.order = OrderOf[l] /\
                         inbox[k].state \in {"failed", "dead_letter"}

(* The fate of a line as SaleLedger sees it.                               *)
Fate(l) ==
  CASE line[l].status = "absent"   -> "unseen"
    [] line[l].status = "pending"  -> "open"
    [] line[l].status = "depleted" -> IF Reversed(l) = {} THEN "applied"
                                                          ELSE "reversed"
    [] OTHER                       -> "closed"

Promise == INSTANCE SaleLedger WITH
             fate     <- [l \in Lines |-> Fate(l)],
             returned <- [l \in Lines |-> line[l].refunded]

(* With its single worker the pipeline implements SaleLedger: through      *)
(* replays, crashes and documents out of order, each line is applied or    *)
(* closed once and given back if it was returned.                          *)
ImplementsLedger == Promise!LedgerSpec
=============================================================================
