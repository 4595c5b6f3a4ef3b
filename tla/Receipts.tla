------------------------------ MODULE Receipts ------------------------------
(***************************************************************************)
(* One photographed receipt: the extraction worker that reads it, and the  *)
(* API requests that review and commit it, at the same time.               *)
(*                                                                         *)
(* The worker claims a job in a short transaction and then keeps one       *)
(* transaction open from its first read of the receipt to the result: the  *)
(* download, the quota charge, the LLM call, the checkpoint and the lines  *)
(* all lie inside it.  Nothing it writes is visible before it commits, but *)
(* the rows it has written are locked.  A request is one step when it      *)
(* locks the receipt row before it reads, and several when it reads first  *)
(* or waits while it holds a lock.                                         *)
(*                                                                         *)
(* Lines carry no price, so a commit takes no cost snapshot.               *)
(***************************************************************************)
EXTENDS Integers

CONSTANTS
  Workers,      \* processes of workers/receipt_extraction_worker.py
  Callers,      \* API requests served at the same time
  Durable,      \* the endpoints whose transaction is committed
  Payloads,     \* what the LLM may answer
  MaxAttempts,  \* MAX_ATTEMPTS, 3 in the code
  DailyCap,     \* tenant_extraction_rate_limits.daily_cap
  MaxJobs,      \* bound: extraction jobs enqueued
  MaxTyped,     \* bound: lines the operator adds
  MaxDay,       \* bound: midnights
  MaxFaults,    \* bound: crashes, leases that run out under a live worker,
                \*   and deadlocks a worker is the victim of
  NoWorker      \* a NULL lease_token

Jobs  == 1 .. MaxJobs
Typed == (MaxJobs + 1) .. (MaxJobs + MaxTyped)
Lines == Jobs \cup Typed     \* a job writes at most the line of its number

Endpoints  == {"upload", "extract", "edit", "add", "reset", "dismiss",
               "delete", "commit"}
AllPayloads == {"lines", "nothing", "rejected"}   \* nothing: no invoice, or no lines

ASSUME ReceiptAssumption ==
  /\ Durable \subseteq Endpoints
  /\ Payloads \subseteq AllPayloads
  /\ MaxAttempts \in Nat \ {0} /\ DailyCap \in Nat
  /\ MaxJobs \in Nat /\ MaxTyped \in Nat /\ MaxDay \in Nat /\ MaxFaults \in Nat
  /\ NoWorker \notin Workers

VARIABLES
  photo,      \* the object in Spaces
  receipt,    \* receipts
  line,       \* receipt_lines
  moved,      \* inventory_movements: the lines with a receive movement
  job,        \* receipt_extraction_jobs
  quota,      \* tenant_extraction_rate_limits
  day,        \* the UTC date
  task,       \* each worker's place in process_once
  request,    \* each caller's place in its endpoint
  faults,     \* faults so far
  discarded   \* history: the jobs some reset left behind

tableVars == <<photo, receipt, line, moved, job, quota>>
vars == <<tableVars, day, task, request, faults, discarded>>

Over     == {"complete", "failed_terminal", "superseded"}
Open     == {"pending", "processing", "failed", "quota_blocked"}
JobRows  == [status : Over \cup Open \cup {"absent"}, lease : Workers \cup {NoWorker},
             attempts : 0 .. MaxAttempts, until : 0 .. MaxDay + 1,
             raw : AllPayloads \cup {"none"}]       \* raw_extraction
NoJob    == [status |-> "absent", lease |-> NoWorker, attempts |-> 0,
             until |-> 0, raw |-> "none"]
NewJob   == [NoJob EXCEPT !.status = "pending"]

Editable == {"draft"}      \* nothing sets pending_review
Final    == {"committed", "dismissed", "cancelled"}
Receipts == [state : {"absent", "deleted"} \cup Editable \cup Final,
             review : BOOLEAN, blocked : BOOLEAN,
             extraction : {"none", "pending", "complete", "failed", "superseded"}]
NoReceipt == [state |-> "absent", review |-> FALSE, blocked |-> FALSE,
              extraction |-> "none"]
Exists   == receipt.state \notin {"absent", "deleted"}

LineRows == [match : {"absent", "unmatched", "matched", "skipped"},
             item : BOOLEAN, corrected : BOOLEAN]
NoLine   == [match |-> "absent", item |-> FALSE, corrected |-> FALSE]
Scanned  == [match |-> "unmatched", item |-> FALSE, corrected |-> FALSE]
Present  == {l \in Lines : line[l].match # "absent"}
Movable  == {l \in Present : line[l].match # "skipped" /\ line[l].item}

Steps == {"idle", "read", "fetch", "charge", "llm", "recheck", "apply",
          "finish", "supersede"}
Tasks == [step : Steps, job : Jobs \cup {0}, attempts : 0 .. MaxAttempts,
          payload : AllPayloads \cup {"none"}, today : 0 .. MaxDay,
          charged : BOOLEAN, saved : BOOLEAN]   \* written, not committed
Idle  == [step |-> "idle", job |-> 0, attempts |-> 0, payload |-> "none",
          today |-> 0, charged |-> FALSE, saved |-> FALSE]

Asks  == [on : Endpoints \cup {"none"}, step : {"idle", "read", "touched", "locked"}]
NoAsk == [on |-> "none", step |-> "idle"]

Init ==
  /\ photo = FALSE /\ receipt = NoReceipt
  /\ line = [l \in Lines |-> NoLine] /\ moved = {}
  /\ job = [j \in Jobs |-> NoJob]
  /\ quota = [window |-> 0, used |-> 0]
  /\ day = 0 /\ faults = 0 /\ discarded = {}
  /\ task = [w \in Workers |-> Idle]
  /\ request = [c \in Callers |-> NoAsk]

-----------------------------------------------------------------------------
(* Row locks.  A worker that has checkpointed holds its job's row; one     *)
(* that has inserted lines holds the receipt FOR KEY SHARE (the foreign    *)
(* key).  A commit that has touched the receipt holds it FOR NO KEY        *)
(* UPDATE; a reset or a delete holds it FOR UPDATE.                        *)

HoldsJob(w, j) == task[w].job = j /\ task[w].saved
Shares(w)      == task[w].step = "finish" /\ task[w].payload = "lines"

JobFree(j)     == \A w \in Workers : ~HoldsJob(w, j)
JobFreeFor(w)  == \A v \in Workers \ {w} : ~HoldsJob(v, task[w].job)
NoShare        == \A w \in Workers : ~Shares(w)
Touched        == \E c \in Callers : request[c].step = "touched"
Locked         == \E c \in Callers : request[c].step = "locked"

MayShare  == ~Locked                            \* FOR KEY SHARE
MayUpdate == ~Locked /\ ~Touched                \* FOR NO KEY UPDATE
MayLock   == MayUpdate /\ NoShare               \* FOR UPDATE

-----------------------------------------------------------------------------
(* The extraction worker. *)

Holds(w)    == job[task[w].job].lease = w       \* AND lease_token = :tok
Leased(j)   == \E w \in Workers : task[w].job = j /\ job[j].lease = w

(* Mutant: a lease never runs out.                                         *)
Claimable_NoExpiry ==
  {j \in Jobs : JobFree(j) /\
     \/ job[j].status \in {"pending", "failed"}
     \/ job[j].status = "quota_blocked" /\ job[j].until <= day}

Claimable ==
  {j \in Jobs : JobFree(j) /\
     \/ job[j].status \in {"pending", "failed"}
     \/ job[j].status = "quota_blocked" /\ job[j].until <= day
     \/ job[j].status = "processing" /\ (Leased(j) => faults < MaxFaults)}

(* The oldest claimable job; a job whose worker is alive only counts as    *)
(* expired when that worker has stalled, which is a fault.                 *)
Claim(w) ==
  /\ task[w].step = "idle"
  /\ \E j \in Claimable :
       /\ \A k \in Claimable : Leased(k) \/ j <= k
       /\ faults' = IF Leased(j) THEN faults + 1 ELSE faults
       /\ job' = [job EXCEPT ![j].status = "processing", ![j].lease = w]
       /\ task' = [task EXCEPT ![w] = [Idle EXCEPT !.step = "read", !.job = j,
                                         !.attempts = job[j].attempts,
                                         !.payload = job[j].raw]]
  /\ UNCHANGED <<photo, receipt, line, moved, quota, day, request, discarded>>

Go(w, step) == task' = [task EXCEPT ![w].step = step]

(* now() is the start of this transaction, whatever the hour it charges.   *)
(* A payload found in raw_extraction spares the download and the LLM.      *)
ReadReceipt(w) ==
  /\ task[w].step = "read"
  /\ task' = IF ~Exists THEN [task EXCEPT ![w] = Idle]
             ELSE [task EXCEPT ![w].today = day,
                               ![w].step = IF receipt.review THEN "supersede"
                                           ELSE IF task[w].payload = "none"
                                           THEN "fetch" ELSE "recheck"]
  /\ UNCHANGED <<tableVars, day, request, faults, discarded>>

(* The rest of the transaction: what it charged is committed with it.      *)
NextUsed(t) == IF quota.window < t.today THEN 1 ELSE quota.used + 1
EndTask(w) ==
  /\ quota' = IF task[w].charged
              THEN [window |-> task[w].today, used |-> NextUsed(task[w])] ELSE quota
  /\ task' = [task EXCEPT ![w] = Idle]
  /\ UNCHANGED <<photo, moved, day, request, faults, discarded>>

(* Mutant: the job's status without the receipt's.                         *)
Settle_JobOnly(w, status, extraction) ==
  IF Holds(w)
  THEN /\ MayUpdate
       /\ job' = [job EXCEPT ![task[w].job].status = status,
                             ![task[w].job].raw = task[w].payload]
       /\ UNCHANGED receipt
  ELSE UNCHANGED <<job, receipt>>

(* _terminal and the receipt columns that follow it, when the fence holds. *)
Settle(w, status, extraction) ==
  IF Holds(w)
  THEN /\ MayUpdate
       /\ job' = [job EXCEPT ![task[w].job].status = status,
                             ![task[w].job].raw = task[w].payload]
       /\ receipt' = [receipt EXCEPT !.extraction = extraction, !.blocked = FALSE]
  ELSE UNCHANGED <<job, receipt>>

Supersede(w) ==
  /\ task[w].step = "supersede" /\ JobFreeFor(w)
  /\ Settle(w, "superseded", "superseded")
  /\ EndTask(w) /\ UNCHANGED line

Fetch(w) ==
  /\ task[w].step = "fetch"
  /\ Go(w, IF task[w].attempts = 0 THEN "charge" ELSE "llm")
  /\ UNCHANGED <<tableVars, day, request, faults, discarded>>

(* The bytes fail validation. *)
FetchRejects(w) ==
  /\ task[w].step = "fetch" /\ JobFreeFor(w)
  /\ Settle(w, "failed_terminal", "failed")
  /\ EndTask(w) /\ UNCHANGED line

(* _mark_receipt_failed. *)
MarkedFailed == [receipt EXCEPT !.extraction = "failed", !.blocked = FALSE]

(* Mutant: off by one.                                                     *)
Retries_OnceMore(tried) == tried <= MaxAttempts

Retries(tried) == tried < MaxAttempts

(* _transient_fail: Spaces or the LLM is out of reach. *)
TransientFail(w) ==
  /\ task[w].step \in {"fetch", "llm"} /\ JobFreeFor(w)
  /\ LET tried == task[w].attempts + 1 IN
     \/ ~Holds(w) /\ UNCHANGED <<job, receipt>>
     \/ /\ Holds(w) /\ Retries(tried)
        /\ job' = [job EXCEPT ![task[w].job].status = "failed",
                              ![task[w].job].attempts = tried,
                              ![task[w].job].lease = NoWorker]
        /\ UNCHANGED receipt
     \/ /\ Holds(w) /\ ~Retries(tried) /\ MayUpdate
        /\ job' = [job EXCEPT ![task[w].job].status = "failed_terminal",
                              ![task[w].job].attempts = tried]
        /\ receipt' = MarkedFailed
  /\ EndTask(w) /\ UNCHANGED line

(* The upsert keeps the tenant's rate-limit row until the transaction ends. *)
MayCharge(w) == \A v \in Workers \ {w} : ~task[v].charged
UnderCap(w)  == quota.window < task[w].today \/ quota.used < DailyCap

Charge(w) ==
  /\ task[w].step = "charge" /\ MayCharge(w) /\ UnderCap(w)
  /\ task' = [task EXCEPT ![w].charged = TRUE, ![w].step = "llm"]
  /\ UNCHANGED <<tableVars, day, request, faults, discarded>>

QuotaBlock(w) ==
  /\ task[w].step = "charge" /\ MayCharge(w) /\ ~UnderCap(w)
  /\ JobFreeFor(w)
  /\ IF Holds(w)
     THEN /\ MayUpdate
          /\ job' = [job EXCEPT ![task[w].job].status = "quota_blocked",
                                ![task[w].job].until = task[w].today + 1]
          /\ receipt' = [receipt EXCEPT !.extraction = "pending", !.blocked = TRUE]
     ELSE UNCHANGED <<job, receipt>>
  /\ EndTask(w) /\ UNCHANGED line

(* The answer, and _checkpoint: when the lease is gone the transaction     *)
(* commits what it charged and nothing else; otherwise the job row stays   *)
(* locked, and raw_extraction unseen, until the transaction ends.          *)
Checkpoint(w, p) ==
  /\ task[w].step = "llm" /\ JobFreeFor(w)
  /\ IF Holds(w)
     THEN /\ task' = [task EXCEPT ![w].payload = p, ![w].saved = TRUE,
                                  ![w].step = "recheck"]
          /\ UNCHANGED <<quota, photo, moved, day, request, faults, discarded>>
     ELSE EndTask(w)
  /\ UNCHANGED <<job, receipt, line>>

Recheck(w) ==
  /\ task[w].step = "recheck"
  /\ Go(w, IF receipt.review THEN "supersede" ELSE "apply")
  /\ UNCHANGED <<tableVars, day, request, faults, discarded>>

(* _apply: INSERT the lines.  A line that breaks a constraint of the table *)
(* (received_quantity > 0) raises out of process_once: all is rolled back  *)
(* and the job is left in processing.                                      *)
InsertLines(w) ==
  /\ task[w].step = "apply"
  /\ task[w].payload = "lines" => MayShare
  /\ IF task[w].payload = "rejected" THEN task' = [task EXCEPT ![w] = Idle]
     ELSE Go(w, "finish")
  /\ UNCHANGED <<tableVars, day, request, faults, discarded>>

(* _apply: the receipt's columns and the terminal write, then COMMIT; a    *)
(* missed fence rolls everything back.                                     *)
Finish(w) ==
  /\ task[w].step = "finish" /\ MayUpdate
  /\ IF Holds(w)
     THEN /\ Settle(w, "complete", "complete")
          /\ line' = IF task[w].payload = "lines"
                     THEN [line EXCEPT ![task[w].job] = Scanned] ELSE line
          /\ EndTask(w)
     ELSE /\ task' = [task EXCEPT ![w] = Idle]
          /\ UNCHANGED <<tableVars, day, request, faults, discarded>>

(* The process dies, or loses its connection: its transaction is undone.   *)
Crash(w) ==
  /\ task[w].step # "idle" /\ faults < MaxFaults
  /\ faults' = faults + 1
  /\ task' = [task EXCEPT ![w] = Idle]
  /\ UNCHANGED <<tableVars, day, request, discarded>>

WorkerStep(w) ==
  \/ ReadReceipt(w) \/ Supersede(w)
  \/ Fetch(w) \/ FetchRejects(w) \/ TransientFail(w)
  \/ Charge(w) \/ QuotaBlock(w)
  \/ \E p \in Payloads : Checkpoint(w, p)
  \/ Recheck(w) \/ InsertLines(w) \/ Finish(w)

-----------------------------------------------------------------------------
(* The endpoints.  A request whose transaction is never committed answers  *)
(* its client and leaves the tables as they were: of those only the upload *)
(* changes anything, for the object is in Spaces by then.                  *)

Starts(c, on)     == request[c] = NoAsk /\ on \in Durable
At(c, on, step)   == request[c] = [on |-> on, step |-> step]
Goes(c, on, step) == /\ request' = [request EXCEPT ![c] = [on |-> on, step |-> step]]
                     /\ UNCHANGED <<tableVars, day, task, faults, discarded>>
Answers(c)        == /\ request' = [request EXCEPT ![c] = NoAsk]
                     /\ UNCHANGED <<quota, day, task, faults>>

(* create_receipt_from_upload: the object is stored, then the draft.       *)
Upload(c) ==
  /\ request[c] = NoAsk /\ ~photo
  /\ photo' = TRUE
  /\ receipt' = IF "upload" \in Durable THEN [NoReceipt EXCEPT !.state = "draft"]
                ELSE receipt
  /\ Answers(c) /\ UNCHANGED <<line, moved, job, discarded>>

Known  == {j \in Jobs : job[j].status # "absent"}
Unused == Jobs \ Known

(* Insert a job and show the receipt as waiting for it. *)
Enqueue(rows, row) ==
  \E j \in Unused :
    /\ \A k \in Unused : j <= k
    /\ job' = [rows EXCEPT ![j] = NewJob]
    /\ receipt' = [row EXCEPT !.extraction = "pending", !.blocked = FALSE]

(* enqueue_extraction reads review_started_at without a lock, and writes   *)
(* by what it read.                                                        *)
ExtractRead(c) ==
  /\ Starts(c, "extract") /\ Exists /\ ~receipt.review
  /\ Goes(c, "extract", "read")

ExtractWrite(c) ==
  /\ At(c, "extract", "read") /\ MayUpdate
  /\ IF Exists
     THEN /\ line' = [l \in Lines |-> IF l \in Jobs THEN NoLine ELSE line[l]]
          /\ Enqueue(job, receipt)
     ELSE UNCHANGED <<line, job, receipt>>
  /\ Answers(c) /\ UNCHANGED <<photo, moved, discarded>>

(* Mutant: the state is not looked at.                                     *)
MayEdit_AnyState == Exists /\ MayLock

(* _lock_editable_receipt, and _touch_review after every line mutation.    *)
MayEdit == receipt.state \in Editable /\ MayLock

Reviewed == receipt' = [receipt EXCEPT !.review = TRUE]

(* update_line: link an item, clear it, correct a field, skip, unskip.     *)
Patched(row) ==
  {[match |-> "matched", item |-> TRUE, corrected |-> TRUE],
   [match |-> "unmatched", item |-> FALSE, corrected |-> FALSE],
   [row EXCEPT !.corrected = TRUE],
   [row EXCEPT !.match = "skipped"],
   [row EXCEPT !.match = IF row.item THEN "matched" ELSE "unmatched"]}

UpdateLine(c) ==
  /\ Starts(c, "edit") /\ MayEdit
  /\ \E l \in Present : \E row \in Patched(line[l]) : line' = [line EXCEPT ![l] = row]
  /\ Reviewed
  /\ Answers(c) /\ UNCHANGED <<photo, moved, job, discarded>>

AddLine(c) ==
  /\ Starts(c, "add") /\ MayEdit
  /\ \E l \in Typed \ Present : \E linked \in BOOLEAN :
       line' = [line EXCEPT ![l] =
                  [match |-> IF linked THEN "matched" ELSE "unmatched",
                   item |-> linked, corrected |-> linked]]
  /\ Reviewed
  /\ Answers(c) /\ UNCHANGED <<photo, moved, job, discarded>>

(* reset_extraction holds the receipt row while it waits for the rows of   *)
(* the jobs it supersedes; clearing the lease fences their workers off.    *)
ResetLock(c) ==
  /\ Starts(c, "reset") /\ MayEdit /\ Unused # {}
  /\ Goes(c, "reset", "locked")

(* Mutants: failed jobs are left as they are; leases are not taken away.   *)
Superseded_NotFailed ==
  [j \in Jobs |-> IF job[j].status \in Open \ {"failed"}
                  THEN [job[j] EXCEPT !.status = "superseded", !.lease = NoWorker]
                  ELSE job[j]]

Superseded_KeepsLease ==
  [j \in Jobs |-> IF job[j].status \in Open
                  THEN [job[j] EXCEPT !.status = "superseded"]
                  ELSE job[j]]

Superseded ==
  [j \in Jobs |-> IF job[j].status \in Open
                  THEN [job[j] EXCEPT !.status = "superseded", !.lease = NoWorker]
                  ELSE job[j]]

ResetJobs(c) ==
  /\ At(c, "reset", "locked")
  /\ \A j \in Jobs : job[j].status \in Open => JobFree(j)
  /\ line' = [l \in Lines |-> NoLine]
  /\ Enqueue(Superseded, [receipt EXCEPT !.review = FALSE])
  /\ discarded' = Known
  /\ Answers(c) /\ UNCHANGED <<photo, moved>>

(* set_commit_state, for dismiss and cancel: read, then write regardless.  *)
DismissRead(c) ==
  /\ Starts(c, "dismiss") /\ receipt.state \in Editable
  /\ Goes(c, "dismiss", "read")

DismissWrite(c) ==
  /\ At(c, "dismiss", "read") /\ MayUpdate
  /\ \E state \in {"dismissed", "cancelled"} :
       receipt' = IF Exists THEN [receipt EXCEPT !.state = state] ELSE receipt
  /\ Answers(c) /\ UNCHANGED <<photo, line, moved, job, discarded>>

(* delete_draft: read, then DELETE whatever is there; lines and jobs go    *)
(* with the receipt (ON DELETE CASCADE), the object in Spaces stays.       *)
DeleteRead(c) ==
  /\ Starts(c, "delete") /\ receipt.state = "draft"
  /\ Goes(c, "delete", "read")

DeleteLock(c) ==
  /\ At(c, "delete", "read")
  /\ IF Exists THEN MayLock /\ Goes(c, "delete", "locked")
     ELSE Answers(c) /\ UNCHANGED <<photo, receipt, line, moved, job, discarded>>

DeleteRows(c) ==
  /\ At(c, "delete", "locked") /\ \A j \in Jobs : JobFree(j)
  /\ receipt' = [NoReceipt EXCEPT !.state = "deleted"]
  /\ line' = [l \in Lines |-> NoLine]
  /\ job' = [j \in Jobs |-> NoJob]
  /\ Answers(c) /\ UNCHANGED <<photo, moved, discarded>>

(* The endpoint stamps review_started_at first; commit_receipt then takes  *)
(* FOR UPDATE, which waits for a worker that has inserted lines.           *)
CommitTouch(c) ==
  /\ Starts(c, "commit") /\ Exists /\ MayUpdate
  /\ Goes(c, "commit", "touched")

Passes(affirmed) ==
  /\ Movable # {}
  /\ affirmed \/ \E l \in Present : line[l].corrected

(* Committed already: only the stamp stays.  The gate refuses: nothing     *)
(* does.  Otherwise each movable line gets its one receive movement, by    *)
(* the key receipt_line:<id>.                                              *)
CommitReceipt(c) ==
  /\ At(c, "commit", "touched") /\ NoShare
  /\ \E affirmed \in BOOLEAN :
       IF receipt.state = "committed" THEN Reviewed /\ UNCHANGED moved
       ELSE IF ~Passes(affirmed) THEN UNCHANGED <<receipt, moved>>
       ELSE /\ receipt' = [receipt EXCEPT !.state = "committed", !.review = TRUE]
            /\ moved' = moved \cup Movable
  /\ Answers(c) /\ UNCHANGED <<photo, line, job, discarded>>

CallerStarts(c) ==
  \/ Upload(c) \/ ExtractRead(c) \/ UpdateLine(c) \/ AddLine(c) \/ ResetLock(c)
  \/ DismissRead(c) \/ DeleteRead(c) \/ CommitTouch(c)

CallerGoesOn(c) ==
  \/ ExtractWrite(c) \/ ResetJobs(c) \/ DismissWrite(c)
  \/ DeleteLock(c) \/ DeleteRows(c) \/ CommitReceipt(c)

-----------------------------------------------------------------------------
(* The database and the clock. *)

(* Each waits for a row the other holds: a commit for the lines' foreign   *)
(* keys and the worker for the receipt, or a reset or a delete for the     *)
(* job and the worker for the receipt.  PostgreSQL undoes one of the two.  *)
Deadlocked(w, c) ==
  \/ Shares(w) /\ request[c].step = "touched"
  \/ /\ request[c].step = "locked" /\ task[w].saved
     /\ task[w].step \in {"apply", "finish", "supersede"}

WorkerLoses(w, c) ==
  /\ Deadlocked(w, c) /\ faults < MaxFaults
  /\ faults' = faults + 1
  /\ task' = [task EXCEPT ![w] = Idle]
  /\ UNCHANGED <<tableVars, day, request, discarded>>

CallerLoses(w, c) ==
  /\ Deadlocked(w, c)
  /\ request' = [request EXCEPT ![c] = NoAsk]
  /\ UNCHANGED <<tableVars, day, task, faults, discarded>>

Midnight ==
  /\ day < MaxDay /\ day' = day + 1
  /\ UNCHANGED <<tableVars, task, request, faults, discarded>>

Next ==
  \/ \E w \in Workers : Claim(w) \/ WorkerStep(w) \/ Crash(w)
  \/ \E c \in Callers : CallerStarts(c) \/ CallerGoesOn(c)
  \/ \E w \in Workers, c \in Callers : WorkerLoses(w, c) \/ CallerLoses(w, c)
  \/ Midnight

Spec == Init /\ [][Next]_vars

(* A worker polls forever, but nothing makes a lease run out while it      *)
(* lives.  PostgreSQL queues who waits for a row, so nobody who takes it   *)
(* again and again keeps the others from it; it finds deadlocks; and the   *)
(* next day comes.                                                         *)
Fairness ==
  /\ \A w \in Workers : /\ WF_vars(Claim(w) /\ UNCHANGED faults)
                         /\ SF_vars(WorkerStep(w))
  /\ \A c \in Callers : SF_vars(CallerGoesOn(c))
  /\ \A w \in Workers, c \in Callers : WF_vars(CallerLoses(w, c))
  /\ WF_vars(Midnight)

FairSpec == Spec /\ Fairness

-----------------------------------------------------------------------------
(* Properties. *)

TypeOK ==
  /\ photo \in BOOLEAN /\ receipt \in Receipts
  /\ line \in [Lines -> LineRows] /\ moved \subseteq Lines
  /\ job \in [Jobs -> JobRows]
  /\ quota \in [window : 0 .. MaxDay, used : Nat]
  /\ day \in 0 .. MaxDay /\ faults \in 0 .. MaxFaults
  /\ task \in [Workers -> Tasks] /\ request \in [Callers -> Asks]
  /\ discarded \subseteq Jobs

(* reset-extraction leaves nothing behind: no line of a job it discarded   *)
(* ever shows up again, whatever its worker was doing at the time          *)
(* (services.py, reset_extraction).                                        *)
DiscardedStaysGone == \A j \in discarded : line[j] = NoLine

(* A receipt the client polls as pending, or as out of quota, has a job    *)
(* that will still change that.                                            *)
WaitingHasJob ==
  Exists /\ (receipt.extraction = "pending" \/ receipt.blocked)
    => \E j \in Jobs : job[j].status \in Open

(* Every line of a committed receipt that moves stock has its movement:    *)
(* edits stop when the commit starts.                                      *)
CommittedMoves == receipt.state = "committed" => Movable \subseteq moved

(* A job that is over stays over: a superseded or completed job is never   *)
(* claimed, failed or completed by a worker that still thinks it has it.   *)
OverStaysOver ==
  [][\A j \in Jobs : job[j].status \in Over /\ receipt'.state # "deleted"
       => job'[j].status = job[j].status]_vars

(* Every job comes to an end, or to a quota that outlasts the days         *)
(* modelled: nothing is retried for ever, whichever requests, crashes and  *)
(* deadlocks it meets (extraction_worker.py, MAX_ATTEMPTS).                *)
Running(j) == job[j].status \in Open /\ job[j].until <= MaxDay
JobsSettle == \A j \in Jobs : Running(j) ~> ~Running(j)

(* The receipt as ReceiptLife sees it.                                     *)
View == IF ~Exists THEN "none"
        ELSE IF receipt.extraction = "pending" \/ receipt.blocked THEN "waiting"
        ELSE receipt.extraction

Ticket(j) ==
  CASE job[j].status = "absent"     -> "none"
    [] job[j].status \in Open       -> "owed"
    [] job[j].status = "superseded" -> "void"
    [] job[j].status = "complete"   -> "complete"
    [] OTHER                        -> "failed"

Row(l) == IF line[l].match = "absent" THEN "none"
          ELSE IF line[l].match # "skipped" /\ line[l].item THEN "moves" ELSE "shown"

Life == INSTANCE ReceiptLife WITH
          stage   <- receipt.state,
          view    <- View,
          ticket  <- [j \in Jobs |-> Ticket(j)],
          row     <- [l \in Lines |-> Row(l)],
          stocked <- moved

(* Whatever workers, requests, faults and midnights do, each reading ends  *)
(* once and shows its line as it ends, a reset voids what is still owed,   *)
(* operators edit and start over in a draft only, and a commit receives    *)
(* what is shown.  Lines of a receipt that is committed may still change:  *)
(* an extraction or a deletion asked for before it, and a reading still    *)
(* owed, do not look at the state as they write.                           *)
ImplementsLife == Life!LifeSpec
=============================================================================
