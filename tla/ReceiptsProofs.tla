--------------------------- MODULE ReceiptsProofs ---------------------------
(* Theorems about the receipt, for every number of workers, requests,      *)
(* jobs, attempts, days and faults, and whichever endpoints commit.        *)
EXTENDS Receipts, TLAPS

-----------------------------------------------------------------------------
(* What a worker relies on: it works on a job that has attempts left, and  *)
(* a job whose lease it still holds is in progress.                        *)
TasksOnJobs ==
  \A w \in Workers :
    IF task[w].step = "idle" THEN task[w].job = 0
    ELSE task[w].job \in Jobs /\ task[w].attempts < MaxAttempts

OpenMayRetry == \A j \in Jobs : job[j].status \in Open => job[j].attempts < MaxAttempts

HeldInHand ==
  \A w \in Workers : task[w].step # "idle" /\ Holds(w) =>
    job[task[w].job].status = "processing"

WorkInv == TypeOK /\ TasksOnJobs /\ OpenMayRetry /\ HeldInHand

LEMMA Constants ==
  /\ MaxAttempts \in Nat \ {0} /\ MaxDay \in Nat /\ MaxFaults \in Nat
  /\ Jobs \subseteq Nat /\ 0 \notin Jobs /\ Jobs \subseteq Lines
  /\ Jobs \cap Typed = {} /\ Typed \subseteq Lines
  /\ Payloads \subseteq AllPayloads /\ NoWorker \notin Workers
BY ReceiptAssumption DEF ReceiptAssumption, Jobs, Typed, Lines

LEMMA Rows ==
  /\ NoJob \in JobRows /\ NewJob \in JobRows
  /\ NoReceipt \in Receipts /\ NoLine \in LineRows /\ Scanned \in LineRows
  /\ Idle \in Tasks /\ NoAsk \in Asks
  /\ Idle.step = "idle" /\ Idle.job = 0 /\ NewJob.status = "pending" /\ NewJob.attempts = 0
  /\ NewJob.lease = NoWorker /\ NoJob.status = "absent" /\ NoJob.lease = NoWorker
BY Constants DEF NoJob, NewJob, JobRows, NoReceipt, Receipts, NoLine, LineRows,
   Scanned, Idle, Tasks, NoAsk, Asks, Over, Open, Steps, Editable, Final

LEMMA WorkInit == Init => WorkInv
<1> SUFFICES ASSUME Init PROVE WorkInv
  OBVIOUS
<1>1. TypeOK
  <2>1. /\ photo \in BOOLEAN /\ receipt \in Receipts
        /\ line \in [Lines -> LineRows] /\ moved \subseteq Lines
        /\ job \in [Jobs -> JobRows] /\ task \in [Workers -> Tasks]
        /\ request \in [Callers -> Asks] /\ discarded \subseteq Jobs
    BY Rows DEF Init
  <2>2. /\ quota \in [window : 0 .. MaxDay, used : Nat]
        /\ day \in 0 .. MaxDay /\ faults \in 0 .. MaxFaults
    BY Constants DEF Init
  <2> QED BY <2>1, <2>2 DEF TypeOK
<1>2. TasksOnJobs /\ OpenMayRetry /\ HeldInHand
  BY Rows DEF Init, TasksOnJobs, OpenMayRetry, HeldInHand, Open
<1> QED BY <1>1, <1>2 DEF WorkInv

(* The worker goes on with the job it has.                                 *)
LEMMA WorkerStays ==
  ASSUME WorkInv, NEW w \in Workers, task[w].step # "idle", UNCHANGED job,
         NEW t \in Tasks, t.step # "idle", t.job = task[w].job, t.attempts = task[w].attempts,
         task' = [task EXCEPT ![w] = t]
  PROVE  /\ task' \in [Workers -> Tasks]
         /\ TasksOnJobs' /\ OpenMayRetry' /\ HeldInHand'
BY DEF WorkInv, TypeOK, TasksOnJobs, OpenMayRetry, HeldInHand, Holds

(* The worker is done: it wrote its job's row under its lease, or nothing. *)
LEMMA WorkerLeaves ==
  ASSUME WorkInv, NEW w \in Workers, task[w].step # "idle", NEW row \in JobRows,
         UNCHANGED job \/ (Holds(w) /\ job' = [job EXCEPT ![task[w].job] = row]),
         row.status \in Open => row.attempts < MaxAttempts,
         row.lease \in {w, NoWorker},
         task' = [task EXCEPT ![w] = Idle]
  PROVE  /\ job' \in [Jobs -> JobRows] /\ task' \in [Workers -> Tasks]
         /\ TasksOnJobs' /\ OpenMayRetry' /\ HeldInHand'
<1>1. /\ job' \in [Jobs -> JobRows] /\ task' \in [Workers -> Tasks]
      /\ task[w].job \in Jobs
  BY Rows DEF WorkInv, TypeOK, TasksOnJobs
<1>2. TasksOnJobs' /\ OpenMayRetry'
  BY <1>1, Rows DEF WorkInv, TypeOK, TasksOnJobs, OpenMayRetry
<1>3. ASSUME NEW v \in Workers, (task[v].step # "idle" /\ Holds(v))'
      PROVE  (job[task[v].job].status = "processing")'
  <2>1. v # w /\ task'[v] = task[v] /\ task[v].job \in Jobs
    BY <1>1, <1>3, Rows DEF WorkInv, TypeOK, TasksOnJobs
  <2>2. task[v].job # task[w].job \/ UNCHANGED job
    BY <1>1, <1>3, <2>1, Constants DEF WorkInv, TypeOK, Holds
  <2> QED BY <1>1, <1>3, <2>1, <2>2 DEF WorkInv, TypeOK, HeldInHand, Holds
<1> QED BY <1>1, <1>2, <1>3 DEF HeldInHand

(* Callers only write rows that nobody holds afterwards.                   *)
LEMMA CallerWrites ==
  ASSUME WorkInv, UNCHANGED task, job' \in [Jobs -> JobRows],
         \A j \in Jobs : \/ job'[j] = job[j]
                         \/ /\ job'[j].lease = NoWorker
                            /\ job'[j].status \in Open => job'[j].attempts < MaxAttempts
  PROVE  TasksOnJobs' /\ OpenMayRetry' /\ HeldInHand'
BY Constants DEF WorkInv, TypeOK, TasksOnJobs, OpenMayRetry, HeldInHand, Holds

LEMMA WorkerQuits ==
  ASSUME WorkInv, NEW w \in Workers, UNCHANGED job, task' = [task EXCEPT ![w] = Idle]
  PROVE  /\ job' \in [Jobs -> JobRows] /\ task' \in [Workers -> Tasks]
         /\ TasksOnJobs' /\ OpenMayRetry' /\ HeldInHand'
BY Rows DEF WorkInv, TypeOK, TasksOnJobs, OpenMayRetry, HeldInHand, Holds

LEMMA EndTaskTypes ==
  ASSUME TypeOK, NEW w \in Workers, EndTask(w)
  PROVE  quota' \in [window : 0 .. MaxDay, used : Nat]
BY DEF TypeOK, EndTask, NextUsed, Tasks

LEMMA ClaimWork ==
  ASSUME WorkInv, NEW w \in Workers, Claim(w)
  PROVE  WorkInv'
<1>1. PICK j \in Claimable :
        /\ faults' = IF Leased(j) THEN faults + 1 ELSE faults
        /\ job' = [job EXCEPT ![j].status = "processing", ![j].lease = w]
        /\ task' = [task EXCEPT ![w] = [Idle EXCEPT !.step = "read", !.job = j,
                                         !.attempts = job[j].attempts,
                                         !.payload = job[j].raw]]
  BY DEF Claim
<1>2. /\ j \in Jobs /\ job[j].status \in Open
      /\ job[j].status = "processing" => (Leased(j) => faults < MaxFaults)
  BY <1>1 DEF Claimable, Open
<1>3. job[j] \in JobRows /\ job[j].attempts < MaxAttempts
  BY <1>2 DEF WorkInv, TypeOK, OpenMayRetry
<1> DEFINE row == [job[j] EXCEPT !.status = "processing", !.lease = w]
           t == [Idle EXCEPT !.step = "read", !.job = j,
                   !.attempts = job[j].attempts, !.payload = job[j].raw]
<1>4. /\ row \in JobRows /\ row.lease = w /\ row.status = "processing"
      /\ row.attempts = job[j].attempts
  BY <1>3 DEF JobRows, Open
<1>5. t \in Tasks /\ t.job = j /\ t.attempts = job[j].attempts /\ t.step = "read"
  BY <1>2, <1>3, Rows DEF Tasks, Idle, Steps, JobRows
<1>6. job' = [job EXCEPT ![j] = row] /\ task' = [task EXCEPT ![w] = t]
  BY <1>1, <1>2 DEF WorkInv, TypeOK
<1> HIDE DEF row, t
<1>7. job' \in [Jobs -> JobRows] /\ task' \in [Workers -> Tasks]
  BY <1>4, <1>5, <1>6 DEF WorkInv, TypeOK
<1>8. TasksOnJobs' /\ OpenMayRetry'
  BY <1>2, <1>3, <1>4, <1>5, <1>6, <1>7 DEF WorkInv, TypeOK, TasksOnJobs, OpenMayRetry, Open
<1>9. HeldInHand'
  BY <1>2, <1>4, <1>5, <1>6, <1>7
     DEF WorkInv, TypeOK, TasksOnJobs, HeldInHand, Holds
<1>10. faults' \in 0 .. MaxFaults
  <2>1. Leased(j) => job[j].status = "processing"
    BY <1>2, Constants DEF WorkInv, TasksOnJobs, HeldInHand, Leased, Holds
  <2> QED BY <1>1, <1>2, <2>1, Constants DEF WorkInv, TypeOK
<1> QED BY <1>7, <1>8, <1>9, <1>10 DEF WorkInv, TypeOK, Claim

(* The steps that leave the job rows alone.                                *)
LEMMA QuietWork ==
  ASSUME WorkInv, NEW w \in Workers,
         \/ ReadReceipt(w) \/ Fetch(w) \/ Charge(w) \/ Recheck(w) \/ InsertLines(w)
         \/ Crash(w) \/ \E c \in Callers : WorkerLoses(w, c)
  PROVE  WorkInv'
<1>1. /\ UNCHANGED <<photo, receipt, line, moved, job, quota, day, request, discarded>>
      /\ faults' \in 0 .. MaxFaults /\ task[w].step # "idle"
  BY Constants, Rows
     DEF WorkInv, TypeOK, ReadReceipt, Fetch, Charge, Recheck, InsertLines, Crash,
         WorkerLoses, Deadlocked, Shares, HoldsJob, tableVars
<1>2. CASE task' = [task EXCEPT ![w] = Idle]
  BY <1>1, <1>2, Rows
     DEF WorkInv, TypeOK, TasksOnJobs, OpenMayRetry, HeldInHand, Holds
<1>3. ASSUME NEW t \in Tasks, t.step # "idle", t.job = task[w].job,
             t.attempts = task[w].attempts, task' = [task EXCEPT ![w] = t]
      PROVE  WorkInv'
  BY <1>1, <1>3, WorkerStays DEF WorkInv, TypeOK
<1>4. CASE \E step \in Steps \ {"idle"}, on \in BOOLEAN, today \in 0 .. MaxDay :
        task' = [task EXCEPT ![w] = [task[w] EXCEPT !.step = step, !.charged = on,
                                                    !.today = today]]
  <2>1. PICK step \in Steps \ {"idle"}, on \in BOOLEAN, today \in 0 .. MaxDay :
        task' = [task EXCEPT ![w] = [task[w] EXCEPT !.step = step, !.charged = on,
                                                    !.today = today]]
    BY <1>4
  <2> DEFINE t == [task[w] EXCEPT !.step = step, !.charged = on, !.today = today]
  <2>2. /\ t \in Tasks /\ t.step # "idle" /\ t.job = task[w].job
        /\ t.attempts = task[w].attempts
    BY DEF WorkInv, TypeOK, Tasks
  <2>3. task' = [task EXCEPT ![w] = t]
    BY <2>1
  <2> HIDE DEF t
  <2> QED BY <1>3, <2>2, <2>3
<1>5. \/ task' = [task EXCEPT ![w] = Idle]
      \/ \E step \in Steps \ {"idle"}, on \in BOOLEAN, today \in 0 .. MaxDay :
          task' = [task EXCEPT ![w] = [task[w] EXCEPT !.step = step, !.charged = on,
                                                      !.today = today]]
  <2>1. task[w] \in Tasks /\ task \in [Workers -> Tasks] /\ day \in 0 .. MaxDay
    BY DEF WorkInv, TypeOK
  <2>2. CASE ReadReceipt(w)
    <3>1. CASE ~Exists
      BY <2>2, <3>1 DEF ReadReceipt
    <3>2. CASE Exists
      <4>1. PICK step \in {"supersede", "fetch", "recheck"} :
              task' = [task EXCEPT ![w].today = day, ![w].step = step]
        BY <2>2, <3>2 DEF ReadReceipt
      <4>2. task' = [task EXCEPT ![w] = [task[w] EXCEPT !.step = step,
                       !.charged = task[w].charged, !.today = day]]
        BY <2>1, <4>1 DEF Tasks
      <4>3. step \in Steps \ {"idle"} /\ task[w].charged \in BOOLEAN
        BY <2>1 DEF Steps, Tasks
      <4> QED BY <2>1, <4>2, <4>3
    <3> QED BY <3>1, <3>2
  <2>3. CASE Charge(w)
    <3>1. task' = [task EXCEPT ![w] = [task[w] EXCEPT !.step = "llm",
                     !.charged = TRUE, !.today = task[w].today]]
      BY <2>1, <2>3 DEF Charge, Tasks
    <3>2. "llm" \in Steps \ {"idle"} /\ task[w].today \in 0 .. MaxDay
      BY <2>1 DEF Steps, Tasks
    <3> QED BY <3>1, <3>2
  <2>4. CASE Crash(w) \/ \E c \in Callers : WorkerLoses(w, c)
    BY <2>4 DEF Crash, WorkerLoses
  <2>5. CASE Fetch(w) \/ Recheck(w) \/ InsertLines(w)
    <3>1. CASE task' = [task EXCEPT ![w] = Idle]
      BY <3>1
    <3>2. CASE \E step \in Steps \ {"idle"} : Go(w, step)
      <4>1. PICK step \in Steps \ {"idle"} : task' = [task EXCEPT ![w].step = step]
        BY <3>2 DEF Go
      <4>2. task' = [task EXCEPT ![w] = [task[w] EXCEPT !.step = step,
                       !.charged = task[w].charged, !.today = task[w].today]]
        BY <2>1, <4>1 DEF Tasks
      <4>3. task[w].charged \in BOOLEAN /\ task[w].today \in 0 .. MaxDay
        BY <2>1 DEF Tasks
      <4> QED BY <4>2, <4>3
    <3> QED BY <2>5, <3>1, <3>2 DEF Fetch, Recheck, InsertLines, Steps
  <2> QED BY <2>2, <2>3, <2>4, <2>5
<1> QED BY <1>2, <1>4, <1>5

(* The steps that end a task under the fence.                              *)
LEMMA SettleWork ==
  ASSUME WorkInv, NEW w \in Workers, task[w].step # "idle",
         NEW status \in Over, NEW extraction \in {"complete", "failed", "superseded"},
         Settle(w, status, extraction), EndTask(w), line' \in [Lines -> LineRows]
  PROVE  WorkInv'
<1>1. /\ task[w] \in Tasks /\ task[w].job \in Jobs /\ job[task[w].job] \in JobRows
      /\ receipt \in Receipts
  BY DEF WorkInv, TypeOK, TasksOnJobs
<1> DEFINE row == IF Holds(w)
                  THEN [job[task[w].job] EXCEPT !.status = status, !.raw = task[w].payload]
                  ELSE NoJob
<1>2. row \in JobRows /\ row.status \notin Open /\ row.lease \in {w, NoWorker}
  BY <1>1, Rows DEF JobRows, Tasks, Over, Open, Holds
<1>lost. ~Holds(w) => UNCHANGED job
  BY DEF Settle
<1>held. ASSUME Holds(w) PROVE job' = [job EXCEPT ![task[w].job] = row]
  <2>1. job' = [job EXCEPT ![task[w].job] =
                  [job[task[w].job] EXCEPT !.status = status, !.raw = task[w].payload]]
    BY <1>1, <1>held DEF Settle, WorkInv, TypeOK
  <2> QED BY <2>1, <1>held
<1>4. receipt' \in Receipts
  BY <1>1 DEF Settle, Receipts
<1>5. /\ quota' \in [window : 0 .. MaxDay, used : Nat]
      /\ task' = [task EXCEPT ![w] = Idle]
      /\ UNCHANGED <<photo, moved, day, request, faults, discarded>>
  BY EndTaskTypes DEF WorkInv, EndTask
<1> HIDE DEF row
<1>row. UNCHANGED job \/ (Holds(w) /\ job' = [job EXCEPT ![task[w].job] = row])
  BY <1>lost, <1>held DEF Holds
<1>6. /\ job' \in [Jobs -> JobRows] /\ task' \in [Workers -> Tasks]
      /\ TasksOnJobs' /\ OpenMayRetry' /\ HeldInHand'
  BY <1>2, <1>row, <1>5, WorkerLeaves
<1> QED BY <1>4, <1>5, <1>6 DEF WorkInv, TypeOK

LEMMA TransientFailWork ==
  ASSUME WorkInv, NEW w \in Workers, TransientFail(w)
  PROVE  WorkInv'
<1>1. /\ task[w] \in Tasks /\ task[w].step # "idle" /\ task[w].job \in Jobs
      /\ job[task[w].job] \in JobRows /\ receipt \in Receipts
      /\ task[w].attempts < MaxAttempts
  BY DEF WorkInv, TypeOK, TasksOnJobs, TransientFail
<1> DEFINE tried == task[w].attempts + 1
           row == IF ~Holds(w) THEN NoJob
                  ELSE IF Retries(tried)
                  THEN [job[task[w].job] EXCEPT !.status = "failed", !.attempts = tried,
                                                !.lease = NoWorker]
                  ELSE [job[task[w].job] EXCEPT !.status = "failed_terminal",
                                                !.attempts = tried]
<1>2. /\ tried \in 0 .. MaxAttempts /\ (Retries(tried) => tried < MaxAttempts)
  BY <1>1, Constants DEF Tasks, Retries
<1>3. /\ row \in JobRows /\ (row.status \in Open => row.attempts < MaxAttempts)
      /\ row.lease \in {w, NoWorker}
  BY <1>1, <1>2, Rows DEF JobRows, Over, Open, Holds
<1>lost. ~Holds(w) => UNCHANGED job
  BY DEF TransientFail
<1>held. ASSUME Holds(w) PROVE job' = [job EXCEPT ![task[w].job] = row]
  <2>1. CASE Holds(w) /\ Retries(tried)
    <3>1. job' = [job EXCEPT ![task[w].job] =
                    [job[task[w].job] EXCEPT !.status = "failed", !.attempts = tried,
                                             !.lease = NoWorker]]
      BY <1>1, <2>1 DEF TransientFail, WorkInv, TypeOK
    <3> QED BY <2>1, <3>1
  <2>2. CASE Holds(w) /\ ~Retries(tried)
    <3>1. job' = [job EXCEPT ![task[w].job] =
                    [job[task[w].job] EXCEPT !.status = "failed_terminal",
                                             !.attempts = tried]]
      BY <1>1, <2>2 DEF TransientFail, WorkInv, TypeOK
    <3> QED BY <2>2, <3>1
  <2> QED BY <2>1, <2>2, <1>held
<1>5. receipt' \in Receipts
  BY <1>1 DEF TransientFail, MarkedFailed, Receipts
<1>6. /\ quota' \in [window : 0 .. MaxDay, used : Nat]
      /\ task' = [task EXCEPT ![w] = Idle]
      /\ UNCHANGED <<photo, moved, day, request, faults, discarded, line>>
  BY EndTaskTypes DEF WorkInv, EndTask, TransientFail
<1> HIDE DEF row
<1>row. UNCHANGED job \/ (Holds(w) /\ job' = [job EXCEPT ![task[w].job] = row])
  BY <1>lost, <1>held DEF Holds
<1>7. /\ job' \in [Jobs -> JobRows] /\ task' \in [Workers -> Tasks]
      /\ TasksOnJobs' /\ OpenMayRetry' /\ HeldInHand'
  BY <1>1, <1>3, <1>row, <1>6, WorkerLeaves
<1> QED BY <1>5, <1>6, <1>7 DEF WorkInv, TypeOK

LEMMA QuotaBlockWork ==
  ASSUME WorkInv, NEW w \in Workers, QuotaBlock(w)
  PROVE  WorkInv'
<1>1. /\ task[w] \in Tasks /\ task[w].step # "idle" /\ task[w].job \in Jobs
      /\ job[task[w].job] \in JobRows /\ receipt \in Receipts
      /\ Holds(w) => job[task[w].job].attempts < MaxAttempts
  BY DEF WorkInv, TypeOK, TasksOnJobs, QuotaBlock, HeldInHand, OpenMayRetry, Open
<1> DEFINE row == IF Holds(w)
                  THEN [job[task[w].job] EXCEPT !.status = "quota_blocked",
                                                !.until = task[w].today + 1]
                  ELSE NoJob
<1>2. /\ row \in JobRows /\ (row.status \in Open => row.attempts < MaxAttempts)
      /\ row.lease \in {w, NoWorker}
  <2>1. CASE ~Holds(w)
    BY <2>1, Rows DEF Open
  <2>2. CASE Holds(w)
    <3>1. /\ task[w].today + 1 \in 0 .. MaxDay + 1
          /\ job[task[w].job].attempts < MaxAttempts /\ job[task[w].job].lease = w
      BY <1>1, <2>2, Constants DEF Tasks, Holds
    <3>2. [job[task[w].job] EXCEPT !.status = "quota_blocked", !.until = task[w].today + 1]
            \in JobRows
      BY <1>1, <3>1 DEF JobRows, Over, Open
    <3>3. row.attempts = job[task[w].job].attempts /\ row.lease = w
      BY <1>1, <2>2, <3>1 DEF JobRows
    <3> QED BY <2>2, <3>1, <3>2, <3>3
  <2> QED BY <2>1, <2>2
<1>lost. ~Holds(w) => UNCHANGED job
  BY DEF QuotaBlock
<1>held. ASSUME Holds(w) PROVE job' = [job EXCEPT ![task[w].job] = row]
  <2>1. job' = [job EXCEPT ![task[w].job] =
                  [job[task[w].job] EXCEPT !.status = "quota_blocked",
                                           !.until = task[w].today + 1]]
    BY <1>1, <1>held DEF QuotaBlock, WorkInv, TypeOK
  <2> QED BY <2>1, <1>held
<1>4. receipt' \in Receipts
  BY <1>1 DEF QuotaBlock, Receipts
<1>5. /\ quota' \in [window : 0 .. MaxDay, used : Nat]
      /\ task' = [task EXCEPT ![w] = Idle]
      /\ UNCHANGED <<photo, moved, day, request, faults, discarded, line>>
  BY EndTaskTypes DEF WorkInv, EndTask, QuotaBlock
<1> HIDE DEF row
<1>row. UNCHANGED job \/ (Holds(w) /\ job' = [job EXCEPT ![task[w].job] = row])
  BY <1>lost, <1>held DEF Holds
<1>6. /\ job' \in [Jobs -> JobRows] /\ task' \in [Workers -> Tasks]
      /\ TasksOnJobs' /\ OpenMayRetry' /\ HeldInHand'
  BY <1>1, <1>2, <1>row, <1>5, WorkerLeaves
<1> QED BY <1>4, <1>5, <1>6 DEF WorkInv, TypeOK

LEMMA CheckpointWork ==
  ASSUME WorkInv, NEW w \in Workers, NEW p \in Payloads, Checkpoint(w, p)
  PROVE  WorkInv'
<1>1. task[w] \in Tasks /\ task[w].step # "idle" /\ UNCHANGED <<job, receipt, line>>
  BY DEF WorkInv, TypeOK, Checkpoint
<1>2. CASE Holds(w)
  <2> DEFINE t == [task[w] EXCEPT !.payload = p, !.saved = TRUE, !.step = "recheck"]
  <2>1. t \in Tasks /\ t.step # "idle" /\ t.job = task[w].job /\ t.attempts = task[w].attempts
    BY <1>1, Constants DEF Tasks, Steps
  <2>2. /\ task' = [task EXCEPT ![w] = t]
        /\ UNCHANGED <<quota, photo, moved, day, request, faults, discarded>>
    BY <1>1, <1>2 DEF Checkpoint, WorkInv, TypeOK
  <2> HIDE DEF t
  <2> QED BY <1>1, <2>1, <2>2, WorkerStays DEF WorkInv, TypeOK
<1>3. CASE ~Holds(w)
  <2>1. EndTask(w)
    BY <1>3 DEF Checkpoint
  <2>2. /\ quota' \in [window : 0 .. MaxDay, used : Nat]
        /\ task' = [task EXCEPT ![w] = Idle]
        /\ UNCHANGED <<photo, moved, day, request, faults, discarded>>
    BY <2>1, EndTaskTypes DEF WorkInv, EndTask
  <2>3. /\ job' \in [Jobs -> JobRows] /\ task' \in [Workers -> Tasks]
        /\ TasksOnJobs' /\ OpenMayRetry' /\ HeldInHand'
    BY <1>1, <2>2, WorkerQuits
  <2> QED BY <1>1, <2>2, <2>3 DEF WorkInv, TypeOK
<1> QED BY <1>2, <1>3

LEMMA FinishWork ==
  ASSUME WorkInv, NEW w \in Workers, Finish(w)
  PROVE  WorkInv'
<1>1. task[w].step # "idle" /\ task[w].job \in Jobs
  BY DEF WorkInv, TasksOnJobs, Finish
<1>2. CASE Holds(w)
  <2>1. line' \in [Lines -> LineRows]
    BY <1>1, <1>2, Rows, Constants DEF Finish, WorkInv, TypeOK
  <2>2. "complete" \in Over /\ Settle(w, "complete", "complete") /\ EndTask(w)
    BY <1>2 DEF Finish, Over
  <2> QED BY <1>1, <2>1, <2>2, SettleWork
<1>3. CASE ~Holds(w)
  <2>1. /\ UNCHANGED <<tableVars, day, request, faults, discarded>>
        /\ task' = [task EXCEPT ![w] = Idle]
    BY <1>3 DEF Finish
  <2>2. /\ job' \in [Jobs -> JobRows] /\ task' \in [Workers -> Tasks]
        /\ TasksOnJobs' /\ OpenMayRetry' /\ HeldInHand'
    BY <2>1, WorkerQuits DEF tableVars
  <2> QED BY <2>1, <2>2 DEF WorkInv, TypeOK, tableVars
<1> QED BY <1>2, <1>3

LEMMA WorkerWork ==
  ASSUME WorkInv, NEW w \in Workers, WorkerStep(w)
  PROVE  WorkInv'
<1>1. CASE Supersede(w)
  <2>1. /\ task[w].step # "idle" /\ "superseded" \in Over /\ EndTask(w)
        /\ Settle(w, "superseded", "superseded") /\ line' \in [Lines -> LineRows]
    BY <1>1 DEF Supersede, Over, WorkInv, TypeOK
  <2> QED BY <2>1, SettleWork
<1>2. CASE FetchRejects(w)
  <2>1. /\ task[w].step # "idle" /\ "failed_terminal" \in Over /\ EndTask(w)
        /\ Settle(w, "failed_terminal", "failed") /\ line' \in [Lines -> LineRows]
    BY <1>2 DEF FetchRejects, Over, WorkInv, TypeOK
  <2> QED BY <2>1, SettleWork
<1> QED BY <1>1, <1>2, QuietWork, TransientFailWork, QuotaBlockWork, CheckpointWork,
           FinishWork DEF WorkerStep

-----------------------------------------------------------------------------
(* The requests, as far as the workers see them.                           *)

LEMMA EnqueueFacts ==
  ASSUME NEW rows \in [Jobs -> JobRows], NEW row \in Receipts, Enqueue(rows, row)
  PROVE  /\ job' \in [Jobs -> JobRows] /\ receipt' \in Receipts
         /\ receipt'.state = row.state
         /\ \E j \in Unused : job' = [rows EXCEPT ![j] = NewJob]
<1>1. PICK j \in Unused :
        /\ job' = [rows EXCEPT ![j] = NewJob]
        /\ receipt' = [row EXCEPT !.extraction = "pending", !.blocked = FALSE]
  BY DEF Enqueue
<1>2. j \in Jobs
  BY DEF Unused
<1> QED BY <1>1, <1>2, Rows DEF Receipts

LEMMA GoesFacts ==
  ASSUME TypeOK, NEW c \in Callers, NEW on \in Endpoints,
         NEW step \in {"read", "touched", "locked"}, Goes(c, on, step)
  PROVE  request' \in [Callers -> Asks]
BY DEF Goes, TypeOK, Asks

LEMMA AnswersFacts ==
  ASSUME TypeOK, NEW c \in Callers, Answers(c)
  PROVE  request' \in [Callers -> Asks]
BY Rows DEF Answers, TypeOK

(* The requests that write no job row.                                     *)
LEMMA QuietCaller ==
  ASSUME WorkInv, UNCHANGED <<job, task>>
  PROVE  job' \in [Jobs -> JobRows] /\ TasksOnJobs' /\ OpenMayRetry' /\ HeldInHand'
BY DEF WorkInv, TypeOK, TasksOnJobs, OpenMayRetry, HeldInHand, Holds

LEMMA WaitingCaller ==
  ASSUME WorkInv, NEW c \in Callers,
         \/ ExtractRead(c) \/ ResetLock(c) \/ DismissRead(c)
         \/ DeleteRead(c) \/ DeleteLock(c) \/ CommitTouch(c)
         \/ \E w \in Workers : CallerLoses(w, c)
  PROVE  WorkInv'
<1>1. UNCHANGED <<tableVars, day, task, faults, discarded>>
  BY DEF ExtractRead, ResetLock, DismissRead, DeleteRead, DeleteLock, CommitTouch,
         CallerLoses, Goes, Answers, tableVars
<1>2. request' \in [Callers -> Asks]
  BY GoesFacts, AnswersFacts, Rows DEF WorkInv, TypeOK, ExtractRead, ResetLock, DismissRead, DeleteRead,
     DeleteLock, CommitTouch, CallerLoses, Endpoints
<1> QED BY <1>1, <1>2, QuietCaller DEF WorkInv, TypeOK, tableVars

LEMMA RowCaller ==
  ASSUME WorkInv, NEW c \in Callers,
         \/ Upload(c) \/ UpdateLine(c) \/ AddLine(c) \/ DismissWrite(c) \/ CommitReceipt(c)
  PROVE  WorkInv'
<1>1. /\ UNCHANGED <<job, quota, day, task, faults, discarded>>
      /\ Answers(c)
  BY DEF Upload, UpdateLine, AddLine, DismissWrite, CommitReceipt, Answers
<1>2. photo' \in BOOLEAN /\ moved' \subseteq Lines
  BY DEF WorkInv, TypeOK, Upload, UpdateLine, AddLine, DismissWrite, CommitReceipt,
         Movable, Present
<1>3. receipt' \in Receipts
  <2>1. receipt \in Receipts
    BY DEF WorkInv, TypeOK
  <2>2. CASE Upload(c)
    BY <2>1, <2>2, Rows DEF Upload, Receipts, NoReceipt, Editable
  <2>3. CASE UpdateLine(c) \/ AddLine(c)
    BY <2>1, <2>3 DEF UpdateLine, AddLine, Reviewed, Receipts
  <2>4. CASE DismissWrite(c)
    BY <2>1, <2>4 DEF DismissWrite, Receipts, Final
  <2>5. CASE CommitReceipt(c)
    BY <2>1, <2>5 DEF CommitReceipt, Reviewed, Receipts, Final
  <2> QED BY <2>2, <2>3, <2>4, <2>5
<1>4. line' \in [Lines -> LineRows]
  <2>1. line \in [Lines -> LineRows]
    BY DEF WorkInv, TypeOK
  <2>2. CASE UpdateLine(c)
    <3>0. PICK l \in Present : \E row \in Patched(line[l]) : line' = [line EXCEPT ![l] = row]
      BY <2>2 DEF UpdateLine
    <3>1. PICK row \in Patched(line[l]) : line' = [line EXCEPT ![l] = row]
      BY <3>0
    <3>2. line[l] \in LineRows
      BY <2>1 DEF Present
    <3>3. row \in LineRows
      <4>1. \A m \in {"unmatched", "matched", "skipped"} :
              [line[l] EXCEPT !.match = m] \in LineRows
        BY <3>2 DEF LineRows
      <4>2. [line[l] EXCEPT !.corrected = TRUE] \in LineRows
        BY <3>2 DEF LineRows
      <4>3. /\ [match |-> "matched", item |-> TRUE, corrected |-> TRUE] \in LineRows
            /\ [match |-> "unmatched", item |-> FALSE, corrected |-> FALSE] \in LineRows
        BY DEF LineRows
      <4>4. \/ row = [match |-> "matched", item |-> TRUE, corrected |-> TRUE]
            \/ row = [match |-> "unmatched", item |-> FALSE, corrected |-> FALSE]
            \/ row = [line[l] EXCEPT !.corrected = TRUE]
            \/ row = [line[l] EXCEPT !.match = "skipped"]
            \/ row = [line[l] EXCEPT !.match = IF line[l].item THEN "matched" ELSE "unmatched"]
        BY <3>1 DEF Patched
      <4>5. \/ row = [line[l] EXCEPT !.match = "skipped"]
            \/ row = [line[l] EXCEPT !.match = "matched"]
            \/ row = [line[l] EXCEPT !.match = "unmatched"]
            \/ row \in LineRows
        BY <4>2, <4>3, <4>4
      <4> QED BY <4>1, <4>5
    <3> QED BY <2>1, <3>1, <3>3
  <2>3. CASE AddLine(c)
    <3>1. PICK l \in Typed \ Present : \E linked \in BOOLEAN :
            line' = [line EXCEPT ![l] =
                       [match |-> IF linked THEN "matched" ELSE "unmatched",
                        item |-> linked, corrected |-> linked]]
      BY <2>3 DEF AddLine
    <3>2. PICK linked \in BOOLEAN :
            line' = [line EXCEPT ![l] =
                       [match |-> IF linked THEN "matched" ELSE "unmatched",
                        item |-> linked, corrected |-> linked]]
      BY <3>1
    <3>3. (IF linked THEN "matched" ELSE "unmatched") \in {"matched", "unmatched"}
      BY Zenon
    <3>4. [match |-> IF linked THEN "matched" ELSE "unmatched",
           item |-> linked, corrected |-> linked] \in LineRows
      BY <3>3 DEF LineRows
    <3> QED BY <2>1, <3>2, <3>4
  <2> QED BY <2>1, <2>2, <2>3 DEF Upload, DismissWrite, CommitReceipt
<1> QED BY <1>1, <1>2, <1>3, <1>4, QuietCaller, AnswersFacts DEF WorkInv, TypeOK

LEMMA ExtractWriteWork ==
  ASSUME WorkInv, NEW c \in Callers, ExtractWrite(c)
  PROVE  WorkInv'
<1>1. /\ UNCHANGED <<photo, moved, quota, day, task, faults, discarded>>
      /\ Answers(c)
  BY DEF ExtractWrite, Answers
<1>2. line' \in [Lines -> LineRows]
  BY Rows DEF ExtractWrite, WorkInv, TypeOK
<1>3. CASE Exists
  <2>1. Enqueue(job, receipt) /\ job \in [Jobs -> JobRows] /\ receipt \in Receipts
    BY <1>3 DEF ExtractWrite, WorkInv, TypeOK
  <2>2. PICK j \in Unused : job' = [job EXCEPT ![j] = NewJob]
    BY <2>1, EnqueueFacts
  <2>3. \A k \in Jobs : job'[k] = job[k] \/ job'[k] = NewJob
    BY <2>1, <2>2
  <2>4. job' \in [Jobs -> JobRows] /\ receipt' \in Receipts
    BY <2>1, EnqueueFacts
  <2>5. TasksOnJobs' /\ OpenMayRetry' /\ HeldInHand'
    BY <1>1, <2>3, <2>4, CallerWrites, Rows, Constants
  <2> QED BY <1>1, <1>2, <2>4, <2>5, AnswersFacts DEF WorkInv, TypeOK
<1>4. CASE ~Exists
  BY <1>1, <1>2, <1>4, QuietCaller, AnswersFacts DEF ExtractWrite, WorkInv, TypeOK
<1> QED BY <1>3, <1>4 DEF Exists

LEMMA SupersededRows ==
  ASSUME WorkInv
  PROVE  /\ Superseded \in [Jobs -> JobRows]
         /\ \A j \in Jobs : \/ Superseded[j] = job[j] /\ job[j].status \notin Open
                            \/ /\ Superseded[j].lease = NoWorker
                               /\ Superseded[j].status = "superseded"
                               /\ job[j].status \in Open
<1> SUFFICES ASSUME NEW j \in Jobs
             PROVE  /\ Superseded[j] \in JobRows
                    /\ \/ Superseded[j] = job[j] /\ job[j].status \notin Open
                       \/ /\ Superseded[j].lease = NoWorker
                          /\ Superseded[j].status = "superseded"
                          /\ job[j].status \in Open
  BY DEF Superseded
<1>1. job[j] \in JobRows
  BY DEF WorkInv, TypeOK
<1>2. Superseded[j] = IF job[j].status \in Open
                      THEN [job[j] EXCEPT !.status = "superseded", !.lease = NoWorker]
                      ELSE job[j]
  BY DEF Superseded
<1> QED BY <1>1, <1>2 DEF JobRows, Over

LEMMA ResetJobsWork ==
  ASSUME WorkInv, NEW c \in Callers, ResetJobs(c)
  PROVE  WorkInv'
<1>1. /\ UNCHANGED <<photo, moved, quota, day, task, faults>> /\ discarded' \subseteq Jobs
      /\ Answers(c) /\ line' \in [Lines -> LineRows]
  BY Rows DEF ResetJobs, Answers, Known
<1> DEFINE row == [receipt EXCEPT !.review = FALSE]
<1>2. Enqueue(Superseded, row) /\ row \in Receipts
  BY DEF ResetJobs, WorkInv, TypeOK, Receipts
<1> HIDE DEF row
<1>3. PICK j \in Unused : job' = [Superseded EXCEPT ![j] = NewJob]
  BY <1>2, EnqueueFacts, SupersededRows
<1>4. \A k \in Jobs : job'[k] = Superseded[k] \/ job'[k] = NewJob
  BY <1>3, SupersededRows
<1>5. job' \in [Jobs -> JobRows] /\ receipt' \in Receipts
  BY <1>2, EnqueueFacts, SupersededRows
<1>6. \A k \in Jobs : \/ job'[k] = job[k]
                       \/ /\ job'[k].lease = NoWorker
                          /\ (job'[k].status \in Open => job'[k].attempts < MaxAttempts)
  BY <1>4, SupersededRows, Rows, Constants DEF Open
<1>7. TasksOnJobs' /\ OpenMayRetry' /\ HeldInHand'
  BY <1>1, <1>5, <1>6, CallerWrites
<1> QED BY <1>1, <1>5, <1>7, AnswersFacts DEF WorkInv, TypeOK

LEMMA DeleteRowsWork ==
  ASSUME WorkInv, NEW c \in Callers, DeleteRows(c)
  PROVE  WorkInv'
<1>1. /\ UNCHANGED <<photo, moved, quota, day, task, faults, discarded>>
      /\ Answers(c) /\ line' \in [Lines -> LineRows]
      /\ job' \in [Jobs -> JobRows] /\ \A j \in Jobs : job'[j] = NoJob
  BY Rows DEF DeleteRows, Answers
<1>2. receipt' \in Receipts
  BY Rows DEF DeleteRows, Receipts
<1>3. TasksOnJobs' /\ OpenMayRetry' /\ HeldInHand'
  BY <1>1, CallerWrites, Rows DEF Open
<1> QED BY <1>1, <1>2, <1>3, AnswersFacts DEF WorkInv, TypeOK

LEMMA WorkNext == WorkInv /\ [Next]_vars => WorkInv'
<1> SUFFICES ASSUME WorkInv, [Next]_vars PROVE WorkInv'
  OBVIOUS
<1>1. CASE \E w \in Workers : Claim(w) \/ WorkerStep(w) \/ Crash(w)
  BY <1>1, ClaimWork, WorkerWork, QuietWork
<1>2. CASE \E c \in Callers : CallerStarts(c) \/ CallerGoesOn(c)
  BY <1>2, WaitingCaller, RowCaller, ExtractWriteWork, ResetJobsWork, DeleteRowsWork
     DEF CallerStarts, CallerGoesOn
<1>3. CASE \E w \in Workers, c \in Callers : WorkerLoses(w, c) \/ CallerLoses(w, c)
  BY <1>3, QuietWork, WaitingCaller
<1>4. CASE Midnight
  <2>1. day' \in 0 .. MaxDay /\ UNCHANGED <<tableVars, task, request, faults, discarded>>
    BY <1>4, Constants DEF Midnight, WorkInv, TypeOK
  <2> QED BY <2>1, QuietCaller DEF WorkInv, TypeOK, tableVars
<1>5. CASE UNCHANGED vars
  BY <1>5, QuietCaller DEF WorkInv, TypeOK, vars, tableVars
<1> QED BY <1>1, <1>2, <1>3, <1>4, <1>5 DEF Next

(* Every table, worker and request keeps its type; in particular no job is *)
(* attempted more than MAX_ATTEMPTS times.                                 *)
THEOREM ReceiptTypeCorrect == Spec => []TypeOK
<1>1. WorkInv => TypeOK
  BY DEF WorkInv
<1> QED BY <1>1, WorkInit, WorkNext, PTL DEF Spec

-----------------------------------------------------------------------------
(* What a step of a worker writes: the row of a job it holds, and then the *)
(* receipt's extraction columns; never the receipt's state.                *)
LEMMA WorkerEffect ==
  ASSUME WorkInv, NEW w \in Workers, WorkerStep(w)
  PROVE  \/ UNCHANGED <<job, receipt>>
         \/ /\ Holds(w) /\ task[w].job \in Jobs /\ job[task[w].job].status = "processing"
            /\ \A j \in Jobs \ {task[w].job} : job'[j] = job[j]
            /\ \/ job'[task[w].job].status \in Open /\ UNCHANGED receipt
               \/ /\ job'[task[w].job].status \in Open /\ receipt'.extraction = "pending"
                  /\ receipt'.state = receipt.state
               \/ /\ receipt'.extraction \in {"complete", "failed", "superseded"}
                  /\ ~receipt'.blocked /\ receipt'.state = receipt.state
<1>1. task[w].step # "idle"
  BY DEF WorkerStep, ReadReceipt, Supersede, Fetch, FetchRejects, TransientFail, Charge,
         QuotaBlock, Checkpoint, Recheck, InsertLines, Finish
<1>2. /\ task[w].job \in Jobs /\ job[task[w].job] \in JobRows /\ receipt \in Receipts
      /\ Holds(w) => job[task[w].job].status = "processing"
  BY <1>1 DEF WorkInv, TypeOK, TasksOnJobs, HeldInHand
<1>3. ASSUME NEW status \in Over, NEW extraction \in {"complete", "failed", "superseded"},
             Settle(w, status, extraction)
      PROVE  \/ UNCHANGED <<job, receipt>>
             \/ /\ Holds(w) /\ \A j \in Jobs \ {task[w].job} : job'[j] = job[j]
                /\ receipt'.extraction = extraction
                /\ ~receipt'.blocked /\ receipt'.state = receipt.state
  BY <1>2, <1>3 DEF Settle, WorkInv, TypeOK, Receipts
<1>4. CASE Supersede(w) \/ FetchRejects(w) \/ Finish(w)
  BY <1>2, <1>3, <1>4 DEF Supersede, FetchRejects, Finish, Over, tableVars
<1>5. CASE TransientFail(w)
  <2>1. /\ \A j \in Jobs \ {task[w].job} : job'[j] = job[j]
        /\ \/ UNCHANGED <<job, receipt>>
           \/ Holds(w) /\ job'[task[w].job].status = "failed" /\ UNCHANGED receipt
           \/ /\ Holds(w) /\ receipt'.extraction = "failed"
              /\ ~receipt'.blocked /\ receipt'.state = receipt.state
    <3>1. CASE ~Holds(w)
      BY <1>5, <3>1 DEF TransientFail
    <3>2. CASE Holds(w) /\ Retries(task[w].attempts + 1)
      <4> DEFINE row == [job[task[w].job] EXCEPT !.status = "failed",
                           !.attempts = task[w].attempts + 1, !.lease = NoWorker]
      <4>1. row.status = "failed"
        BY <1>2 DEF JobRows
      <4>2. job' = [job EXCEPT ![task[w].job] = row] /\ UNCHANGED receipt
        BY <1>2, <1>5, <3>2 DEF TransientFail, WorkInv, TypeOK
      <4> HIDE DEF row
      <4> QED BY <1>2, <3>2, <4>1, <4>2 DEF WorkInv, TypeOK
    <3>3. CASE Holds(w) /\ ~Retries(task[w].attempts + 1)
      <4>1. receipt'.extraction = "failed" /\ ~receipt'.blocked /\ receipt'.state = receipt.state
        BY <1>2, <1>5, <3>3 DEF TransientFail, MarkedFailed, Receipts
      <4>2. \A j \in Jobs \ {task[w].job} : job'[j] = job[j]
        BY <1>2, <1>5, <3>3 DEF TransientFail, WorkInv, TypeOK
      <4> QED BY <3>3, <4>1, <4>2
    <3> QED BY <3>1, <3>2, <3>3
  <2> QED BY <1>2, <2>1 DEF Open
<1>6. CASE QuotaBlock(w)
  <2>1. /\ \A j \in Jobs \ {task[w].job} : job'[j] = job[j]
        /\ \/ UNCHANGED <<job, receipt>>
           \/ /\ Holds(w) /\ job'[task[w].job].status = "quota_blocked"
              /\ receipt'.extraction = "pending" /\ receipt'.state = receipt.state
    <3>1. CASE ~Holds(w)
      BY <1>6, <3>1 DEF QuotaBlock
    <3>2. CASE Holds(w)
      <4> DEFINE row == [job[task[w].job] EXCEPT !.status = "quota_blocked",
                                                 !.until = task[w].today + 1]
      <4>1. row.status = "quota_blocked"
        BY <1>2 DEF JobRows
      <4>2. job' = [job EXCEPT ![task[w].job] = row]
        BY <1>2, <1>6, <3>2 DEF QuotaBlock, WorkInv, TypeOK
      <4>3. receipt'.extraction = "pending" /\ receipt'.state = receipt.state
        BY <1>2, <1>6, <3>2 DEF QuotaBlock, Receipts
      <4> HIDE DEF row
      <4> QED BY <1>2, <3>2, <4>1, <4>2, <4>3 DEF WorkInv, TypeOK
    <3> QED BY <3>1, <3>2
  <2> QED BY <1>2, <2>1 DEF Open
<1>7. CASE ReadReceipt(w) \/ Fetch(w) \/ Charge(w) \/ Recheck(w) \/ InsertLines(w)
  BY <1>7 DEF ReadReceipt, Fetch, Charge, Recheck, InsertLines, tableVars
<1>8. CASE \E p \in Payloads : Checkpoint(w, p)
  BY <1>8 DEF Checkpoint
<1> QED BY <1>4, <1>5, <1>6, <1>7, <1>8 DEF WorkerStep

(* The receipt's row lock.  A reset or a delete that has it is alone with  *)
(* it, whoever has it finds the receipt there, and a reset finds it as     *)
(* _lock_editable_receipt left it.                                         *)
LocksInv ==
  \A c \in Callers :
    /\ request[c].step = "locked" =>
         \A d \in Callers \ {c} : request[d].step \notin {"locked", "touched"}
    /\ request[c].step \in {"locked", "touched"} => Exists
    /\ At(c, "reset", "locked") => receipt.state \in Editable

LEMMA LocksNext == TypeOK /\ LocksInv /\ [Next]_vars => LocksInv'
<1> SUFFICES ASSUME TypeOK, LocksInv, [Next]_vars PROVE LocksInv'
  OBVIOUS
<1>0. receipt \in Receipts /\ request \in [Callers -> Asks]
  BY DEF TypeOK
<1>1. ASSUME UNCHANGED <<receipt, request>> PROVE LocksInv'
  BY <1>1 DEF LocksInv, Exists, At
<1>2. ASSUME NEW w \in Workers, WorkerStep(w) PROVE LocksInv'
  <2>1. UNCHANGED request
    BY <1>2 DEF WorkerStep, ReadReceipt, Supersede, Fetch, FetchRejects, TransientFail,
       Charge, QuotaBlock, Checkpoint, Recheck, InsertLines, Finish, EndTask
  <2>2. receipt'.state = receipt.state
    BY <1>0, <1>2 DEF WorkerStep, ReadReceipt, Supersede, Fetch, FetchRejects, TransientFail,
       Charge, QuotaBlock, Checkpoint, Recheck, InsertLines, Finish, Settle, MarkedFailed,
       Receipts, tableVars
  <2> QED BY <2>1, <2>2 DEF LocksInv, Exists, At
<1>3. ASSUME NEW c \in Callers, request' = [request EXCEPT ![c] = NoAsk],
             \/ receipt'.state = receipt.state
             \/ Exists /\ receipt'.state \in Editable \cup Final /\ ~Locked
             \/ ~Exists /\ receipt'.state \in Editable
             \/ At(c, "delete", "locked")
             \/ Exists /\ receipt'.state \in Editable \cup Final /\ At(c, "commit", "touched")
      PROVE  LocksInv'
  <2>1. request'[c].step = "idle" /\ \A d \in Callers \ {c} : request'[d] = request[d]
    BY <1>0, <1>3 DEF NoAsk
  <2>2. \A d \in Callers \ {c} : (At(d, "reset", "locked"))' => At(d, "reset", "locked")
    BY <2>1 DEF At
  <2>3. ~At(c, "reset", "locked")'
    BY <2>1 DEF At
  <2>4. (Exists /\ receipt'.state \in Editable \cup Final) => Exists'
    BY DEF Exists, Editable, Final
  <2>5. At(c, "delete", "locked") \/ At(c, "commit", "touched") =>
          request[c].step \in {"locked", "touched"}
    BY DEF At
  <2>6. ASSUME NEW d \in Callers PROVE (request[d].step \in {"locked", "touched"} => Exists)'
    BY <1>3, <2>1, <2>4, <2>5, <2>6 DEF LocksInv, Exists, At, Editable
  <2>7. ASSUME NEW d \in Callers PROVE (At(d, "reset", "locked") => receipt.state \in Editable)'
    BY <1>3, <2>1, <2>2, <2>3, <2>5, <2>7 DEF LocksInv, Exists, At, Editable, Locked
  <2>8. ASSUME NEW d \in Callers, request'[d].step = "locked", NEW e \in Callers \ {d}
        PROVE  request'[e].step \notin {"locked", "touched"}
    BY <2>1, <2>8 DEF LocksInv
  <2> QED BY <2>6, <2>7, <2>8 DEF LocksInv
<1>4. ASSUME NEW c \in Callers, NEW on \in Endpoints, NEW step \in {"read", "touched", "locked"},
             Goes(c, on, step),
             step = "locked" => MayLock,
             step \in {"locked", "touched"} => MayUpdate /\ Exists,
             on = "reset" => receipt.state \in Editable
      PROVE  LocksInv'
  <2>1. request'[c] = [on |-> on, step |-> step] /\ \A d \in Callers \ {c} : request'[d] = request[d]
    BY <1>0, <1>4 DEF Goes
  <2>2. UNCHANGED receipt
    BY <1>4 DEF Goes, tableVars
  <2>3. step \in {"locked", "touched"} =>
          \A d \in Callers : request[d].step # "locked" /\ (step = "locked" => request[d].step # "touched")
    BY <1>4 DEF MayLock, MayUpdate, Locked, Touched
  <2>4. ASSUME NEW d \in Callers, request'[d].step = "locked", NEW e \in Callers \ {d}
        PROVE  request'[e].step \notin {"locked", "touched"}
    BY <2>1, <2>3, <2>4 DEF LocksInv
  <2> QED BY <1>4, <2>1, <2>2, <2>4 DEF LocksInv, Exists, At
<1>5. ASSUME NEW c \in Callers, CallerStarts(c) PROVE LocksInv'
  <2>1. CASE ExtractRead(c) \/ DismissRead(c) \/ DeleteRead(c)
    BY <1>4, <2>1 DEF ExtractRead, DismissRead, DeleteRead, Endpoints
  <2>2. CASE ResetLock(c)
    BY <1>4, <2>2 DEF ResetLock, MayEdit, MayLock, Endpoints, Exists, Editable
  <2>3. CASE CommitTouch(c)
    BY <1>4, <2>3 DEF CommitTouch, Endpoints
  <2>4. CASE UpdateLine(c) \/ AddLine(c)
    BY <1>0, <1>3, <2>4 DEF UpdateLine, AddLine, Reviewed, Receipts, Answers
  <2>5. CASE Upload(c)
    <3>1. receipt'.state = receipt.state \/ receipt'.state = "draft"
      BY <2>5 DEF Upload, NoReceipt
    <3>2. Exists /\ receipt'.state = "draft" => ~Locked \/ TRUE
      OBVIOUS
    <3>3. request' = [request EXCEPT ![c] = NoAsk] /\ request[c] = NoAsk
      BY <2>5 DEF Upload, Answers
    <3>4. request' = request
      BY <1>0, <3>3
    <3>5. CASE receipt'.state = receipt.state
      BY <1>3, <3>3, <3>5
    <3>6. CASE receipt'.state = "draft"
      BY <3>4, <3>6 DEF LocksInv, Exists, At, Editable
    <3> QED BY <3>1, <3>5, <3>6
  <2> QED BY <1>5, <2>1, <2>2, <2>3, <2>4, <2>5 DEF CallerStarts
<1>6. ASSUME NEW c \in Callers, CallerGoesOn(c) PROVE LocksInv'
  <2>1. CASE ExtractWrite(c)
    <3>1. receipt'.state = receipt.state
      BY <1>0, <2>1 DEF ExtractWrite, Enqueue, Receipts
    <3> QED BY <1>3, <2>1, <3>1 DEF ExtractWrite, Answers
  <2>2. CASE ResetJobs(c)
    <3>1. receipt'.state = receipt.state
      BY <1>0, <2>2 DEF ResetJobs, Enqueue, Receipts
    <3> QED BY <1>3, <2>2, <3>1 DEF ResetJobs, Answers
  <2>3. CASE DismissWrite(c)
    <3>1. \/ receipt'.state = receipt.state
          \/ Exists /\ receipt'.state \in {"dismissed", "cancelled"}
      BY <1>0, <2>3 DEF DismissWrite, Receipts
    <3> QED BY <1>3, <2>3, <3>1 DEF DismissWrite, Answers, MayUpdate, Final
  <2>4. CASE DeleteLock(c)
    <3>1. CASE Exists
      <4>1. Goes(c, "delete", "locked") /\ MayLock
        BY <2>4, <3>1 DEF DeleteLock
      <4> QED BY <1>4, <3>1, <4>1 DEF MayLock, Endpoints
    <3>2. CASE ~Exists
      BY <1>3, <2>4, <3>2 DEF DeleteLock, Answers
    <3> QED BY <3>1, <3>2
  <2>5. CASE DeleteRows(c)
    BY <1>3, <2>5 DEF DeleteRows, Answers
  <2>6. CASE CommitReceipt(c)
    <3>1. At(c, "commit", "touched") /\ Exists
      BY <2>6 DEF CommitReceipt, LocksInv, At
    <3>2. receipt'.state = receipt.state \/ receipt'.state = "committed"
      BY <1>0, <2>6 DEF CommitReceipt, Reviewed, Receipts
    <3> QED BY <1>3, <2>6, <3>1, <3>2 DEF CommitReceipt, Answers, Final
  <2> QED BY <1>6, <2>1, <2>2, <2>3, <2>4, <2>5, <2>6 DEF CallerGoesOn
<1>7. ASSUME NEW w \in Workers, NEW c \in Callers, CallerLoses(w, c) PROVE LocksInv'
  BY <1>3, <1>7 DEF CallerLoses, tableVars
<1>8. ASSUME \/ \E w \in Workers : Claim(w) \/ Crash(w)
             \/ \E w \in Workers, c \in Callers : WorkerLoses(w, c)
             \/ Midnight \/ UNCHANGED vars
      PROVE  LocksInv'
  BY <1>1, <1>8 DEF Claim, Crash, WorkerLoses, Midnight, vars, tableVars
<1> QED BY <1>2, <1>5, <1>6, <1>7, <1>8 DEF Next

(* What a request writes: it enqueues a job, first superseding those that  *)
(* are open or leaving every row as it is, or deletes the receipt.         *)
LEMMA CallerEffect ==
  ASSUME WorkInv, LocksInv, NEW c \in Callers, CallerStarts(c) \/ CallerGoesOn(c)
  PROVE  \/ /\ UNCHANGED job
            /\ \/ UNCHANGED receipt
               \/ ~receipt'.blocked /\ receipt'.extraction # "pending"
               \/ /\ UNCHANGED <<receipt.extraction, receipt.blocked>> /\ Exists
         \/ \E j \in Unused :
              /\ job' = [job EXCEPT ![j] = NewJob] \/ job' = [Superseded EXCEPT ![j] = NewJob]
         \/ receipt'.state = "deleted"
<1>1. receipt \in Receipts /\ job \in [Jobs -> JobRows]
  BY DEF WorkInv, TypeOK
<1>2. CASE \/ ExtractRead(c) \/ ResetLock(c) \/ DismissRead(c) \/ DeleteRead(c)
           \/ DeleteLock(c) \/ CommitTouch(c)
  BY <1>2 DEF ExtractRead, ResetLock, DismissRead, DeleteRead, DeleteLock, CommitTouch,
              Goes, Answers, tableVars
<1>3. CASE Upload(c)
  BY <1>3 DEF Upload, NoReceipt
<1>4. CASE UpdateLine(c) \/ AddLine(c)
  BY <1>1, <1>4 DEF UpdateLine, AddLine, MayEdit, Editable, Exists, Reviewed, Receipts
<1>5. CASE DismissWrite(c)
  BY <1>1, <1>5 DEF DismissWrite, Receipts
<1>6. CASE CommitReceipt(c)
  <2>1. UNCHANGED job /\ Exists
    BY <1>6 DEF CommitReceipt, LocksInv, At
  <2>2. UNCHANGED <<receipt.extraction, receipt.blocked>>
    BY <1>1, <1>6 DEF CommitReceipt, Reviewed, Receipts
  <2> QED BY <2>1, <2>2
<1>7. CASE ExtractWrite(c)
  <2>1. CASE Exists
    <3>1. Enqueue(job, receipt)
      BY <1>7, <2>1 DEF ExtractWrite
    <3> QED BY <1>1, <3>1, EnqueueFacts
  <2>2. CASE ~Exists
    BY <1>7, <2>2 DEF ExtractWrite
  <2> QED BY <2>1, <2>2
<1>8. CASE ResetJobs(c)
  <2> DEFINE row == [receipt EXCEPT !.review = FALSE]
  <2>1. Enqueue(Superseded, row) /\ row \in Receipts /\ Superseded \in [Jobs -> JobRows]
    BY <1>1, <1>8, SupersededRows DEF ResetJobs, Receipts
  <2> QED BY <2>1, EnqueueFacts
<1>9. CASE DeleteRows(c)
  BY <1>9, Rows DEF DeleteRows, NoReceipt
<1> QED BY <1>2, <1>3, <1>4, <1>5, <1>6, <1>7, <1>8, <1>9 DEF CallerStarts, CallerGoesOn

-----------------------------------------------------------------------------
(* The theorems. *)

(* Who does what in one step, for the theorems below.                      *)
LEMMA StepCases ==
  ASSUME [Next]_vars
  PROVE  \/ \E w \in Workers : Claim(w)
         \/ \E w \in Workers : WorkerStep(w)
         \/ \E c \in Callers : CallerStarts(c) \/ CallerGoesOn(c)
         \/ UNCHANGED <<photo, receipt, line, moved, job, discarded>>
BY DEF Next, Crash, WorkerLoses, CallerLoses, Midnight, vars, tableVars

LEMMA ClaimEffect ==
  ASSUME WorkInv, NEW w \in Workers, Claim(w)
  PROVE  /\ UNCHANGED <<photo, receipt, line, moved, discarded>>
         /\ \A k \in Jobs : \/ job'[k] = job[k]
                            \/ job[k].status \in Open /\ job'[k].status = "processing"
<1>1. PICK j \in Claimable :
        job' = [job EXCEPT ![j].status = "processing", ![j].lease = w]
  BY DEF Claim
<1>2. j \in Jobs /\ job[j].status \in Open
  BY DEF Claimable, Open
<1>3. job[j] \in JobRows
  BY <1>2 DEF WorkInv, TypeOK
<1>4. \A k \in Jobs \ {j} : job'[k] = job[k]
  BY <1>1, <1>2 DEF WorkInv, TypeOK
<1>5. job'[j].status = "processing"
  BY <1>1, <1>2, <1>3 DEF WorkInv, TypeOK, JobRows
<1> QED BY <1>2, <1>4, <1>5 DEF Claim

(* A request never changes the status of a job that is over, unless it     *)
(* deletes the receipt.                                                    *)
LEMMA OverKept ==
  ASSUME WorkInv, LocksInv, [Next]_vars, NEW j \in Jobs, job[j].status \in Over,
         receipt'.state # "deleted"
  PROVE  job'[j].status = job[j].status
<1>1. job[j].status \notin Open /\ job[j].status \notin {"absent", "processing"}
  BY DEF Over, Open
<1>2. ASSUME NEW w \in Workers, Claim(w) PROVE job'[j].status = job[j].status
  BY <1>1, <1>2, ClaimEffect
<1>3. ASSUME NEW w \in Workers, WorkerStep(w) PROVE job'[j].status = job[j].status
  BY <1>1, <1>3, WorkerEffect
<1>4. ASSUME NEW c \in Callers, CallerStarts(c) \/ CallerGoesOn(c)
      PROVE  job'[j].status = job[j].status
  <2>1. UNCHANGED job \/ \E k \in Unused :
          job' = [job EXCEPT ![k] = NewJob] \/ job' = [Superseded EXCEPT ![k] = NewJob]
    BY <1>4, CallerEffect
  <2>2. CASE UNCHANGED job
    BY <2>2
  <2>3. ASSUME NEW k \in Unused,
               job' = [job EXCEPT ![k] = NewJob] \/ job' = [Superseded EXCEPT ![k] = NewJob]
        PROVE  job'[j].status = job[j].status
    <3>1. j # k
      BY <1>1 DEF Unused, Known
    <3>2. Superseded[j] = job[j] /\ j \in DOMAIN Superseded /\ j \in DOMAIN job
      BY <1>1, SupersededRows DEF WorkInv, TypeOK
    <3> QED BY <2>3, <3>1, <3>2
  <2> QED BY <2>1, <2>2, <2>3
<1> QED BY <1>2, <1>3, <1>4, StepCases

LEMMA LocksInit == Init => LocksInv
BY DEF Init, LocksInv, NoAsk, At

(* A job that is superseded, complete or has failed for good keeps that    *)
(* status as long as the receipt exists, whatever worker or request still  *)
(* thinks it has it (extraction_worker.py, _terminal's fence).             *)
THEOREM OverForGood == Spec => OverStaysOver
<1>1. WorkInv /\ LocksInv /\ [Next]_vars
        => [\A j \in Jobs : job[j].status \in Over /\ receipt'.state # "deleted"
              => job'[j].status = job[j].status]_vars
  BY OverKept
<1>2. WorkInv => TypeOK
  BY DEF WorkInv
<1> QED BY <1>1, <1>2, WorkInit, WorkNext, LocksInit, LocksNext, PTL DEF Spec, OverStaysOver

LEMMA WaitingNext == WorkInv /\ LocksInv /\ WaitingHasJob /\ [Next]_vars => WaitingHasJob'
<1> SUFFICES ASSUME WorkInv, LocksInv, WaitingHasJob, [Next]_vars,
                    Exists', receipt'.extraction = "pending" \/ receipt'.blocked
             PROVE  \E j \in Jobs : job'[j].status \in Open
  BY DEF WaitingHasJob
<1>1. ASSUME NEW w \in Workers, Claim(w) PROVE \E j \in Jobs : job'[j].status \in Open
  <2>1. UNCHANGED receipt
    BY <1>1, ClaimEffect
  <2>2. PICK j \in Jobs : job[j].status \in Open
    BY <2>1 DEF WaitingHasJob, Exists
  <2>3. job'[j].status \in Open
    BY <1>1, <2>2, ClaimEffect DEF Open
  <2> QED BY <2>3
<1>2. ASSUME NEW w \in Workers, WorkerStep(w) PROVE \E j \in Jobs : job'[j].status \in Open
  <2>1. CASE UNCHANGED <<job, receipt>>
    BY <2>1 DEF WaitingHasJob, Exists
  <2>2. CASE task[w].job \in Jobs /\ job'[task[w].job].status \in Open
    BY <2>2
  <2>3. receipt'.extraction \in {"complete", "failed", "superseded"} /\ ~receipt'.blocked => FALSE
    OBVIOUS
  <2> QED BY <1>2, <2>1, <2>2, <2>3, WorkerEffect
<1>3. ASSUME NEW c \in Callers, CallerStarts(c) \/ CallerGoesOn(c)
      PROVE  \E j \in Jobs : job'[j].status \in Open
  <2>1. CASE UNCHANGED job /\ Exists /\ UNCHANGED <<receipt.extraction, receipt.blocked>>
    BY <2>1 DEF WaitingHasJob
  <2>2. CASE UNCHANGED <<job, receipt>>
    BY <2>2 DEF WaitingHasJob, Exists
  <2>3. ASSUME NEW j \in Unused,
               job' = [job EXCEPT ![j] = NewJob] \/ job' = [Superseded EXCEPT ![j] = NewJob]
        PROVE  \E k \in Jobs : job'[k].status \in Open
    <3>1. j \in Jobs /\ job'[j] = NewJob
      BY <2>3, SupersededRows DEF Unused, WorkInv, TypeOK
    <3> QED BY <3>1, Rows DEF Open
  <2>4. receipt'.state # "deleted"
    BY DEF Exists
  <2> QED BY <1>3, <2>1, <2>2, <2>3, <2>4, CallerEffect
<1>4. CASE UNCHANGED <<photo, receipt, line, moved, job, discarded>>
  BY <1>4 DEF WaitingHasJob, Exists
<1> QED BY <1>1, <1>2, <1>3, <1>4, StepCases

(* A receipt shown as waiting, for a worker or for tomorrow's quota, has a *)
(* job that is not over: no failure, reset or supersession leaves it       *)
(* waiting for nothing (repo.py, enqueue_job and mark_extraction_status).  *)
THEOREM WaitingIsServed == Spec => []WaitingHasJob
<1>1. Init => WaitingHasJob
  BY DEF Init, WaitingHasJob, Exists, NoReceipt
<1>2. WorkInv => TypeOK
  BY DEF WorkInv
<1> QED BY <1>1, <1>2, WorkInit, WorkNext, LocksInit, LocksNext, WaitingNext, PTL DEF Spec

(* The lines a worker writes are its own, unlinked, and all at once.       *)
LEMMA WorkerLines ==
  ASSUME WorkInv, NEW w \in Workers, WorkerStep(w)
  PROVE  /\ UNCHANGED <<photo, moved, discarded>> /\ receipt'.state = receipt.state
         /\ \/ UNCHANGED line
            \/ /\ Holds(w) /\ task[w].job \in Jobs
               /\ job[task[w].job].status = "processing"
               /\ line' = [line EXCEPT ![task[w].job] = Scanned]
<1>1. UNCHANGED <<photo, moved, discarded>>
  BY DEF WorkerStep, ReadReceipt, Supersede, Fetch, FetchRejects, TransientFail,
     Charge, QuotaBlock, Checkpoint, Recheck, InsertLines, Finish, EndTask, tableVars
<1>2. receipt'.state = receipt.state
  BY WorkerEffect
<1>3. CASE Finish(w)
  <2>1. /\ task[w].job \in Jobs
        /\ Holds(w) => job[task[w].job].status = "processing"
    BY <1>3 DEF WorkInv, TypeOK, TasksOnJobs, HeldInHand, Finish
  <2> QED BY <1>1, <1>2, <1>3, <2>1 DEF Finish, tableVars
<1>4. CASE ~Finish(w)
  BY <1>1, <1>2, <1>4 DEF WorkerStep, ReadReceipt, Supersede, Fetch, FetchRejects,
     TransientFail, Charge, QuotaBlock, Checkpoint, Recheck, InsertLines, tableVars
<1> QED BY <1>3, <1>4

LEMMA CommittedNext == WorkInv /\ CommittedMoves /\ [Next]_vars => CommittedMoves'
<1> SUFFICES ASSUME WorkInv, CommittedMoves, [Next]_vars, receipt'.state = "committed"
             PROVE  Movable' \subseteq moved'
  BY DEF CommittedMoves
<1>0. line \in [Lines -> LineRows] /\ receipt \in Receipts
  BY DEF WorkInv, TypeOK
<1>1. ASSUME UNCHANGED moved, receipt.state = "committed",
             \A l \in Lines : line'[l] = line[l] \/ line'[l] = NoLine \/ line'[l] = Scanned
      PROVE  Movable' \subseteq moved'
  BY <1>1 DEF CommittedMoves, Movable, Present, NoLine, Scanned
<1>2. ASSUME NEW w \in Workers, Claim(w) PROVE Movable' \subseteq moved'
  BY <1>1, <1>2, ClaimEffect
<1>3. ASSUME NEW w \in Workers, WorkerStep(w) PROVE Movable' \subseteq moved'
  <2>1. UNCHANGED moved /\ receipt.state = "committed"
    BY <1>3, WorkerLines
  <2>2. \A l \in Lines : line'[l] = line[l] \/ line'[l] = Scanned
    BY <1>0, <1>3, WorkerLines
  <2> QED BY <1>1, <2>1, <2>2
<1>4. ASSUME NEW c \in Callers, CallerStarts(c) PROVE Movable' \subseteq moved'
  <2>1. CASE UpdateLine(c) \/ AddLine(c)
    <3>1. receipt.state = "draft" /\ receipt'.state = receipt.state
      BY <1>0, <2>1 DEF UpdateLine, AddLine, MayEdit, Editable, Reviewed, Receipts
    <3> QED BY <3>1
  <2>2. CASE Upload(c)
    <3>1. UNCHANGED <<moved, line>> /\ receipt.state = "committed"
      BY <2>2 DEF Upload, NoReceipt
    <3> QED BY <1>1, <3>1
  <2>3. CASE ExtractRead(c) \/ ResetLock(c) \/ DismissRead(c) \/ DeleteRead(c) \/ CommitTouch(c)
    <3>1. UNCHANGED <<moved, line, receipt>>
      BY <2>3 DEF ExtractRead, ResetLock, DismissRead, DeleteRead, CommitTouch, Goes, tableVars
    <3> QED BY <1>1, <3>1
  <2> QED BY <1>4, <2>1, <2>2, <2>3 DEF CallerStarts
<1>5. ASSUME NEW c \in Callers, CallerGoesOn(c) PROVE Movable' \subseteq moved'
  <2>1. CASE CommitReceipt(c)
    <3>1. CASE receipt.state = "committed"
      BY <1>1, <2>1, <3>1 DEF CommitReceipt
    <3>2. CASE receipt.state # "committed"
      <4>1. moved' = moved \cup Movable /\ UNCHANGED line
        BY <2>1, <3>2 DEF CommitReceipt
      <4> QED BY <4>1 DEF Movable, Present
    <3> QED BY <3>1, <3>2
  <2>2. CASE DismissWrite(c)
    <3>1. UNCHANGED <<moved, line>> /\ receipt.state = "committed"
      BY <1>0, <2>2 DEF DismissWrite, Receipts
    <3> QED BY <1>1, <3>1
  <2>3. CASE ExtractWrite(c) \/ ResetJobs(c) \/ DeleteRows(c) \/ DeleteLock(c)
    <3>1. CASE receipt'.state = receipt.state
      BY <1>0, <1>1, <2>3, <3>1
         DEF ExtractWrite, ResetJobs, DeleteRows, DeleteLock, Goes, Answers, tableVars
    <3>2. CASE receipt'.state # receipt.state
      BY <1>0, <2>3, <3>2
         DEF ExtractWrite, ResetJobs, DeleteRows, DeleteLock, Goes, Answers, tableVars,
             Enqueue, Receipts, NoReceipt
    <3> QED BY <3>1, <3>2
  <2> QED BY <1>5, <2>1, <2>2, <2>3 DEF CallerGoesOn
<1>6. CASE UNCHANGED <<photo, receipt, line, moved, job, discarded>>
  BY <1>1, <1>6
<1> QED BY <1>2, <1>3, <1>4, <1>5, <1>6, StepCases

(* A committed receipt has the receive movement of every line that moves   *)
(* stock, although lines are edited, extracted and discarded up to the     *)
(* moment the commit has the row (services.py, commit_receipt and          *)
(* _lock_editable_receipt).                                                *)
THEOREM CommitMovesEveryLine == Spec => []CommittedMoves
<1>1. Init => CommittedMoves
  BY DEF Init, CommittedMoves, NoReceipt
<1> QED BY <1>1, WorkInit, WorkNext, CommittedNext, PTL DEF Spec

(* What a reset left behind is over or went with the receipt, and a        *)
(* receipt that is gone does not come back under its photograph.           *)
DiscardInv ==
  /\ receipt.state # "absent" => photo
  /\ \A j \in discarded :
       /\ line[j] = NoLine
       /\ \/ job[j].status \in Over
          \/ job[j].status = "absent" /\ receipt.state = "deleted"

LEMMA DiscardNext == WorkInv /\ LocksInv /\ DiscardInv /\ [Next]_vars => DiscardInv'
<1> SUFFICES ASSUME WorkInv, LocksInv, DiscardInv, [Next]_vars PROVE DiscardInv'
  OBVIOUS
<1>0. /\ line \in [Lines -> LineRows] /\ receipt \in Receipts /\ job \in [Jobs -> JobRows]
      /\ discarded \subseteq Jobs /\ Jobs \subseteq Lines
  BY Constants DEF WorkInv, TypeOK
<1>1. CASE UNCHANGED <<photo, receipt, line, moved, job, discarded>>
  BY <1>1 DEF DiscardInv
<1>2. ASSUME NEW w \in Workers, Claim(w) PROVE DiscardInv'
  <2>1. \A j \in discarded : job[j].status \notin Open
    BY DEF DiscardInv, Over, Open
  <2>2. \A j \in discarded : job'[j] = job[j]
    BY <1>0, <1>2, <2>1, ClaimEffect
  <2> QED BY <1>2, <2>2, ClaimEffect DEF DiscardInv
<1>3. ASSUME NEW w \in Workers, WorkerStep(w) PROVE DiscardInv'
  <2>1. Holds(w) => task[w].job \notin discarded \/ job[task[w].job].status # "processing"
    BY DEF DiscardInv, Over
  <2>2. \A j \in discarded : job'[j] = job[j]
    BY <1>0, <1>3, <2>1, WorkerEffect
  <2>3. \A j \in discarded : line'[j] = line[j]
    BY <1>0, <1>3, <2>1, WorkerLines
  <2> QED BY <1>3, <2>2, <2>3, WorkerLines DEF DiscardInv
<1>4. ASSUME NEW c \in Callers, CallerStarts(c) PROVE DiscardInv'
  <2>1. UNCHANGED <<job, discarded>>
    BY <1>4 DEF CallerStarts, Upload, ExtractRead, UpdateLine, AddLine, ResetLock,
       DismissRead, DeleteRead, CommitTouch, Goes, tableVars
  <2>2. CASE Upload(c)
    <3>1. photo' /\ ~photo /\ UNCHANGED line
      BY <2>2 DEF Upload
    <3>2. receipt.state = "absent"
      BY <3>1 DEF DiscardInv
    <3> QED BY <2>1, <3>1, <3>2 DEF DiscardInv
  <2>3. CASE UpdateLine(c) \/ AddLine(c)
    <3>1. photo' = photo /\ receipt'.state = receipt.state
      BY <1>0, <2>3 DEF UpdateLine, AddLine, Reviewed, Receipts
    <3>2. \A j \in discarded : j \notin Present /\ j \notin Typed
      BY <1>0, Constants DEF DiscardInv, Present, NoLine
    <3>3. \A j \in discarded : line'[j] = line[j]
      BY <1>0, <2>3, <3>2 DEF UpdateLine, AddLine
    <3> QED BY <2>1, <3>1, <3>3 DEF DiscardInv
  <2>4. CASE ExtractRead(c) \/ ResetLock(c) \/ DismissRead(c) \/ DeleteRead(c) \/ CommitTouch(c)
    BY <1>1, <2>1, <2>4
       DEF ExtractRead, ResetLock, DismissRead, DeleteRead, CommitTouch, Goes, tableVars
  <2> QED BY <1>4, <2>2, <2>3, <2>4 DEF CallerStarts
<1>5. ASSUME NEW c \in Callers, CallerGoesOn(c) PROVE DiscardInv'
  <2>0. /\ At(c, "reset", "locked") \/ At(c, "delete", "locked") \/ At(c, "commit", "touched") => Exists
        /\ Exists => photo /\ receipt.state # "absent" /\ receipt.state # "deleted"
        /\ photo' = photo
    BY <1>5 DEF LocksInv, DiscardInv, At, Exists, CallerGoesOn, ExtractWrite, ResetJobs,
       DismissWrite, DeleteLock, DeleteRows, CommitReceipt, Goes, tableVars
  <2>1. CASE DismissWrite(c) \/ CommitReceipt(c)
    <3>1. /\ UNCHANGED <<job, line, discarded>>
          /\ receipt'.state = receipt.state \/ Exists
      BY <1>0, <2>0, <2>1 DEF DismissWrite, CommitReceipt
    <3> QED BY <2>0, <3>1 DEF DiscardInv, Over
  <2>2. CASE ExtractWrite(c)
    <3>1. CASE Exists
      <4>1. PICK j \in Unused : job' = [job EXCEPT ![j] = NewJob]
        BY <1>0, <2>2, <3>1, EnqueueFacts DEF ExtractWrite
      <4>2. j \notin discarded
        BY <2>0, <3>1 DEF DiscardInv, Unused, Known, Over
      <4>3. \A k \in discarded : job'[k] = job[k] /\ line'[k] = NoLine
        BY <1>0, <2>2, <3>1, <4>1, <4>2 DEF ExtractWrite
      <4> QED BY <2>0, <2>2, <3>1, <4>3 DEF DiscardInv, ExtractWrite
    <3>2. CASE ~Exists
      BY <1>1, <2>2, <3>2 DEF ExtractWrite, Answers, DiscardInv
    <3> QED BY <3>1, <3>2
  <2>3. CASE ResetJobs(c)
    <3>1. Exists /\ discarded' = Known /\ \A j \in Jobs : line'[j] = NoLine
      BY <1>0, <2>0, <2>3 DEF ResetJobs
    <3>2. PICK j \in Unused : job' = [Superseded EXCEPT ![j] = NewJob]
      <4> DEFINE row == [receipt EXCEPT !.review = FALSE]
      <4>1. Enqueue(Superseded, row) /\ row \in Receipts /\ Superseded \in [Jobs -> JobRows]
        BY <1>0, <2>3, SupersededRows DEF ResetJobs, Receipts
      <4> QED BY <4>1, EnqueueFacts
    <3>3. \A k \in Known : job'[k].status \in Over
      <4>1. SUFFICES ASSUME NEW k \in Known PROVE job'[k].status \in Over
        OBVIOUS
      <4>2. k \in Jobs /\ k # j /\ job[k].status # "absent" /\ job[k] \in JobRows
        BY <1>0, <3>2 DEF Known, Unused
      <4>3. job'[k] = Superseded[k]
        BY <3>2, <4>2, SupersededRows
      <4> QED BY <4>2, <4>3, SupersededRows DEF JobRows, Over
    <3> QED BY <2>0, <3>1, <3>3 DEF DiscardInv, Known
  <2>4. CASE DeleteRows(c)
    <3>1. /\ photo' /\ receipt'.state = "deleted" /\ UNCHANGED discarded
          /\ \A j \in Jobs : line'[j] = NoLine /\ job'[j].status = "absent"
      BY <1>0, <2>0, <2>4, Rows DEF DeleteRows, NoReceipt
    <3> QED BY <1>0, <3>1 DEF DiscardInv
  <2>5. CASE DeleteLock(c)
    BY <1>1, <2>5 DEF DeleteLock, Goes, tableVars, Answers
  <2> QED BY <1>5, <2>1, <2>2, <2>3, <2>4, <2>5 DEF CallerGoesOn
<1> QED BY <1>1, <1>2, <1>3, <1>4, <1>5, StepCases

(* reset_extraction is a clean start: no line of a job it discarded shows  *)
(* up again, even when its worker already has the LLM's answer and waits   *)
(* for the receipt's row (services.py, reset_extraction).                  *)
THEOREM ResetIsFinal == Spec => []DiscardedStaysGone
<1>1. Init => DiscardInv
  BY DEF Init, DiscardInv, NoReceipt
<1>2. DiscardInv => DiscardedStaysGone
  BY DEF DiscardInv, DiscardedStaysGone
<1>3. WorkInv => TypeOK
  BY DEF WorkInv
<1> QED BY <1>1, <1>2, <1>3, WorkInit, WorkNext, LocksInit, LocksNext, DiscardNext, PTL DEF Spec

-----------------------------------------------------------------------------
(* The receipt implements ReceiptLife.                                     *)

tickets == [j \in Jobs |-> Ticket(j)]
rows    == [l \in Lines |-> Row(l)]

(* A job goes with its receipt, and its line comes with its end.           *)
JobsOfReceipt == \A j \in Jobs : job[j].status # "absent" => Exists
LinesOfEnded  == \A j \in Jobs : j \in Present => job[j].status = "complete"
LifeInv       == JobsOfReceipt /\ LinesOfEnded

LEMMA LineSet == Lines = Jobs \cup Typed
BY DEF Lines

LEMMA SameJobs ==
  ASSUME \A j \in Jobs : job'[j] = job[j]
  PROVE  tickets' = tickets
BY DEF tickets, Ticket

LEMMA OneJob ==
  ASSUME NEW j \in Jobs, \A k \in Jobs \ {j} : job'[k] = job[k]
  PROVE  tickets' = [tickets EXCEPT ![j] = Ticket(j)']
<1>1. \A k \in Jobs \ {j} : Ticket(k)' = Ticket(k)
  BY DEF Ticket
<1> QED BY <1>1 DEF tickets

LEMMA SameLines == ASSUME UNCHANGED line PROVE rows' = rows /\ Present' = Present /\ Movable' = Movable
BY DEF rows, Row, Movable, Present

LEMMA RowOf ==
  \A l \in Lines :
    /\ Row(l) = "none" <=> l \notin Present
    /\ Row(l) = "moves" <=> l \in Movable
    /\ Row(l) \in {"none", "shown", "moves"}
BY DEF Row, Movable, Present

LEMMA OneLine ==
  ASSUME NEW l \in Lines, NEW value, line \in [Lines -> LineRows],
         line' = [line EXCEPT ![l] = value]
  PROVE  /\ rows' = [rows EXCEPT ![l] = Row(l)']
         /\ \A k \in Lines \ {l} : k \in Present' <=> k \in Present
         /\ l \in Present' <=> value.match # "absent"
BY DEF rows, Row, Movable, Present

(* What a step of a worker amounts to: nothing, or the end of a reading,   *)
(* a retry or a wait for quota, of a job it holds.                         *)
Ended(j, status, extraction) ==
  /\ job'[j].status = status
  /\ receipt'.extraction = extraction /\ ~receipt'.blocked

LEMMA SettleEnds ==
  ASSUME WorkInv, NEW w \in Workers, task[w].step # "idle",
         NEW status \in Over, NEW extraction, Settle(w, status, extraction)
  PROVE  \/ UNCHANGED <<job, receipt>>
         \/ /\ Holds(w) /\ task[w].job \in Jobs
            /\ \A k \in Jobs \ {task[w].job} : job'[k] = job[k]
            /\ Ended(task[w].job, status, extraction) /\ receipt'.state = receipt.state
<1>1. /\ task[w].job \in Jobs /\ job[task[w].job] \in JobRows /\ receipt \in Receipts
      /\ job \in [Jobs -> JobRows]
  BY DEF WorkInv, TypeOK, TasksOnJobs
<1>2. CASE Holds(w)
  <2> DEFINE new == [job[task[w].job] EXCEPT !.status = status, !.raw = task[w].payload]
  <2>1. new.status = status
    BY <1>1 DEF JobRows
  <2>2. job' = [job EXCEPT ![task[w].job] = new]
    BY <1>1, <1>2 DEF Settle
  <2>3. receipt'.extraction = extraction /\ ~receipt'.blocked /\ receipt'.state = receipt.state
    BY <1>1, <1>2 DEF Settle, Receipts
  <2> HIDE DEF new
  <2> QED BY <1>1, <1>2, <2>1, <2>2, <2>3 DEF Ended
<1>3. CASE ~Holds(w)
  BY <1>3 DEF Settle
<1> QED BY <1>2, <1>3

Reading(w) ==
  LET j == task[w].job IN
  /\ Holds(w) /\ j \in Jobs /\ \A k \in Jobs \ {j} : job'[k] = job[k]
  /\ UNCHANGED moved /\ receipt'.state = receipt.state
  /\ \/ job'[j].status = "failed" /\ UNCHANGED <<receipt, line>>
     \/ job'[j].status = "quota_blocked" /\ receipt'.extraction = "pending" /\ UNCHANGED line
     \/ Ended(j, "failed_terminal", "failed") /\ UNCHANGED line
     \/ Ended(j, "superseded", "superseded") /\ UNCHANGED line
     \/ Ended(j, "complete", "complete") /\ UNCHANGED line
     \/ Ended(j, "complete", "complete") /\ line' = [line EXCEPT ![j] = Scanned]

LEMMA WorkerReads ==
  ASSUME WorkInv, NEW w \in Workers, WorkerStep(w)
  PROVE  UNCHANGED <<job, receipt, line, moved>> \/ Reading(w)
<1>1. task[w].step # "idle"
  BY DEF WorkerStep, ReadReceipt, Supersede, Fetch, FetchRejects, TransientFail, Charge,
         QuotaBlock, Checkpoint, Recheck, InsertLines, Finish
<1>2. /\ task[w].job \in Jobs /\ job[task[w].job] \in JobRows /\ receipt \in Receipts
      /\ job \in [Jobs -> JobRows]
  BY <1>1 DEF WorkInv, TypeOK, TasksOnJobs
<1>3. CASE ReadReceipt(w) \/ Fetch(w) \/ Charge(w) \/ Recheck(w) \/ InsertLines(w)
  BY <1>3 DEF ReadReceipt, Fetch, Charge, Recheck, InsertLines, tableVars
<1>4. CASE \E p \in Payloads : Checkpoint(w, p)
  BY <1>4 DEF Checkpoint, EndTask
<1>5. CASE Supersede(w)
  BY <1>1, <1>5, SettleEnds DEF Supersede, EndTask, Over, Reading
<1>6. CASE FetchRejects(w)
  BY <1>1, <1>6, SettleEnds DEF FetchRejects, EndTask, Over, Reading
<1>7. CASE Finish(w)
  <2>1. CASE Holds(w)
    <3>1. Settle(w, "complete", "complete") /\ UNCHANGED moved
      BY <1>7, <2>1 DEF Finish, EndTask
    <3>2. UNCHANGED line \/ line' = [line EXCEPT ![task[w].job] = Scanned]
      BY <1>7, <2>1 DEF Finish
    <3>3. MayUpdate /\ job'[task[w].job].status = "complete"
      BY <1>2, <2>1, <3>1 DEF Settle, JobRows
    <3>4. ~UNCHANGED job
      BY <1>1, <2>1, <3>3 DEF WorkInv, HeldInHand
    <3> QED BY <1>1, <3>1, <3>2, <3>4, SettleEnds DEF Over, Reading
  <2>2. CASE ~Holds(w)
    BY <1>7, <2>2 DEF Finish, tableVars
  <2> QED BY <2>1, <2>2
<1>8. CASE TransientFail(w)
  <2>1. UNCHANGED <<line, moved>>
    BY <1>8 DEF TransientFail, EndTask
  <2>2. CASE ~Holds(w)
    BY <1>8, <2>1, <2>2 DEF TransientFail
  <2>3. CASE Holds(w) /\ Retries(task[w].attempts + 1)
    <3> DEFINE new == [job[task[w].job] EXCEPT !.status = "failed",
                         !.attempts = task[w].attempts + 1, !.lease = NoWorker]
    <3>1. new.status = "failed"
      BY <1>2 DEF JobRows
    <3>2. job' = [job EXCEPT ![task[w].job] = new] /\ UNCHANGED receipt
      BY <1>2, <1>8, <2>3 DEF TransientFail
    <3> HIDE DEF new
    <3> QED BY <1>2, <2>1, <2>3, <3>1, <3>2 DEF Reading
  <2>4. CASE Holds(w) /\ ~Retries(task[w].attempts + 1)
    <3> DEFINE new == [job[task[w].job] EXCEPT !.status = "failed_terminal",
                         !.attempts = task[w].attempts + 1]
    <3>1. new.status = "failed_terminal"
      BY <1>2 DEF JobRows
    <3>2. job' = [job EXCEPT ![task[w].job] = new] /\ receipt' = MarkedFailed
      BY <1>2, <1>8, <2>4 DEF TransientFail
    <3>3. receipt'.extraction = "failed" /\ ~receipt'.blocked /\ receipt'.state = receipt.state
      BY <1>2, <3>2 DEF MarkedFailed, Receipts
    <3> HIDE DEF new
    <3> QED BY <1>2, <2>1, <2>4, <3>1, <3>2, <3>3 DEF Reading, Ended
  <2> QED BY <2>2, <2>3, <2>4
<1>9. CASE QuotaBlock(w)
  <2>1. UNCHANGED <<line, moved>>
    BY <1>9 DEF QuotaBlock, EndTask
  <2>2. CASE ~Holds(w)
    BY <1>9, <2>1, <2>2 DEF QuotaBlock
  <2>3. CASE Holds(w)
    <3> DEFINE new == [job[task[w].job] EXCEPT !.status = "quota_blocked",
                                               !.until = task[w].today + 1]
    <3>1. new.status = "quota_blocked"
      BY <1>2 DEF JobRows
    <3>2. job' = [job EXCEPT ![task[w].job] = new]
      BY <1>2, <1>9, <2>3 DEF QuotaBlock
    <3>3. receipt'.extraction = "pending" /\ receipt'.state = receipt.state
      BY <1>2, <1>9, <2>3 DEF QuotaBlock, Receipts
    <3> HIDE DEF new
    <3> QED BY <1>2, <2>1, <2>3, <3>1, <3>2, <3>3 DEF Reading
  <2> QED BY <2>2, <2>3
<1> QED BY <1>3, <1>4, <1>5, <1>6, <1>7, <1>8, <1>9 DEF WorkerStep
LEMMA ReadingRefines ==
  ASSUME WorkInv, LifeInv, NEW w \in Workers, task[w].step # "idle", Reading(w)
  PROVE  LifeInv' /\ [Life!LifeNext]_(Life!lifeVars)
<1> PICK j \in Jobs : j = task[w].job
  BY DEF Reading
<1>1. /\ Holds(w) /\ \A k \in Jobs \ {j} : job'[k] = job[k]
      /\ UNCHANGED moved /\ receipt'.state = receipt.state
      /\ \/ job'[j].status = "failed" /\ UNCHANGED <<receipt, line>>
         \/ job'[j].status = "quota_blocked" /\ receipt'.extraction = "pending" /\ UNCHANGED line
         \/ Ended(j, "failed_terminal", "failed") /\ UNCHANGED line
         \/ Ended(j, "superseded", "superseded") /\ UNCHANGED line
         \/ Ended(j, "complete", "complete") /\ UNCHANGED line
         \/ Ended(j, "complete", "complete") /\ line' = [line EXCEPT ![j] = Scanned]
  BY DEF Reading
<1>2. job[j].status = "processing" /\ Exists /\ Exists' /\ j \notin Present
  BY <1>1 DEF WorkInv, HeldInHand, LifeInv, JobsOfReceipt, LinesOfEnded, Exists
<1>3. JobsOfReceipt'
  BY <1>2 DEF JobsOfReceipt
<1>4. /\ tickets' = [tickets EXCEPT ![j] = Ticket(j)'] /\ tickets[j] = "owed"
      /\ tickets \in [Jobs -> {"none", "owed", "complete", "failed", "void"}]
      /\ rows[j] = "none" /\ j \in Lines /\ line \in [Lines -> LineRows]
  BY <1>1, <1>2, OneJob, RowOf, Constants DEF tickets, Ticket, Open, rows, WorkInv, TypeOK
<1>5. CASE job'[j].status = "failed" /\ UNCHANGED <<receipt, line>>
  <2>1. rows' = rows /\ Present' = Present
    BY <1>5, SameLines
  <2>2. Ticket(j)' = "owed" /\ View' = View
    BY <1>5 DEF Ticket, Open, View, Exists
  <2>3. tickets' = tickets
    BY <1>4, <2>2
  <2>4. LinesOfEnded'
    BY <1>1, <1>2, <2>1 DEF LifeInv, LinesOfEnded
  <2> QED BY <1>1, <1>3, <2>1, <2>2, <2>3, <2>4 DEF LifeInv, Life!lifeVars, tickets, rows
<1>6. CASE job'[j].status = "quota_blocked" /\ receipt'.extraction = "pending" /\ UNCHANGED line
  <2>1. rows' = rows /\ Present' = Present
    BY <1>6, SameLines
  <2>2. Ticket(j)' = "owed" /\ View' = "waiting"
    BY <1>2, <1>6 DEF Ticket, Open, View
  <2>3. tickets' = tickets
    BY <1>4, <2>2
  <2>4. LinesOfEnded'
    BY <1>1, <1>2, <2>1 DEF LifeInv, LinesOfEnded
  <2>5. Life!Postponed(j)
    BY <1>1, <1>4, <2>1, <2>2, <2>3 DEF Life!Postponed, tickets, rows
  <2> QED BY <1>3, <2>4, <2>5 DEF LifeInv, Life!LifeNext
<1>7. ASSUME NEW status \in {"failed_terminal", "superseded", "complete"},
             NEW told \in {"failed", "superseded", "complete"}, Ended(j, status, told),
             NEW as, as = Ticket(j)'
      PROVE  Life!Ends(j, as, told)
  <2>1. View' = told
    BY <1>2, <1>7 DEF Ended, View
  <2> QED BY <1>1, <1>4, <1>7, <2>1 DEF Life!Ends, tickets
<1>8. CASE /\ UNCHANGED line
           /\ \/ Ended(j, "failed_terminal", "failed")
              \/ Ended(j, "superseded", "superseded")
              \/ Ended(j, "complete", "complete")
  <2>1. rows' = rows /\ Present' = Present
    BY <1>8, SameLines
  <2>2. LinesOfEnded'
    BY <1>1, <1>2, <2>1 DEF LifeInv, LinesOfEnded
  <2>3. CASE Ended(j, "failed_terminal", "failed")
    <3>1. Ticket(j)' = "failed"
      BY <2>3 DEF Ended, Ticket, Open
    <3>2. Life!Failed(j)
      BY <1>7, <2>1, <2>3, <3>1 DEF Life!Failed, rows
    <3> QED BY <1>3, <2>2, <3>2 DEF LifeInv, Life!LifeNext
  <2>4. CASE Ended(j, "superseded", "superseded")
    <3>1. Ticket(j)' = "void"
      BY <2>4 DEF Ended, Ticket, Open
    <3>2. Life!Outrun(j)
      BY <1>7, <2>1, <2>4, <3>1 DEF Life!Outrun, rows
    <3> QED BY <1>3, <2>2, <3>2 DEF LifeInv, Life!LifeNext
  <2>5. CASE Ended(j, "complete", "complete")
    <3>1. Ticket(j)' = "complete"
      BY <2>5 DEF Ended, Ticket, Open
    <3>2. Life!FoundNone(j)
      BY <1>7, <2>1, <2>5, <3>1 DEF Life!FoundNone, rows
    <3> QED BY <1>3, <2>2, <3>2 DEF LifeInv, Life!LifeNext
  <2> QED BY <1>8, <2>3, <2>4, <2>5
<1>9. CASE Ended(j, "complete", "complete") /\ line' = [line EXCEPT ![j] = Scanned]
  <2>1. /\ rows' = [rows EXCEPT ![j] = Row(j)']
        /\ \A k \in Lines \ {j} : k \in Present' <=> k \in Present
    BY <1>4, <1>9, OneLine
  <2>2. Row(j)' = "shown"
    BY <1>4, <1>9 DEF Row, Movable, Present, Scanned
  <2>3. Ticket(j)' = "complete" /\ job'[j].status = "complete"
    BY <1>9 DEF Ended, Ticket, Open
  <2>4. LinesOfEnded'
    BY <1>1, <2>1, <2>3, Constants DEF LifeInv, LinesOfEnded
  <2>5. Life!Found(j)
    BY <1>4, <1>7, <1>9, <2>1, <2>2, <2>3 DEF Life!Found, rows
  <2> QED BY <1>3, <2>4, <2>5 DEF LifeInv, Life!LifeNext
<1> QED BY <1>1, <1>5, <1>6, <1>8, <1>9

(* Nothing the receipt's reader sees has changed.                          *)
LEMMA UnseenSteps ==
  ASSUME LifeInv, UNCHANGED <<receipt, line, moved>>,
         \A j \in Jobs : Ticket(j)' = Ticket(j) /\ (job'[j].status = job[j].status
                           \/ {job[j].status, job'[j].status} \subseteq Open)
  PROVE  LifeInv' /\ UNCHANGED Life!lifeVars
<1>1. tickets' = tickets
  BY DEF tickets
<1>2. rows' = rows /\ Present' = Present
  BY SameLines
<1>3. View' = View /\ Exists' = Exists
  BY DEF View, Exists
<1>4. LifeInv'
  BY <1>2, <1>3 DEF LifeInv, JobsOfReceipt, LinesOfEnded, Open
<1> QED BY <1>1, <1>2, <1>3, <1>4 DEF Life!lifeVars, tickets, rows

LEMMA ClaimUnseen ==
  ASSUME WorkInv, LifeInv, NEW w \in Workers, Claim(w)
  PROVE  LifeInv' /\ UNCHANGED Life!lifeVars
<1>1. \A j \in Jobs : \/ job'[j] = job[j]
                      \/ job[j].status \in Open /\ job'[j].status = "processing"
  BY ClaimEffect
<1>2. \A j \in Jobs : Ticket(j)' = Ticket(j) /\ (job'[j].status = job[j].status
                        \/ {job[j].status, job'[j].status} \subseteq Open)
  BY <1>1 DEF Ticket, Open
<1> QED BY <1>2, ClaimEffect, UnseenSteps

LEMMA QuietUnseen ==
  ASSUME LifeInv, UNCHANGED <<job, receipt, line, moved>>
  PROVE  LifeInv' /\ UNCHANGED Life!lifeVars
<1>1. \A j \in Jobs : Ticket(j)' = Ticket(j) /\ job'[j].status = job[j].status
  BY DEF Ticket
<1> QED BY <1>1, UnseenSteps

LEMMA UploadRefines ==
  ASSUME WorkInv, LifeInv, receipt.state # "absent" => photo, NEW c \in Callers, Upload(c)
  PROVE  LifeInv' /\ [Life!LifeNext]_(Life!lifeVars)
<1>1. UNCHANGED <<job, line, moved>> /\ receipt.state = "absent"
  BY DEF Upload
<1>2. CASE UNCHANGED receipt
  BY <1>1, <1>2, QuietUnseen
<1>3. CASE receipt' = [NoReceipt EXCEPT !.state = "draft"]
  <2>1. receipt'.state = "draft" /\ View' = "none" /\ View = "none"
    BY <1>1, <1>3 DEF View, Exists, NoReceipt
  <2>2. tickets' = tickets /\ rows' = rows /\ Present' = Present
    BY <1>1, SameJobs, SameLines
  <2>3. Exists'
    BY <2>1 DEF Exists
  <2>4. LifeInv'
    BY <1>1, <2>2, <2>3 DEF LifeInv, JobsOfReceipt, LinesOfEnded
  <2>5. Life!Photograph
    BY <1>1, <2>1, <2>2 DEF Life!Photograph, tickets, rows
  <2> QED BY <2>4, <2>5 DEF Life!LifeNext
<1> QED BY <1>2, <1>3 DEF Upload

LEMMA EditRefines ==
  ASSUME WorkInv, LifeInv, NEW c \in Callers, UpdateLine(c) \/ AddLine(c)
  PROVE  LifeInv' /\ [Life!LifeNext]_(Life!lifeVars)
<1>1. /\ receipt \in Receipts /\ line \in [Lines -> LineRows] /\ UNCHANGED <<job, moved>>
      /\ receipt.state = "draft" /\ receipt' = [receipt EXCEPT !.review = TRUE]
  BY DEF WorkInv, TypeOK, UpdateLine, AddLine, MayEdit, Editable, Reviewed
<1>2. PICK l \in Lines, new \in [match : {"unmatched", "matched", "skipped"}, item : BOOLEAN,
                                 corrected : BOOLEAN] :
        line' = [line EXCEPT ![l] = new] /\ (l \in Present \/ l \in Typed)
  <2>1. CASE UpdateLine(c)
    <3>1. PICK l \in Present : \E new \in Patched(line[l]) : line' = [line EXCEPT ![l] = new]
      BY <2>1 DEF UpdateLine
    <3>2. l \in Lines /\ line[l] \in LineRows /\ line[l].match # "absent"
      BY <1>1, <3>1 DEF Present
    <3>3. ASSUME NEW new \in Patched(line[l])
          PROVE  new \in [match : {"unmatched", "matched", "skipped"}, item : BOOLEAN,
                          corrected : BOOLEAN]
      <4>1. PICK m \in {"unmatched", "matched", "skipped"}, i \in BOOLEAN, k \in BOOLEAN :
              line[l] = [match |-> m, item |-> i, corrected |-> k]
        BY <3>2 DEF LineRows
      <4>2. \/ new = [match |-> "matched", item |-> TRUE, corrected |-> TRUE]
            \/ new = [match |-> "unmatched", item |-> FALSE, corrected |-> FALSE]
            \/ new = [match |-> m, item |-> i, corrected |-> TRUE]
            \/ new = [match |-> "skipped", item |-> i, corrected |-> k]
            \/ new = [match |-> IF i THEN "matched" ELSE "unmatched",
                      item |-> i, corrected |-> k]
        BY <3>3, <4>1 DEF Patched
      <4> PICK as \in {"unmatched", "matched", "skipped"}, linked \in BOOLEAN, read \in BOOLEAN :
            new = [match |-> as, item |-> linked, corrected |-> read]
        BY <4>1, <4>2, Zenon
      <4> QED OBVIOUS
    <3> QED BY <3>1, <3>2, <3>3
  <2>2. CASE AddLine(c)
    <3>1. PICK l \in Typed, linked \in BOOLEAN :
            line' = [line EXCEPT ![l] = [match |-> IF linked THEN "matched" ELSE "unmatched",
                                         item |-> linked, corrected |-> linked]]
      BY <2>2 DEF AddLine
    <3> QED BY <3>1, Constants
  <2> QED BY <2>1, <2>2
<1>3. /\ rows' = [rows EXCEPT ![l] = Row(l)']
      /\ \A k \in Lines \ {l} : k \in Present' <=> k \in Present
      /\ l \in Present'
  BY <1>1, <1>2, OneLine
<1>4. Row(l)' \in {"shown", "moves"}
  BY <1>3 DEF Row, Present
<1>5. /\ receipt'.state = receipt.state /\ View' = View /\ Exists' = Exists
      /\ tickets' = tickets
  BY <1>1, SameJobs DEF Receipts, View, Exists
<1>6. LifeInv'
  BY <1>1, <1>2, <1>3, <1>5, Constants DEF LifeInv, JobsOfReceipt, LinesOfEnded
<1>7. rows[l] # "none" \/ l \in Typed
  BY <1>2, RowOf DEF rows
<1>8. Life!Edit(l)
  BY <1>1, <1>3, <1>4, <1>5, <1>7 DEF Life!Edit, tickets, rows
<1> QED BY <1>6, <1>8, LineSet DEF Life!LifeNext

(* A reading is asked for under a number no job has.                       *)
LEMMA Enqueued ==
  ASSUME NEW table \in [Jobs -> JobRows], NEW new \in Receipts, Enqueue(table, new)
  PROVE  \E j \in Unused :
           /\ job' = [table EXCEPT ![j] = NewJob]
           /\ receipt'.extraction = "pending" /\ receipt'.state = new.state
BY DEF Enqueue, Receipts

LEMMA AskRefines ==
  ASSUME WorkInv, LifeInv, NEW c \in Callers, ExtractWrite(c)
  PROVE  LifeInv' /\ [Life!LifeNext]_(Life!lifeVars)
<1>1. /\ receipt \in Receipts /\ line \in [Lines -> LineRows] /\ job \in [Jobs -> JobRows]
      /\ UNCHANGED moved
  BY DEF WorkInv, TypeOK, ExtractWrite
<1>2. CASE ~Exists
  BY <1>1, <1>2, QuietUnseen DEF ExtractWrite
<1>3. CASE Exists
  <2>1. line' = [l \in Lines |-> IF l \in Jobs THEN NoLine ELSE line[l]] /\ Enqueue(job, receipt)
    BY <1>3 DEF ExtractWrite
  <2>2. PICK j \in Unused : /\ job' = [job EXCEPT ![j] = NewJob]
                            /\ receipt'.extraction = "pending" /\ receipt'.state = receipt.state
    BY <1>1, <2>1, Enqueued
  <2>3. j \in Jobs /\ job[j].status = "absent" /\ job'[j] = NewJob
        /\ \A k \in Jobs \ {j} : job'[k] = job[k]
    BY <1>1, <2>2 DEF Unused, Known
  <2>4. tickets' = [tickets EXCEPT ![j] = "owed"] /\ tickets[j] = "none"
    <3>1. Ticket(j)' = "owed" /\ Ticket(j) = "none"
      BY <2>3, Rows DEF Ticket, Open
    <3> QED BY <2>3, <3>1, OneJob DEF tickets
  <2>5. Exists' /\ View' = "waiting"
    BY <1>3, <2>2 DEF Exists, View
  <2>6. \A l \in Lines : Row(l)' = IF l \in Jobs THEN "none" ELSE Row(l)
    BY <2>1 DEF Row, Movable, Present, NoLine
  <2>7. rows' = [l \in Jobs \cup Typed |-> IF l \in Jobs THEN "none" ELSE rows[l]]
    BY <2>6, LineSet DEF rows
  <2>8. \A l \in Jobs : l \notin Present'
    BY <2>1, Constants DEF Present, NoLine
  <2>9. LifeInv'
    BY <2>5, <2>8 DEF LifeInv, JobsOfReceipt, LinesOfEnded
  <2>10. Life!Here
    BY <1>3 DEF Life!Here, Exists
  <2>11. Life!Ask(j)
    BY <1>1, <2>2, <2>3, <2>4, <2>5, <2>7, <2>10 DEF Life!Ask, tickets, rows
  <2> QED BY <2>3, <2>9, <2>11 DEF Life!LifeNext
<1> QED BY <1>2, <1>3

LEMMA StartOverRefines ==
  ASSUME WorkInv, LocksInv, LifeInv, NEW c \in Callers, ResetJobs(c)
  PROVE  LifeInv' /\ [Life!LifeNext]_(Life!lifeVars)
<1>1. /\ receipt \in Receipts /\ job \in [Jobs -> JobRows] /\ UNCHANGED moved
      /\ receipt.state = "draft" /\ line' = [l \in Lines |-> NoLine]
  BY DEF WorkInv, TypeOK, ResetJobs, LocksInv, Editable
<1> DEFINE new == [receipt EXCEPT !.review = FALSE]
<1>2. new \in Receipts /\ new.state = receipt.state /\ Superseded \in [Jobs -> JobRows]
      /\ Enqueue(Superseded, new)
  BY <1>1, SupersededRows DEF ResetJobs, Receipts
<1> HIDE DEF new
<1>3. PICK j \in Unused : /\ job' = [Superseded EXCEPT ![j] = NewJob]
                          /\ receipt'.extraction = "pending" /\ receipt'.state = "draft"
  BY <1>1, <1>2, Enqueued
<1>4. /\ j \in Jobs /\ job[j].status = "absent" /\ job'[j] = NewJob
      /\ \A k \in Jobs \ {j} : job'[k] = Superseded[k]
  BY <1>1, <1>2, <1>3 DEF Unused, Known
<1>5. Ticket(j)' = "owed" /\ tickets[j] = "none"
  BY <1>4, Rows DEF Ticket, Open, tickets
<1>6. \A k \in Jobs \ {j} : Ticket(k)' = IF Ticket(k) = "owed" THEN "void" ELSE Ticket(k)
  <2> TAKE k \in Jobs \ {j}
  <2>1. CASE job[k].status \in Open
    <3>1. job'[k].status = "superseded"
      BY <1>1, <1>4, <2>1 DEF Superseded, JobRows
    <3> QED BY <2>1, <3>1 DEF Ticket, Open
  <2>2. CASE job[k].status \notin Open
    <3>1. job'[k] = job[k]
      BY <1>4, <2>2 DEF Superseded
    <3> QED BY <2>2, <3>1 DEF Ticket
  <2> QED BY <2>1, <2>2
<1>7. tickets' = [k \in Jobs |-> IF k = j THEN "owed"
                                 ELSE IF tickets[k] = "owed" THEN "void" ELSE tickets[k]]
  BY <1>5, <1>6 DEF tickets
<1>8. Exists' /\ View' = "waiting"
  BY <1>3 DEF Exists, View
<1>9. \A l \in Lines : Row(l)' = "none" /\ l \notin Present'
  BY <1>1 DEF Row, Movable, Present, NoLine
<1>10. rows' = [l \in Jobs \cup Typed |-> "none"]
  BY <1>9, LineSet DEF rows
<1>11. LifeInv'
  BY <1>8, <1>9, Constants DEF LifeInv, JobsOfReceipt, LinesOfEnded
<1>12. Life!StartOver(j)
  BY <1>1, <1>3, <1>4, <1>5, <1>7, <1>8, <1>10 DEF Life!StartOver, tickets, rows
<1> QED BY <1>4, <1>11, <1>12 DEF Life!LifeNext

LEMMA CloseRefines ==
  ASSUME WorkInv, LifeInv, NEW c \in Callers, DismissWrite(c)
  PROVE  LifeInv' /\ [Life!LifeNext]_(Life!lifeVars)
<1>1. receipt \in Receipts /\ UNCHANGED <<line, moved, job>>
  BY DEF WorkInv, TypeOK, DismissWrite
<1>2. CASE UNCHANGED receipt
  BY <1>1, <1>2, QuietUnseen
<1>3. ASSUME NEW state \in {"dismissed", "cancelled"}, Exists,
             receipt' = [receipt EXCEPT !.state = state]
      PROVE  LifeInv' /\ [Life!LifeNext]_(Life!lifeVars)
  <2>1. receipt'.state = state /\ Exists' /\ View' = View
    BY <1>1, <1>3 DEF Receipts, Exists, View
  <2>2. tickets' = tickets /\ rows' = rows /\ Present' = Present
    BY <1>1, SameJobs, SameLines
  <2>3. LifeInv'
    BY <1>1, <2>1, <2>2 DEF LifeInv, JobsOfReceipt, LinesOfEnded
  <2>4. Life!Close
    BY <1>1, <1>3, <2>1, <2>2 DEF Life!Close, Life!Here, Exists, tickets, rows
  <2> QED BY <2>3, <2>4 DEF Life!LifeNext
<1> QED BY <1>2, <1>3 DEF DismissWrite

LEMMA DeleteRefines ==
  ASSUME WorkInv, LocksInv, LifeInv, NEW c \in Callers, DeleteRows(c)
  PROVE  LifeInv' /\ [Life!LifeNext]_(Life!lifeVars)
<1>1. Exists /\ UNCHANGED moved
  BY DEF LocksInv, DeleteRows, At
<1>2. receipt'.state = "deleted" /\ View' = "none"
  BY DEF DeleteRows, NoReceipt, View, Exists
<1>3. \A j \in Jobs : job'[j].status = "absent" /\ Ticket(j)' = "none"
  <2>1. \A j \in Jobs : job'[j].status = "absent"
    BY DEF DeleteRows, NoJob
  <2> QED BY <2>1 DEF Ticket, Open
<1>4. \A l \in Lines : Row(l)' = "none" /\ l \notin Present'
  BY DEF DeleteRows, Row, Movable, Present, NoLine
<1>5. tickets' = [j \in Jobs |-> "none"] /\ rows' = [l \in Jobs \cup Typed |-> "none"]
  BY <1>3, <1>4, LineSet DEF tickets, rows
<1>6. LifeInv'
  BY <1>3, <1>4, Constants DEF LifeInv, JobsOfReceipt, LinesOfEnded
<1>7. Life!Delete
  BY <1>1, <1>2, <1>5 DEF Life!Delete, Life!Here, Exists, tickets, rows
<1> QED BY <1>6, <1>7 DEF Life!LifeNext

LEMMA CommitRefines ==
  ASSUME WorkInv, LocksInv, LifeInv, NEW c \in Callers, CommitReceipt(c)
  PROVE  LifeInv' /\ [Life!LifeNext]_(Life!lifeVars)
<1>1. /\ receipt \in Receipts /\ Exists /\ UNCHANGED <<line, job>>
  BY DEF WorkInv, TypeOK, CommitReceipt, LocksInv, At
<1>2. tickets' = tickets /\ rows' = rows /\ Present' = Present
  BY <1>1, SameJobs, SameLines
<1>3. CASE UNCHANGED <<receipt, moved>>
  BY <1>1, <1>3, QuietUnseen
<1>4. CASE Reviewed /\ UNCHANGED moved
  <2>1. receipt'.state = receipt.state /\ View' = View /\ Exists' = Exists
    BY <1>1, <1>4 DEF Reviewed, Receipts, View, Exists
  <2>2. LifeInv'
    BY <1>1, <1>2, <2>1 DEF LifeInv, JobsOfReceipt, LinesOfEnded
  <2> QED BY <1>2, <1>4, <2>1, <2>2 DEF Life!lifeVars, tickets, rows
<1>5. CASE /\ receipt.state # "committed" /\ Movable # {}
           /\ receipt' = [receipt EXCEPT !.state = "committed", !.review = TRUE]
           /\ moved' = moved \cup Movable
  <2>1. receipt'.state = "committed" /\ View' = View /\ Exists'
    BY <1>1, <1>5 DEF Receipts, View, Exists
  <2>2. LifeInv'
    BY <1>1, <1>2, <2>1 DEF LifeInv, JobsOfReceipt, LinesOfEnded
  <2>3. Life!Moving = Movable
    BY RowOf, LineSet DEF Life!Moving, Movable, Present
  <2>4. Life!Commit
    BY <1>1, <1>2, <1>5, <2>1, <2>3 DEF Life!Commit, Life!Here, Exists, tickets, rows
  <2> QED BY <2>2, <2>4 DEF Life!LifeNext
<1> QED BY <1>3, <1>4, <1>5 DEF CommitReceipt, Passes

LEMMA LifeStep ==
  WorkInv /\ LocksInv /\ DiscardInv /\ LifeInv /\ [Next]_vars
    => LifeInv' /\ [Life!LifeNext]_(Life!lifeVars)
<1> SUFFICES ASSUME WorkInv, LocksInv, DiscardInv, LifeInv, [Next]_vars
             PROVE  LifeInv' /\ [Life!LifeNext]_(Life!lifeVars)
  OBVIOUS
<1>1. CASE \E w \in Workers : Claim(w)
  BY <1>1, ClaimUnseen
<1>2. ASSUME NEW w \in Workers, WorkerStep(w)
      PROVE  LifeInv' /\ [Life!LifeNext]_(Life!lifeVars)
  <2>1. task[w].step # "idle"
    BY <1>2 DEF WorkerStep, ReadReceipt, Supersede, Fetch, FetchRejects, TransientFail,
       Charge, QuotaBlock, Checkpoint, Recheck, InsertLines, Finish
  <2> QED BY <1>2, <2>1, WorkerReads, QuietUnseen, ReadingRefines
<1>3. ASSUME NEW c \in Callers, CallerStarts(c)
      PROVE  LifeInv' /\ [Life!LifeNext]_(Life!lifeVars)
  <2>1. CASE ExtractRead(c) \/ ResetLock(c) \/ DismissRead(c) \/ DeleteRead(c) \/ CommitTouch(c)
    BY <2>1, QuietUnseen
       DEF ExtractRead, ResetLock, DismissRead, DeleteRead, CommitTouch, Goes, tableVars
  <2>2. receipt.state # "absent" => photo
    BY DEF DiscardInv
  <2> QED BY <1>3, <2>1, <2>2, UploadRefines, EditRefines DEF CallerStarts
<1>4. ASSUME NEW c \in Callers, CallerGoesOn(c)
      PROVE  LifeInv' /\ [Life!LifeNext]_(Life!lifeVars)
  <2>1. CASE DeleteLock(c)
    BY <2>1, QuietUnseen DEF DeleteLock, Goes, tableVars
  <2> QED BY <1>4, <2>1, AskRefines, StartOverRefines, CloseRefines, DeleteRefines,
             CommitRefines DEF CallerGoesOn
<1>5. CASE UNCHANGED <<photo, receipt, line, moved, job, discarded>>
  BY <1>5, QuietUnseen
<1> QED BY <1>1, <1>2, <1>3, <1>4, <1>5, StepCases

LEMMA LifeInitially == Init => LifeInv /\ Life!LifeInit
<1> SUFFICES ASSUME Init PROVE LifeInv /\ Life!LifeInit
  OBVIOUS
<1>1. receipt.state = "absent" /\ View = "none" /\ moved = {}
  BY DEF Init, NoReceipt, View, Exists
<1>2. \A j \in Jobs : job[j].status = "absent"
  BY DEF Init, NoJob
<1>3. \A j \in Jobs : Ticket(j) = "none"
  BY <1>2 DEF Ticket, Open
<1>4. \A l \in Lines : Row(l) = "none" /\ l \notin Present
  BY DEF Init, Row, Movable, Present, NoLine
<1> QED BY <1>1, <1>2, <1>3, <1>4, LineSet, Constants DEF LifeInv, JobsOfReceipt, LinesOfEnded, Life!LifeInit

(* The receipt implements ReceiptLife, for any number of workers, requests *)
(* and faults: each reading ends once and shows its line as it ends, a     *)
(* reset voids what is owed, lines change in a draft only, and a commit    *)
(* receives what is shown.                                                 *)
THEOREM ReceiptImplementsLife == Spec => ImplementsLife
<1>1. Init => DiscardInv
  BY DEF Init, DiscardInv, NoReceipt
<1>2. WorkInv => TypeOK
  BY DEF WorkInv
<1> QED BY <1>1, <1>2, WorkInit, WorkNext, LocksInit, LocksNext, DiscardNext, LifeInitially,
           LifeStep, PTL DEF Spec, ImplementsLife, Life!LifeSpec
=============================================================================
