-------------------------- MODULE SaleLedgerProofs --------------------------
(* What the pipeline owes to its deployment as a single inbox worker, and  *)
(* that it then implements SaleLedger: for every number of orders, lines,  *)
(* versions, crashes and replays.                                          *)
EXTENDS SalePipelineProofs

-----------------------------------------------------------------------------
(* With nobody else around, what process_line read is still so when it     *)
(* writes.                                                                 *)
ViewsFresh ==
  \A w \in Workers :
    job[w].step = "write" =>
      /\ line[job[w].view.line].status = "pending"
      /\ line[job[w].view.line].refunded = job[w].view.refunded

SoloInv == ViewsFresh /\ StatusMatchesLedger /\ RefundNetsToZero

(* The two ways WriteLine can go.                                          *)
Taken(l) ==
  /\ line[l].status = "pending" /\ line'[l].status = "depleted"
  /\ ~line[l].refunded /\ ~line'[l].refunded
  /\ line'[l].frozen = line[l].frozen
  /\ line[l].frozen["base"] # Unset
  /\ \A s \in Sources : /\ ledger'[l][s].back = ledger[l][s].back
                       /\ ledger'[l][s].out = IF s \in Plan(l) THEN 1
                                              ELSE ledger[l][s].out

Declined(l) ==
  /\ line[l].status = "pending" /\ line'[l].status \in {"failed", "unmapped"}
  /\ line'[l].refunded = line[l].refunded
  /\ ledger'[l] = ledger[l]

LEMMA VerdictMeaning ==
  ASSUME NEW v, Verdict(v).status = "depleted"
  PROVE  ~v.refunded /\ line[v.line].frozen["base"] # Unset
BY DEF Verdict, Ineligibility

LEMMA SoloWrite ==
  ASSUME PipeInv, ViewsFresh, NEW w \in Workers, WriteLine(w)
  PROVE  LET l == job[w].view.line
         IN  /\ l \in Lines
             /\ Taken(l) \/ Declined(l)
             /\ \A k \in Lines \ {l} : Untouched(k)
<1> DEFINE v == job[w].view
           l == v.line
           S == IF Verdict(v).status = "depleted" THEN Plan(l) ELSE {}
<1>1. l \in Lines
  BY DEF WriteLine, At, PipeInv, WorkOnRecorded, JobOnRecorded, Views
<1>2. line[l].status = "pending" /\ line[l].refunded = v.refunded
  BY DEF WriteLine, At, ViewsFresh
<1>3. \A k \in Lines \ {l} : Untouched(k)
  BY <1>1 DEF WriteLine, Post, PipeInv, TypeOK, Untouched
<1>4. /\ line'[l].status = Verdict(v).status
      /\ line'[l].refunded = line[l].refunded
      /\ line'[l].frozen = line[l].frozen
  BY <1>1 DEF WriteLine, PipeInv, TypeOK, LineRows
<1>5. ledger'[l] = [s \in Sources |-> IF s \in S /\ ledger[l][s].out = 0
                                      THEN [ledger[l][s] EXCEPT !.out = 1]
                                      ELSE ledger[l][s]]
  BY <1>1 DEF WriteLine, Post, PipeInv, TypeOK
<1>6. CASE Verdict(v).status = "depleted"
  <2>1. ~v.refunded /\ line[l].frozen["base"] # Unset
    BY <1>6, VerdictMeaning
  <2>2. S = Plan(l)
    BY <1>6
  <2> HIDE DEF S, l, v
  <2>3. ASSUME NEW s \in Sources
        PROVE  /\ ledger'[l][s].back = ledger[l][s].back
               /\ ledger'[l][s].out = IF s \in S THEN 1 ELSE ledger[l][s].out
    <3> DEFINE row == ledger[l][s]
    <3>1. row \in [out : 0 .. 1, back : 0 .. 1]
      BY <1>1 DEF PipeInv, TypeOK
    <3>2. ledger'[l][s] = IF s \in S /\ row.out = 0 THEN [row EXCEPT !.out = 1] ELSE row
      BY <1>5
    <3> HIDE DEF row
    <3>3. /\ ledger'[l][s].back = row.back
          /\ ledger'[l][s].out = IF s \in S THEN 1 ELSE row.out
      BY <3>1, <3>2
    <3> QED BY <3>3 DEF row
  <2>4. Taken(l)
    BY <1>2, <1>4, <1>6, <2>1, <2>2, <2>3 DEF Taken
  <2> QED BY <1>1, <1>3, <2>4 DEF l, v
<1>7. CASE Verdict(v).status # "depleted"
  <2>1. Verdict(v).status \in {"failed", "unmapped"}
    BY <1>7, VerdictTypes DEF Terminal
  <2>2. ledger'[l] = ledger[l]
    <3>1. S = {}
      BY <1>7
    <3>2. ledger[l] = [s \in Sources |-> ledger[l][s]]
      BY <1>1 DEF PipeInv, TypeOK
    <3> HIDE DEF S, l
    <3> QED BY <1>5, <3>1, <3>2
  <2>3. Declined(l)
    <3> HIDE DEF l, v
    <3> QED BY <1>2, <1>4, <2>1, <2>2 DEF Declined
  <2> QED BY <1>1, <1>3, <2>3
<1> QED BY <1>6, <1>7

(* Only the worker touches the tables.                                     *)
LEMMA OnlyWorkWrites ==
  ASSUME [Next]_vars
  PROVE  \/ UNCHANGED tableVars
         \/ \E w \in Workers : \/ Ingest(w)
                               \/ \E l \in Lines : RefundLine(w, l)
                               \/ WriteLine(w)
BY DEF Next, vars, saleVars, tableVars, Sell, Confirm, Unconfirm,
       ListLocked, QueueStep, Obtain, FetchFails, CrashWorker, Work,
       SkipOpen, Scan, ReadLine, LineFault, Finish, GiveUp

(* Where a job can come to be at "write".                                  *)
LEMMA LeavesWrite ==
  ASSUME PipeInv, NEW w \in Workers,
         \/ SkipOpen(w) \/ Ingest(w) \/ Scan(w) \/ WriteLine(w) \/ Finish(w)
         \/ GiveUp(w) \/ CrashWorker(w)
         \/ \E l \in Lines : RefundLine(w, l) \/ LineFault(w, l)
  PROVE  job'[w].step # "write"
<1>1. job[w] \in Jobs /\ job = [v \in Workers |-> job[v]]
  BY DEF PipeInv, TypeOK
<1>2. CASE SkipOpen(w) \/ Finish(w) \/ GiveUp(w) \/ CrashWorker(w)
  BY <1>1, <1>2 DEF SkipOpen, Finish, GiveUp, CrashWorker, Clear, Rest
<1>3. CASE Ingest(w) \/ Scan(w) \/ \E l \in Lines : RefundLine(w, l)
  <2>1. \E step \in {"refund", "deplete"} : \E todo : Goto(w, step, todo)
    BY <1>3 DEF Ingest, Scan, RefundLine
  <2> QED BY <1>1, <2>1 DEF Goto, Jobs
<1>4. CASE WriteLine(w)
  BY <1>1, <1>4 DEF WriteLine, Jobs
<1>5. ASSUME NEW l \in Lines, LineFault(w, l) PROVE job'[w].step # "write"
  BY <1>1, <1>5 DEF LineFault, Jobs
<1> QED BY <1>2, <1>3, <1>4, <1>5

LEMMA WriteComesFromRead ==
  ASSUME PipeInv, [Next]_vars, NEW w \in Workers, job'[w].step = "write"
  PROVE  \/ job'[w] = job[w]
         \/ \E l \in Lines : ReadLine(w, l)
<1>1. CASE UNCHANGED job
  BY <1>1
<1>2. ASSUME NEW v \in Workers, Work(v) \/ CrashWorker(v)
      PROVE  \/ job'[w] = job[w]
             \/ \E l \in Lines : ReadLine(w, l)
  <2>1. CASE v = w
    BY <1>2, <2>1, LeavesWrite DEF Work
  <2>2. CASE v # w
    BY <1>2, <2>2 DEF Work, CrashWorker, SkipOpen, Ingest, RefundLine, Scan, WriteLine,
       LineFault, Finish, GiveUp, Goto, Clear, ReadLine, PipeInv, TypeOK
  <2> QED BY <2>1, <2>2
<1>3. CASE ~ \E v \in Workers : Work(v) \/ CrashWorker(v)
  BY <1>1, <1>3 DEF Next, vars, saleVars, Sell, Confirm, Unconfirm,
                    ListLocked, QueueStep, Obtain, FetchFails
<1> QED BY <1>2, <1>3

LEMMA FreshNext ==
  ASSUME SingleWorker, PipeInv, PipeInv', ViewsFresh, [Next]_vars
  PROVE  ViewsFresh'
<1> SUFFICES ASSUME NEW w \in Workers, job'[w].step = "write"
             PROVE  /\ line'[job'[w].view.line].status = "pending"
                    /\ line'[job'[w].view.line].refunded = job'[w].view.refunded
  BY DEF ViewsFresh
<1>1. CASE \E l \in Lines : ReadLine(w, l)
  <2> PICK l \in Lines : ReadLine(w, l)
    BY <1>1
  <2>1. line' = line
    BY DEF ReadLine, tableVars
  <2>2. line[l].status # "absent" /\ line[l].status \in Statuses
    BY DEF ReadLine, PipeInv, TypeOK, LineRows, WorkOnRecorded, JobOnRecorded, Recorded
  <2>3. line[l].status \notin Terminal
    BY DEF ReadLine, PipeInv, TypeOK, Jobs, At
  <2>4. job'[w].view.line = l /\ job'[w].view.refunded = line[l].refunded
    BY <2>3 DEF ReadLine, PipeInv, TypeOK, Jobs
  <2> QED BY <2>1, <2>2, <2>3, <2>4 DEF Statuses
<1>2. CASE job'[w] = job[w] /\ ~ \E l \in Lines : ReadLine(w, l)
  <2>1. line' = line
    <3>1. \A v \in Workers : v = w
      BY DEF SingleWorker
    <3>2. \A v \in Workers : ~Ingest(v) /\ ~WriteLine(v)
                             /\ \A l \in Lines : ~RefundLine(v, l)
      BY <1>2, <3>1, LeavesWrite
    <3> QED BY <3>2, OnlyWorkWrites DEF tableVars
  <2> QED BY <1>2, <2>1 DEF ViewsFresh
<1> QED BY <1>1, <1>2, WriteComesFromRead

-----------------------------------------------------------------------------
(* A step of a line under the single worker.                               *)
SeenNow(l) ==
  /\ line[l].status = "absent" /\ line'[l].status = "pending"
  /\ ledger'[l] = ledger[l]

Returned(l) == GivenBack(l) /\ line'[l].reason = line[l].reason

SoloStep(l) ==
  Untouched(l) \/ SeenNow(l) \/ Returned(l) \/ Taken(l) \/ Declined(l)

LEMMA SoloRefund ==
  ASSUME PipeInv, NEW w \in Workers, NEW k \in Lines, RefundLine(w, k)
  PROVE  /\ Returned(k)
         /\ \A l \in Lines \ {k} : Untouched(l)
<1>1. \A l \in Lines \ {k} : Untouched(l)
  BY DEF RefundLine, PipeInv, TypeOK, Untouched
<1>2. Recorded(k)
  BY DEF PipeInv, WorkOnRecorded, JobOnRecorded, RefundLine
<1>3. line'[k] = [line[k] EXCEPT !.refunded = TRUE]
  BY DEF RefundLine, PipeInv, TypeOK, LineRows
<1>4. ledger'[k] = [s \in Sources |-> [ledger[k][s] EXCEPT !.back = ledger[k][s].out]]
  BY DEF RefundLine, PipeInv, TypeOK
<1>5. /\ line'[k].status = line[k].status /\ line'[k].frozen = line[k].frozen
      /\ line'[k].reason = line[k].reason /\ line'[k].refunded
  BY <1>3 DEF PipeInv, TypeOK, LineRows
<1>6. ASSUME NEW s \in Sources
      PROVE  /\ ledger'[k][s].out = ledger[k][s].out
             /\ ledger'[k][s].back = ledger[k][s].out
  <2>1. ledger[k][s] \in [out : 0 .. 1, back : 0 .. 1]
    BY DEF PipeInv, TypeOK
  <2> QED BY <1>4, <2>1
<1> QED BY <1>1, <1>2, <1>5, <1>6 DEF Returned, GivenBack

LEMMA SoloEffect ==
  ASSUME PipeInv, ViewsFresh, [Next]_vars, NEW l \in Lines
  PROVE  SoloStep(l)
<1>1. CASE UNCHANGED tableVars
  BY <1>1 DEF tableVars, SoloStep, Untouched
<1>2. ASSUME NEW w \in Workers, Ingest(w) PROVE SoloStep(l)
  BY <1>2 DEF Ingest, Inserted, Pending, SoloStep, Untouched, SeenNow
<1>3. ASSUME NEW w \in Workers, NEW k \in Lines, RefundLine(w, k) PROVE SoloStep(l)
  BY <1>3, SoloRefund DEF SoloStep
<1>4. ASSUME NEW w \in Workers, WriteLine(w) PROVE SoloStep(l)
  BY <1>4, SoloWrite DEF SoloStep
<1> QED BY <1>1, <1>2, <1>3, <1>4, OnlyWorkWrites

LEMMA SoloInit == Init => SoloInv
<1> SUFFICES ASSUME Init PROVE SoloInv
  OBVIOUS
<1>1. ViewsFresh
  BY DEF Init, ViewsFresh, Rest
<1>2. \A l \in Lines : Forward(l) = {} /\ line[l].status = "absent" /\ ~line[l].refunded
  BY DEF Init, Forward, NoRows, AbsentLine
<1> QED BY <1>1, <1>2 DEF SoloInv, StatusMatchesLedger, RefundNetsToZero

LEMMA TakenHasRows ==
  ASSUME PipeInv, NEW l \in Lines, Taken(l), Forward(l) = {}
  PROVE  /\ Forward(l)' = Plan(l)
         /\ Reversed(l)' = Reversed(l)
         /\ Plan(l) # {}
<1>1. Plan(l) \subseteq Sources
  BY DEF Plan
<1>2. Forward(l)' = Plan(l) /\ Reversed(l)' = Reversed(l)
  BY <1>1 DEF Taken, Forward, Reversed
<1>3. PICK n \in Versions : line[l].frozen["base"] = n
  BY DEF Taken, PipeInv, TypeOK, LineRows, Kinds
<1>4. <<"base", n>> \in Sources
  BY DEF Sources, Kinds
<1>5. <<"base", n>> \in Plan(l)
  BY <1>3, <1>4 DEF Plan
<1> QED BY <1>2, <1>5

LEMMA SoloNext ==
  SingleWorker /\ PipeInv /\ PipeInv' /\ WholeLine /\ SoloInv /\ [Next]_vars => SoloInv'
<1> SUFFICES ASSUME SingleWorker, PipeInv, PipeInv', WholeLine, SoloInv, [Next]_vars
             PROVE  SoloInv'
  OBVIOUS
<1>1. ViewsFresh'
  BY FreshNext DEF SoloInv
<1>2. ASSUME NEW l \in Lines
      PROVE  /\ line'[l].status = "depleted" <=> Forward(l)' # {}
             /\ line'[l].refunded => Reversed(l)' = Forward(l)'
  <2>1. /\ line[l].status = "depleted" => Forward(l) # {}
        /\ Forward(l) # {} => line[l].status = "depleted"
        /\ line[l].refunded => Reversed(l) = Forward(l)
        /\ Reversed(l) \in {{}, Forward(l)}
    BY DEF SoloInv, StatusMatchesLedger, RefundNetsToZero, WholeLine
  <2>2. CASE Untouched(l)
    <3>1. Forward(l)' = Forward(l) /\ Reversed(l)' = Reversed(l)
      BY <2>2 DEF Untouched, Forward, Reversed
    <3> QED BY <2>1, <2>2, <3>1 DEF Untouched
  <2>3. CASE SeenNow(l)
    <3>1. Forward(l)' = Forward(l) /\ Reversed(l)' = Reversed(l)
      BY <2>3 DEF SeenNow, Forward, Reversed
    <3>2. Forward(l) = {} /\ Reversed(l) = {}
      BY <2>1, <2>3 DEF SeenNow
    <3> QED BY <2>3, <3>1, <3>2 DEF SeenNow
  <2>4. CASE Returned(l)
    <3>1. Forward(l)' = Forward(l) /\ Reversed(l)' = Forward(l)
      BY <2>4 DEF Returned, GivenBack, Forward, Reversed
    <3>2. line'[l].status = line[l].status
      BY <2>4 DEF Returned, GivenBack
    <3> QED BY <2>1, <3>1, <3>2
  <2>5. CASE Taken(l)
    <3>1. Forward(l) = {}
      BY <2>1, <2>5 DEF Taken
    <3>2. Forward(l)' # {}
      BY <2>5, <3>1, TakenHasRows
    <3> QED BY <2>5, <3>2 DEF Taken
  <2>6. CASE Declined(l)
    <3>1. Forward(l)' = Forward(l) /\ Reversed(l)' = Reversed(l)
      BY <2>6 DEF Declined, Forward, Reversed
    <3>2. Forward(l) = {}
      BY <2>1, <2>6 DEF Declined
    <3> QED BY <2>1, <2>6, <3>1, <3>2 DEF Declined
  <2> QED BY <2>2, <2>3, <2>4, <2>5, <2>6, SoloEffect DEF SoloStep, SoloInv
<1> QED BY <1>1, <1>2 DEF SoloInv, StatusMatchesLedger, RefundNetsToZero

LEMMA SoloAlways ==
  ASSUME SingleWorker
  PROVE  Spec => []SoloInv
<1>1. PipeInv /\ PipeInv' /\ WholeLine /\ SoloInv /\ [Next]_vars => SoloInv'
  BY SoloNext
<1> QED BY <1>1, SoloInit, PipeAlways, WholeAlways, PTL DEF Spec

(* With its single worker a line is 'depleted' exactly if it has forward   *)
(* rows: the recorded outcome and the ledger agree.                        *)
THEOREM OutcomeMatchesLedger ==
  ASSUME SingleWorker
  PROVE  Spec => []StatusMatchesLedger
<1>1. SoloInv => StatusMatchesLedger
  BY DEF SoloInv
<1> QED BY <1>1, SoloAlways, PTL

(* With its single worker a line marked refunded nets to zero, whether the *)
(* refund came before the depletion or after it.                           *)
THEOREM RefundsNetToZero ==
  ASSUME SingleWorker
  PROVE  Spec => []RefundNetsToZero
<1>1. SoloInv => RefundNetsToZero
  BY DEF SoloInv
<1> QED BY <1>1, SoloAlways, PTL

(* With its single worker the first processing of a line wins: no replay   *)
(* rewrites its outcome.                                                   *)
THEOREM OutcomeIsFrozen ==
  ASSUME SingleWorker
  PROVE  Spec => TerminalFrozen
<1>1. ASSUME PipeInv, SoloInv, [Next]_vars, NEW l \in Lines,
             line[l].status \in Terminal
      PROVE  line'[l].status = line[l].status /\ line'[l].reason = line[l].reason
  BY <1>1, SoloEffect DEF SoloInv, SoloStep, Untouched, SeenNow, Returned, GivenBack,
                          Taken, Declined, Terminal
<1>2. PipeInv /\ SoloInv /\ [Next]_vars =>
        \A l \in Lines : line[l].status \in Terminal =>
          /\ line'[l].status = line[l].status
          /\ line'[l].reason = line[l].reason
  BY <1>1
<1> QED BY <1>2, PipeAlways, SoloAlways, PTL DEF Spec, TerminalFrozen

-----------------------------------------------------------------------------
(* What an acknowledgement means.                                          *)

StaysLocked ==
  \A o \in Orders : \A s \in 1 .. rev[o] : \A r \in 1 .. s :
    content[o][r].locked => content[o][s].locked

(* How far the document d of order o has got, in the hands of a worker in  *)
(* state j: every line is recorded and the payment state merged; the       *)
(* refunds are marked or still to do; and once the lines are collected,    *)
(* each is settled, still to do, or has failed.                            *)
Progress(o, d, j) ==
  /\ \A l \in LinesOf(o) : Recorded(l)
  /\ Priority(order[o]) >= Priority(d.pay)
  /\ \A l \in d.refunded : line[l].refunded \/ (j.step = "refund" /\ l \in j.todo)
  /\ j.step # "refund" =>
       \A l \in LinesOf(o) : line[l].status \in Terminal \/ l \in j.todo \/ j.faulty

InProgress ==
  \A w \in Workers : pc[w] = "work" /\ job[w].step # "ingest" =>
                        Progress(OrderIn(w), DocIn(w), job[w])

AckInv == StaysLocked /\ InProgress /\ ProcessedMeansApplied

(* What no step of a single worker takes back.                             *)
TablesGrow ==
  /\ \A l \in Lines :
       /\ Recorded(l) => Recorded(l)'
       /\ line[l].status \in Terminal => line'[l].status \in Terminal
       /\ line[l].refunded => line'[l].refunded
  /\ \A o \in Orders : Priority(order'[o]) >= Priority(order[o])

LEMMA PriorityNat == \A p : Priority(p) \in Nat /\ Priority(p) >= 1
BY DEF Priority

LEMMA Grows ==
  ASSUME PipeInv, QueueInv, AbsentIsBlank, WholeLine, ViewsFresh, [Next]_vars
  PROVE  TablesGrow
<1>1. ASSUME NEW l \in Lines
      PROVE  /\ Recorded(l) => Recorded(l)'
             /\ line[l].status \in Terminal => line'[l].status \in Terminal
             /\ line[l].refunded => line'[l].refunded
  <2>1. line[l].refunded => line'[l].refunded
    BY LinesKept DEF LineKept
  <2>2. SoloStep(l)
    BY SoloEffect
  <2> QED BY <2>1, <2>2 DEF SoloStep, Untouched, SeenNow, Returned, GivenBack, Taken,
                           Declined, Recorded, Terminal
<1>2. ASSUME NEW o \in Orders PROVE Priority(order'[o]) >= Priority(order[o])
  <2>1. CASE order[o] = "absent"
    <3>1. Priority(order[o]) = 1
      BY <2>1 DEF Priority
    <3> QED BY <3>1, PriorityNat
  <2>2. CASE order[o] # "absent"
    BY <2>2, OrdersKept DEF OrderKept
  <2> QED BY <2>1, <2>2
<1> QED BY <1>1, <1>2 DEF TablesGrow

LEMMA AppliedStays ==
  ASSUME PipeInv, TablesGrow, NEW o \in Orders, NEW d, d.refunded \subseteq Lines, Applied(o, d)
  PROVE  Applied(o, d)'
<1>1. Priority(order'[o]) >= Priority(d.pay)
  <2>1. Priority(order'[o]) >= Priority(order[o]) /\ Priority(order[o]) >= Priority(d.pay)
    BY DEF TablesGrow, Applied
  <2>2. Priority(order'[o]) \in Nat /\ Priority(order[o]) \in Nat /\ Priority(d.pay) \in Nat
    BY PriorityNat
  <2> HIDE DEF Priority
  <2> QED BY <2>1, <2>2
<1>2. (\A l \in LinesOf(o) : line'[l].status \in Terminal) /\ LinesOf(o)' = LinesOf(o)
  BY DEF TablesGrow, Applied, LinesOf, Recorded
<1>3. \A l \in d.refunded : line'[l].refunded
  BY DEF TablesGrow, Applied, Recorded
<1> QED BY <1>1, <1>2, <1>3 DEF Applied

LEMMA ProgressStays ==
  ASSUME PipeInv, TablesGrow, NEW o \in Orders, NEW d, NEW j, d.refunded \subseteq Lines,
         Progress(o, d, j)
  PROVE  Progress(o, d, j)'
<1>1. Priority(order'[o]) >= Priority(d.pay)
  <2>1. Priority(order'[o]) >= Priority(order[o]) /\ Priority(order[o]) >= Priority(d.pay)
    BY DEF TablesGrow, Progress
  <2>2. Priority(order'[o]) \in Nat /\ Priority(order[o]) \in Nat /\ Priority(d.pay) \in Nat
    BY PriorityNat
  <2> HIDE DEF Priority
  <2> QED BY <2>1, <2>2
<1>2. \A l \in LinesOf(o) : /\ Recorded(l)'
                            /\ line[l].status \in Terminal => line'[l].status \in Terminal
  BY DEF TablesGrow, Progress, LinesOf, Recorded
<1>3. \A l \in d.refunded : line'[l].refunded \/ (j.step = "refund" /\ l \in j.todo)
  BY DEF TablesGrow, Progress, Recorded
<1>4. LinesOf(o)' = LinesOf(o)
  BY DEF LinesOf
<1> QED BY <1>1, <1>2, <1>3, <1>4 DEF Progress

(* Clover only adds revisions.                                             *)
LEMMA OnlySellChanges ==
  ASSUME [Next]_vars
  PROVE  \/ \E o \in Orders, d \in VendorDocs : Sell(o, d)
         \/ content' = content /\ rev' = rev
BY DEF Next, vars, saleVars, queueVars, cloverVars, Confirm, Unconfirm, ListLocked, ReconList,
       QueueStep, Delete, Webhook, ReconUpsert, ReconStop, Expire,
       Obtain, Claim, NextEvent, FetchOk, FetchGone, SavePayload, FetchFails, Fail,
       CrashWorker, Crash, Work, SkipOpen, Complete, Ingest, RefundLine, Scan, ReadLine,
       WriteLine, LineFault, Finish, GiveUp

LEMMA RevsOf ==
  ASSUME QueueTypeOK, NEW o \in Orders
  PROVE  rev[o] \in Nat /\ 1 .. rev[o] \subseteq Revs
BY InboxAssumption DEF InboxAssumption, QueueTypeOK, Docs, Revs

LEMMA ContentKept ==
  ASSUME PipeInv, QueueInv, [Next]_vars, NEW o \in Orders, NEW r \in 1 .. rev[o]
  PROVE  content'[o][r] = content[o][r]
<1>1. r \in Revs /\ r # rev[o] + 1
  <2>1. QueueTypeOK
    BY DEF PipeInv, TypeOK
  <2>2. rev[o] \in Nat /\ 1 .. rev[o] \subseteq Revs
    BY <2>1, RevsOf
  <2> QED BY <2>2
<1>2. ASSUME NEW x \in Orders, NEW d \in VendorDocs, Sell(x, d)
      PROVE  content'[o][r] = content[o][r]
  BY <1>1, <1>2 DEF Sell, PipeInv, TypeOK
<1> QED BY <1>2, OnlySellChanges

LEMMA LockedNext ==
  ASSUME PipeInv, QueueInv, StaysLocked, [Next]_vars
  PROVE  StaysLocked'
<1>1. CASE content' = content /\ rev' = rev
  BY <1>1 DEF StaysLocked
<1>2. ASSUME NEW x \in Orders, NEW d \in VendorDocs, Sell(x, d) PROVE StaysLocked'
  <2> SUFFICES ASSUME NEW o \in Orders, NEW s \in 1 .. rev'[o], NEW r \in 1 .. s,
                      content'[o][r].locked
               PROVE  content'[o][s].locked
    BY DEF StaysLocked
  <2>1. rev[o] \in Nat /\ 1 .. rev[o] \subseteq Revs
    BY RevsOf DEF PipeInv, TypeOK
  <2>2. rev'[o] = IF o = x THEN rev[o] + 1 ELSE rev[o]
    BY <1>2 DEF Sell, Modify, PipeInv, TypeOK, QueueTypeOK
  <2>3. CASE s \in 1 .. rev[o]
    <3>1. r \in 1 .. rev[o]
      BY <2>1, <2>3
    <3> QED BY <2>3, <3>1, ContentKept DEF StaysLocked
  <2>4. CASE s \notin 1 .. rev[o] /\ r # s
    <3>1. o = x /\ s = rev[o] + 1 /\ r \in 1 .. rev[o] /\ rev[o] > 0 /\ rev[o] \in 1 .. rev[o]
      BY <2>1, <2>2, <2>4
    <3>2. rev[o] + 1 \in Revs
      BY <1>2, <3>1, InboxAssumption DEF InboxAssumption, Sell, Modify, Revs
    <3>3. content'[o][s] = d
      BY <1>2, <3>1, <3>2 DEF Sell, PipeInv, TypeOK
    <3>4. content[o][r].locked
      BY <3>1, ContentKept
    <3>5. content[o][rev[o]].locked
      BY <3>1, <3>4 DEF StaysLocked
    <3> QED BY <1>2, <3>1, <3>3, <3>5 DEF Sell
  <2> QED BY <2>3, <2>4
<1> QED BY <1>1, <1>2, OnlySellChanges

(* The order and the document a busy worker is at.                         *)
LEMMA AtWork ==
  ASSUME PipeInv, QueueInv, FreshHands, NEW w \in Workers, pc[w] = "work"
  PROVE  /\ OrderIn(w) \in Orders /\ cur[w].key \in Keys
         /\ doc[w] \in 1 .. rev[OrderIn(w)]
         /\ inbox[cur[w].key].payload \in Nat /\ inbox[cur[w].key].payload <= doc[w]
         /\ DocIn(w) \in Documents /\ DocIn(w).refunded \subseteq LinesOf(OrderIn(w))
<1>1. cur[w].key \in Keys /\ OrderIn(w) \in Orders
  BY Shapes DEF QueueInv, TypeInv, HasEvent, Busy, OrderIn, Snapshots
<1>2. doc[w] \in Revs /\ \A r \in Revs : r \in Nat /\ r >= 1
  BY DEF QueueInv, HasDoc, Revs
<1>3. doc[w] <= rev[OrderIn(w)] /\ inbox[cur[w].key].payload <= doc[w]
  BY DEF FreshHands, HandsNew, NewEnough, Reads, Busy, OrderIn
<1>4. rev[OrderIn(w)] \in Nat /\ inbox[cur[w].key].payload \in Nat
  BY <1>1, Shapes DEF QueueInv
<1>5. DocIn(w) \in Documents /\ DocIn(w).refunded \subseteq LinesOf(OrderIn(w))
  BY <1>1, <1>2 DEF DocIn, PipeInv, TypeOK, DocsOwnLines
<1> QED BY <1>1, <1>2, <1>3, <1>4, <1>5

(* A worker inside "work" stays with its event.                            *)
LEMMA SameEvent ==
  ASSUME SingleWorker, PipeInv, QueueInv, [Next]_vars, NEW w \in Workers,
         pc'[w] = "work", job'[w].step # "ingest"
  PROVE  /\ pc[w] = "work" /\ cur'[w] = cur[w] /\ doc'[w] = doc[w]
         /\ \/ job'[w] = job[w]
            \/ Ingest(w) \/ Scan(w) \/ WriteLine(w)
            \/ \E l \in Lines : RefundLine(w, l) \/ ReadLine(w, l) \/ LineFault(w, l)
<1>1. \A v \in Workers : v = w
  BY DEF SingleWorker
<1>2. QueueTypeOK /\ (pc[w] # "work" => job[w] = Rest) /\ Rest.step = "ingest"
  BY DEF PipeInv, TypeOK, Rest
<1>3. CASE \/ \E o \in Orders, d \in VendorDocs : Sell(o, d)
           \/ \E kind \in Kinds : Confirm(kind) \/ Unconfirm(kind)
           \/ \E S \in SUBSET Orders : ListLocked(S)
           \/ QueueStep
           \/ UNCHANGED vars
  <2>1. pc' = pc /\ cur' = cur /\ doc' = doc /\ job' = job
    BY <1>3 DEF Sell, Modify, Confirm, Unconfirm, ListLocked, ReconList, QueueStep, Delete,
                Webhook, ReconUpsert, ReconStop, Expire, workerVars, vars, queueVars, saleVars
  <2> QED BY <1>2, <2>1
<1>4. CASE Obtain(w) \/ FetchFails(w)
  <2>1. job' = job /\ pc[w] # "work"
    BY <1>4 DEF Obtain, FetchFails, saleVars, Claim, NextEvent, FetchOk, FetchGone, SavePayload
  <2> QED BY <1>2, <2>1
<1>5. CASE SkipOpen(w) \/ Finish(w) \/ GiveUp(w) \/ CrashWorker(w)
  <2>1. job'[w] = Rest
    BY <1>5 DEF SkipOpen, Finish, GiveUp, CrashWorker, Clear, PipeInv, TypeOK
  <2> QED BY <1>2, <2>1
<1>6. CASE \/ Ingest(w) \/ Scan(w) \/ WriteLine(w)
           \/ \E l \in Lines : RefundLine(w, l) \/ ReadLine(w, l) \/ LineFault(w, l)
  BY <1>6 DEF Ingest, Scan, WriteLine, RefundLine, ReadLine, LineFault, At, queueVars
<1>7. \/ Obtain(w) \/ FetchFails(w) \/ Work(w) \/ CrashWorker(w)
      \/ \E o \in Orders, d \in VendorDocs : Sell(o, d)
      \/ \E kind \in Kinds : Confirm(kind) \/ Unconfirm(kind)
      \/ \E S \in SUBSET Orders : ListLocked(S)
      \/ QueueStep
      \/ UNCHANGED vars
  BY <1>1 DEF Next
<1> QED BY <1>3, <1>4, <1>5, <1>6, <1>7 DEF Work

LEMMA IngestProgress ==
  ASSUME PipeInv, QueueInv, FreshHands, NEW w \in Workers, Ingest(w),
         NEW o \in Orders, NEW d \in Documents, o = OrderIn(w), d = DocIn(w),
         NEW j, j = job'[w]
  PROVE  Progress(o, d, j)'
<1>1. j.step = "refund" /\ j.todo = d.refunded
  BY DEF Ingest, Goto, PipeInv, TypeOK, Jobs
<1>2. \A l \in LinesOf(o) : Recorded(l)'
  BY DEF Ingest, Inserted, Pending, Recorded, LinesOf
<1>3. order'[o] = IF order[o] = "absent" THEN d.pay ELSE MergePayment(order[o], d.pay)
  BY DEF Ingest, PipeInv, TypeOK
<1>4. Priority(order'[o]) >= Priority(d.pay)
  <2>1. Priority(order[o]) \in Nat /\ Priority(d.pay) \in Nat
    BY PriorityNat
  <2> HIDE DEF Priority
  <2> QED BY <1>3, <2>1 DEF MergePayment
<1>5. LinesOf(o)' = LinesOf(o)
  BY DEF LinesOf
<1> QED BY <1>1, <1>2, <1>4, <1>5 DEF Progress

LEMMA WorkProgress ==
  ASSUME PipeInv, PipeInv', QueueInv, FreshHands, ViewsFresh, TablesGrow, NEW w \in Workers,
         \/ Scan(w) \/ WriteLine(w)
         \/ \E l \in Lines : RefundLine(w, l) \/ ReadLine(w, l) \/ LineFault(w, l),
         NEW o \in Orders, NEW d \in Documents, o = OrderIn(w),
         NEW i \in Jobs, i = job[w], NEW j \in Jobs, j = job'[w],
         Progress(o, d, i)
  PROVE  Progress(o, d, j)'
<1>1. Progress(o, d, i)' /\ d.refunded \subseteq Lines
  BY ProgressStays DEF Documents
<1>2. ASSUME NEW l \in Lines, RefundLine(w, l) PROVE Progress(o, d, j)'
  <2>1. i.step = "refund" /\ j.step = "refund" /\ j.todo = i.todo \ {l}
    BY <1>2 DEF RefundLine, At, Goto, PipeInv, TypeOK, Jobs
  <2>2. line'[l].refunded
    BY <1>2, SoloRefund DEF Returned, GivenBack
  <2> QED BY <1>1, <2>1, <2>2 DEF Progress
<1>3. CASE Scan(w)
  <2>1. /\ i.step = "refund" /\ i.todo = {} /\ j.step = "deplete"
        /\ j.todo = {l \in LinesOf(o) : line[l].status = "pending"} /\ line' = line
    BY <1>3 DEF Scan, At, Goto, PipeInv, TypeOK, Jobs, tableVars
  <2>2. \A l \in LinesOf(o) : l \in Lines /\ line[l].status \in Statuses
    BY DEF LinesOf, PipeInv, TypeOK, LineRows
  <2>3. \A l \in LinesOf(o) : Recorded(l)
    BY DEF Progress
  <2>4. LinesOf(o)' = LinesOf(o)
    BY DEF LinesOf
  <2>5. \A l \in LinesOf(o) : line[l].status \in Terminal \/ l \in j.todo
    BY <2>1, <2>2, <2>3 DEF Statuses, Recorded
  <2> QED BY <1>1, <2>1, <2>4, <2>5 DEF Progress
<1>4. ASSUME NEW l \in Lines, ReadLine(w, l) PROVE Progress(o, d, j)'
  <2>1. i.step = "deplete" /\ line' = line
    BY <1>4 DEF ReadLine, At, tableVars
  <2>2. CASE line[l].status \in Terminal
    <3>1. j.step = "deplete" /\ j.todo = i.todo \ {l} /\ j.faulty = i.faulty
      BY <1>4, <2>1, <2>2 DEF ReadLine, PipeInv, TypeOK, Jobs
    <3> QED BY <1>1, <2>1, <2>2, <3>1 DEF Progress
  <2>3. CASE line[l].status \notin Terminal
    <3>1. j.step = "write" /\ j.todo = i.todo /\ j.faulty = i.faulty
      BY <1>4, <2>1, <2>3 DEF ReadLine, PipeInv, TypeOK, Jobs
    <3> QED BY <1>1, <2>1, <3>1 DEF Progress
  <2> QED BY <2>2, <2>3
<1>5. CASE WriteLine(w)
  <2> PICK l : l = job[w].view.line
    OBVIOUS
  <2>1. i.step = "write" /\ j.step = "deplete" /\ j.todo = i.todo \ {l} /\ j.faulty = i.faulty
    BY <1>5 DEF WriteLine, At, PipeInv, TypeOK, Jobs
  <2>2. l \in Lines /\ line'[l].status \in Terminal
    BY <1>5, SoloWrite DEF Taken, Declined, Terminal
  <2> QED BY <1>1, <2>1, <2>2 DEF Progress
<1>6. ASSUME NEW l \in Lines, LineFault(w, l) PROVE Progress(o, d, j)'
  <2>1. i.step \in {"deplete", "write"} /\ j.step = "deplete" /\ j.faulty = TRUE
    BY <1>6 DEF LineFault, At, PipeInv, TypeOK, Jobs
  <2> QED BY <1>1, <2>1 DEF Progress
<1> QED BY <1>2, <1>3, <1>4, <1>5, <1>6

LEMMA ProgressNext ==
  ASSUME SingleWorker, PipeInv, PipeInv', QueueInv, FreshHands, ViewsFresh, TablesGrow,
         InProgress, [Next]_vars
  PROVE  InProgress'
<1> SUFFICES ASSUME NEW w \in Workers, pc'[w] = "work", job'[w].step # "ingest"
             PROVE  Progress(OrderIn(w), DocIn(w), job[w])'
  BY DEF InProgress
<1>1. /\ pc[w] = "work" /\ cur'[w] = cur[w] /\ doc'[w] = doc[w]
      /\ \/ job'[w] = job[w]
         \/ Ingest(w) \/ Scan(w) \/ WriteLine(w)
         \/ \E l \in Lines : RefundLine(w, l) \/ ReadLine(w, l) \/ LineFault(w, l)
  BY SameEvent
<1> PICK o \in Orders, d \in Documents : o = OrderIn(w) /\ d = DocIn(w)
  BY <1>1, AtWork
<1> PICK i \in Jobs, j \in Jobs : i = job[w] /\ j = job'[w]
  BY DEF PipeInv, TypeOK
<1>2. OrderIn(w)' = o
  BY <1>1 DEF OrderIn
<1>3. DocIn(w)' = d
  BY <1>1, <1>2, AtWork, ContentKept DEF DocIn
<1>4. Progress(o, d, j)'
  <2>1. CASE Ingest(w)
    BY <2>1, IngestProgress
  <2>2. CASE ~Ingest(w) /\ i.step # "ingest"
    <3>1. Progress(o, d, i) /\ d.refunded \subseteq Lines
      BY <1>1, <2>2 DEF InProgress, Documents
    <3>2. CASE j = i
      BY <3>1, <3>2, ProgressStays
    <3>3. CASE j # i
      BY <1>1, <2>2, <3>1, <3>3, WorkProgress
    <3> QED BY <3>2, <3>3
  <2>3. CASE ~Ingest(w) /\ i.step = "ingest"
    BY <1>1, <2>3 DEF Scan, WriteLine, RefundLine, ReadLine, LineFault, At
  <2> QED BY <2>1, <2>2, <2>3
<1> QED BY <1>2, <1>3, <1>4

(* Who acknowledges a row.                                                 *)
LEMMA AcknowledgedBy ==
  ASSUME QueueInv, SoloQueueInv, [Next]_vars, NEW k \in Keys,
         inbox'[k].state = "processed", inbox'[k].payload # NoDoc
  PROVE  \/ inbox[k].state = "processed" /\ inbox'[k].payload = inbox[k].payload
         \/ \E w \in Workers : /\ cur[w].key = k
                               /\ SkipOpen(w) \/ Finish(w) \/ FetchGone(w)
<1> TypeInv /\ Listed /\ [QueueNext]_queueVars
  BY StepIsQueueStep DEF QueueInv, SeenInv
<1>1. \A w \in Workers : pc[w] \in Busy /\ cur[w].key = k => inbox[k].state = "processing"
  BY HandlingShape DEF SoloQueueInv, HeldIsProcessing
<1>2. CASE inbox[k].state = "processed"
  <2>1. \A w \in Workers : ~(SavePayload(w) /\ cur[w].key = k)
    BY <1>1, <1>2 DEF SavePayload, Busy
  <2> QED BY <1>2, <2>1, PayloadNext DEF PayloadStep
<1>3. CASE inbox[k].state # "processed"
  <2>1. PICK w \in Workers : pc[w] \in Busy /\ cur[w].key = k
    BY <1>3, RowNext DEF RowStep, Stays, Arrives, Reopens, IsClaimed, IsMarked
  <2>2. inbox' # inbox
    BY <1>3
  <2>3. ASSUME NEW v \in Workers, Fail(v) PROVE FALSE
    <3>1. pc[v] \in Busy /\ MarkFailed(v)
      BY <2>3 DEF Fail, Busy
    <3>2. k = cur[v].key
      BY <1>3, <3>1, MarkEffect
    <3>3. inbox'[k].state \in {"failed", "dead_letter"}
      <4>1. inbox[k] \in Rows /\ inbox \in [Keys -> Rows]
        BY DEF TypeInv, QueueTypeOK
      <4> QED BY <3>1, <3>2, <4>1 DEF MarkFailed, Rows
    <3> QED BY <3>3
  <2>4. ASSUME NEW v \in Workers, SkipOpen(v) \/ Finish(v) \/ FetchGone(v) PROVE cur[v].key = k
    <3>1. pc[v] \in Busy /\ MarkProcessed(v)
      BY <2>4 DEF SkipOpen, Finish, Complete, FetchGone, Busy
    <3> QED BY <1>3, <3>1, MarkEffect
  <2>5. \E v \in Workers : SkipOpen(v) \/ Finish(v) \/ FetchGone(v)
    <3>1. CASE QueueStep
      <4>1. \A K \in SUBSET Keys : ~Webhook(K)
        BY <1>3, WebhookRow DEF Stays, Arrives
      <4>2. \A p \in page : ~ReconUpsert(p)
        BY <1>3, ReconRow DEF Stays, Arrives, Reopens
      <4>3. \A j \in Keys : ~Expire(j)
        BY <1>3, ExpiredRow DEF Stays
      <4> QED BY <2>2, <3>1, <4>1, <4>2, <4>3 DEF QueueStep, Delete, ReconStop
    <3>2. ASSUME NEW v \in Workers, Obtain(v) PROVE FetchGone(v)
      <4>1. \A S \in SUBSET Keys : ~Claim(v, S)
        BY <1>3, ClaimRow DEF IsClaimed
      <4>2. ~SavePayload(v)
        BY <1>3, SavedRow DEF Stays
      <4> QED BY <2>2, <3>2, <4>1, <4>2 DEF Obtain, NextEvent, FetchOk
    <3>3. ASSUME NEW v \in Workers, Work(v) PROVE SkipOpen(v) \/ Finish(v)
      <4>1. ~GiveUp(v)
        BY <2>3 DEF GiveUp
      <4> QED BY <2>2, <3>3, <4>1 DEF Work, Ingest, RefundLine, Scan, ReadLine, WriteLine,
                                    LineFault, queueVars
    <3>4. \A v \in Workers : ~FetchFails(v) /\ ~CrashWorker(v)
      BY <2>2, <2>3 DEF FetchFails, CrashWorker, Crash
    <3> QED BY <2>2, <3>1, <3>2, <3>3, <3>4
            DEF Next, Sell, Modify, Confirm, Unconfirm, ListLocked, ReconList, vars, queueVars
  <2> QED BY <2>4, <2>5
<1> QED BY <1>2, <1>3

Reached(o, p) == \E r \in p .. rev[o] : Applied(o, content[o][r])

LEMMA AppliedNext ==
  ASSUME PipeInv, QueueInv, QueueInv', SoloQueueInv, FreshHands, TablesGrow, AckInv, [Next]_vars
  PROVE  ProcessedMeansApplied'
<1> SUFFICES ASSUME NEW k \in Keys, NEW o \in Orders, o = k.order,
                    NEW p \in Nat, p = inbox'[k].payload,
                    inbox'[k].state = "processed", p # NoDoc, content'[o][p].locked
             PROVE  o \in gone' \/ Reached(o, p)'
  <2> SUFFICES ASSUME NEW k \in Keys, inbox'[k].state = "processed", inbox'[k].payload # NoDoc,
                      content'[k.order][inbox'[k].payload].locked
               PROVE  k.order \in gone' \/ Reached(k.order, inbox[k].payload)'
    BY DEF ProcessedMeansApplied, Reached
  <2>1. k.order \in Orders /\ inbox'[k].payload \in Nat
    BY Shapes, ConstantFacts DEF QueueInv, TypeInv, QueueTypeOK, Rows
  <2> PICK p \in Nat : p = inbox'[k].payload
    BY <2>1
  <2> PICK o \in Orders : o = k.order
    BY <2>1
  <2>2. o \in gone' \/ Reached(o, p)'
    OBVIOUS
  <2> QED BY <2>2 DEF Reached
<1> TypeInv /\ [QueueNext]_queueVars
  BY StepIsQueueStep DEF QueueInv
<1>1. rev[o] \in Nat /\ rev'[o] \in Nat /\ rev[o] <= rev'[o]
  BY RevisionsKept, ConstantFacts DEF TypeInv, QueueInv, QueueTypeOK
<1>2. gone \subseteq gone'
  BY DEF QueueNext, Modify, Delete, Webhook, ReconList, ReconUpsert, ReconStop, WorkerStep,
         Claim, NextEvent, FetchOk, FetchGone, SavePayload, Complete, Fail, Crash, Expire,
         cloverVars, queueVars
<1>3. ASSUME NEW r \in p .. rev[o], Applied(o, content[o][r])
      PROVE  Reached(o, p)'
  <2> PICK d : d = content[o][r]
    OBVIOUS
  <2>1. r \in p .. rev'[o] /\ r \in 1 .. rev[o] /\ r \in Revs
    <3>1. QueueTypeOK
      BY DEF PipeInv, TypeOK
    <3>2. 1 .. rev[o] \subseteq Revs
      BY <3>1, RevsOf
    <3>3. r \in Nat /\ p <= r /\ r <= rev[o] /\ p >= 1
      BY <1>1 DEF NoDoc
    <3> QED BY <1>1, <3>2, <3>3
  <2>2. content'[o][r] = d
    BY <2>1, ContentKept
  <2>3. d.refunded \subseteq Lines
    BY <2>1 DEF PipeInv, DocsOwnLines, LinesOf
  <2>4. Applied(o, d)'
    BY <1>3, <2>3, AppliedStays
  <2> QED BY <2>1, <2>2, <2>4 DEF Reached, Applied
<1>4. CASE inbox[k].state = "processed" /\ p = inbox[k].payload
  <2>1. p <= rev[o]
    BY <1>4 DEF FreshHands, RowsKnown
  <2>2. p \in 1 .. rev[o]
    <3>1. p >= 1
      BY DEF NoDoc
    <3> QED BY <1>1, <2>1, <3>1
  <2>3. content[o][p].locked
    BY <2>2, ContentKept
  <2>4. o \in gone \/ \E r \in p .. rev[o] : Applied(o, content[o][r])
    BY <1>4, <2>3 DEF AckInv, ProcessedMeansApplied
  <2> QED BY <1>2, <1>3, <2>4
<1>5. ASSUME NEW w \in Workers, cur[w].key = k, SkipOpen(w) \/ Finish(w) \/ FetchGone(w)
      PROVE  o \in gone' \/ Reached(o, p)'
  <2>1. CASE FetchGone(w)
    BY <1>2, <1>5, <2>1 DEF FetchGone
  <2>2. CASE SkipOpen(w) \/ Finish(w)
    <3>1. pc[w] = "work" /\ MarkProcessed(w) /\ OrderIn(w) = o
      BY <1>5, <2>2 DEF SkipOpen, Finish, Complete, OrderIn
    <3>2. p = inbox[k].payload
      BY <3>1, MarkEffect DEF Busy
    <3>3. p <= doc[w] /\ doc[w] \in 1 .. rev[o]
      BY <1>5, <3>1, <3>2, AtWork
    <3>4. doc[w] \in p .. rev[o] /\ p \in 1 .. doc[w] /\ p \in 1 .. rev[o]
      <4>1. p >= 1 /\ doc[w] \in Nat
        BY <3>3 DEF NoDoc
      <4> QED BY <1>1, <3>3, <4>1
    <3>5. content[o][doc[w]].locked
      <4>1. content[o][p].locked
        BY <3>4, ContentKept
      <4> QED BY <3>3, <3>4, <4>1 DEF AckInv, StaysLocked
    <3>6. CASE SkipOpen(w)
      BY <3>1, <3>5, <3>6 DEF SkipOpen, DocIn
    <3>7. CASE Finish(w)
      <4>1. job[w].step = "deplete" /\ job[w].todo = {} /\ ~job[w].faulty
        BY <3>7 DEF Finish, At
      <4>2. Progress(o, content[o][doc[w]], job[w])
        BY <3>1, <4>1 DEF AckInv, InProgress, DocIn
      <4>3. Applied(o, content[o][doc[w]])
        BY <4>1, <4>2 DEF Progress, Applied
      <4> QED BY <1>3, <3>4, <4>3
    <3> QED BY <2>2, <3>6, <3>7
  <2> QED BY <1>5, <2>1, <2>2
<1> QED BY <1>4, <1>5, AcknowledgedBy

(* A row is acknowledged only when its document, or a newer one of the     *)
(* order, has taken effect: with the deployed single worker, through       *)
(* crashes, expired claims, faulty lines, and whatever reconciliation      *)
(* writes over the row meanwhile.                                          *)
THEOREM AcknowledgedIsApplied ==
  ASSUME SingleWorker, MaxRetries > 1
  PROVE  Spec => []ProcessedMeansApplied
<1>1. Init => AckInv
  BY DEF Init, QueueInit, AckInv, StaysLocked, InProgress, ProcessedMeansApplied, AbsentRow
<1>2. /\ PipeInv /\ QueueInv /\ SoloInv /\ AbsentIsBlank /\ WholeLine /\ SoloQueueInv /\ FreshHands
      /\ PipeInv' /\ QueueInv' /\ AckInv /\ [Next]_vars
      => AckInv'
  <2> SUFFICES ASSUME PipeInv, QueueInv, SoloInv, AbsentIsBlank, WholeLine, SoloQueueInv,
                      FreshHands, PipeInv', QueueInv', AckInv, [Next]_vars
               PROVE  AckInv'
    OBVIOUS
  <2>1. TablesGrow
    BY Grows DEF SoloInv
  <2>2. StaysLocked'
    BY LockedNext DEF AckInv
  <2>3. InProgress'
    BY <2>1, ProgressNext DEF AckInv, SoloInv
  <2> QED BY <2>1, <2>2, <2>3, AppliedNext DEF AckInv
<1>3. Spec => [](SoloQueueInv /\ FreshHands)
  BY RefinesQueue, SoloQueueAlways, FreshHandsAlways, PTL
<1>4. AckInv => ProcessedMeansApplied
  BY DEF AckInv
<1> QED BY <1>1, <1>2, <1>3, <1>4, PipeAlways, SoloAlways, WholeAlways, PTL DEF Spec

-----------------------------------------------------------------------------
(* The pipeline implements SaleLedger.                                     *)

fates   == [l \in Lines |-> Fate(l)]
returns == [l \in Lines |-> line[l].refunded]

LEMMA LedgerInitially == Init => Promise!LedgerInit
BY DEF Init, Promise!LedgerInit, Fate, AbsentLine

LEMMA UntouchedKeepsFate ==
  ASSUME NEW l \in Lines, Untouched(l)
  PROVE  Fate(l)' = Fate(l) /\ line'[l].refunded = line[l].refunded
BY DEF Untouched, Fate, Reversed

LEMMA IngestSees ==
  ASSUME PipeInv, PipeInv', NEW w \in Workers, Ingest(w)
  PROVE  Promise!LedgerNext
<1> PICK S \in SUBSET Lines : S = {l \in LinesOf(OrderIn(w)) : line[l].status = "absent"}
  BY DEF LinesOf
<1> PICK R \in SUBSET S : R = {l \in S : line'[l].refunded}
  OBVIOUS
<1>2. \A l \in Lines \ S : Untouched(l)
  BY DEF Ingest, Inserted, Untouched
<1>3. \A l \in S : line'[l].status = "pending"
  BY DEF Ingest, Inserted, Pending, LinesOf
<1>4. Promise!See(S, R)
  <2>1. \A l \in S : Fate(l) = "unseen"
    BY DEF Fate
  <2>2. \A l \in S : Fate(l)' = "open"
    BY <1>3 DEF Fate
  <2>3. \A l \in S : line'[l].refunded = (l \in R)
    <3>1. \A l \in S : line'[l].refunded \in BOOLEAN
      BY DEF PipeInv, TypeOK, LineRows, LinesOf
    <3> QED BY <3>1
  <2>4. \A l \in Lines \ S : Fate(l)' = Fate(l) /\ line'[l].refunded = line[l].refunded
    BY <1>2, UntouchedKeepsFate
  <2>5. fates' = [l \in Lines |-> IF l \in S THEN "open" ELSE fates[l]]
    BY <2>2, <2>4 DEF fates
  <2>6. returns' = [l \in Lines |-> IF l \in S THEN l \in R ELSE returns[l]]
    BY <2>3, <2>4 DEF returns
  <2>7. \A l \in S : fates[l] = "unseen"
    BY <2>1 DEF fates
  <2> QED BY <2>5, <2>6, <2>7 DEF Promise!See, fates, returns
<1> QED BY <1>4 DEF Promise!LedgerNext

(* A step that changes the fate of one line.                               *)
LEMMA FateUpdate ==
  ASSUME NEW k \in Lines, \A l \in Lines \ {k} : Untouched(l)
  PROVE  /\ fates' = [fates EXCEPT ![k] = Fate(k)']
         /\ returns' = [returns EXCEPT ![k] = line'[k].refunded]
BY UntouchedKeepsFate DEF fates, returns

LEMMA RefundReturns ==
  ASSUME PipeInv, SoloInv, WholeLine, NEW w \in Workers, NEW k \in Lines, RefundLine(w, k)
  PROVE  Promise!LedgerNext
<1>1. Returned(k) /\ \A l \in Lines \ {k} : Untouched(l)
  BY SoloRefund
<1>2. Forward(k)' = Forward(k) /\ Reversed(k)' = Forward(k)
  BY <1>1 DEF Returned, GivenBack, Forward, Reversed
<1>3. line[k].status = "depleted" => Forward(k) # {}
  BY DEF SoloInv, StatusMatchesLedger
<1>4. line'[k].status = line[k].status /\ line[k].status # "absent" /\ line'[k].refunded
      /\ line[k].status \in Statuses
  BY <1>1 DEF Returned, GivenBack, Recorded, PipeInv, TypeOK, LineRows
<1>5. Fate(k)' = IF Fate(k) = "applied" THEN "reversed" ELSE Fate(k)
  BY <1>2, <1>3, <1>4 DEF Fate, Statuses, Terminal
<1>6. line'[k].refunded = TRUE
  <2>1. line'[k].refunded \in BOOLEAN
    BY DEF RefundLine, PipeInv, TypeOK, LineRows
  <2> QED BY <2>1, <1>4
<1>7. Fate(k) # "unseen"
  BY <1>4 DEF Fate, Statuses, Terminal
<1>8. /\ fates[k] # "unseen"
      /\ fates' = [fates EXCEPT ![k] = IF fates[k] = "applied" THEN "reversed" ELSE fates[k]]
      /\ returns' = [returns EXCEPT ![k] = TRUE]
  BY <1>1, <1>5, <1>6, <1>7, FateUpdate DEF fates
<1>9. Promise!Refund(k)
  BY <1>8 DEF Promise!Refund, fates, returns
<1> QED BY <1>9 DEF Promise!LedgerNext

LEMMA WriteDecides ==
  ASSUME PipeInv, SoloInv, WholeLine, NEW w \in Workers, WriteLine(w)
  PROVE  Promise!LedgerNext
<1>1. PICK k \in Lines : /\ Taken(k) \/ Declined(k)
                        /\ \A l \in Lines \ {k} : Untouched(l)
  BY SoloWrite DEF SoloInv
<1>2. line[k].status = "pending" /\ line'[k].refunded = line[k].refunded
  <2>1. line'[k].refunded \in BOOLEAN /\ line[k].refunded \in BOOLEAN
    BY <1>1 DEF PipeInv, TypeOK, LineRows, WriteLine
  <2> QED BY <1>1, <2>1 DEF Taken, Declined
<1>3. Fate(k) = "open"
  BY <1>2 DEF Fate
<1>4. returns' = returns
  BY <1>1, <1>2, FateUpdate DEF returns
<1>5. fates' = [fates EXCEPT ![k] = Fate(k)']
  BY <1>1, FateUpdate
<1>6. CASE Taken(k)
  <2>1. Forward(k) = {} /\ Reversed(k) = {}
    BY <1>1, <1>2 DEF SoloInv, StatusMatchesLedger, WholeLine
  <2>2. Reversed(k)' = {}
    BY <1>1, <1>6, <2>1, TakenHasRows
  <2>3. Fate(k)' = "applied"
    BY <1>6, <2>2 DEF Taken, Fate
  <2>4. Promise!Apply(k)
    BY <1>1, <1>3, <1>4, <1>5, <1>6, <2>3 DEF Promise!Apply, fates, returns, Taken
  <2> QED BY <1>1, <2>4 DEF Promise!LedgerNext
<1>7. CASE Declined(k)
  <2>1. Fate(k)' = "closed"
    BY <1>7 DEF Declined, Fate
  <2>2. Promise!Close(k)
    BY <1>1, <1>3, <1>4, <1>5, <2>1 DEF Promise!Close, fates, returns
  <2> QED BY <1>1, <2>2 DEF Promise!LedgerNext
<1> QED BY <1>1, <1>6, <1>7

(* With its single worker the pipeline implements SaleLedger: through      *)
(* replays, crashes and documents out of order, each line is applied or    *)
(* closed once, and given back if it was returned.                         *)
THEOREM PipelineImplementsLedger ==
  ASSUME SingleWorker
  PROVE  Spec => ImplementsLedger
<1>1. ASSUME PipeInv, PipeInv', SoloInv, WholeLine, [Next]_vars
      PROVE  [Promise!LedgerNext]_(Promise!ledgerVars)
  <2>1. CASE UNCHANGED tableVars
    <3>1. \A l \in Lines : Untouched(l)
      BY <2>1 DEF tableVars, Untouched
    <3>2. fates' = fates /\ returns' = returns
      BY <3>1, UntouchedKeepsFate DEF fates, returns
    <3> QED BY <3>2 DEF Promise!ledgerVars, fates, returns
  <2> QED BY <1>1, <2>1, OnlyWorkWrites, IngestSees, RefundReturns, WriteDecides
<1>2. PipeInv /\ PipeInv' /\ SoloInv /\ WholeLine /\ [Next]_vars
        => [Promise!LedgerNext]_(Promise!ledgerVars)
  BY <1>1
<1> QED BY <1>2, LedgerInitially, PipeAlways, SoloAlways, WholeAlways, PTL
        DEF Spec, ImplementsLedger, Promise!LedgerSpec
=============================================================================
