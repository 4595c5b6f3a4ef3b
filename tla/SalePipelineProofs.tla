------------------------- MODULE SalePipelineProofs -------------------------
(* Theorems about the sale pipeline, for every number of orders, lines,    *)
(* versions, workers and crashes.                                          *)
EXTENDS SalePipeline, InboxProofs

-----------------------------------------------------------------------------
(* The pipeline only refines the queue's phase "work": seen from the queue *)
(* each of its steps is a queue step or a stutter.                         *)

LEMMA WorkIsQueueStep ==
  ASSUME NEW w \in Workers, Work(w)
  PROVE  Complete(w) \/ Fail(w) \/ UNCHANGED queueVars
BY DEF Work, SkipOpen, Ingest, RefundLine, Scan, ReadLine, WriteLine, LineFault,
       Finish, GiveUp

LEMMA StepIsQueueStep == [Next]_vars => [QueueNext]_queueVars
<1> SUFFICES ASSUME [Next]_vars PROVE [QueueNext]_queueVars
  OBVIOUS
<1>1. CASE \E o \in Orders, d \in VendorDocs : Sell(o, d)
  BY <1>1 DEF Sell, QueueNext
<1>2. CASE \E kind \in Kinds : Confirm(kind) \/ Unconfirm(kind)
  BY <1>2 DEF Confirm, Unconfirm
<1>3. CASE \E S \in SUBSET Orders : ListLocked(S)
  BY <1>3 DEF ListLocked, QueueNext
<1>4. CASE QueueStep
  BY <1>4 DEF QueueStep, QueueNext
<1>5. CASE \E w \in Workers : Obtain(w) \/ FetchFails(w)
  BY <1>5 DEF Obtain, FetchFails, QueueNext, WorkerStep
<1>6. CASE \E w \in Workers : Work(w)
  BY <1>6, WorkIsQueueStep DEF QueueNext, WorkerStep
<1>7. CASE \E w \in Workers : CrashWorker(w)
  BY <1>7 DEF CrashWorker, QueueNext
<1>8. CASE UNCHANGED vars
  BY <1>8 DEF vars
<1> QED BY <1>1, <1>2, <1>3, <1>4, <1>5, <1>6, <1>7, <1>8 DEF Next

(* Whatever holds of the queue alone holds of the queue under the          *)
(* pipeline.                                                               *)
THEOREM RefinesQueue == Spec => QueueSpec
<1>1. Init => QueueInit
  BY DEF Init
<1> QED BY <1>1, StepIsQueueStep, PTL DEF Spec, QueueSpec

(* In particular no revision is acknowledged unseen.                       *)
THEOREM PipelineProcessedSaw == Spec => []ProcessedSawRevision
BY RefinesQueue, ProcessedSaw, PTL

-----------------------------------------------------------------------------
(* Types, and what they rest on: the documents name only lines of their   *)
(* own order, a recorded line has its order recorded, and a worker has     *)
(* before it only recorded lines.                                          *)
DocsOwnLines == \A o \in Orders : \A r \in Revs : content[o][r].refunded \subseteq LinesOf(o)

Recorded(l) == line[l].status # "absent"

LinesHaveOrders == \A l \in Lines : Recorded(l) => order[OrderOf[l]] # "absent"

JobOnRecorded(j) ==
  /\ \A l \in j.todo : Recorded(l)
  /\ j.step = "write" => j.view \in Views /\ Recorded(j.view.line)

WorkOnRecorded == \A w \in Workers : JobOnRecorded(job[w])

PipeInv == TypeOK /\ DocsOwnLines /\ LinesHaveOrders /\ WorkOnRecorded

LEMMA PipeFacts ==
  /\ OrderOf \in [Lines -> Orders]
  /\ VendorDocs \subseteq Documents
  /\ MaxVersion \in [Kinds -> Nat]
  /\ NoView \notin Views
  /\ AbsentLine \in LineRows
  /\ Rest \in Jobs
  /\ BlankDoc \in Documents
BY PipelineAssumption
   DEF PipelineAssumption, Views, AbsentLine, LineRows, Statuses, Reasons, Kinds,
       Unset, Rest, Jobs, Steps, BlankDoc, Documents, PayStates

LEMMA VersionsAreNumbers == Versions \subseteq Nat /\ 0 \notin Versions
BY PipelineAssumption DEF PipelineAssumption, Versions, Kinds

LEMMA PipeInit == Init => PipeInv
<1> SUFFICES ASSUME Init PROVE PipeInv
  OBVIOUS
<1>1. QueueTypeOK
  BY TypeInit DEF Init, TypeInv
<1>2. ledger \in [Lines -> [Sources -> [out : 0 .. 1, back : 0 .. 1]]]
  BY DEF Init, NoRows
<1>3. TypeOK
  BY <1>1, <1>2, PipeFacts DEF Init, TypeOK, Unset
<1>4. DocsOwnLines
  BY DEF Init, DocsOwnLines, BlankDoc
<1>5. LinesHaveOrders
  BY DEF Init, LinesHaveOrders, Recorded, AbsentLine
<1>6. WorkOnRecorded
  BY DEF Init, WorkOnRecorded, JobOnRecorded, Rest
<1> QED BY <1>3, <1>4, <1>5, <1>6 DEF PipeInv

(* Steps that change neither a sale table nor a worker's place in "work".  *)
LEMMA QuietStep ==
  ASSUME PipeInv, QueueTypeOK', UNCHANGED saleVars,
         \A w \in Workers : pc[w] = "work" => pc'[w] = "work"
  PROVE  PipeInv'
BY DEF PipeInv, TypeOK, DocsOwnLines, LinesOf, LinesHaveOrders,
              WorkOnRecorded, JobOnRecorded, Recorded, saleVars

LEMMA QueueStepKeepsPlaces ==
  ASSUME QueueStep \/ (\E S \in SUBSET Orders : ListLocked(S))
  PROVE  UNCHANGED saleVars /\ UNCHANGED pc
BY DEF QueueStep, ListLocked, Delete, Webhook, ReconList, ReconUpsert, ReconStop,
       Expire, workerVars

LEMMA ObtainKeepsPlaces ==
  ASSUME QueueTypeOK, NEW w \in Workers, Obtain(w) \/ FetchFails(w)
  PROVE  /\ UNCHANGED saleVars
         /\ \A v \in Workers : pc[v] = "work" => pc'[v] = "work"
BY DEF QueueTypeOK, Obtain, FetchFails, Claim, NextEvent, FetchOk, FetchGone,
       SavePayload, Fail, Release

LEMMA SellStep ==
  ASSUME PipeInv, QueueTypeOK', NEW o \in Orders, NEW d \in VendorDocs, Sell(o, d)
  PROVE  PipeInv'
<1>1. rev[o] + 1 \in Revs
  BY InboxAssumption DEF InboxAssumption, Sell, Modify, PipeInv, TypeOK, QueueTypeOK,
                         Docs, Revs
<1>2. d \in Documents /\ d.refunded \subseteq LinesOf(o)
  BY PipeFacts DEF Sell
<1>3. /\ content' \in [Orders -> [Revs -> Documents]]
      /\ DocsOwnLines'
  BY <1>1, <1>2 DEF Sell, PipeInv, TypeOK, DocsOwnLines, LinesOf
<1>4. UNCHANGED <<confirmed, latest, order, line, ledger, job, pc>>
  BY DEF Sell, Modify, catalogVars, tableVars, workerVars
<1> QED BY <1>3, <1>4 DEF PipeInv, TypeOK, LinesHaveOrders, WorkOnRecorded,
                         JobOnRecorded, Recorded

LEMMA CatalogStep ==
  ASSUME PipeInv, QueueTypeOK', NEW kind \in Kinds, Confirm(kind) \/ Unconfirm(kind)
  PROVE  PipeInv'
<1>1. ASSUME Confirm(kind) PROVE latest[kind] + 1 \in Versions
  <2>1. latest[kind] \in Nat
    <3>1. latest[kind] \in {0} \cup Versions
      BY DEF PipeInv, TypeOK
    <3>2. \A n \in Versions : n \in Nat
      BY VersionsAreNumbers
    <3> QED BY <3>1, <3>2
  <2>4. MaxVersion[kind] \in Nat
    BY PipeFacts
  <2>2. latest[kind] < MaxVersion[kind]
    BY <1>1 DEF Confirm
  <2>3. latest[kind] + 1 \in 1 .. MaxVersion[kind]
    BY <2>1, <2>2, <2>4
  <2> QED BY <2>3 DEF Versions
<1>2. /\ confirmed' \in [Kinds -> {Unset} \cup Versions]
      /\ latest' \in [Kinds -> {0} \cup Versions]
  BY <1>1 DEF Confirm, Unconfirm, PipeInv, TypeOK
<1>3. UNCHANGED <<content, order, line, ledger, job, pc>>
  BY DEF Confirm, Unconfirm, tableVars, queueVars
<1> QED BY <1>2, <1>3 DEF PipeInv, TypeOK, DocsOwnLines, LinesOf, LinesHaveOrders,
              WorkOnRecorded, JobOnRecorded, Recorded

-----------------------------------------------------------------------------
(* The steps of a worker inside "work".                                    *)

(* A worker moves on inside its event.                                     *)
LEMMA MoveOn ==
  ASSUME PipeInv, QueueTypeOK', NEW w \in Workers,
         pc[w] = "work",
         job' = [job EXCEPT ![w] = job'[w]], job'[w] \in Jobs,
         JobOnRecorded(job[w])',
         UNCHANGED <<pc, content, catalogVars>>,
         \A l \in Lines : Recorded(l) => Recorded(l)', LinesHaveOrders',
         order' \in [Orders -> PayStates \cup {"absent"}],
         line' \in [Lines -> LineRows],
         ledger' \in [Lines -> [Sources -> [out : 0 .. 1, back : 0 .. 1]]]
  PROVE  PipeInv'
<1>1. TypeOK'
  BY DEF PipeInv, TypeOK, catalogVars
<1>2. DocsOwnLines'
  BY DEF PipeInv, DocsOwnLines, LinesOf
<1>3. WorkOnRecorded'
  <2> SUFFICES ASSUME NEW v \in Workers PROVE JobOnRecorded(job[v])'
    BY DEF WorkOnRecorded
  <2>1. CASE v = w
    BY <2>1 DEF PipeInv, TypeOK
  <2>2. CASE v # w
    <3>1. job'[v] = job[v] /\ JobOnRecorded(job[v])
      BY <2>2 DEF PipeInv, TypeOK, WorkOnRecorded
    <3>2. job[v].todo \subseteq Lines
      BY DEF PipeInv, TypeOK, Jobs
    <3> QED BY <3>1, <3>2 DEF JobOnRecorded, Views
  <2> QED BY <2>1, <2>2
<1> QED BY <1>1, <1>2, <1>3 DEF PipeInv

(* A worker is done with its event.                                        *)
LEMMA LeaveWork ==
  ASSUME PipeInv, QueueTypeOK', NEW w \in Workers, Clear(w),
         \A v \in Workers \ {w} : pc'[v] = pc[v],
         UNCHANGED <<content, catalogVars, tableVars>>
  PROVE  PipeInv'
BY PipeFacts DEF PipeInv, TypeOK, DocsOwnLines, LinesOf, LinesHaveOrders,
              WorkOnRecorded, JobOnRecorded, Recorded, Clear, Rest,
                 catalogVars, tableVars

LEMMA DoneStep ==
  ASSUME PipeInv, QueueTypeOK', NEW w \in Workers,
         SkipOpen(w) \/ Finish(w) \/ GiveUp(w) \/ CrashWorker(w)
  PROVE  PipeInv'
<1>1. \A v \in Workers \ {w} : pc'[v] = pc[v]
  BY DEF SkipOpen, Finish, GiveUp, CrashWorker, Complete, Fail, Crash, Release,
         PipeInv, TypeOK, QueueTypeOK
<1>2. Clear(w) /\ UNCHANGED <<content, catalogVars, tableVars>>
  BY DEF SkipOpen, Finish, GiveUp, CrashWorker
<1> QED BY <1>1, <1>2, LeaveWork

LEMMA IngestStep ==
  ASSUME PipeInv, QueueInv, QueueTypeOK', NEW w \in Workers, Ingest(w)
  PROVE  PipeInv'
<1> DEFINE o == OrderIn(w)
           d == DocIn(w)
           j == [job[w] EXCEPT !.step = "refund", !.todo = d.refunded]
<1>1. pc[w] = "work" /\ doc[w] \in Revs /\ o \in Orders
  BY Shapes DEF Ingest, At, QueueInv, HasDoc, TypeInv, HasEvent, Busy, OrderIn,
                Snapshots, Keys
<1>2. d \in Documents
  BY <1>1 DEF DocIn, PipeInv, TypeOK
<1>3. d.pay \in PayStates /\ d.refunded \in SUBSET Lines
  BY <1>2 DEF Documents
<1>4. order' \in [Orders -> PayStates \cup {"absent"}]
  BY <1>1, <1>3 DEF Ingest, PipeInv, TypeOK, MergePayment
<1>5. \A l \in Lines : Pending(l, d) \in LineRows
  BY DEF Pending, Snapshot, LineRows, Statuses, Reasons, PipeInv, TypeOK
<1>6. line' \in [Lines -> LineRows]
  <2>1. \A l \in Lines : line'[l] \in {Pending(l, d), line[l]}
    BY DEF Ingest, Inserted
  <2>2. line' = [l \in Lines |-> line'[l]]
    BY DEF Ingest
  <2> HIDE DEF d
  <2> QED BY <2>1, <2>2, <1>5 DEF PipeInv, TypeOK
<1>7. j \in Jobs /\ j.step = "refund"
  BY <1>3 DEF PipeInv, TypeOK, Jobs, Steps
<1>8. job' = [job EXCEPT ![w] = j]
  BY DEF Ingest, Goto
<1>9. UNCHANGED <<pc, content, catalogVars, ledger>>
  BY DEF Ingest, queueVars
<1>10. \A l \in Lines : line'[l] \in {Pending(l, d), line[l]}
                        /\ (l \in LinesOf(o) => Recorded(l)')
                        /\ (l \notin LinesOf(o) => line'[l] = line[l])
  BY DEF Ingest, Inserted, Pending, Recorded
<1>11. \A l \in Lines : Recorded(l) => Recorded(l)'
  BY <1>10 DEF Recorded, Pending
<1>14. job'[w] = j
  BY <1>8 DEF PipeInv, TypeOK
<1>12. JobOnRecorded(job[w])'
  <2>1. d.refunded \subseteq LinesOf(o)
    BY <1>1 DEF PipeInv, DocsOwnLines, DocIn
  <2>2. j.todo = d.refunded
    BY DEF PipeInv, TypeOK, Jobs
  <2>3. \A l \in j.todo : Recorded(l)'
    BY <1>10, <2>1, <2>2 DEF LinesOf
  <2> HIDE DEF j
  <2> QED BY <1>7, <1>14, <2>3 DEF JobOnRecorded
<1>13. LinesHaveOrders'
  <2> SUFFICES ASSUME NEW l \in Lines, Recorded(l)' PROVE order'[OrderOf[l]] # "absent"
    BY DEF LinesHaveOrders
  <2>1. order'[o] # "absent"
    BY <1>1, <1>3 DEF Ingest, PipeInv, TypeOK, MergePayment, PayStates
  <2>2. CASE l \in LinesOf(o)
    BY <2>1, <2>2 DEF LinesOf
  <2>3. CASE l \notin LinesOf(o)
    <3>1. order'[OrderOf[l]] = order[OrderOf[l]]
      BY <1>1, <2>3, PipeFacts DEF Ingest, LinesOf, PipeInv, TypeOK
    <3> QED BY <3>1, <2>3, <1>10 DEF PipeInv, LinesHaveOrders, Recorded
  <2> QED BY <2>2, <2>3
<1> HIDE DEF j, d, o
<1> QED BY <1>1, <1>4, <1>6, <1>7, <1>8, <1>9, <1>11, <1>12, <1>13, <1>14, MoveOn
        DEF PipeInv, TypeOK

LEMMA RefundStep ==
  ASSUME PipeInv, QueueTypeOK', NEW w \in Workers, NEW l \in Lines, RefundLine(w, l)
  PROVE  PipeInv'
<1> DEFINE j == [job[w] EXCEPT !.step = "refund", !.todo = job[w].todo \ {l}]
           row == [s \in Sources |-> [ledger[l][s] EXCEPT !.back = ledger[l][s].out]]
<1>1. line' \in [Lines -> LineRows]
  BY DEF RefundLine, PipeInv, TypeOK, LineRows
<1>2. row \in [Sources -> [out : 0 .. 1, back : 0 .. 1]]
  BY DEF PipeInv, TypeOK
<1>3. ledger' = [ledger EXCEPT ![l] = row]
  BY DEF RefundLine, PipeInv, TypeOK
<1>4. ledger' \in [Lines -> [Sources -> [out : 0 .. 1, back : 0 .. 1]]]
  BY <1>2, <1>3 DEF PipeInv, TypeOK
<1>5. j \in Jobs /\ j.step = "refund"
  BY DEF PipeInv, TypeOK, Jobs, Steps
<1>6. job' = [job EXCEPT ![w] = j]
  BY DEF RefundLine, Goto
<1>7. UNCHANGED <<pc, content, catalogVars, order>> /\ pc[w] = "work"
  BY DEF RefundLine, At, queueVars
<1>8. \A k \in Lines : line'[k].status = line[k].status
  BY DEF RefundLine, PipeInv, TypeOK, LineRows
<1>9. (\A k \in Lines : Recorded(k) => Recorded(k)') /\ LinesHaveOrders'
  BY <1>7, <1>8 DEF Recorded, PipeInv, LinesHaveOrders
<1>11. job'[w] = j
  BY <1>6 DEF PipeInv, TypeOK
<1>10. JobOnRecorded(job[w])'
  <2>1. j.todo \subseteq job[w].todo /\ job[w].todo \subseteq Lines
    BY DEF PipeInv, TypeOK, Jobs
  <2> HIDE DEF j
  <2> QED BY <1>5, <1>9, <1>11, <2>1 DEF PipeInv, WorkOnRecorded, JobOnRecorded
<1> HIDE DEF j, row
<1> QED BY <1>1, <1>4, <1>5, <1>6, <1>7, <1>9, <1>10, <1>11, MoveOn DEF PipeInv, TypeOK

(* Steps of process_line that write no table.                              *)
LEMMA LookStep ==
  ASSUME PipeInv, QueueTypeOK', NEW w \in Workers,
         \/ Scan(w)
         \/ \E l \in Lines : ReadLine(w, l) \/ LineFault(w, l)
  PROVE  PipeInv'
<1>1. job[w] \in Jobs /\ JobOnRecorded(job[w])
  BY DEF PipeInv, TypeOK, WorkOnRecorded
<1>2. PICK j \in Jobs : JobOnRecorded(j) /\ job' = [job EXCEPT ![w] = j]
  <2>1. CASE Scan(w)
    <3> DEFINE todo == {l \in LinesOf(OrderIn(w)) : line[l].status = "pending"}
               j == [job[w] EXCEPT !.step = "deplete", !.todo = todo]
    <3>1. todo \in SUBSET Lines /\ \A l \in todo : Recorded(l)
      BY DEF LinesOf, Recorded
    <3>2. job' = [job EXCEPT ![w] = j]
      BY <2>1 DEF Scan, Goto
    <3> HIDE DEF todo
    <3>3. j \in Jobs /\ JobOnRecorded(j)
      BY <1>1, <3>1 DEF Jobs, Steps, JobOnRecorded
    <3> HIDE DEF j
    <3> QED BY <3>2, <3>3
  <2>2. ASSUME NEW l \in Lines, ReadLine(w, l)
        PROVE  \E j \in Jobs : JobOnRecorded(j) /\ job' = [job EXCEPT ![w] = j]
    <3> DEFINE view == [line |-> l, pay |-> order[OrderOf[l]],
                        refunded |-> line[l].refunded]
               j1 == [job[w] EXCEPT !.todo = job[w].todo \ {l}]
               j2 == [job[w] EXCEPT !.step = "write", !.view = view]
    <3>1. CASE line[l].status \in Terminal
      <4>1. j1 \in Jobs /\ JobOnRecorded(j1)
        BY <1>1, <2>2 DEF Jobs, ReadLine, At, JobOnRecorded
      <4>2. job' = [job EXCEPT ![w] = j1]
        BY <2>2, <3>1 DEF ReadLine
      <4> HIDE DEF j1
      <4> QED BY <4>1, <4>2
    <3>2. CASE line[l].status \notin Terminal
      <4>1. view \in Views
        <5>1. order[OrderOf[l]] \in PayStates
          <6>1. order[OrderOf[l]] # "absent"
            BY <1>1, <2>2 DEF ReadLine, JobOnRecorded, PipeInv, LinesHaveOrders
          <6> QED BY <6>1, PipeFacts DEF PipeInv, TypeOK
        <5>2. line[l].refunded \in BOOLEAN
          BY DEF PipeInv, TypeOK, LineRows
        <5> QED BY <5>1, <5>2 DEF Views
      <4>2. job' = [job EXCEPT ![w] = j2]
        BY <2>2, <3>2 DEF ReadLine
      <4>3. view.line = l /\ Recorded(l)
        BY <1>1, <2>2 DEF ReadLine, JobOnRecorded
      <4> HIDE DEF view
      <4>4. j2 \in Jobs /\ JobOnRecorded(j2)
        BY <1>1, <4>1, <4>3 DEF Jobs, Steps, JobOnRecorded
      <4> HIDE DEF j2
      <4> QED BY <4>2, <4>4
    <3> QED BY <3>1, <3>2
  <2>3. ASSUME NEW l \in Lines, LineFault(w, l)
        PROVE  \E j \in Jobs : JobOnRecorded(j) /\ job' = [job EXCEPT ![w] = j]
    <3> DEFINE j == [job[w] EXCEPT !.step = "deplete", !.view = NoView,
                                   !.todo = job[w].todo \ {l}, !.faulty = TRUE]
    <3>1. j \in Jobs /\ JobOnRecorded(j)
      BY <1>1 DEF Jobs, Steps, JobOnRecorded
    <3>2. job' = [job EXCEPT ![w] = j]
      BY <2>3 DEF LineFault
    <3> HIDE DEF j
    <3> QED BY <3>1, <3>2
  <2> QED BY <2>1, <2>2, <2>3
<1>3. UNCHANGED <<pc, content, catalogVars, tableVars>> /\ pc[w] = "work"
  BY DEF Scan, ReadLine, LineFault, At, queueVars
<1>4. /\ \A l \in Lines : Recorded(l) => Recorded(l)'
      /\ LinesHaveOrders'
      /\ job'[w] = j
      /\ JobOnRecorded(job[w])'
  BY <1>2, <1>3 DEF PipeInv, LinesHaveOrders, JobOnRecorded, Recorded, tableVars, TypeOK
<1> QED BY <1>2, <1>3, <1>4, MoveOn DEF PipeInv, TypeOK, tableVars

LEMMA VerdictTypes ==
  ASSUME NEW v
  PROVE  Verdict(v).status \in Terminal /\ Verdict(v).reason \in Reasons
BY DEF Verdict, Terminal, Reasons, Ineligibility

LEMMA PostTypes ==
  ASSUME TypeOK, NEW l \in Lines, NEW S, Post(l, S)
  PROVE  ledger' \in [Lines -> [Sources -> [out : 0 .. 1, back : 0 .. 1]]]
<1> DEFINE row == [s \in Sources |-> IF s \in S /\ ledger[l][s].out = 0
                                     THEN [ledger[l][s] EXCEPT !.out = 1]
                                     ELSE ledger[l][s]]
<1>1. row \in [Sources -> [out : 0 .. 1, back : 0 .. 1]]
  BY DEF TypeOK
<1>2. ledger' = [ledger EXCEPT ![l] = row]
  BY DEF Post, TypeOK
<1> HIDE DEF row
<1> QED BY <1>1, <1>2 DEF TypeOK

LEMMA WriteStep ==
  ASSUME PipeInv, QueueTypeOK', NEW w \in Workers, WriteLine(w)
  PROVE  PipeInv'
<1> DEFINE v == job[w].view
           l == v.line
           j == [job[w] EXCEPT !.step = "deplete", !.view = NoView,
                               !.todo = job[w].todo \ {l}]
<1>1. v \in Views /\ l \in Lines
  BY DEF WriteLine, At, PipeInv, WorkOnRecorded, JobOnRecorded, Views
<1>2. line' \in [Lines -> LineRows]
  <2>1. line' = [line EXCEPT ![l].status = Verdict(v).status,
                             ![l].reason = Verdict(v).reason]
    BY DEF WriteLine
  <2>2. Verdict(v).status \in Statuses /\ Verdict(v).reason \in Reasons
    BY VerdictTypes DEF Statuses
  <2> HIDE DEF v, l
  <2> DEFINE row == [line[l] EXCEPT !.status = Verdict(v).status,
                                    !.reason = Verdict(v).reason]
  <2>3. row \in LineRows
    BY <1>1, <2>2 DEF PipeInv, TypeOK, LineRows
  <2>4. line' = [line EXCEPT ![l] = row]
    BY <1>1, <2>1 DEF PipeInv, TypeOK
  <2> HIDE DEF row
  <2> QED BY <1>1, <2>3, <2>4 DEF PipeInv, TypeOK
<1>3. ledger' \in [Lines -> [Sources -> [out : 0 .. 1, back : 0 .. 1]]]
  BY <1>1, PostTypes DEF WriteLine, PipeInv
<1>4. j \in Jobs /\ j.step = "deplete"
  <2> HIDE DEF l
  <2> QED BY DEF PipeInv, TypeOK, Jobs, Steps
<1>5. job' = [job EXCEPT ![w] = j]
  BY DEF WriteLine
<1>6. UNCHANGED <<pc, content, catalogVars, order>> /\ pc[w] = "work"
  BY DEF WriteLine, At, queueVars
<1>7. \A k \in Lines : line'[k].status \in {line[k].status, Verdict(v).status}
  BY <1>1 DEF WriteLine, PipeInv, TypeOK, LineRows
<1>8. Recorded(l) /\ \A k \in Lines \ {l} : line'[k] = line[k]
  BY <1>1 DEF WriteLine, At, PipeInv, TypeOK, WorkOnRecorded, JobOnRecorded
<1>9. \A k \in Lines : (Recorded(k) => Recorded(k)') /\ (Recorded(k)' => Recorded(k))
  BY <1>1, <1>7, <1>8, VerdictTypes DEF Recorded, Terminal
<1>10. LinesHaveOrders'
  BY <1>6, <1>9 DEF PipeInv, LinesHaveOrders
<1>12. job'[w] = j
  BY <1>5 DEF PipeInv, TypeOK
<1>11. JobOnRecorded(job[w])'
  <2>1. j.todo \subseteq job[w].todo /\ job[w].todo \subseteq Lines
    BY DEF PipeInv, TypeOK, Jobs
  <2> HIDE DEF j
  <2> QED BY <1>4, <1>9, <1>12, <2>1 DEF PipeInv, WorkOnRecorded, JobOnRecorded
<1> HIDE DEF j
<1> QED BY <1>2, <1>3, <1>4, <1>5, <1>6, <1>9, <1>10, <1>11, <1>12, MoveOn
        DEF PipeInv, TypeOK

LEMMA PipeNext ==
  PipeInv /\ QueueInv /\ QueueInv' /\ [Next]_vars => PipeInv'
<1> SUFFICES ASSUME PipeInv, QueueInv, QueueInv', [Next]_vars PROVE PipeInv'
  OBVIOUS
<1> QueueTypeOK /\ QueueTypeOK'
  BY DEF QueueInv, TypeInv
<1>1. CASE \E o \in Orders, d \in VendorDocs : Sell(o, d)
  BY <1>1, SellStep
<1>2. CASE \E kind \in Kinds : Confirm(kind) \/ Unconfirm(kind)
  BY <1>2, CatalogStep
<1>3. CASE QueueStep \/ \E S \in SUBSET Orders : ListLocked(S)
  BY <1>3, QueueStepKeepsPlaces, QuietStep
<1>4. CASE \E w \in Workers : Obtain(w) \/ FetchFails(w)
  BY <1>4, ObtainKeepsPlaces, QuietStep
<1>5. CASE \E w \in Workers : Work(w)
  <2> PICK w \in Workers : Work(w)
    BY <1>5
  <2> QED BY DoneStep, IngestStep, RefundStep, LookStep, WriteStep DEF Work
<1>6. CASE \E w \in Workers : CrashWorker(w)
  BY <1>6, DoneStep
<1>7. CASE UNCHANGED vars
  BY <1>7 DEF vars, saleVars, queueVars, PipeInv, TypeOK, DocsOwnLines, LinesOf,
              LinesHaveOrders, WorkOnRecorded, JobOnRecorded, Recorded
<1> QED BY <1>1, <1>2, <1>3, <1>4, <1>5, <1>6, <1>7 DEF Next

LEMMA PipeAlways == Spec => [](PipeInv /\ QueueInv)
<1>1. Spec => []QueueInv
  BY RefinesQueue, QueueInvariant, PTL
<1> QED BY <1>1, PipeInit, PipeNext, PTL DEF Spec

(* Every table and every worker variable keeps its type, and a worker that *)
(* is not inside "work" carries nothing over to the next event, for any    *)
(* number of workers, crashes and replays.                                 *)
THEOREM TypeCorrect == Spec => []TypeOK
<1>1. PipeInv => TypeOK
  BY DEF PipeInv
<1> QED BY <1>1, PipeAlways, PTL

-----------------------------------------------------------------------------
(* What one step can do to one line, whichever worker takes it.            *)
Untouched(l) == line'[l] = line[l] /\ ledger'[l] = ledger[l]

FirstSeen(l) ==
  /\ ~Recorded(l)
  /\ Recorded(l)'
  /\ ledger'[l] = ledger[l]

GivenBack(l) ==
  /\ Recorded(l)
  /\ line'[l].status = line[l].status
  /\ line'[l].refunded
  /\ line'[l].frozen = line[l].frozen
  /\ \A s \in Sources : /\ ledger'[l][s].out = ledger[l][s].out
                       /\ ledger'[l][s].back = ledger[l][s].out

Decided(l) ==
  /\ Recorded(l) /\ Recorded(l)'
  /\ line'[l].refunded = line[l].refunded
  /\ line'[l].frozen = line[l].frozen
  /\ \A s \in Sources : ledger'[l][s].back = ledger[l][s].back
  /\ \/ \A s \in Sources : ledger'[l][s].out = ledger[l][s].out
     \/ \A s \in Sources : ledger'[l][s].out =
                             IF s \in Plan(l) THEN 1 ELSE ledger[l][s].out

LineStep(l) == Untouched(l) \/ FirstSeen(l) \/ GivenBack(l) \/ Decided(l)

LEMMA RefundEffect ==
  ASSUME PipeInv, NEW w \in Workers, NEW k \in Lines, RefundLine(w, k),
         NEW l \in Lines
  PROVE  LineStep(l)
<1> TypeOK /\ Recorded(k)
  BY DEF PipeInv, WorkOnRecorded, JobOnRecorded, RefundLine
<1>1. CASE l # k
  BY <1>1 DEF RefundLine, TypeOK, LineStep, Untouched
<1>2. CASE l = k
  <2>1. line'[l] = [line[l] EXCEPT !.refunded = TRUE]
    BY <1>2 DEF RefundLine, TypeOK, LineRows
  <2>2. ledger'[l] = [s \in Sources |-> [ledger[l][s] EXCEPT !.back = ledger[l][s].out]]
    BY <1>2 DEF RefundLine, TypeOK
  <2>3. \A s \in Sources : ledger[l][s] \in [out : 0 .. 1, back : 0 .. 1]
    BY DEF TypeOK
  <2>4. line'[l].status = line[l].status /\ line'[l].frozen = line[l].frozen
        /\ line'[l].refunded
    BY <2>1 DEF TypeOK, LineRows
  <2>5. ASSUME NEW s \in Sources
        PROVE  /\ ledger'[l][s].out = ledger[l][s].out
               /\ ledger'[l][s].back = ledger[l][s].out
    <3>1. ledger'[l][s] = [ledger[l][s] EXCEPT !.back = ledger[l][s].out]
      BY <2>2
    <3> QED BY <3>1, <2>3
  <2> QED BY <1>2, <2>4, <2>5 DEF LineStep, GivenBack
<1> QED BY <1>1, <1>2

LEMMA WriteEffect ==
  ASSUME PipeInv, NEW w \in Workers, WriteLine(w), NEW l \in Lines
  PROVE  LineStep(l)
<1> DEFINE v == job[w].view
           S == IF Verdict(v).status = "depleted" THEN Plan(v.line) ELSE {}
<1>1. v.line \in Lines /\ Recorded(v.line)
  BY DEF WriteLine, At, PipeInv, WorkOnRecorded, JobOnRecorded, Views
<1>2. CASE l # v.line
  BY <1>1, <1>2 DEF WriteLine, Post, PipeInv, TypeOK, LineStep, Untouched
<1>3. CASE l = v.line
  <2>1. /\ line'[l].status = Verdict(v).status
        /\ line'[l].refunded = line[l].refunded
        /\ line'[l].frozen = line[l].frozen
    BY <1>3 DEF WriteLine, PipeInv, TypeOK, LineRows
  <2>2. Recorded(l)'
    BY <2>1, VerdictTypes DEF Recorded, Terminal
  <2>3. ledger'[l] = [s \in Sources |-> IF s \in S /\ ledger[l][s].out = 0
                                        THEN [ledger[l][s] EXCEPT !.out = 1]
                                        ELSE ledger[l][s]]
    BY <1>3 DEF WriteLine, Post, PipeInv, TypeOK
  <2>4. S = Plan(l) \/ S = {}
    BY <1>3
  <2> HIDE DEF S, v
  <2>6. ASSUME NEW s \in Sources
        PROVE  /\ ledger'[l][s].back = ledger[l][s].back
               /\ ledger'[l][s].out = IF s \in S THEN 1 ELSE ledger[l][s].out
    <3> DEFINE row == ledger[l][s]
    <3>1. row \in [out : 0 .. 1, back : 0 .. 1]
      BY DEF PipeInv, TypeOK
    <3>2. ledger'[l][s] = IF s \in S /\ row.out = 0 THEN [row EXCEPT !.out = 1] ELSE row
      BY <2>3
    <3> HIDE DEF row
    <3>3. /\ ledger'[l][s].back = row.back
          /\ ledger'[l][s].out = IF s \in S THEN 1 ELSE row.out
      BY <3>1, <3>2
    <3> QED BY <3>3 DEF row
  <2> QED BY <1>1, <1>3, <2>1, <2>2, <2>4, <2>6 DEF LineStep, Decided
<1> QED BY <1>2, <1>3

LEMMA LineEffect ==
  ASSUME PipeInv, [Next]_vars, NEW l \in Lines
  PROVE  LineStep(l)
<1>1. CASE UNCHANGED tableVars
  BY <1>1 DEF tableVars, LineStep, Untouched
<1>2. ASSUME NEW w \in Workers, Work(w) PROVE LineStep(l)
  <2>1. CASE Ingest(w)
    BY <2>1 DEF Ingest, Inserted, Pending, Recorded, LineStep, Untouched, FirstSeen
  <2>2. CASE \E k \in Lines : RefundLine(w, k)
    BY <2>2, RefundEffect DEF PipeInv
  <2>3. CASE WriteLine(w)
    BY <2>3, WriteEffect
  <2>4. CASE \/ SkipOpen(w) \/ Scan(w) \/ Finish(w) \/ GiveUp(w)
             \/ \E k \in Lines : ReadLine(w, k) \/ LineFault(w, k)
    BY <1>1, <2>4 DEF SkipOpen, Scan, Finish, GiveUp, ReadLine, LineFault
  <2> QED BY <1>2, <2>1, <2>2, <2>3, <2>4 DEF Work
<1>3. CASE ~ \E w \in Workers : Work(w)
  BY <1>1, <1>3 DEF Next, vars, saleVars, tableVars, Sell, Confirm, Unconfirm,
                    ListLocked, QueueStep, Obtain, FetchFails, CrashWorker
<1> QED BY <1>2, <1>3

-----------------------------------------------------------------------------
(* Lines are whole.                                                        *)

AbsentIsBlank ==
  \A l \in Lines : ~Recorded(l) => Forward(l) = {} /\ ~line[l].refunded

LEMMA WholeNext ==
  PipeInv /\ PipeInv' /\ AbsentIsBlank /\ WholeLine /\ [Next]_vars
    => AbsentIsBlank' /\ WholeLine'
<1> SUFFICES ASSUME PipeInv, PipeInv', AbsentIsBlank, WholeLine, [Next]_vars,
                    NEW l \in Lines
             PROVE  /\ ~Recorded(l)' => Forward(l)' = {} /\ ~line'[l].refunded
                    /\ Forward(l)' \in {{}, Plan(l)'}
                    /\ Reversed(l)' \in {{}, Forward(l)'}
                    /\ Reversed(l)' # {} => line'[l].refunded
  BY DEF AbsentIsBlank, WholeLine
<1>1. /\ ~Recorded(l) => Forward(l) = {} /\ ~line[l].refunded
      /\ Forward(l) \in {{}, Plan(l)}
      /\ Reversed(l) \in {{}, Forward(l)}
      /\ Reversed(l) # {} => line[l].refunded
  BY DEF AbsentIsBlank, WholeLine
<1>2. CASE Untouched(l)
  BY <1>1, <1>2 DEF Untouched, Recorded, Forward, Reversed, Plan
<1>3. CASE FirstSeen(l)
  <2>1. Forward(l)' = {} /\ Reversed(l)' = {}
    BY <1>1, <1>3 DEF FirstSeen, Forward, Reversed
  <2> QED BY <2>1, <1>3 DEF FirstSeen
<1>4. CASE GivenBack(l)
  <2>1. Forward(l)' = Forward(l) /\ Reversed(l)' = Forward(l)
    BY <1>4 DEF GivenBack, Forward, Reversed
  <2>2. Plan(l)' = Plan(l)
    BY <1>4 DEF GivenBack, Plan
  <2>3. line'[l].refunded /\ Recorded(l)'
    BY <1>4 DEF GivenBack, Recorded
  <2> QED BY <1>1, <2>1, <2>2, <2>3
<1>5. CASE Decided(l)
  <2>1. Plan(l)' = Plan(l) /\ Plan(l) \subseteq Sources
    BY <1>5 DEF Decided, Plan
  <2>2. Reversed(l)' = Reversed(l)
    BY <1>5 DEF Decided, Reversed
  <2>3. Forward(l)' \in {Forward(l), Forward(l) \cup Plan(l)}
    <3>1. CASE \A s \in Sources : ledger'[l][s].out = ledger[l][s].out
      BY <3>1 DEF Forward
    <3>2. CASE \A s \in Sources : ledger'[l][s].out =
                                   IF s \in Plan(l) THEN 1 ELSE ledger[l][s].out
      <4>1. Forward(l)' = Forward(l) \cup Plan(l)
        BY <3>2, <2>1 DEF Forward
      <4> QED BY <4>1
    <3> QED BY <3>1, <3>2, <1>5 DEF Decided
  <2>4. Recorded(l)' /\ line'[l].refunded = line[l].refunded
    BY <1>5 DEF Decided
  <2> QED BY <1>1, <2>1, <2>2, <2>3, <2>4
<1> QED BY <1>2, <1>3, <1>4, <1>5, LineEffect DEF LineStep

LEMMA WholeAlways == Spec => [](AbsentIsBlank /\ WholeLine)
<1>1. Init => AbsentIsBlank /\ WholeLine
  BY DEF Init, AbsentIsBlank, WholeLine, Forward, Reversed, NoRows, AbsentLine
<1> QED BY <1>1, PipeAlways, WholeNext, PTL DEF Spec

(* Base and modifiers are depleted together or not at all against the      *)
(* frozen versions, and reversed together, only once the line is marked    *)
(* refunded: with any number of workers on the same order, and through     *)
(* crashes, expired claims and replays.                                    *)
THEOREM LinesAreWhole == Spec => []WholeLine
BY WholeAlways, PTL

-----------------------------------------------------------------------------
(* History is append-only.                                                 *)

LEMMA MergeNeverFallsBack ==
  ASSUME NEW stored \in PayStates, NEW incoming \in PayStates
  PROVE  /\ MergePayment(stored, incoming) \in PayStates
         /\ Priority(MergePayment(stored, incoming)) >= Priority(stored)
<1>1. Priority(stored) \in 1 .. 5 /\ Priority(incoming) \in 1 .. 5
  BY DEF Priority
<1> HIDE DEF Priority
<1> QED BY <1>1 DEF MergePayment

(* Which payment state an order ends in does not depend on the order in    *)
(* which its documents arrive, nor on how often one is replayed: the CASE  *)
(* of _upsert_order commutes, associates and absorbs a repetition.         *)
THEOREM MergeIgnoresArrival ==
  \A p, q, r \in PayStates :
    /\ MergePayment(p, q) = MergePayment(q, p)
    /\ MergePayment(MergePayment(p, q), r) = MergePayment(p, MergePayment(q, r))
    /\ MergePayment(MergePayment(p, q), q) = MergePayment(p, q)
<1>1. \A p, q \in PayStates : Priority(p) = Priority(q) => p = q
  BY DEF PayStates, Priority
<1>2. \A p \in PayStates : Priority(p) \in Nat
  BY DEF Priority
<1> HIDE DEF Priority
<1> QED BY <1>1, <1>2 DEF MergePayment

LEMMA OrdersKept ==
  ASSUME PipeInv, QueueInv, [Next]_vars, NEW o \in Orders
  PROVE  OrderKept(o)
<1>1. CASE order' = order
  <2>1. Priority(order[o]) \in Nat
    BY DEF Priority
  <2> QED BY <1>1, <2>1 DEF OrderKept
<1>2. ASSUME NEW w \in Workers, Ingest(w) PROVE OrderKept(o)
  <2>1. pc[w] = "work" /\ doc[w] \in Revs /\ OrderIn(w) \in Orders
    BY <1>2, Shapes DEF Ingest, At, QueueInv, HasDoc, TypeInv, HasEvent, Busy, OrderIn,
                        Snapshots, Keys
  <2>2. DocIn(w).pay \in PayStates
    BY <2>1 DEF DocIn, PipeInv, TypeOK, Documents
  <2>3. CASE o # OrderIn(w) \/ order[o] = "absent"
    <3>1. order[o] # "absent" => order'[o] = order[o]
      BY <1>2, <2>3 DEF Ingest, PipeInv, TypeOK
    <3>2. Priority(order[o]) \in Nat
      BY DEF Priority
    <3> QED BY <3>1, <3>2 DEF OrderKept
  <2>4. CASE o = OrderIn(w) /\ order[o] # "absent"
    <3>1. order[o] \in PayStates
      BY <2>4 DEF PipeInv, TypeOK
    <3>2. order'[o] = MergePayment(order[o], DocIn(w).pay)
      BY <1>2, <2>4 DEF Ingest, PipeInv, TypeOK
    <3>3. "absent" \notin PayStates
      BY DEF PayStates
    <3> QED BY <3>1, <3>2, <3>3, <2>2, MergeNeverFallsBack DEF OrderKept
  <2> QED BY <2>3, <2>4
<1>3. CASE ~ \E w \in Workers : Ingest(w)
  <2>1. order' = order
    BY <1>3 DEF Next, vars, saleVars, tableVars, Sell, Confirm, Unconfirm,
                ListLocked, QueueStep, Obtain, FetchFails, CrashWorker, Work,
                SkipOpen, RefundLine, Scan, ReadLine, WriteLine, LineFault,
                Finish, GiveUp
  <2> QED BY <1>1, <2>1
<1> QED BY <1>2, <1>3

LEMMA LinesKept ==
  ASSUME PipeInv, AbsentIsBlank, WholeLine, [Next]_vars, NEW l \in Lines
  PROVE  LineKept(l)
<1> SUFFICES /\ Forward(l) \subseteq Forward(l)'
             /\ Reversed(l) \subseteq Reversed(l)'
             /\ line[l].refunded => line'[l].refunded
             /\ Recorded(l) => line'[l].frozen = line[l].frozen
  BY DEF LineKept, Recorded
<1>1. Reversed(l) \in {{}, Forward(l)} /\ (line[l].refunded => Recorded(l))
  BY DEF WholeLine, AbsentIsBlank
<1>2. CASE Untouched(l)
  BY <1>2 DEF Untouched, Forward, Reversed
<1>3. CASE FirstSeen(l)
  BY <1>1, <1>3 DEF FirstSeen, Forward, Reversed
<1>4. CASE GivenBack(l)
  <2>1. Forward(l)' = Forward(l) /\ Reversed(l)' = Forward(l)
    BY <1>4 DEF GivenBack, Forward, Reversed
  <2> QED BY <1>1, <1>4, <2>1 DEF GivenBack
<1>5. CASE Decided(l)
  <2>1. Reversed(l)' = Reversed(l) /\ Forward(l) \subseteq Forward(l)'
    BY <1>5 DEF Decided, Forward, Reversed
  <2> QED BY <1>5, <2>1 DEF Decided
<1> QED BY <1>2, <1>3, <1>4, <1>5, LineEffect DEF LineStep

(* No movement is ever taken back, frozen versions and refund marks stay,  *)
(* and a payment state never falls back, in whatever order documents       *)
(* arrive and however many workers handle them.                            *)
THEOREM HistoryIsKept == Spec => HistoryKept
<1>1. (PipeInv /\ QueueInv) /\ (AbsentIsBlank /\ WholeLine) /\ [Next]_vars
        => (\A l \in Lines : LineKept(l)) /\ (\A o \in Orders : OrderKept(o))
  BY LinesKept, OrdersKept
<1> QED BY <1>1, PipeAlways, WholeAlways, PTL DEF Spec, HistoryKept
=============================================================================
