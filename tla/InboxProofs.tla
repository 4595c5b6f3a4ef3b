---------------------------- MODULE InboxProofs ----------------------------
(* Theorems about the event queue, for every number of orders, revisions,  *)
(* workers, crashes and reconciliation runs.                               *)
EXTENDS Inbox, TLAPS

(* A worker in the middle of an event has that event.                      *)
Busy == {"fetch", "save", "work"}

HasEvent == \A w \in Workers : pc[w] \in Busy => cur[w] \in Snapshots

TypeInv == QueueTypeOK /\ HasEvent

(* The deployment: one inbox worker, none overlapping.                     *)
SingleWorker == \E w : Workers = {w}

USE DEF NoDoc

LEMMA ConstantFacts ==
  /\ "UPDATE" \in Types
  /\ MaxRev \in Nat /\ MaxRev > 0
  /\ 0 \in Docs /\ Revs \subseteq Docs /\ Docs \subseteq Nat
  /\ NoEvent \notin Snapshots
  /\ AbsentRow \in Rows
BY InboxAssumption DEF InboxAssumption, Docs, Revs, AbsentRow, Rows, RowStates

LEMMA TypeInit == QueueInit => TypeInv
<1>1. SUFFICES ASSUME QueueInit PROVE TypeInv
  OBVIOUS
<1>2. QueueTypeOK
  BY <1>1, ConstantFacts DEF QueueInit, QueueTypeOK, Phases
<1>3. HasEvent
  BY <1>1 DEF QueueInit, HasEvent, Busy
<1> QED BY <1>2, <1>3 DEF TypeInv

LEMMA CloverStep ==
  ASSUME TypeInv, NEW o \in Orders, Modify(o) \/ Delete(o)
  PROVE  TypeInv'
<1>1. rev' \in [Orders -> Docs] /\ gone' \subseteq Orders
  <2>1. CASE Modify(o)
    BY <2>1, ConstantFacts DEF TypeInv, QueueTypeOK, Modify, Docs
  <2>2. CASE Delete(o)
    BY <2>2 DEF TypeInv, QueueTypeOK, Delete
  <2> QED BY <2>1, <2>2
<1> QED
  BY <1>1 DEF TypeInv, QueueTypeOK, HasEvent, Modify, Delete, reconVars, workerVars

LEMMA WebhookStep ==
  ASSUME TypeInv, NEW K \in SUBSET Keys, Webhook(K)
  PROVE  TypeInv'
<1> DEFINE row == NewRow(NoDoc)
<1>1. row \in Rows /\ arrivals' \in Nat
  BY ConstantFacts DEF TypeInv, QueueTypeOK, Webhook, Rows, RowStates, NewRow
<1>2. \A k \in Keys : inbox'[k] \in {row, inbox[k]}
  BY DEF Webhook
<1>3. inbox' = [k \in Keys |-> inbox'[k]]
  BY DEF Webhook
<1>4. inbox' \in [Keys -> Rows]
  <2> HIDE DEF row
  <2> QED BY <1>1, <1>2, <1>3 DEF TypeInv, QueueTypeOK
<1> QED
  BY <1>1, <1>4 DEF TypeInv, QueueTypeOK, HasEvent, Webhook, cloverVars, reconVars, workerVars

LEMMA ReconStep ==
  ASSUME TypeInv,
         \/ \E S \in SUBSET Orders : ReconList(S)
         \/ \E p \in page : ReconUpsert(p)
         \/ ReconStop
  PROVE  TypeInv'
<1>1. CASE \E S \in SUBSET Orders : ReconList(S)
  <2> PICK S \in SUBSET Orders : ReconList(S)
    BY <1>1
  <2>1. page' \subseteq [order : Orders, rev : Revs] /\ runs' \in Nat
    BY ConstantFacts DEF TypeInv, QueueTypeOK, ReconList, Docs, Revs
  <2> QED
    BY <2>1 DEF TypeInv, QueueTypeOK, HasEvent, ReconList, cloverVars, workerVars
<1>2. CASE \E p \in page : ReconUpsert(p)
  <2> PICK p \in page : ReconUpsert(p)
    BY <1>2
  <2> DEFINE k == [order |-> p.order, type |-> "UPDATE", ts |-> p.rev]
  <2>1. k \in Keys /\ p.rev \in Docs
    BY ConstantFacts DEF TypeInv, QueueTypeOK, Keys
  <2>2. inbox[k] \in Rows
    BY <2>1 DEF TypeInv, QueueTypeOK
  <2> DEFINE new == NewRow(p.rev)
             state == IF inbox[k].state \in {"processed", "dead_letter"}
                      THEN "pending" ELSE inbox[k].state
             old == [inbox[k] EXCEPT !.payload = p.rev, !.state = state]
  <2>3. new \in Rows /\ arrivals' \in Nat
    BY <2>1 DEF TypeInv, QueueTypeOK, ReconUpsert, Rows, RowStates, NewRow
  <2>4. old \in Rows
    <3>1. state \in RowStates
      BY <2>2 DEF Rows, RowStates
    <3> QED BY <2>1, <2>2, <3>1 DEF Rows
  <2>5. inbox' \in {[inbox EXCEPT ![k] = new], [inbox EXCEPT ![k] = old]}
    BY <2>1, <2>2 DEF ReconUpsert, Rows
  <2>6. inbox' \in [Keys -> Rows]
    <3> HIDE DEF new, old, k
    <3> QED BY <2>1, <2>3, <2>5, <2>4 DEF TypeInv, QueueTypeOK
  <2>7. page' \subseteq page
    BY DEF ReconUpsert
  <2> QED
    BY <2>3, <2>6, <2>7 DEF TypeInv, QueueTypeOK, HasEvent, ReconUpsert, cloverVars, workerVars
<1>3. CASE ReconStop
  BY <1>3 DEF TypeInv, QueueTypeOK, HasEvent, ReconStop, cloverVars, workerVars
<1> QED BY <1>1, <1>2, <1>3

LEMMA ClaimStep ==
  ASSUME TypeInv, NEW w \in Workers, NEW S \in SUBSET Keys, Claim(w, S)
  PROVE  TypeInv'
<1>1. inbox' \in [Keys -> Rows]
  <2>1. \A k \in Keys : /\ inbox[k] \in Rows
                        /\ [inbox[k] EXCEPT !.state = "processing",
                                           !.stale = FALSE] \in Rows
    BY DEF TypeInv, QueueTypeOK, Rows, RowStates
  <2> QED BY <2>1 DEF Claim
<1>2. hold' \in [Workers -> SUBSET Snapshots]
  <2>1. \A k \in Keys : [key |-> k, payload |-> inbox[k].payload,
                         retry |-> inbox[k].retry] \in Snapshots
    BY DEF TypeInv, QueueTypeOK, Rows, Snapshots
  <2>2. {[key |-> k, payload |-> inbox[k].payload, retry |-> inbox[k].retry]
           : k \in S} \in SUBSET Snapshots
    BY <2>1
  <2> QED BY <2>2 DEF Claim, TypeInv, QueueTypeOK
<1> QED
  BY <1>1, <1>2 DEF TypeInv, QueueTypeOK, HasEvent, Busy, Phases, Claim,
                    cloverVars, reconVars

LEMMA NextEventStep ==
  ASSUME TypeInv, NEW w \in Workers, NEW h \in hold[w], NextEvent(w, h)
  PROVE  TypeInv'
<1>1. h \in Snapshots /\ h.payload \in Docs
  BY DEF TypeInv, QueueTypeOK, Snapshots
<1> QED
  BY <1>1 DEF TypeInv, QueueTypeOK, HasEvent, Busy, Phases, NextEvent,
              cloverVars, reconVars

LEMMA FetchStep ==
  ASSUME TypeInv, NEW w \in Workers, FetchOk(w) \/ SavePayload(w)
  PROVE  TypeInv'
<1>1. pc[w] \in Busy
  BY DEF FetchOk, SavePayload, Busy
<1>2. cur[w] \in Snapshots /\ cur[w].key \in Keys /\ cur[w].key.order \in Orders
  BY <1>1 DEF TypeInv, HasEvent, Snapshots, Keys
<1>3. CASE FetchOk(w)
  BY <1>2, <1>3 DEF TypeInv, QueueTypeOK, HasEvent, Busy, Phases, FetchOk,
                    cloverVars, reconVars
<1>4. CASE SavePayload(w)
  <2>1. inbox[cur[w].key] \in Rows /\ doc[w] \in Docs
    BY <1>2 DEF TypeInv, QueueTypeOK
  <2>2. [inbox[cur[w].key] EXCEPT !.payload = doc[w]] \in Rows
    BY <2>1 DEF Rows
  <2>3. inbox' \in [Keys -> Rows]
    BY <1>2, <1>4, <2>2 DEF TypeInv, QueueTypeOK, SavePayload
  <2> QED
    BY <1>1, <1>4, <2>3 DEF TypeInv, QueueTypeOK, HasEvent, Busy, Phases,
                            SavePayload, cloverVars, reconVars
<1> QED BY <1>3, <1>4

(* What the two mark_ calls leave in the row they are given.               *)
LEMMA MarkTypes ==
  ASSUME TypeInv, NEW w \in Workers, pc[w] \in Busy,
         MarkProcessed(w) \/ MarkFailed(w)
  PROVE  inbox' \in [Keys -> Rows] /\ alerts' \in Nat
<1>1. cur[w].key \in Keys /\ inbox[cur[w].key] \in Rows /\ cur[w].retry + 1 \in Nat
  BY DEF TypeInv, QueueTypeOK, HasEvent, Snapshots
<1>2. CASE MarkProcessed(w)
  <2>1. [inbox[cur[w].key] EXCEPT !.state = "processed", !.stale = FALSE] \in Rows
    BY <1>1 DEF Rows, RowStates
  <2> QED BY <1>1, <1>2, <2>1 DEF TypeInv, QueueTypeOK, MarkProcessed
<1>3. CASE MarkFailed(w)
  <2> DEFINE state == IF cur[w].retry + 1 >= MaxRetries
                      THEN "dead_letter" ELSE "failed"
             row == [inbox[cur[w].key] EXCEPT !.state = state,
                                              !.retry = cur[w].retry + 1,
                                              !.stale = FALSE]
  <2>1. state \in RowStates
    BY DEF RowStates
  <2>2. row \in Rows
    BY <1>1, <2>1 DEF Rows
  <2>3. inbox' = [inbox EXCEPT ![cur[w].key] = row]
    BY <1>3 DEF MarkFailed
  <2>4. alerts' \in Nat
    BY <1>3 DEF MarkFailed, TypeInv, QueueTypeOK
  <2> QED
    <3> HIDE DEF row
    <3> QED BY <1>1, <2>2, <2>3, <2>4 DEF TypeInv, QueueTypeOK
<1> QED BY <1>2, <1>3

LEMMA ReleaseTypes ==
  ASSUME TypeInv, NEW w \in Workers, Release(w)
  PROVE  /\ pc' \in [Workers -> Phases]
         /\ hold' \in [Workers -> SUBSET Snapshots]
         /\ cur' \in [Workers -> Snapshots \cup {NoEvent}]
         /\ doc' \in [Workers -> Docs]
         /\ crashes' \in Nat
         /\ HasEvent'
BY ConstantFacts DEF TypeInv, QueueTypeOK, HasEvent, Busy, Phases, Release

LEMMA SettleStep ==
  ASSUME TypeInv, NEW w \in Workers, FetchGone(w) \/ Complete(w) \/ Fail(w)
  PROVE  TypeInv'
<1>1. /\ pc[w] \in Busy
      /\ MarkProcessed(w) \/ MarkFailed(w)
      /\ Release(w)
      /\ UNCHANGED <<cloverVars, arrivals, reconVars>>
  BY DEF FetchGone, Complete, Fail, Busy
<1>2. inbox' \in [Keys -> Rows] /\ alerts' \in Nat
  BY <1>1, MarkTypes
<1> QED
  BY <1>1, <1>2, ReleaseTypes DEF TypeInv, QueueTypeOK, cloverVars, reconVars

LEMMA CrashStep ==
  ASSUME TypeInv, NEW w \in Workers, Crash(w)
  PROVE  TypeInv'
BY ConstantFacts DEF TypeInv, QueueTypeOK, HasEvent, Busy, Phases, Crash,
                     cloverVars, reconVars

LEMMA ExpireStep ==
  ASSUME TypeInv, NEW k \in Keys, Expire(k)
  PROVE  TypeInv'
<1>1. [inbox[k] EXCEPT !.stale = TRUE] \in Rows
  BY DEF TypeInv, QueueTypeOK, Rows
<1> QED
  BY <1>1 DEF TypeInv, QueueTypeOK, HasEvent, Expire, cloverVars, reconVars, workerVars

LEMMA TypeNext == TypeInv /\ [QueueNext]_queueVars => TypeInv'
<1> SUFFICES ASSUME TypeInv, [QueueNext]_queueVars PROVE TypeInv'
  OBVIOUS
<1>1. CASE \E o \in Orders : Modify(o) \/ Delete(o)
  BY <1>1, CloverStep
<1>2. CASE \E K \in SUBSET {k \in Keys : k.ts <= rev[k.order]} : Webhook(K)
  BY <1>2, WebhookStep
<1>3. CASE \/ \E S \in SUBSET Orders : ReconList(S)
           \/ \E p \in page : ReconUpsert(p)
           \/ ReconStop
  BY <1>3, ReconStep
<1>4. CASE \E w \in Workers : WorkerStep(w)
  BY <1>4, ClaimStep, NextEventStep, FetchStep, SettleStep DEF WorkerStep
<1>5. CASE \E w \in Workers : Crash(w)
  BY <1>5, CrashStep
<1>6. CASE \E k \in Keys : Expire(k)
  BY <1>6, ExpireStep
<1>7. CASE UNCHANGED queueVars
  BY <1>7 DEF queueVars, TypeInv, QueueTypeOK, HasEvent
<1> QED BY <1>1, <1>2, <1>3, <1>4, <1>5, <1>6, <1>7 DEF QueueNext

(* Every column and every worker variable keeps its type, for any          *)
(* instance of the queue.                                                  *)
THEOREM QueueTypeCorrect == QueueSpec => []QueueTypeOK
<1>1. TypeInv => QueueTypeOK
  BY DEF TypeInv
<1> QED BY TypeInit, TypeNext, <1>1, PTL DEF QueueSpec

-----------------------------------------------------------------------------
(* Why no announced revision is acknowledged unseen.  A row announces only *)
(* what Clover already shows (Announced), so a fetch for it answers with   *)
(* that revision or a later one; and whatever document any of the three    *)
(* writers of fetched_payload stores in a row is that new (Saw).           *)
Known(k) == inbox[k].state # "absent"
Saw(k)   == inbox[k].payload >= k.ts

Announced == \A k \in Keys : Known(k) => k.ts <= rev[k.order]
Listed    == \A p \in page : p.rev <= rev[p.order]
Stored    == \A k \in Keys : inbox[k].payload # NoDoc => Saw(k)
HoldSeen  == \A w \in Workers : \A h \in hold[w] :
               Known(h.key) /\ (h.payload # NoDoc => Saw(h.key))
CurSeen   == \A w \in Workers :
               /\ pc[w] \in Busy => Known(cur[w].key)
               /\ pc[w] = "save" => doc[w] >= cur[w].key.ts
               /\ pc[w] = "work" => Saw(cur[w].key)

SeenInv == /\ Announced
           /\ Listed
           /\ Stored
           /\ HoldSeen
           /\ CurSeen
           /\ ProcessedSawRevision

LEMMA SeenInit == QueueInit => SeenInv
BY ConstantFacts DEF QueueInit, SeenInv, Announced, Listed, Stored, HoldSeen,
   CurSeen, ProcessedSawRevision, Known, Saw, Busy, AbsentRow

(* No step forgets a row, a document or a deletion, or takes back a        *)
(* revision.                                                               *)
Monotone ==
  /\ \A o \in Orders : rev[o] <= rev'[o]
  /\ gone \subseteq gone'
  /\ \A k \in Keys : /\ Known(k) => Known(k)'
                     /\ Known(k) /\ Saw(k) => Saw(k)'

LEMMA Shapes ==
  ASSUME TypeInv
  PROVE  /\ \A o \in Orders : rev[o] \in Nat
         /\ \A k \in Keys : /\ k.order \in Orders /\ k.ts \in Nat /\ k.ts > 0
                            /\ inbox[k].payload \in Nat
         /\ \A p \in page : p.order \in Orders /\ p.rev \in Nat
<1>1. Docs \subseteq Nat /\ \A r \in Revs : r \in Nat /\ r > 0
  BY DEF Docs, Revs
<1>2. \A k \in Keys : k.order \in Orders /\ k.ts \in Revs
  BY DEF Keys
<1>3. \A k \in Keys : inbox[k].payload \in Docs
  BY DEF TypeInv, QueueTypeOK, Rows
<1>4. \A p \in page : p.order \in Orders /\ p.rev \in Revs
  BY DEF TypeInv, QueueTypeOK
<1>5. \A o \in Orders : rev[o] \in Docs
  BY DEF TypeInv, QueueTypeOK
<1> QED BY <1>1, <1>2, <1>3, <1>4, <1>5

(* What monotony carries over for the workers a step leaves alone.         *)
LEMMA WorkersKept ==
  ASSUME TypeInv, TypeInv', SeenInv, Monotone, NEW v \in Workers,
         pc'[v] = pc[v], hold'[v] = hold[v], cur'[v] = cur[v], doc'[v] = doc[v]
  PROVE  /\ \A h \in hold'[v] :
              Known(h.key)' /\ (h.payload # NoDoc => Saw(h.key)')
         /\ pc'[v] \in Busy => Known(cur[v].key)' /\ cur'[v] = cur[v]
         /\ pc'[v] = "save" => doc'[v] >= cur'[v].key.ts
         /\ pc'[v] = "work" => Saw(cur[v].key)'
<1>1. \A h \in hold[v] : h.key \in Keys
  BY DEF TypeInv, QueueTypeOK, Snapshots
<1>2. pc[v] \in Busy => cur[v].key \in Keys
  BY DEF TypeInv, HasEvent, Snapshots
<1> QED
  BY <1>1, <1>2 DEF SeenInv, HoldSeen, CurSeen, Monotone, Busy

(* Steps that leave every worker alone.                                    *)
LEMMA WorkersIdle ==
  ASSUME TypeInv, TypeInv', SeenInv, Monotone, UNCHANGED workerVars
  PROVE  HoldSeen' /\ CurSeen'
<1>1. \A v \in Workers : /\ pc'[v] = pc[v] /\ hold'[v] = hold[v]
                        /\ cur'[v] = cur[v] /\ doc'[v] = doc[v]
  BY DEF workerVars
<1> QED BY <1>1, WorkersKept DEF HoldSeen, CurSeen

LEMMA CloverSeen ==
  ASSUME TypeInv, TypeInv', SeenInv, NEW o \in Orders, Modify(o) \/ Delete(o)
  PROVE  SeenInv'
<1>1. /\ gone \subseteq gone'
      /\ UNCHANGED <<inbox, page, workerVars>>
  BY DEF Modify, Delete, reconVars
<1>2. \A x \in Orders : rev[x] <= rev'[x]
  <2>1. CASE Modify(o)
    BY <2>1, Shapes DEF Modify, TypeInv, QueueTypeOK
  <2>2. CASE Delete(o)
    BY <2>2, Shapes DEF Delete
  <2> QED BY <2>1, <2>2
<1>3. \A x \in Orders : rev[x] \in Nat /\ rev'[x] \in Nat
  BY ConstantFacts DEF TypeInv, QueueTypeOK
<1>4. Monotone
  BY <1>1, <1>2 DEF Monotone, Known, Saw
<1>5. Announced' /\ Listed'
  BY <1>1, <1>2, <1>3, Shapes DEF SeenInv, Announced, Listed, Known
<1>6. Stored' /\ ProcessedSawRevision'
  BY <1>1 DEF SeenInv, Stored, Saw, ProcessedSawRevision
<1> QED BY <1>1, <1>4, <1>5, <1>6, WorkersIdle DEF SeenInv

LEMMA WebhookSeen ==
  ASSUME TypeInv, TypeInv', SeenInv,
         NEW K \in SUBSET {k \in Keys : k.ts <= rev[k.order]}, Webhook(K)
  PROVE  SeenInv'
<1>1. UNCHANGED <<rev, gone, page, workerVars>>
  BY DEF Webhook, cloverVars, reconVars
<1>2. ASSUME NEW k \in Keys, inbox'[k] # inbox[k]
      PROVE  k \in K /\ ~Known(k) /\ inbox'[k] = NewRow(NoDoc)
  <2> DEFINE new == {j \in K : inbox[j].state = "absent"}
  <2>1. inbox'[k] = IF k \in new THEN NewRow(NoDoc) ELSE inbox[k]
    BY DEF Webhook
  <2> QED BY <1>2, <2>1 DEF Known
<1>3. Monotone
  BY <1>1, <1>2, Shapes DEF Monotone, Known, Saw, NewRow
<1>4. Announced' /\ Listed'
  BY <1>1, <1>2 DEF SeenInv, Announced, Listed, Known
<1>5. Stored' /\ ProcessedSawRevision'
  BY <1>1, <1>2 DEF SeenInv, Stored, Saw, ProcessedSawRevision, NewRow
<1> QED BY <1>1, <1>3, <1>4, <1>5, WorkersIdle DEF SeenInv

LEMMA ReconSeen ==
  ASSUME TypeInv, TypeInv', SeenInv,
         \/ \E S \in SUBSET Orders : ReconList(S)
         \/ \E p \in page : ReconUpsert(p)
         \/ ReconStop
  PROVE  SeenInv'
<1>1. CASE (\E S \in SUBSET Orders : ReconList(S)) \/ ReconStop
  <2>1. UNCHANGED <<rev, gone, inbox, workerVars>>
    BY <1>1 DEF ReconList, ReconStop, cloverVars
  <2>2. Listed'
    BY <1>1, <2>1, Shapes DEF ReconList, ReconStop, Listed
  <2>3. Monotone
    BY <2>1, Shapes DEF Monotone, Known, Saw
  <2> QED
    BY <2>1, <2>2, <2>3, WorkersIdle
       DEF SeenInv, Announced, Stored, Known, Saw, ProcessedSawRevision
<1>2. CASE \E p \in page : ReconUpsert(p)
  <2> PICK p \in page : ReconUpsert(p)
    BY <1>2
  <2> DEFINE k0 == [order |-> p.order, type |-> "UPDATE", ts |-> p.rev]
  <2>1. /\ k0 \in Keys /\ k0.ts = p.rev /\ k0.order = p.order
        /\ p.order \in Orders /\ p.rev \in Nat
    BY ConstantFacts DEF TypeInv, QueueTypeOK, Keys
  <2>2. /\ UNCHANGED <<rev, gone, workerVars>>
        /\ page' \subseteq page
    BY DEF ReconUpsert, cloverVars
  <2>3. \A k \in Keys : k # k0 => inbox'[k] = inbox[k]
    BY <2>1 DEF ReconUpsert, TypeInv, QueueTypeOK
  <2>4. /\ inbox'[k0].payload = p.rev
        /\ inbox'[k0].state # "absent"
        /\ inbox'[k0].state # "processed"
    <3>1. CASE inbox[k0].state = "absent"
      BY <2>1, <3>1 DEF ReconUpsert, NewRow, TypeInv, QueueTypeOK
    <3>2. CASE inbox[k0].state # "absent"
      <4>1. inbox[k0] \in Rows
        BY <2>1 DEF TypeInv, QueueTypeOK
      <4>2. inbox' = [inbox EXCEPT
                        ![k0].payload = p.rev,
                        ![k0].state = IF @ \in {"processed", "dead_letter"}
                                      THEN "pending" ELSE @]
        BY <3>2 DEF ReconUpsert
      <4> HIDE DEF k0
      <4> QED BY <2>1, <3>2, <4>1, <4>2 DEF TypeInv, QueueTypeOK, Rows
    <3> QED BY <3>1, <3>2
  <2> HIDE DEF k0
  <2>5. Monotone
    BY <2>1, <2>2, <2>3, <2>4, Shapes DEF Monotone, Known, Saw
  <2>6. Announced' /\ Listed'
    BY <2>1, <2>2, <2>3, <2>4 DEF SeenInv, Announced, Listed, Known
  <2>7. Stored' /\ ProcessedSawRevision'
    BY <2>1, <2>2, <2>3, <2>4 DEF SeenInv, Stored, Saw, ProcessedSawRevision
  <2> QED BY <2>2, <2>5, <2>6, <2>7, WorkersIdle DEF SeenInv
<1> QED BY <1>1, <1>2

(* A step of worker w: the others keep what they hold.                     *)
OthersIdle(w) ==
  \A v \in Workers \ {w} : /\ pc'[v] = pc[v] /\ hold'[v] = hold[v]
                           /\ cur'[v] = cur[v] /\ doc'[v] = doc[v]

LEMMA WorkerSeen ==
  ASSUME TypeInv, TypeInv', SeenInv, Monotone, UNCHANGED <<rev, page>>,
         NEW w \in Workers, OthersIdle(w),
         \A k \in Keys : Known(k)' => Known(k),
         Stored', ProcessedSawRevision',
         \A h \in hold'[w] : Known(h.key)' /\ (h.payload # NoDoc => Saw(h.key)'),
         pc'[w] \in Busy => Known(cur[w].key)',
         pc'[w] = "save" => doc'[w] >= cur'[w].key.ts,
         pc'[w] = "work" => Saw(cur[w].key)'
  PROVE  SeenInv'
<1>1. HoldSeen' /\ CurSeen'
  BY WorkersKept DEF OthersIdle, HoldSeen, CurSeen
<1>2. Announced' /\ Listed'
  BY DEF SeenInv, Announced, Listed
<1> QED BY <1>1, <1>2 DEF SeenInv

LEMMA Handled ==
  ASSUME TypeInv, SeenInv, NEW w \in Workers
  PROVE  /\ \A h \in hold[w] : h.key \in Keys /\ Known(h.key)
                              /\ h.payload \in Nat
                              /\ (h.payload # NoDoc => Saw(h.key))
         /\ pc[w] \in Busy =>
              /\ cur[w].key \in Keys
              /\ Known(cur[w].key)
              /\ cur[w].key.ts <= rev[cur[w].key.order]
<1>1. \A h \in hold[w] : h \in Snapshots
  BY DEF TypeInv, QueueTypeOK
<1>2. \A h \in Snapshots : h.key \in Keys /\ h.payload \in Nat
  BY ConstantFacts DEF Snapshots
<1>3. pc[w] \in Busy => cur[w] \in Snapshots
  BY DEF TypeInv, HasEvent
<1> QED BY <1>1, <1>2, <1>3 DEF SeenInv, HoldSeen, CurSeen, Announced

LEMMA ClaimSeen ==
  ASSUME TypeInv, TypeInv', SeenInv, NEW w \in Workers, NEW S \in SUBSET Keys,
         Claim(w, S)
  PROVE  SeenInv'
<1>1. /\ UNCHANGED <<rev, gone, page>> /\ OthersIdle(w)
      /\ pc'[w] = "batch"
  BY DEF Claim, cloverVars, reconVars, OthersIdle, TypeInv, QueueTypeOK
<1>2. ASSUME NEW k \in Keys
      PROVE  /\ inbox'[k].payload = inbox[k].payload
             /\ inbox'[k].state = IF k \in S THEN "processing" ELSE inbox[k].state
  <2>1. inbox'[k] = IF k \in S
                    THEN [inbox[k] EXCEPT !.state = "processing", !.stale = FALSE]
                    ELSE inbox[k]
    BY DEF Claim
  <2>2. inbox[k] \in Rows
    BY DEF TypeInv, QueueTypeOK
  <2> QED BY <2>1, <2>2 DEF Rows
<1>3. \A k \in S : Known(k)
  BY DEF Claim, OldestBatch, Claimable, Known
<1>4. /\ Monotone
      /\ \A k \in Keys : Known(k)' => Known(k)
      /\ Stored'
      /\ ProcessedSawRevision'
  BY <1>1, <1>2, <1>3, Shapes
     DEF Monotone, Known, Saw, SeenInv, Stored, ProcessedSawRevision
<1>5. \A h \in hold'[w] : Known(h.key)' /\ (h.payload # NoDoc => Saw(h.key)')
  <2>1. hold'[w] = {[key |-> k, payload |-> inbox[k].payload,
                     retry |-> inbox[k].retry] : k \in S}
    BY DEF Claim, TypeInv, QueueTypeOK
  <2> QED BY <1>2, <1>3, <2>1 DEF Known, Saw, SeenInv, Stored
<1> QED BY <1>1, <1>4, <1>5, WorkerSeen DEF Busy

LEMMA NextEventSeen ==
  ASSUME TypeInv, TypeInv', SeenInv, NEW w \in Workers, NEW h \in hold[w],
         NextEvent(w, h)
  PROVE  SeenInv'
<1>1. /\ UNCHANGED <<rev, gone, page, inbox>> /\ OthersIdle(w)
      /\ hold'[w] \subseteq hold[w]
      /\ cur'[w] = h
      /\ pc'[w] = IF h.payload = NoDoc THEN "fetch" ELSE "work"
  BY DEF NextEvent, cloverVars, reconVars, OthersIdle, TypeInv, QueueTypeOK
<1>2. /\ Monotone
      /\ \A k \in Keys : Known(k)' => Known(k)
      /\ Stored'
      /\ ProcessedSawRevision'
  BY <1>1, Shapes DEF Monotone, Known, Saw, SeenInv, Stored, ProcessedSawRevision
<1>3. \A g \in hold[w] : Known(g.key)' /\ (g.payload # NoDoc => Saw(g.key)')
  BY <1>1, Handled DEF Known, Saw
<1> QED BY <1>1, <1>2, <1>3, WorkerSeen DEF Known, Saw

LEMMA FetchSeen ==
  ASSUME TypeInv, TypeInv', SeenInv, NEW w \in Workers,
         FetchOk(w) \/ SavePayload(w)
  PROVE  SeenInv'
<1>1. pc[w] \in Busy
  BY DEF FetchOk, SavePayload, Busy
<1> DEFINE k0 == cur[w].key
<1>2. /\ k0 \in Keys /\ Known(k0) /\ k0.ts <= rev[k0.order]
      /\ k0.order \in Orders
  BY <1>1, Handled, Shapes
<1>3. /\ UNCHANGED <<rev, gone, page, hold, cur>> /\ OthersIdle(w)
  BY DEF FetchOk, SavePayload, cloverVars, reconVars, OthersIdle, TypeInv, QueueTypeOK
<1>4. CASE FetchOk(w)
  <2>1. UNCHANGED inbox /\ pc'[w] = "save" /\ doc'[w] = rev[k0.order]
    BY <1>4 DEF FetchOk, TypeInv, QueueTypeOK
  <2>2. /\ Monotone
        /\ \A k \in Keys : Known(k)' => Known(k)
        /\ Stored'
        /\ ProcessedSawRevision'
    BY <1>3, <2>1, Shapes DEF Monotone, Known, Saw, SeenInv, Stored, ProcessedSawRevision
  <2>3. /\ \A h \in hold'[w] : Known(h.key)' /\ (h.payload # NoDoc => Saw(h.key)')
        /\ Known(cur[w].key)'
    BY <1>2, <1>3, <2>1, Handled DEF Known, Saw
  <2>4. doc'[w] >= cur'[w].key.ts
    BY <1>2, <1>3, <2>1, Shapes
  <2> QED BY <1>3, <2>1, <2>2, <2>3, <2>4, WorkerSeen
<1>5. CASE SavePayload(w)
  <2>1. /\ pc'[w] = "work"
        /\ inbox' = [inbox EXCEPT ![k0] = [inbox[k0] EXCEPT !.payload = doc[w]]]
        /\ pc[w] = "save"
    BY <1>5 DEF SavePayload, TypeInv, QueueTypeOK
  <2>2. /\ \A k \in Keys : k # k0 => inbox'[k] = inbox[k]
        /\ inbox'[k0].payload = doc[w]
        /\ inbox'[k0].state = inbox[k0].state
    <3>1. inbox[k0] \in Rows
      BY <1>2 DEF TypeInv, QueueTypeOK
    <3> HIDE DEF k0
    <3> QED BY <1>2, <2>1, <3>1 DEF TypeInv, QueueTypeOK, Rows
  <2>3. doc[w] >= k0.ts
    BY <2>1 DEF SeenInv, CurSeen
  <2> HIDE DEF k0
  <2>4. /\ Monotone
        /\ \A k \in Keys : Known(k)' => Known(k)
        /\ Stored'
        /\ ProcessedSawRevision'
    BY <1>2, <1>3, <2>2, <2>3, Shapes
       DEF Monotone, Known, Saw, SeenInv, Stored, ProcessedSawRevision
  <2>5. \A h \in hold'[w] : Known(h.key)' /\ (h.payload # NoDoc => Saw(h.key)')
    BY <1>3, <2>4, Handled DEF Monotone
  <2>6. Known(cur[w].key)' /\ Saw(cur[w].key)'
    <3>1. cur'[w].key = k0
      BY <1>3 DEF k0
    <3> QED BY <1>2, <2>2, <2>3, <3>1 DEF Known, Saw
  <2> QED BY <1>3, <2>1, <2>4, <2>5, <2>6, WorkerSeen DEF Busy
<1> QED BY <1>4, <1>5

(* mark_processed and mark_failed touch one row, and not its document.     *)
LEMMA MarkEffect ==
  ASSUME TypeInv, NEW w \in Workers, pc[w] \in Busy,
         MarkProcessed(w) \/ MarkFailed(w)
  PROVE  \A k \in Keys :
           /\ inbox'[k].payload = inbox[k].payload
           /\ k # cur[w].key => inbox'[k] = inbox[k]
           /\ k = cur[w].key =>
                inbox'[k].state \in IF MarkProcessed(w) THEN {"processed"}
                                   ELSE {"failed", "dead_letter"}
<1> DEFINE k0 == cur[w].key
<1>1. k0 \in Keys /\ inbox[k0] \in Rows
  BY DEF TypeInv, QueueTypeOK, HasEvent, Snapshots
<1>2. \E row : /\ inbox' = [inbox EXCEPT ![k0] = row]
               /\ row.payload = inbox[k0].payload
               /\ row.state \in IF MarkProcessed(w) THEN {"processed"}
                                ELSE {"failed", "dead_letter"}
  <2>1. CASE MarkProcessed(w)
    <3> DEFINE row == [inbox[k0] EXCEPT !.state = "processed", !.stale = FALSE]
    <3>1. inbox' = [inbox EXCEPT ![k0] = row]
      BY <2>1 DEF MarkProcessed
    <3>2. row.payload = inbox[k0].payload /\ row.state = "processed"
      BY <1>1 DEF Rows
    <3> QED
      <4> HIDE DEF row
      <4> QED BY <2>1, <3>1, <3>2
  <2>2. CASE ~MarkProcessed(w)
    <3> DEFINE state == IF cur[w].retry + 1 >= MaxRetries
                        THEN "dead_letter" ELSE "failed"
               row == [inbox[k0] EXCEPT !.state = state,
                                        !.retry = cur[w].retry + 1,
                                        !.stale = FALSE]
    <3>1. inbox' = [inbox EXCEPT ![k0] = row]
      BY <2>2 DEF MarkFailed
    <3>2. row.payload = inbox[k0].payload /\ row.state = state
      <4> HIDE DEF state
      <4> QED BY <1>1 DEF Rows
    <3>3. state \in {"failed", "dead_letter"}
      OBVIOUS
    <3> QED
      <4> HIDE DEF row, state
      <4> QED BY <2>2, <3>1, <3>2, <3>3
  <2> QED BY <2>1, <2>2
<1>3. inbox \in [Keys -> Rows]
  BY DEF TypeInv, QueueTypeOK
<1> QED
  <2> HIDE DEF k0
  <2>1. \A k \in Keys : /\ inbox'[k].payload = inbox[k].payload
                        /\ k # k0 => inbox'[k] = inbox[k]
                        /\ k = k0 => inbox'[k].state \in
                                IF MarkProcessed(w) THEN {"processed"}
                                ELSE {"failed", "dead_letter"}
    BY <1>1, <1>2, <1>3
  <2> QED BY <2>1 DEF k0

LEMMA SettleSeen ==
  ASSUME TypeInv, TypeInv', SeenInv, NEW w \in Workers,
         FetchGone(w) \/ Complete(w) \/ Fail(w)
  PROVE  SeenInv'
<1> DEFINE k0 == cur[w].key
<1>1. /\ pc[w] \in Busy
      /\ MarkProcessed(w) \/ MarkFailed(w)
      /\ UNCHANGED <<rev, gone, page, hold>>
      /\ OthersIdle(w)
      /\ pc'[w] \in {"idle", "batch"}
  BY DEF FetchGone, Complete, Fail, Release, cloverVars, reconVars, OthersIdle,
         Busy, TypeInv, QueueTypeOK
<1>2. k0 \in Keys /\ Known(k0) /\ k0.order \in Orders
  BY <1>1, Handled, Shapes
<1>3. /\ \A k \in Keys : inbox'[k].payload = inbox[k].payload
      /\ \A k \in Keys : k # k0 => inbox'[k] = inbox[k]
      /\ inbox'[k0].state # "absent"
  BY <1>1, <1>2, MarkEffect
<1>4. inbox'[k0].state = "processed" => Saw(k0) \/ k0.order \in gone
  <2>1. CASE FetchGone(w)
    BY <2>1 DEF FetchGone
  <2>2. CASE Complete(w)
    BY <2>2 DEF Complete, SeenInv, CurSeen
  <2>3. CASE Fail(w) /\ ~FetchGone(w) /\ ~Complete(w)
    <3>1. MarkFailed(w)
      BY <2>3 DEF Fail
    <3>2. inbox'[k0].state # "processed"
      BY <1>2, <3>1 DEF MarkFailed, TypeInv, QueueTypeOK, Rows
    <3> QED BY <3>2
  <2> QED BY <2>1, <2>2, <2>3
<1> HIDE DEF k0
<1>5. \A k \in Keys : /\ (Known(k) => Known(k)') /\ (Known(k)' => Known(k))
                     /\ (Saw(k) => Saw(k)') /\ (Saw(k)' => Saw(k))
  BY <1>2, <1>3 DEF Known, Saw
<1>6. \A o \in Orders : rev[o] <= rev'[o]
  BY <1>1, Shapes
<1>7. /\ Monotone
      /\ \A k \in Keys : Known(k)' => Known(k)
      /\ Stored'
      /\ ProcessedSawRevision'
  <2>1. Monotone
    BY <1>1, <1>5, <1>6 DEF Monotone
  <2>2. Stored'
    BY <1>3, <1>5 DEF SeenInv, Stored
  <2>3. ProcessedSawRevision'
    <3> SUFFICES ASSUME NEW k \in Keys, inbox'[k].state = "processed"
                 PROVE  Saw(k) \/ k.order \in gone
      BY <1>1, <1>3 DEF ProcessedSawRevision, Saw
    <3> QED BY <1>3, <1>4 DEF SeenInv, ProcessedSawRevision, Saw
  <2> QED BY <1>5, <2>1, <2>2, <2>3
<1>8. \A h \in hold'[w] : Known(h.key)' /\ (h.payload # NoDoc => Saw(h.key)')
  BY <1>1, <1>7, Handled DEF Monotone
<1> QED BY <1>1, <1>7, <1>8, WorkerSeen DEF Busy

LEMMA CrashSeen ==
  ASSUME TypeInv, TypeInv', SeenInv, NEW w \in Workers, Crash(w)
  PROVE  SeenInv'
<1>1. /\ UNCHANGED <<rev, gone, page, inbox>>
      /\ OthersIdle(w)
      /\ pc'[w] = "idle" /\ hold'[w] = {}
  BY DEF Crash, cloverVars, reconVars, OthersIdle, TypeInv, QueueTypeOK
<1>2. /\ Monotone
      /\ \A k \in Keys : Known(k)' => Known(k)
      /\ Stored'
      /\ ProcessedSawRevision'
  BY <1>1, Shapes DEF Monotone, Known, Saw, SeenInv, Stored, ProcessedSawRevision
<1> QED BY <1>1, <1>2, WorkerSeen DEF Busy

LEMMA ExpireSeen ==
  ASSUME TypeInv, TypeInv', SeenInv, NEW k0 \in Keys, Expire(k0)
  PROVE  SeenInv'
<1>1. UNCHANGED <<rev, gone, page, workerVars>>
  BY DEF Expire, cloverVars, reconVars
<1>2. ASSUME NEW k \in Keys
      PROVE  /\ inbox'[k].payload = inbox[k].payload
             /\ inbox'[k].state = inbox[k].state
  BY DEF Expire, TypeInv, QueueTypeOK, Rows
<1>3. Monotone
  BY <1>1, <1>2, Shapes DEF Monotone, Known, Saw
<1>4. Announced' /\ Listed' /\ Stored' /\ ProcessedSawRevision'
  BY <1>1, <1>2 DEF SeenInv, Announced, Listed, Stored, ProcessedSawRevision, Known, Saw
<1> QED BY <1>1, <1>3, <1>4, WorkersIdle DEF SeenInv

LEMMA SeenNext == TypeInv /\ TypeInv' /\ SeenInv /\ [QueueNext]_queueVars => SeenInv'
<1> SUFFICES ASSUME TypeInv, TypeInv', SeenInv, [QueueNext]_queueVars PROVE SeenInv'
  OBVIOUS
<1>1. CASE \E o \in Orders : Modify(o) \/ Delete(o)
  BY <1>1, CloverSeen
<1>2. CASE \E K \in SUBSET {k \in Keys : k.ts <= rev[k.order]} : Webhook(K)
  BY <1>2, WebhookSeen
<1>3. CASE \/ \E S \in SUBSET Orders : ReconList(S)
           \/ \E p \in page : ReconUpsert(p)
           \/ ReconStop
  BY <1>3, ReconSeen
<1>4. CASE \E w \in Workers : WorkerStep(w)
  BY <1>4, ClaimSeen, NextEventSeen, FetchSeen, SettleSeen DEF WorkerStep
<1>5. CASE \E w \in Workers : Crash(w)
  BY <1>5, CrashSeen
<1>6. CASE \E k \in Keys : Expire(k)
  BY <1>6, ExpireSeen
<1>7. CASE UNCHANGED queueVars
  <2>1. UNCHANGED <<rev, gone, page, inbox, workerVars>>
    BY <1>7 DEF queueVars, workerVars
  <2>2. Monotone
    BY <2>1, Shapes DEF Monotone, Known, Saw
  <2>3. Announced' /\ Listed' /\ Stored' /\ ProcessedSawRevision'
    BY <2>1 DEF SeenInv, Announced, Listed, Stored, ProcessedSawRevision, Known, Saw
  <2> QED BY <2>1, <2>2, <2>3, WorkersIdle DEF SeenInv
<1> QED BY <1>1, <1>2, <1>3, <1>4, <1>5, <1>6, <1>7 DEF QueueNext

(* The document a row is processed with is never older than the revision   *)
(* the row announces, or the order is gone: for any number of workers      *)
(* holding the same row, crashes, late upserts and revisions.              *)
THEOREM ProcessedSaw == QueueSpec => []ProcessedSawRevision
<1>1. TypeInv /\ SeenInv /\ [QueueNext]_queueVars => (TypeInv /\ SeenInv)'
  BY TypeNext, SeenNext
<1>2. SeenInv => ProcessedSawRevision
  BY DEF SeenInv
<1> QED BY TypeInit, SeenInit, <1>1, <1>2, PTL DEF QueueSpec

-----------------------------------------------------------------------------
(* A worker that handles an event handles a real document.                 *)
HasDoc == \A w \in Workers : pc[w] \in {"save", "work"} => doc[w] \in Revs

LEMMA HasDocInit == QueueInit => HasDoc
BY DEF QueueInit, HasDoc

LEMMA HasDocNext ==
  TypeInv /\ SeenInv /\ HasDoc /\ [QueueNext]_queueVars => HasDoc'
<1> SUFFICES ASSUME TypeInv, SeenInv, HasDoc, [QueueNext]_queueVars,
                    NEW v \in Workers, pc'[v] \in {"save", "work"}
             PROVE  doc'[v] \in Revs
  BY DEF HasDoc
<1>1. CASE pc'[v] = pc[v] /\ doc'[v] = doc[v]
  BY <1>1 DEF HasDoc
<1>2. CASE \E w \in Workers : WorkerStep(w) \/ Crash(w)
  <2> PICK w \in Workers : WorkerStep(w) \/ Crash(w)
    BY <1>2
  <2>1. CASE v # w
    <3>1. pc'[v] = pc[v] /\ doc'[v] = doc[v]
      BY <2>1 DEF WorkerStep, Claim, NextEvent, FetchOk, FetchGone, SavePayload,
                  Complete, Fail, Crash, Release, TypeInv, QueueTypeOK
    <3> QED BY <3>1, <1>1
  <2>2. CASE v = w /\ \E h \in hold[w] : NextEvent(w, h)
    <3> PICK h \in hold[w] : NextEvent(w, h)
      BY <2>2
    <3>1. doc'[w] = h.payload /\ h.payload # NoDoc
      BY <2>2 DEF NextEvent, TypeInv, QueueTypeOK
    <3>2. h.payload \in Docs
      BY DEF TypeInv, QueueTypeOK, Snapshots
    <3> QED BY <2>2, <3>1, <3>2, InboxAssumption DEF Docs, Revs, InboxAssumption
  <2>3. CASE v = w /\ FetchOk(w)
    <3>1. pc[w] \in Busy
      BY <2>3 DEF FetchOk, Busy
    <3>2. /\ cur[w].key.ts <= rev[cur[w].key.order]
          /\ cur[w].key.ts \in Nat /\ cur[w].key.ts > 0
          /\ rev[cur[w].key.order] \in Docs
      BY <3>1, Handled, Shapes DEF TypeInv, QueueTypeOK
    <3>3. doc'[w] = rev[cur[w].key.order]
      BY <2>3 DEF FetchOk, TypeInv, QueueTypeOK
    <3> QED BY <2>3, <3>2, <3>3, InboxAssumption DEF Docs, Revs, InboxAssumption
  <2>4. CASE v = w /\ SavePayload(w)
    BY <2>4 DEF SavePayload, HasDoc
  <2>5. CASE v = w /\ \E S \in SUBSET Keys : Claim(w, S)
    BY <2>5 DEF Claim, TypeInv, QueueTypeOK
  <2>6. CASE v = w /\ (FetchGone(w) \/ Complete(w) \/ Fail(w))
    BY <2>6 DEF FetchGone, Complete, Fail, Release, TypeInv, QueueTypeOK
  <2>7. CASE v = w /\ Crash(w)
    BY <2>7 DEF Crash, TypeInv, QueueTypeOK
  <2> QED BY <2>1, <2>2, <2>3, <2>4, <2>5, <2>6, <2>7 DEF WorkerStep
<1>3. CASE ~ \E w \in Workers : WorkerStep(w) \/ Crash(w)
  <2>1. UNCHANGED <<pc, doc>>
    BY <1>3 DEF QueueNext, queueVars, workerVars, Modify, Delete, Webhook,
                ReconList, ReconUpsert, ReconStop, Expire
  <2> QED BY <2>1, <1>1
<1> QED BY <1>2, <1>3

(* What the pipeline's proofs take from the queue.                         *)
QueueInv == TypeInv /\ SeenInv /\ HasDoc

(* The invariant of the queue's inductive argument: types, what each row   *)
(* announces and each worker holds, and a document in every work phase.    *)
THEOREM QueueInvariant == QueueSpec => []QueueInv
<1>1. QueueInv /\ [QueueNext]_queueVars => QueueInv'
  BY TypeNext, SeenNext, HasDocNext DEF QueueInv
<1> QED BY TypeInit, SeenInit, HasDocInit, <1>1, PTL DEF QueueSpec, QueueInv
-----------------------------------------------------------------------------
(* What the queue owes to its deployment as a single inbox worker: for     *)
(* every number of orders, revisions, crashes, expired claims and          *)
(* reconciliation runs.                                                    *)
(* What one step can do to one row.                                        *)
Stays(k) ==
  inbox'[k].state = inbox[k].state /\ inbox'[k].retry = inbox[k].retry

Arrives(k) ==
  inbox[k].state = "absent" /\ inbox'[k].state = "pending" /\ inbox'[k].retry = 0

Reopens(k) ==
  /\ inbox[k].state \in {"processed", "dead_letter"}
  /\ inbox'[k].state = "pending"
  /\ inbox'[k].retry = inbox[k].retry

IsClaimed(k) ==
  /\ inbox[k].state \in {"pending", "processing"}
  /\ inbox'[k].state = "processing"
  /\ inbox'[k].retry = inbox[k].retry

IsMarked(k, w) ==
  /\ pc[w] \in Busy /\ cur[w].key = k
  /\ \/ inbox'[k].state = "processed" /\ inbox'[k].retry = inbox[k].retry
     \/ /\ inbox'[k].state = IF cur[w].retry + 1 >= MaxRetries
                             THEN "dead_letter" ELSE "failed"
        /\ inbox'[k].retry = cur[w].retry + 1

RowStep(k) ==
  \/ Stays(k) \/ Arrives(k) \/ Reopens(k) \/ IsClaimed(k)
  \/ \E w \in Workers : IsMarked(k, w)

LEMMA WebhookRow ==
  ASSUME TypeInv, NEW K \in SUBSET Keys, Webhook(K), NEW k \in Keys
  PROVE  Stays(k) \/ Arrives(k)
BY DEF Webhook, NewRow, Stays, Arrives

LEMMA ReconRow ==
  ASSUME TypeInv, NEW p \in page, ReconUpsert(p), NEW k \in Keys
  PROVE  Stays(k) \/ Arrives(k) \/ Reopens(k)
<1> DEFINE k0 == [order |-> p.order, type |-> "UPDATE", ts |-> p.rev]
<1>1. k0 \in Keys /\ inbox[k0] \in Rows
  BY ConstantFacts DEF TypeInv, QueueTypeOK, Keys
<1>2. CASE k # k0
  BY <1>2 DEF ReconUpsert, TypeInv, QueueTypeOK, Stays
<1>3. CASE k = k0 /\ inbox[k0].state = "absent"
  BY <1>1, <1>3 DEF ReconUpsert, NewRow, TypeInv, QueueTypeOK, Arrives
<1>4. CASE k = k0 /\ inbox[k0].state # "absent"
  <2> DEFINE state == IF inbox[k0].state \in {"processed", "dead_letter"}
                      THEN "pending" ELSE inbox[k0].state
             row == [inbox[k0] EXCEPT !.payload = p.rev, !.state = state]
  <2>1. inbox' = [inbox EXCEPT ![k0] = row]
    BY <1>1, <1>4 DEF ReconUpsert, Rows
  <2>2. row.state = state /\ row.retry = inbox[k0].retry
    <3> HIDE DEF state
    <3> QED BY <1>1 DEF Rows
  <2>3. inbox'[k0] = row
    <3> HIDE DEF row
    <3> QED BY <1>1, <2>1 DEF TypeInv, QueueTypeOK
  <2> QED BY <1>4, <2>2, <2>3 DEF Stays, Reopens
<1> QED BY <1>2, <1>3, <1>4

LEMMA ClaimRow ==
  ASSUME TypeInv, NEW w \in Workers, NEW S \in SUBSET Keys, Claim(w, S), NEW k \in Keys
  PROVE  /\ k \in S => IsClaimed(k)
         /\ k \notin S => inbox'[k] = inbox[k]
<1>1. inbox'[k] = IF k \in S
                  THEN [inbox[k] EXCEPT !.state = "processing", !.stale = FALSE]
                  ELSE inbox[k]
  BY DEF Claim
<1>2. inbox[k] \in Rows
  BY DEF TypeInv, QueueTypeOK
<1>3. k \in S => inbox[k].state \in {"pending", "processing"}
  BY DEF Claim, OldestBatch, Claimable
<1> QED BY <1>1, <1>2, <1>3 DEF Rows, IsClaimed

LEMMA MarkRow ==
  ASSUME TypeInv, NEW w \in Workers, pc[w] \in Busy,
         MarkProcessed(w) \/ MarkFailed(w), NEW k \in Keys
  PROVE  /\ k = cur[w].key => IsMarked(k, w)
         /\ k # cur[w].key => inbox'[k] = inbox[k]
<1>1. inbox \in [Keys -> Rows] /\ inbox[k] \in Rows
  BY DEF TypeInv, QueueTypeOK
<1>2. CASE k # cur[w].key
  BY <1>1, <1>2 DEF MarkProcessed, MarkFailed
<1>3. CASE k = cur[w].key /\ MarkProcessed(w)
  <2>1. inbox'[k] = [inbox[k] EXCEPT !.state = "processed", !.stale = FALSE]
    BY <1>1, <1>3 DEF MarkProcessed
  <2> QED BY <1>1, <1>3, <2>1 DEF Rows, IsMarked
<1>4. CASE k = cur[w].key /\ MarkFailed(w)
  <2> DEFINE state == IF cur[w].retry + 1 >= MaxRetries THEN "dead_letter" ELSE "failed"
  <2>1. inbox'[k] = [inbox[k] EXCEPT !.state = state, !.retry = cur[w].retry + 1,
                                     !.stale = FALSE]
    BY <1>1, <1>4 DEF MarkFailed
  <2>2. inbox'[k].state = state /\ inbox'[k].retry = cur[w].retry + 1
    <3> HIDE DEF state
    <3> QED BY <1>1, <2>1 DEF Rows
  <2> QED BY <1>4, <2>2 DEF IsMarked
<1> QED BY <1>2, <1>3, <1>4

Settles(w) == FetchGone(w) \/ Complete(w) \/ Fail(w)

LEMMA SettlesMarks ==
  ASSUME NEW w \in Workers, Settles(w)
  PROVE  /\ pc[w] \in Busy
         /\ MarkProcessed(w) \/ MarkFailed(w)
         /\ Release(w)
BY DEF Settles, FetchGone, Complete, Fail, Busy

LEMMA SavedRow ==
  ASSUME TypeInv, NEW w \in Workers, SavePayload(w), NEW k \in Keys
  PROVE  Stays(k)
BY DEF SavePayload, TypeInv, QueueTypeOK, Rows, Stays

LEMMA ExpiredRow ==
  ASSUME TypeInv, NEW j \in Keys, Expire(j), NEW k \in Keys
  PROVE  Stays(k)
BY DEF Expire, TypeInv, QueueTypeOK, Rows, Stays

LEMMA RowNext ==
  ASSUME TypeInv, [QueueNext]_queueVars, NEW k \in Keys
  PROVE  RowStep(k)
<1>1. CASE inbox' = inbox
  BY <1>1 DEF RowStep, Stays
<1>2. CASE \E K \in SUBSET {j \in Keys : j.ts <= rev[j.order]} : Webhook(K)
  BY <1>2, WebhookRow DEF RowStep
<1>3. CASE \E p \in page : ReconUpsert(p)
  BY <1>3, ReconRow DEF RowStep
<1>4. CASE \E w \in Workers : WorkerStep(w)
  <2> PICK w \in Workers : WorkerStep(w)
    BY <1>4
  <2>1. CASE \E S \in SUBSET Keys : Claim(w, S)
    BY <2>1, ClaimRow DEF RowStep, Stays
  <2>2. CASE Settles(w)
    BY <2>2, SettlesMarks, MarkRow DEF RowStep, Stays
  <2>3. CASE SavePayload(w)
    BY <2>3, SavedRow DEF RowStep
  <2>4. CASE FetchOk(w) \/ \E h \in hold[w] : NextEvent(w, h)
    BY <1>1, <2>4 DEF FetchOk, NextEvent
  <2> QED BY <2>1, <2>2, <2>3, <2>4 DEF WorkerStep, Settles
<1>5. CASE \E j \in Keys : Expire(j)
  BY <1>5, ExpiredRow DEF RowStep
<1>6. CASE \/ \E o \in Orders : Modify(o) \/ Delete(o)
           \/ \E S \in SUBSET Orders : ReconList(S)
           \/ ReconStop
           \/ \E w \in Workers : Crash(w)
           \/ UNCHANGED queueVars
  BY <1>1, <1>6 DEF Modify, Delete, ReconList, ReconStop, Crash, queueVars
<1> QED BY <1>2, <1>3, <1>4, <1>5, <1>6 DEF QueueNext

-----------------------------------------------------------------------------
(* A worker holds something only between claiming and settling, no row     *)
(* twice, and only rows never attempted before.                            *)
HandsOK(w) ==
  /\ pc[w] = "idle" => hold[w] = {}
  /\ pc[w] \notin Busy => cur[w] = NoEvent
  /\ pc[w] \in Busy => \A h \in hold[w] : h.key # cur[w].key
  /\ \A g, h \in hold[w] : g.key = h.key => g = h
  /\ \A h \in Handling(w) : h.retry = 0

NeverAttempted ==
  \A k \in Keys : /\ inbox[k].state # "failed" => inbox[k].retry = 0
                  /\ inbox[k].retry <= 1
                  /\ inbox[k].state # "dead_letter"

SoloQueueInv == (\A w \in Workers : HandsOK(w)) /\ NeverAttempted /\ HeldIsProcessing

LEMMA HandlingShape ==
  ASSUME TypeInv, NEW w \in Workers
  PROVE  /\ \A h \in Handling(w) : h \in Snapshots /\ h.key \in Keys
         /\ pc[w] \in Busy => cur[w] \in Handling(w)
         /\ hold[w] \subseteq Handling(w)
<1>1. \A h \in Handling(w) : h \in Snapshots
  BY DEF Handling, TypeInv, QueueTypeOK
<1>2. \A h \in Snapshots : h.key \in Keys /\ h # NoEvent
  BY ConstantFacts DEF Snapshots
<1>3. pc[w] \in Busy => cur[w] \in Handling(w)
  BY <1>2 DEF Handling, TypeInv, HasEvent
<1>4. hold[w] \subseteq Handling(w)
  BY DEF Handling
<1> QED BY <1>1, <1>2, <1>3, <1>4

(* The worker's own steps.                                                 *)
LEMMA ClaimHands ==
  ASSUME TypeInv, NeverAttempted, NEW w \in Workers, HandsOK(w),
         NEW S \in SUBSET Keys, Claim(w, S)
  PROVE  /\ HandsOK(w)'
         /\ \A h \in Handling(w)' : inbox'[h.key].state = "processing"
<1>1. /\ pc[w] = "idle" /\ pc'[w] = "batch" /\ cur'[w] = NoEvent
  BY DEF Claim, HandsOK, Busy, TypeInv, QueueTypeOK
<1>2. hold'[w] = {[key |-> k, payload |-> inbox[k].payload,
                   retry |-> inbox[k].retry] : k \in S}
  BY DEF Claim, TypeInv, QueueTypeOK
<1>3. \A k \in S : /\ inbox[k].retry = 0
                   /\ inbox'[k].state = "processing"
  <2> SUFFICES ASSUME NEW k \in S
               PROVE  inbox[k].retry = 0 /\ inbox'[k].state = "processing"
    OBVIOUS
  <2>1. IsClaimed(k)
    BY ClaimRow
  <2> QED BY <2>1 DEF IsClaimed, NeverAttempted
<1>4. \A h \in hold'[w] : h.retry = 0 /\ inbox'[h.key].state = "processing"
  BY <1>2, <1>3
<1>5. \A g, h \in hold'[w] : g.key = h.key => g = h
  BY <1>2
<1>6. Handling(w)' = hold'[w]
  BY <1>1 DEF Handling
<1> QED BY <1>1, <1>4, <1>5, <1>6 DEF HandsOK, Busy

LEMMA NextEventHands ==
  ASSUME TypeInv, NEW w \in Workers, HandsOK(w), NEW h \in hold[w], NextEvent(w, h)
  PROVE  /\ HandsOK(w)'
         /\ Handling(w)' \subseteq Handling(w)
<1>1. /\ pc[w] = "batch" /\ pc'[w] \in {"fetch", "work"}
      /\ hold'[w] = hold[w] \ {h} /\ cur'[w] = h
  BY DEF NextEvent, TypeInv, QueueTypeOK
<1>2. Handling(w)' \subseteq hold[w] /\ hold[w] \subseteq Handling(w)
  BY <1>1 DEF Handling
<1>3. \A g \in hold[w] : g.retry = 0
  BY <1>2 DEF HandsOK
<1> QED BY <1>1, <1>2, <1>3 DEF HandsOK, Busy

LEMMA FetchHands ==
  ASSUME TypeInv, NEW w \in Workers, HandsOK(w), FetchOk(w) \/ SavePayload(w)
  PROVE  /\ HandsOK(w)'
         /\ Handling(w)' = Handling(w)
<1>1. /\ pc[w] \in Busy /\ pc'[w] \in Busy
      /\ hold'[w] = hold[w] /\ cur'[w] = cur[w]
  BY DEF FetchOk, SavePayload, Busy, TypeInv, QueueTypeOK
<1>2. Handling(w)' = Handling(w)
  BY <1>1 DEF Handling
<1> QED BY <1>1, <1>2 DEF HandsOK, Busy

LEMMA SettleHands ==
  ASSUME TypeInv, NEW w \in Workers, HandsOK(w), Settles(w)
  PROVE  /\ HandsOK(w)'
         /\ Handling(w)' \subseteq Handling(w)
         /\ \A h \in Handling(w)' : h.key # cur[w].key
<1>1. pc[w] \in Busy /\ Release(w)
  BY SettlesMarks
<1>2. /\ pc'[w] = IF hold[w] = {} THEN "idle" ELSE "batch"
      /\ hold'[w] = hold[w] /\ cur'[w] = NoEvent
  BY <1>1 DEF Release, TypeInv, QueueTypeOK
<1>3. Handling(w)' = hold[w] /\ hold[w] \subseteq Handling(w)
  BY <1>2 DEF Handling
<1> QED BY <1>1, <1>2, <1>3 DEF HandsOK, Busy

LEMMA CrashHands ==
  ASSUME TypeInv, NEW w \in Workers, Crash(w)
  PROVE  HandsOK(w)' /\ Handling(w)' = {}
<1>1. pc'[w] = "idle" /\ hold'[w] = {} /\ cur'[w] = NoEvent
  BY DEF Crash, TypeInv, QueueTypeOK
<1>2. Handling(w)' = {}
  BY <1>1 DEF Handling
<1> QED BY <1>1, <1>2 DEF HandsOK, Busy

LEMMA StillHands ==
  ASSUME NEW w \in Workers, HandsOK(w), UNCHANGED workerVars
  PROVE  HandsOK(w)' /\ Handling(w)' = Handling(w)
BY DEF workerVars, HandsOK, Handling

-----------------------------------------------------------------------------
(* Only the single worker takes a row away from itself.                    *)

LEMMA AttemptsNext ==
  ASSUME TypeInv, MaxRetries > 1, SoloQueueInv, [QueueNext]_queueVars
  PROVE  NeverAttempted'
<1> SUFFICES ASSUME NEW k \in Keys
             PROVE  /\ inbox'[k].state # "failed" => inbox'[k].retry = 0
                    /\ inbox'[k].retry <= 1
                    /\ inbox'[k].state # "dead_letter"
  BY DEF NeverAttempted
<1>1. /\ inbox[k].state # "failed" => inbox[k].retry = 0
      /\ inbox[k].retry <= 1
      /\ inbox[k].state # "dead_letter"
  BY DEF SoloQueueInv, NeverAttempted
<1>2. CASE Stays(k) \/ Arrives(k) \/ Reopens(k) \/ IsClaimed(k)
  BY <1>1, <1>2 DEF Stays, Arrives, Reopens, IsClaimed
<1>3. ASSUME NEW w \in Workers, IsMarked(k, w)
      PROVE  /\ inbox'[k].state # "failed" => inbox'[k].retry = 0
             /\ inbox'[k].retry <= 1
             /\ inbox'[k].state # "dead_letter"
  <2>1. cur[w] \in Handling(w)
    BY <1>3, HandlingShape DEF IsMarked
  <2>2. cur[w].retry = 0 /\ inbox[k].state = "processing"
    BY <1>3, <2>1 DEF IsMarked, SoloQueueInv, HandsOK, HeldIsProcessing
  <2>3. MaxRetries \in Nat
    BY InboxAssumption DEF InboxAssumption
  <2> QED BY <1>1, <1>3, <2>2, <2>3 DEF IsMarked
<1> QED BY <1>2, <1>3, RowNext DEF RowStep

(* A held row stays 'processing' through every step of the rest of the     *)
(* system.                                                                 *)
LEMMA OthersLeaveHeld ==
  ASSUME TypeInv, NEW w \in Workers, SoloQueueInv, UNCHANGED workerVars,
         [QueueNext]_queueVars, \A v \in Workers : ~Settles(v),
         NEW h \in Handling(w)
  PROVE  inbox'[h.key].state = "processing"
<1>1. h.key \in Keys /\ inbox[h.key].state = "processing"
  BY HandlingShape DEF SoloQueueInv, HeldIsProcessing
<1>2. inbox' # inbox =>
        \/ \E K \in SUBSET Keys : Webhook(K)
        \/ \E p \in page : ReconUpsert(p)
        \/ \E v \in Workers : SavePayload(v)
        \/ \E v \in Workers, S \in SUBSET Keys : Claim(v, S)
        \/ \E k \in Keys : Expire(k)
  BY DEF QueueNext, Modify, Delete, ReconList, ReconStop, Crash, queueVars, WorkerStep,
         FetchOk, NextEvent, Settles
<1>3. Stays(h.key) \/ Arrives(h.key) \/ Reopens(h.key) \/ IsClaimed(h.key)
  <2>1. CASE inbox' = inbox
    BY <2>1 DEF Stays
  <2> QED BY <1>1, <1>2, <2>1, WebhookRow, ReconRow, SavedRow, ClaimRow, ExpiredRow DEF Stays
<1> QED BY <1>1, <1>3 DEF Stays, Arrives, Reopens, IsClaimed

LEMMA HandsNext ==
  ASSUME TypeInv, SingleWorker, SoloQueueInv, [QueueNext]_queueVars, NEW w \in Workers
  PROVE  /\ HandsOK(w)'
         /\ \A h \in Handling(w)' : inbox'[h.key].state = "processing"
<1>1. \A v \in Workers : v = w
  BY DEF SingleWorker
<1>2. HandsOK(w) /\ NeverAttempted
      /\ \A h \in Handling(w) : h.key \in Keys /\ inbox[h.key].state = "processing"
  BY HandlingShape DEF SoloQueueInv, HeldIsProcessing
<1>3. CASE \E S \in SUBSET Keys : Claim(w, S)
  BY <1>2, <1>3, ClaimHands
<1>4. CASE FetchOk(w) \/ \E h \in hold[w] : NextEvent(w, h)
  <2>1. inbox' = inbox
    BY <1>4 DEF FetchOk, NextEvent
  <2> QED BY <1>2, <1>4, <2>1, NextEventHands, FetchHands
<1>5. CASE SavePayload(w)
  BY <1>2, <1>5, FetchHands, SavedRow DEF Stays
<1>6. CASE Settles(w)
  <2>1. \A k \in Keys : k # cur[w].key => inbox'[k] = inbox[k]
    BY <1>6, SettlesMarks, MarkRow
  <2> QED BY <1>2, <1>6, <2>1, SettleHands
<1>7. CASE Crash(w)
  BY <1>7, CrashHands
<1>8. CASE ~(WorkerStep(w) \/ Crash(w))
  <2>1. UNCHANGED workerVars
    BY <1>1, <1>8 DEF QueueNext, Modify, Delete, Webhook, ReconList, ReconUpsert,
       ReconStop, Expire, queueVars, workerVars
  <2>2. \A v \in Workers : ~Settles(v)
    BY <1>1, <1>8 DEF WorkerStep, Settles
  <2> QED BY <1>2, <2>1, <2>2, StillHands, OthersLeaveHeld
<1> QED BY <1>3, <1>4, <1>5, <1>6, <1>7, <1>8 DEF WorkerStep, Settles

LEMMA SoloQueueAlways ==
  ASSUME SingleWorker, MaxRetries > 1
  PROVE  QueueSpec => [](TypeInv /\ SoloQueueInv)
<1>1. QueueInit => SoloQueueInv
  BY DEF QueueInit, SoloQueueInv, HandsOK, Handling, NeverAttempted, HeldIsProcessing,
         Busy, AbsentRow
<1>2. TypeInv /\ SoloQueueInv /\ [QueueNext]_queueVars => SoloQueueInv'
  <2> SUFFICES ASSUME TypeInv, SoloQueueInv, [QueueNext]_queueVars PROVE SoloQueueInv'
    OBVIOUS
  <2>1. \A w \in Workers : HandsOK(w)' /\ \A h \in Handling(w)' :
                                            inbox'[h.key].state = "processing"
    BY HandsNext
  <2> QED BY <2>1, AttemptsNext DEF SoloQueueInv, HeldIsProcessing
<1>3. TypeInv /\ [QueueNext]_queueVars => TypeInv'
  BY TypeNext
<1> QED BY <1>1, <1>2, <1>3, TypeInit, PTL DEF QueueSpec

(* With a single worker a row in its hands is 'processing': no requeue,    *)
(* expired claim or crash makes it claimable or settled under the worker.  *)
THEOREM HeldStaysProcessing ==
  ASSUME SingleWorker, MaxRetries > 1
  PROVE  QueueSpec => []HeldIsProcessing
<1>1. SoloQueueInv => HeldIsProcessing
  BY DEF SoloQueueInv
<1> QED BY <1>1, SoloQueueAlways, PTL

(* With a single worker no row is attempted again after mark_failed, and   *)
(* none is ever dead-lettered.                                             *)
THEOREM FailedIsFinal ==
  ASSUME SingleWorker, MaxRetries > 1
  PROVE  QueueSpec => []NeverRetried
<1>1. SoloQueueInv => NeverRetried
  BY DEF SoloQueueInv, NeverAttempted, NeverRetried
<1> QED BY <1>1, SoloQueueAlways, PTL

(* With a single worker the only thing that can happen to a settled row is *)
(* the requeue by reconciliation of a processed one.                       *)
THEOREM SettledIsKept ==
  ASSUME SingleWorker, MaxRetries > 1
  PROVE  QueueSpec => OnlyReconReopens
<1>1. ASSUME TypeInv, SoloQueueInv, [QueueNext]_queueVars, NEW k \in Keys,
             inbox[k].state \in Settled, inbox'[k].state # inbox[k].state
      PROVE  inbox[k].state # "failed" /\ inbox'[k].state = "pending"
  <2>1. ASSUME NEW w \in Workers PROVE ~IsMarked(k, w)
    <3> SUFFICES ASSUME IsMarked(k, w) PROVE FALSE
      OBVIOUS
    <3>1. cur[w] \in Handling(w) /\ cur[w].key = k
      BY <1>1, HandlingShape DEF IsMarked
    <3> QED BY <1>1, <3>1 DEF SoloQueueInv, HeldIsProcessing, Settled
  <2> QED BY <1>1, <2>1, RowNext DEF RowStep, Stays, Arrives, Reopens, IsClaimed, Settled
<1>2. TypeInv /\ SoloQueueInv /\ [QueueNext]_queueVars =>
        \A k \in Keys :
          inbox[k].state \in Settled /\ inbox'[k].state # inbox[k].state =>
            inbox[k].state # "failed" /\ inbox'[k].state = "pending"
  BY <1>1
<1> QED BY <1>2, SoloQueueAlways, PTL DEF QueueSpec, OnlyReconReopens
-----------------------------------------------------------------------------
(* With a single worker the document at hand is never older than the one   *)
(* its row holds, whatever reconciliation writes there meanwhile.          *)

(* The revision a claimed row will be handled with, at least; and the one  *)
(* the worker has, or will have fetched.                                   *)
Due(h)   == IF h.payload = NoDoc THEN h.key.ts ELSE h.payload
Reads(w) == IF pc[w] = "fetch" THEN cur[w].key.ts ELSE doc[w]

NewEnough(k, r) == k.ts <= r /\ r <= rev[k.order] /\ inbox[k].payload <= r

RowsKnown   == \A k \in Keys : inbox[k].payload <= rev[k.order]
HandsNew(w) == /\ \A h \in hold[w] : NewEnough(h.key, Due(h))
               /\ pc[w] \in Busy => NewEnough(cur[w].key, Reads(w))

FreshHands == RowsKnown /\ \A w \in Workers : HandsNew(w)

LEMMA HandShapes ==
  ASSUME TypeInv, NEW w \in Workers
  PROVE  /\ \A h \in hold[w] : h.key \in Keys /\ Due(h) \in Nat /\ h.payload \in Nat
         /\ pc[w] \in Busy => cur[w].key \in Keys /\ Reads(w) \in Nat /\ doc[w] \in Nat
<1>1. \A h \in Snapshots : h.key \in Keys /\ h.payload \in Nat
  BY ConstantFacts DEF Snapshots
<1>2. hold[w] \subseteq Snapshots /\ (pc[w] \in Busy => cur[w] \in Snapshots)
  BY DEF TypeInv, QueueTypeOK, HasEvent
<1>3. doc[w] \in Nat
  BY ConstantFacts DEF TypeInv, QueueTypeOK
<1> QED BY <1>1, <1>2, <1>3, Shapes DEF Due, Reads

LEMMA RevisionsKept ==
  ASSUME TypeInv, [QueueNext]_queueVars, NEW o \in Orders
  PROVE  rev[o] <= rev'[o]
<1>1. CASE \E x \in Orders : Modify(x)
  BY <1>1, Shapes DEF Modify, TypeInv, QueueTypeOK
<1>2. CASE ~ \E x \in Orders : Modify(x)
  <2>1. rev' = rev
    BY <1>2 DEF QueueNext, Delete, Webhook, ReconList, ReconUpsert, ReconStop,
                WorkerStep, Claim, NextEvent, FetchOk, FetchGone, SavePayload,
                Complete, Fail, Crash, Expire, cloverVars, queueVars
  <2> QED BY <2>1, Shapes
<1> QED BY <1>1, <1>2

(* Who may change the document of a row, and to what.                      *)
PayloadStep(k) ==
  \/ inbox'[k].payload = inbox[k].payload
  \/ inbox'[k].payload = NoDoc
  \/ inbox'[k].payload = k.ts /\ k.ts <= rev[k.order] /\ inbox'[k].state # "processed"
  \/ \E w \in Workers : /\ SavePayload(w) /\ cur[w].key = k
                        /\ inbox'[k].payload = doc[w]

LEMMA ReconPayload ==
  ASSUME TypeInv, Listed, NEW p \in page, ReconUpsert(p), NEW k \in Keys
  PROVE  PayloadStep(k)
<1> DEFINE k0 == [order |-> p.order, type |-> "UPDATE", ts |-> p.rev]
<1>1. k0 \in Keys /\ inbox[k0] \in Rows
  BY ConstantFacts DEF TypeInv, QueueTypeOK, Keys
<1>2. CASE k # k0
  BY <1>2 DEF ReconUpsert, TypeInv, QueueTypeOK, PayloadStep
<1>3. CASE k = k0 /\ inbox[k0].state = "absent"
  <2>1. inbox'[k].payload = p.rev /\ inbox'[k].state = "pending"
    BY <1>1, <1>3 DEF ReconUpsert, NewRow, TypeInv, QueueTypeOK
  <2> QED BY <1>3, <2>1 DEF PayloadStep, Listed
<1>4. CASE k = k0 /\ inbox[k0].state # "absent"
  <2> DEFINE state == IF inbox[k0].state \in {"processed", "dead_letter"}
                      THEN "pending" ELSE inbox[k0].state
             row == [inbox[k0] EXCEPT !.payload = p.rev, !.state = state]
  <2>1. inbox' = [inbox EXCEPT ![k0] = row]
    BY <1>1, <1>4 DEF ReconUpsert, Rows, TypeInv, QueueTypeOK
  <2>2. row.payload = p.rev /\ row.state # "processed"
    BY <1>1 DEF Rows
  <2>3. inbox'[k].payload = p.rev /\ inbox'[k].state # "processed"
    <3> HIDE DEF row, k0
    <3> QED BY <1>1, <1>4, <2>1, <2>2 DEF TypeInv, QueueTypeOK
  <2> QED BY <1>4, <2>3 DEF PayloadStep, Listed
<1> QED BY <1>2, <1>3, <1>4

LEMMA PayloadNext ==
  ASSUME TypeInv, Listed, [QueueNext]_queueVars, NEW k \in Keys
  PROVE  PayloadStep(k)
<1>1. CASE inbox' = inbox
  BY <1>1 DEF PayloadStep
<1>2. CASE \E K \in SUBSET {j \in Keys : j.ts <= rev[j.order]} : Webhook(K)
  BY <1>2 DEF Webhook, NewRow, PayloadStep
<1>3. CASE \E p \in page : ReconUpsert(p)
  BY <1>3, ReconPayload
<1>4. CASE \E w \in Workers : WorkerStep(w)
  <2> PICK w \in Workers : WorkerStep(w)
    BY <1>4
  <2>1. CASE \E S \in SUBSET Keys : Claim(w, S)
    <3> PICK S \in SUBSET Keys : Claim(w, S)
      BY <2>1
    <3>1. inbox'[k] = IF k \in S
                      THEN [inbox[k] EXCEPT !.state = "processing", !.stale = FALSE]
                      ELSE inbox[k]
      BY DEF Claim
    <3>2. inbox[k] \in Rows
      BY DEF TypeInv, QueueTypeOK
    <3> QED BY <3>1, <3>2 DEF PayloadStep, Rows
  <2>2. CASE Settles(w)
    BY <2>2, SettlesMarks, MarkEffect DEF PayloadStep
  <2>3. CASE SavePayload(w)
    <3>1. inbox[k] \in Rows
      BY DEF TypeInv, QueueTypeOK
    <3>2. CASE cur[w].key = k
      BY <2>3, <3>1, <3>2 DEF SavePayload, TypeInv, QueueTypeOK, PayloadStep, Rows
    <3>3. CASE cur[w].key # k
      BY <2>3, <3>3 DEF SavePayload, TypeInv, QueueTypeOK, PayloadStep
    <3> QED BY <3>2, <3>3
  <2>4. CASE FetchOk(w) \/ \E h \in hold[w] : NextEvent(w, h)
    BY <1>1, <2>4 DEF FetchOk, NextEvent
  <2> QED BY <2>1, <2>2, <2>3, <2>4 DEF WorkerStep, Settles
<1>5. CASE \E j \in Keys : Expire(j)
  BY <1>5 DEF Expire, TypeInv, QueueTypeOK, Rows, PayloadStep
<1>6. CASE (\E o \in Orders : Modify(o) \/ Delete(o)) \/ (\E w \in Workers : Crash(w))
  BY <1>1, <1>6 DEF Modify, Delete, Crash
<1>7. CASE (\E S \in SUBSET Orders : ReconList(S)) \/ ReconStop \/ UNCHANGED queueVars
  BY <1>1, <1>7 DEF ReconList, ReconStop, queueVars
<1> QED BY <1>2, <1>3, <1>4, <1>5, <1>6, <1>7 DEF QueueNext

(* Only SavePayload by somebody who handles the row could put a newer      *)
(* document there.                                                         *)
LEMMA NewEnoughKept ==
  ASSUME TypeInv, TypeInv', Listed, [QueueNext]_queueVars, NEW k \in Keys, NEW r \in Nat,
         NewEnough(k, r), \A w \in Workers : SavePayload(w) => cur[w].key # k
  PROVE  NewEnough(k, r)'
<1>1. k.order \in Orders /\ k.ts \in Nat /\ inbox[k].payload \in Nat /\ inbox'[k].payload \in Nat
  BY Shapes, ConstantFacts DEF TypeInv, QueueTypeOK, Rows
<1>2. rev[k.order] \in Nat /\ rev'[k.order] \in Nat /\ rev[k.order] <= rev'[k.order]
  BY <1>1, RevisionsKept, ConstantFacts DEF TypeInv, QueueTypeOK
<1>3. inbox'[k].payload \in {inbox[k].payload, NoDoc, k.ts}
  BY PayloadNext DEF PayloadStep
<1> QED BY <1>1, <1>2, <1>3 DEF NewEnough

LEMMA RowsKnownNext ==
  ASSUME TypeInv, TypeInv', Listed, FreshHands, [QueueNext]_queueVars
  PROVE  RowsKnown'
<1> SUFFICES ASSUME NEW k \in Keys PROVE inbox'[k].payload <= rev'[k.order]
  BY DEF RowsKnown
<1>1. k.order \in Orders /\ k.ts \in Nat /\ inbox[k].payload \in Nat /\ inbox'[k].payload \in Nat
  BY Shapes, ConstantFacts DEF TypeInv, QueueTypeOK, Rows
<1>2. rev[k.order] \in Nat /\ rev'[k.order] \in Nat /\ rev[k.order] <= rev'[k.order]
  BY <1>1, RevisionsKept, ConstantFacts DEF TypeInv, QueueTypeOK
<1>3. inbox'[k].payload <= rev[k.order]
  <2>1. inbox[k].payload <= rev[k.order]
    BY DEF FreshHands, RowsKnown
  <2>2. ASSUME NEW w \in Workers, SavePayload(w), cur[w].key = k
        PROVE  doc[w] <= rev[k.order]
    BY <2>2 DEF FreshHands, HandsNew, NewEnough, Reads, SavePayload, Busy
  <2> QED BY <1>1, <1>2, <2>1, <2>2, PayloadNext DEF PayloadStep
<1> QED BY <1>1, <1>2, <1>3

LEMMA HandsNewNext ==
  ASSUME QueueInv, QueueInv', SingleWorker, SoloQueueInv, FreshHands,
         [QueueNext]_queueVars, NEW w \in Workers
  PROVE  HandsNew(w)'
<1> TypeInv /\ TypeInv' /\ SeenInv /\ Listed
  BY DEF QueueInv, SeenInv
<1> HandsNew(w) /\ HandsOK(w)
  BY DEF FreshHands, SoloQueueInv
<1>1. \A v \in Workers : v = w
  BY DEF SingleWorker
<1>2. \A h \in hold[w] : NewEnough(h.key, Due(h))'
  <2> SUFFICES ASSUME NEW h \in hold[w] PROVE NewEnough(h.key, Due(h))'
    OBVIOUS
  <2> PICK k \in Keys, r \in Nat : k = h.key /\ r = Due(h)
    BY HandShapes
  <2>1. NewEnough(k, r)
    BY DEF HandsNew
  <2>2. SavePayload(w) => cur[w].key # k
    BY DEF HandsOK, SavePayload, Busy
  <2>3. NewEnough(k, r)'
    BY <1>1, <2>1, <2>2, NewEnoughKept
  <2> QED BY <2>3 DEF Due
<1>3. CASE hold'[w] \subseteq hold[w] /\ pc'[w] \notin Busy
  BY <1>2, <1>3 DEF HandsNew
<1>4. CASE hold'[w] = hold[w] /\ pc'[w] = pc[w] /\ cur'[w] = cur[w] /\ doc'[w] = doc[w]
           /\ ~SavePayload(w)
  <2> SUFFICES ASSUME pc[w] \in Busy PROVE NewEnough(cur[w].key, Reads(w))'
    BY <1>2, <1>4 DEF HandsNew
  <2> PICK k \in Keys, r \in Nat : k = cur[w].key /\ r = Reads(w)
    BY HandShapes
  <2>1. NewEnough(k, r)'
    BY <1>1, <1>4, NewEnoughKept DEF HandsNew
  <2> QED BY <1>4, <2>1 DEF Reads
<1>5. ASSUME NEW S \in SUBSET Keys, Claim(w, S) PROVE HandsNew(w)'
  <2>1. pc'[w] = "batch" /\ hold'[w] = {[key |-> k, payload |-> inbox[k].payload,
                                         retry |-> inbox[k].retry] : k \in S}
    BY <1>5 DEF Claim, TypeInv, QueueTypeOK
  <2> SUFFICES ASSUME NEW k \in S, NEW h, h = [key |-> k, payload |-> inbox[k].payload,
                                              retry |-> inbox[k].retry]
               PROVE  NewEnough(h.key, Due(h))'
    BY <2>1 DEF HandsNew, Busy
  <2> PICK r : r = IF inbox[k].payload = NoDoc THEN k.ts ELSE inbox[k].payload
    OBVIOUS
  <2>2. Known(k)
    BY <1>5 DEF Claim, OldestBatch, Claimable, Known
  <2>3. /\ k.order \in Orders /\ k.ts \in Nat /\ inbox[k].payload \in Nat
        /\ rev[k.order] \in Nat
    BY Shapes
  <2>4. NewEnough(k, r) /\ r \in Nat
    BY <2>2, <2>3 DEF NewEnough, SeenInv, Announced, Stored, Saw, FreshHands, RowsKnown
  <2>5. NewEnough(k, r)'
    BY <1>1, <1>5, <2>4, NewEnoughKept DEF Claim, SavePayload
  <2> QED BY <2>5 DEF Due
<1>6. ASSUME NEW h \in hold[w], NextEvent(w, h) PROVE HandsNew(w)'
  <2>1. /\ hold'[w] \subseteq hold[w] /\ cur'[w] = h /\ doc'[w] = h.payload
        /\ pc'[w] = IF h.payload = NoDoc THEN "fetch" ELSE "work"
    BY <1>6 DEF NextEvent, TypeInv, QueueTypeOK
  <2>2. Reads(w)' = Due(h)
    BY <2>1 DEF Reads, Due
  <2> QED BY <1>2, <2>1, <2>2 DEF HandsNew, NewEnough, Due
<1>7. CASE FetchOk(w)
  <2> DEFINE k == cur[w].key
  <2>1. /\ hold'[w] = hold[w] /\ cur'[w] = cur[w] /\ doc'[w] = rev[k.order]
        /\ pc'[w] = "save" /\ rev' = rev /\ inbox' = inbox /\ pc[w] \in Busy
    BY <1>7 DEF FetchOk, TypeInv, QueueTypeOK, cloverVars, Busy
  <2>2. k \in Keys /\ k.ts <= rev[k.order] /\ inbox[k].payload <= rev[k.order]
    BY <2>1, Handled DEF FreshHands, RowsKnown
  <2>3. rev[k.order] \in Nat
    BY <2>2, Shapes
  <2> QED BY <1>2, <2>1, <2>2, <2>3 DEF HandsNew, NewEnough, Reads
<1>8. CASE SavePayload(w)
  <2> DEFINE k == cur[w].key
  <2>1. /\ hold'[w] = hold[w] /\ cur'[w] = cur[w] /\ doc'[w] = doc[w]
        /\ pc[w] = "save" /\ pc'[w] = "work" /\ rev' = rev /\ pc[w] \in Busy
    BY <1>8 DEF SavePayload, TypeInv, QueueTypeOK, cloverVars, Busy
  <2>2. k \in Keys /\ doc[w] \in Nat /\ NewEnough(k, doc[w])
    BY <2>1, HandShapes DEF HandsNew, Reads
  <2>3. inbox'[k].payload = doc[w]
    BY <1>8, <2>2 DEF SavePayload, TypeInv, QueueTypeOK, Rows
  <2> QED BY <1>2, <2>1, <2>2, <2>3 DEF HandsNew, NewEnough, Reads
<1>9. CASE Settles(w) \/ Crash(w)
  <2>1. hold'[w] \subseteq hold[w] /\ pc'[w] \notin Busy
    BY <1>9, SettlesMarks DEF Release, Crash, Busy, TypeInv, QueueTypeOK
  <2> QED BY <1>3, <2>1
<1>10. CASE ~WorkerStep(w) /\ ~Crash(w)
  <2>1. UNCHANGED workerVars
    BY <1>1, <1>10 DEF QueueNext, Modify, Delete, Webhook, ReconList, ReconUpsert, ReconStop,
                       Expire, queueVars, workerVars
  <2> QED BY <1>4, <1>10, <2>1 DEF workerVars, WorkerStep
<1> QED BY <1>5, <1>6, <1>7, <1>8, <1>9, <1>10 DEF WorkerStep, Settles

LEMMA FreshHandsAlways ==
  ASSUME SingleWorker, MaxRetries > 1
  PROVE  QueueSpec => []FreshHands
<1>1. QueueInit => FreshHands
  BY ConstantFacts DEF QueueInit, FreshHands, RowsKnown, HandsNew, AbsentRow, Keys, Busy
<1>2. QueueInv /\ QueueInv' /\ SoloQueueInv /\ FreshHands /\ [QueueNext]_queueVars => FreshHands'
  <2> SUFFICES ASSUME QueueInv, QueueInv', SoloQueueInv, FreshHands, [QueueNext]_queueVars
               PROVE  FreshHands'
    OBVIOUS
  <2>1. RowsKnown'
    BY RowsKnownNext DEF QueueInv, SeenInv
  <2> QED BY <2>1, HandsNewNext DEF FreshHands
<1> QED BY <1>1, <1>2, QueueInvariant, SoloQueueAlways, PTL DEF QueueSpec
=============================================================================
