-------------------------- MODULE BackOfficeProofs --------------------------
(***************************************************************************)
(* Theorems about the connections, the reconciliation, the catalog syncs   *)
(* and the tenancy, for every number of tenants, merchants, requests,      *)
(* orders, items and people.                                               *)
(***************************************************************************)
EXTENDS BackOffice, FiniteSetTheorems, TLAPS

-----------------------------------------------------------------------------
(* Connections. *)

(* What a refresh transaction holds: rows nobody else changes, each as it  *)
(* is in the table until the job has written it.                           *)
HeldRow(p, r) ==
  /\ conn[r].state = "active" /\ conn[r].due
  /\ refresher[p].wrote[r].state \in {"active", "error"}
  /\ refresher[p].wrote[r].state = "active" => refresher[p].wrote[r].fails < MaxFails
  /\ refresher[p].wrote[r].merchant = conn[r].merchant
  /\ r \in refresher[p].todo => refresher[p].wrote[r] = conn[r]

JobRows ==
  \A p \in Refreshers :
    /\ refresher[p].todo \subseteq refresher[p].locked
    /\ \A q \in Refreshers \ {p} : refresher[p].locked \cap refresher[q].locked = {}
    /\ \A r \in refresher[p].locked : HeldRow(p, r)

(* A row that is there has a merchant; an active one can fail once more.   *)
RowsNamed ==
  \A r \in Conns :
    /\ conn[r].state # "absent" => conn[r].merchant \in Merchants
    /\ conn[r].state = "active" => conn[r].fails < MaxFails

CallsNamed ==
  \A c \in Callbacks : callback[c] # NoCall =>
    /\ callback[c].state \in StateTokens /\ callback[c].merchant \in Merchants
    /\ callback[c].tenant \in Restaurants /\ callback[c].step # "idle"

ConnInv == ConnectionsTypeOK /\ JobRows /\ RowsNamed /\ CallsNamed

(* A failed refresh leaves a row a row.                                    *)
LEMMA FailedRow ==
  ASSUME ConnectionsAssumption, NEW row \in ConnRows, row.fails < MaxFails
  PROVE  Failed(row) \in ConnRows
<1> row.fails + 1 \in 0 .. MaxFails
  BY DEF ConnectionsAssumption, ConnRows
<1> QED
  BY DEF Failed, ConnRows

LEMMA DueRow ==
  ASSUME NEW row \in ConnRows
  PROVE  LET due == [row EXCEPT !.due = TRUE] IN
         /\ due \in ConnRows /\ due.merchant = row.merchant /\ due.fails = row.fails
         /\ due.state = row.state
BY DEF ConnRows

LEMMA RefreshedRow ==
  ASSUME ConnectionsAssumption, NEW row \in ConnRows, NEW t \in Tokens
  PROVE  LET new == [row EXCEPT !.token = t, !.fails = 0, !.due = FALSE] IN
         /\ new \in ConnRows /\ new.merchant = row.merchant /\ new.fails = 0
         /\ new.state = row.state /\ new.token = t
<1> 0 \in 0 .. MaxFails
  BY DEF ConnectionsAssumption
<1> QED
  BY DEF ConnRows

LEMMA NoConnRow == ConnectionsAssumption => NoConn \in ConnRows
BY DEF ConnectionsAssumption, NoConn, ConnRows

(* The job writes a row of a row.                                          *)
LEMMA WroteRefreshes ==
  ASSUME ConnectionsTypeOK, NEW p \in Refreshers, NEW r \in Conns,
         NEW row \in ConnRows, Wrote(p, r, row)
  PROVE  refresher' \in [Refreshers -> Refreshes]
<1> DEFINE w == [refresher[p].wrote EXCEPT ![r] = row]
<1>1. /\ refresher \in [Refreshers -> Refreshes]
      /\ refresher[p].locked \in SUBSET Conns /\ refresher[p].todo \in SUBSET Conns
      /\ refresher[p].wrote \in [Conns -> ConnRows]
  BY DEF ConnectionsTypeOK, Refreshes
<1>2. w \in [Conns -> ConnRows]
  BY <1>1
<1>3. [locked |-> refresher[p].locked, todo |-> refresher[p].todo \ {r}, wrote |-> w]
        \in Refreshes
  BY <1>1, <1>2 DEF Refreshes
<1> QED
  BY <1>1, <1>3 DEF Wrote

LEMMA ConnInit == ConnectionsAssumption /\ ConnectionsInit => ConnInv
<1> SUFFICES ASSUME ConnectionsAssumption, ConnectionsInit PROVE ConnInv
  OBVIOUS
<1> NoConn \in ConnRows
  BY NoConnRow
<1>1. Resting \in Refreshes
  BY DEF Resting, Refreshes
<1>2. NoCall \in Callings
  BY DEF NoCall, Callings
<1>3. ConnectionsTypeOK
  BY <1>1, <1>2 DEF ConnectionsInit, ConnectionsTypeOK, ConnectionsAssumption, Tokens
<1>4. JobRows
  BY DEF ConnectionsInit, JobRows, Resting
<1>5. RowsNamed /\ CallsNamed
  BY DEF ConnectionsInit, RowsNamed, CallsNamed, NoConn
<1> QED
  BY <1>3, <1>4, <1>5 DEF ConnInv

(* The steps that leave the job's rows and its transactions alone.         *)
LEMMA JobsUndisturbed ==
  ASSUME JobRows, ConnectionsTypeOK, UNCHANGED refresher,
         \A p \in Refreshers : \A r \in refresher[p].locked : conn'[r] = conn[r]
  PROVE  JobRows'
<1> SUFFICES ASSUME NEW p \in Refreshers
             PROVE  /\ refresher'[p].todo \subseteq refresher'[p].locked
                    /\ \A q \in Refreshers \ {p} :
                         refresher'[p].locked \cap refresher'[q].locked = {}
                    /\ \A r \in refresher'[p].locked : HeldRow(p, r)'
  BY DEF JobRows
<1>1. ASSUME NEW r \in refresher'[p].locked PROVE HeldRow(p, r)'
  BY <1>1 DEF JobRows, HeldRow
<1> QED
  BY <1>1 DEF JobRows

(* The steps in which the job writes a row it holds.                       *)
LEMMA JobWrites ==
  ASSUME JobRows, ConnectionsTypeOK, UNCHANGED conn,
         NEW p \in Refreshers, NEW r \in refresher[p].todo,
         NEW row \in ConnRows, Wrote(p, r, row),
         row.state \in {"active", "error"}, row.merchant = conn[r].merchant,
         row.state = "active" => row.fails < MaxFails
  PROVE  JobRows'
<1> DEFINE w == [refresher[p].wrote EXCEPT ![r] = row]
<1>1. /\ refresher \in [Refreshers -> Refreshes]
      /\ refresher[p].locked \in SUBSET Conns /\ refresher[p].todo \in SUBSET Conns
      /\ refresher[p].wrote \in [Conns -> ConnRows]
  BY DEF ConnectionsTypeOK, Refreshes
<1>2. /\ refresher'[p].locked = refresher[p].locked
      /\ refresher'[p].todo = refresher[p].todo \ {r}
      /\ refresher'[p].wrote = w
      /\ \A q \in Refreshers \ {p} : refresher'[q] = refresher[q]
  BY <1>1 DEF Wrote
<1>3. w[r] = row /\ \A t \in Conns \ {r} : w[t] = refresher[p].wrote[t]
  BY <1>1
<1> HIDE DEF w
<1>4. ASSUME NEW t \in refresher[p].locked PROVE HeldRow(p, t)'
  <2>1. CASE t = r
    BY <1>1, <1>2, <1>3, <2>1 DEF JobRows, HeldRow
  <2>2. CASE t # r
    <3> t \in Conns \ {r} /\ HeldRow(p, t)
      BY <1>1, <2>2 DEF JobRows
    <3> QED
      BY <1>2, <1>3, <2>2 DEF HeldRow
  <2> QED
    BY <2>1, <2>2
<1>5. ASSUME NEW q \in Refreshers \ {p}, NEW t \in refresher[q].locked PROVE HeldRow(q, t)'
  BY <1>2, <1>5 DEF JobRows, HeldRow
<1>6. ASSUME NEW q \in Refreshers
      PROVE  /\ refresher'[q].locked = refresher[q].locked
             /\ refresher'[q].todo \subseteq refresher[q].todo
  BY <1>2
<1>7. ASSUME NEW q \in Refreshers, NEW t \in refresher'[q].locked PROVE HeldRow(q, t)'
  BY <1>4, <1>5, <1>6, <1>7
<1> QED
  BY <1>6, <1>7 DEF JobRows

(* A row the job may write back in place of one it holds.                  *)
LEMMA HeldRows ==
  ASSUME ConnInv, NEW p \in Refreshers, NEW r \in refresher[p].todo
  PROVE  /\ r \in Conns /\ r \in refresher[p].locked
         /\ refresher[p].wrote[r] = conn[r] /\ conn[r] \in ConnRows
         /\ conn[r].state = "active" /\ conn[r].fails < MaxFails
         /\ conn[r].merchant \in Merchants
<1>1. refresher[p].todo \subseteq Conns
  BY DEF ConnInv, ConnectionsTypeOK, Refreshes
<1>2. r \in refresher[p].locked /\ HeldRow(p, r)
  BY DEF ConnInv, JobRows
<1> QED
  BY <1>1, <1>2 DEF ConnInv, ConnectionsTypeOK, RowsNamed, HeldRow

LEMMA FailedKeeps ==
  ASSUME NEW row \in ConnRows, ConnectionsAssumption, row.fails < MaxFails
  PROVE  /\ Failed(row).state \in {"active", "error"}
         /\ Failed(row).state = "active" => Failed(row).fails < MaxFails
         /\ Failed(row).merchant = row.merchant /\ Failed(row).token = row.token
<1>1. row.fails \in Nat /\ row.fails + 1 \in Nat /\ MaxFails \in Nat
  BY DEF ConnRows, ConnectionsAssumption
<1>2. /\ Failed(row).fails = row.fails + 1
      /\ Failed(row).state = IF row.fails + 1 >= MaxFails THEN "error" ELSE "active"
      /\ Failed(row).merchant = row.merchant /\ Failed(row).token = row.token
  BY DEF Failed, ConnRows
<1> QED
  BY <1>1, <1>2

(* The steps that touch neither a row nor the job.                         *)
LEMMA ConnStill ==
  ASSUME ConnInv, UNCHANGED <<conn, refresher, lost, losses>>,
         oauth' \in [StateTokens -> Restaurants \cup {NoOne}],
         callback' \in [Callbacks -> Callings], CallsNamed',
         issued' \in 0 .. MaxTokens, valid' \in [Merchants -> SUBSET Tokens]
  PROVE  ConnInv'
<1>1. ConnectionsTypeOK'
  BY DEF ConnInv, ConnectionsTypeOK
<1>2. JobRows' /\ RowsNamed'
  BY JobsUndisturbed DEF ConnInv, RowsNamed
<1> QED
  BY <1>1, <1>2 DEF ConnInv

LEMMA FlowSteps ==
  ASSUME ConnectionsAssumption, ConnInv, NEW c \in Callbacks,
         \/ \E s \in StateTokens, m \in Merchants : CallbackArrives(c, s, m)
         \/ Exchange(c) \/ CallbackDies(c) \/ MerchantTaken(c)
  PROVE  ConnInv'
<1> USE DEF ConnInv, ConnectionsTypeOK
<1>0. NoCall \in Callings
  BY DEF NoCall, Callings
<1>1. CASE \E s \in StateTokens, m \in Merchants : CallbackArrives(c, s, m)
  <2> PICK s \in StateTokens, m \in Merchants : CallbackArrives(c, s, m)
    BY <1>1
  <2> DEFINE call == [step |-> "exchange", state |-> s, tenant |-> oauth[s],
                      merchant |-> m, token |-> 0]
  <2>1. oauth[s] \in Restaurants /\ call \in Callings
    BY DEF CallbackArrives, Callings
  <2>2. callback' = [callback EXCEPT ![c] = call]
    BY DEF CallbackArrives
  <2>3. call.state = s /\ call.merchant = m /\ call.tenant = oauth[s] /\ call.step = "exchange"
    OBVIOUS
  <2> HIDE DEF call
  <2>4. CallsNamed'
    BY <2>1, <2>2, <2>3 DEF CallsNamed
  <2>5. callback' \in [Callbacks -> Callings]
    BY <2>1, <2>2
  <2> QED
    BY <2>4, <2>5, ConnStill DEF CallbackArrives, ConsumeState
<1>2. CASE Exchange(c)
  <2> DEFINE call == [callback[c] EXCEPT !.step = "write", !.token = issued + 1]
  <2>1. issued + 1 \in Tokens /\ issued + 1 \in 0 .. MaxTokens /\ callback[c] \in Callings
    BY <1>2 DEF Exchange, Tokens, ConnectionsAssumption
  <2>2. callback' = [callback EXCEPT ![c] = call]
    BY <1>2, <2>1 DEF Exchange, Callings
  <2>3. callback[c] # NoCall
    BY <1>2 DEF Exchange, NoCall
  <2>4. call \in Callings /\ call.state = callback[c].state /\ call.step = "write"
        /\ call.merchant = callback[c].merchant /\ call.tenant = callback[c].tenant
    BY <2>1 DEF Callings
  <2> HIDE DEF call
  <2>5. CallsNamed'
    BY <2>2, <2>3, <2>4 DEF CallsNamed
  <2>6. valid' \in [Merchants -> SUBSET Tokens]
    BY <1>2, <2>1, <2>3 DEF Exchange, CallsNamed
  <2> QED
    BY <1>2, <2>1, <2>2, <2>4, <2>5, <2>6, ConnStill DEF Exchange
<1>3. CASE CallbackDies(c)
  BY <1>0, <1>3, ConnStill DEF CallbackDies, CallsNamed
<1>4. CASE MerchantTaken(c)
  BY <1>0, <1>4, ConnStill DEF MerchantTaken, CallsNamed
<1> QED
  BY <1>1, <1>2, <1>3, <1>4

(* The steps that write rows the job does not hold.                        *)
LEMMA RowsStep ==
  ASSUME ConnInv, UNCHANGED <<refresher, oauth, issued, valid, losses>>,
         conn' \in [Conns -> ConnRows], RowsNamed',
         callback' \in [Callbacks -> Callings], CallsNamed', lost' \subseteq Conns,
         \A p \in Refreshers : \A r \in refresher[p].locked : conn'[r] = conn[r]
  PROVE  ConnInv'
<1>1. ConnectionsTypeOK'
  BY DEF ConnInv, ConnectionsTypeOK
<1>2. JobRows'
  BY JobsUndisturbed DEF ConnInv
<1> QED
  BY <1>1, <1>2 DEF ConnInv

LEMMA ConnectSteps ==
  ASSUME ConnectionsAssumption, ConnInv, NEW c \in Callbacks,
         Reconnect(c) \/ FirstConnect(c)
  PROVE  ConnInv'
<1> USE DEF ConnInv, ConnectionsTypeOK
<1>1. callback[c].step = "write" /\ callback[c] # NoCall /\ callback[c] \in Callings
  BY DEF Reconnect, FirstConnect, NoCall
<1>2. /\ Fresh(c) \in ConnRows /\ Fresh(c).state = "active" /\ Fresh(c).fails = 0
      /\ Fresh(c).merchant \in Merchants
  BY <1>1 DEF Fresh, ConnRows, CallsNamed, Callings, ConnectionsAssumption
<1>3. callback' \in [Callbacks -> Callings] /\ CallsNamed'
  <2>1. NoCall \in Callings /\ callback' = [callback EXCEPT ![c] = NoCall]
    BY DEF NoCall, Callings, Reconnect, FirstConnect
  <2> QED
    BY <2>1 DEF CallsNamed
<1>4. PICK r \in Conns : /\ conn' = [conn EXCEPT ![r] = Fresh(c)]
                         /\ \A p \in Refreshers : r \notin refresher[p].locked
  <2>1. CASE Reconnect(c)
    BY <2>1 DEF Reconnect, Mine, RowLocked
  <2>2. CASE FirstConnect(c)
    <3>1. PICK r \in Conns : FirstFree(r) /\ conn' = [conn EXCEPT ![r] = Fresh(c)]
      BY <2>2 DEF FirstConnect
    <3>2. ASSUME NEW p \in Refreshers, r \in refresher[p].locked PROVE FALSE
      BY <3>1, <3>2 DEF FirstFree, JobRows, HeldRow
    <3> QED
      BY <3>1, <3>2
  <2> QED
    BY <2>1, <2>2
<1>5. conn' \in [Conns -> ConnRows] /\ RowsNamed'
  BY <1>2, <1>4 DEF RowsNamed, ConnectionsAssumption
<1>6. ASSUME NEW p \in Refreshers, NEW q \in refresher[p].locked PROVE conn'[q] = conn[q]
  <2>1. q \in Conns /\ q # r
    BY <1>4, <1>6 DEF Refreshes
  <2> QED
    BY <1>4, <2>1
<1>7. UNCHANGED <<refresher, oauth, issued, valid, losses>> /\ lost' \subseteq Conns
  BY DEF Reconnect, FirstConnect
<1> QED
  BY <1>3, <1>5, <1>6, <1>7, RowsStep

LEMMA OwnerSteps ==
  ASSUME ConnectionsAssumption, ConnInv,
         (\E t \in Restaurants : Disconnect(t)) \/ (\E r \in Conns : Expiring(r))
  PROVE  ConnInv'
<1> USE DEF ConnInv, ConnectionsTypeOK
<1>1. UNCHANGED <<refresher, oauth, callback, issued, valid, lost, losses>> /\ CallsNamed'
  BY DEF Disconnect, Expiring, CallsNamed
<1>2. CASE \E t \in Restaurants : Disconnect(t)
  <2>1. PICK t \in Restaurants : Disconnect(t)
    BY <1>2
  <2>2. ASSUME NEW r \in Conns
        PROVE  /\ conn'[r] \in ConnRows /\ conn'[r].merchant = conn[r].merchant
               /\ conn'[r].state = "absent" => conn[r].state = "absent"
               /\ conn'[r].state # "absent" => conn[r].state # "absent"
               /\ conn'[r].state = "active" => conn'[r] = conn[r]
               /\ conn'[r] # conn[r] => r \in Mine(t)
    <3>1. CASE r \in Mine(t)
      <4>1. conn'[r] = [conn[r] EXCEPT !.state = "revoked"]
        BY <2>1, <3>1 DEF Disconnect
      <4> QED
        BY <3>1, <4>1 DEF ConnRows, Mine, Active
    <3>2. CASE r \notin Mine(t)
      BY <2>1, <3>2 DEF Disconnect
    <3> QED
      BY <3>1, <3>2
  <2>3. conn' \in [Conns -> ConnRows]
    <3>1. conn' = [r \in Conns |-> conn'[r]]
      BY <2>1 DEF Disconnect
    <3> QED
      BY <2>2, <3>1
  <2>4. RowsNamed'
    BY <2>2 DEF RowsNamed
  <2>5. ASSUME NEW p \in Refreshers, NEW q \in refresher[p].locked PROVE conn'[q] = conn[q]
    <3>1. q \in Conns /\ q \notin Mine(t)
      BY <2>1, <2>5 DEF Disconnect, RowLocked, Refreshes
    <3> QED
      BY <2>2, <3>1
  <2> QED
    BY <1>1, <2>3, <2>4, <2>5, RowsStep
<1>3. CASE \E r \in Conns : Expiring(r)
  <2>1. PICK r \in Conns : Expiring(r)
    BY <1>3
  <2> DEFINE row == [conn[r] EXCEPT !.due = TRUE]
  <2>2. /\ row \in ConnRows /\ row.merchant = conn[r].merchant /\ row.fails = conn[r].fails
        /\ row.state = conn[r].state
    BY DueRow
  <2>3. conn' = [conn EXCEPT ![r] = row]
    BY <2>1 DEF Expiring
  <2> HIDE DEF row
  <2>4. conn' \in [Conns -> ConnRows] /\ RowsNamed'
    BY <2>2, <2>3 DEF RowsNamed
  <2>5. ASSUME NEW p \in Refreshers, NEW q \in refresher[p].locked PROVE conn'[q] = conn[q]
    <3>1. q \in Conns /\ q # r
      BY <2>1, <2>5 DEF Expiring, JobRows, HeldRow, Refreshes
    <3> QED
      BY <2>3, <3>1
  <2> QED
    BY <1>1, <2>4, <2>5, RowsStep
<1> QED
  BY <1>2, <1>3

LEMMA JobBegins ==
  ASSUME ConnectionsAssumption, ConnInv, NEW p \in Refreshers, RefreshBegins(p)
  PROVE  ConnInv'
<1> USE DEF ConnInv, ConnectionsTypeOK
<1> DEFINE w == [r \in Conns |-> IF r \in DueRows THEN conn[r] ELSE NoConn]
<1> DEFINE tx == [locked |-> DueRows, todo |-> DueRows, wrote |-> w]
<1>1. DueRows \subseteq Conns /\ w \in [Conns -> ConnRows]
  BY NoConnRow DEF DueRows
<1>2. \A r \in DueRows : w[r] = conn[r]
  BY <1>1
<1>3. refresher' = [refresher EXCEPT ![p] = tx]
  BY DEF RefreshBegins
<1> HIDE DEF w
<1>4. tx \in Refreshes /\ tx.locked = DueRows /\ tx.todo = DueRows /\ tx.wrote = w
  BY <1>1 DEF Refreshes
<1> HIDE DEF tx
<1>5. /\ refresher'[p].locked = DueRows /\ refresher'[p].todo = DueRows
      /\ refresher'[p].wrote = w
      /\ \A q \in Refreshers \ {p} : refresher'[q] = refresher[q]
  BY <1>3, <1>4
<1>6. /\ UNCHANGED <<conn, oauth, callback, issued, valid, lost, losses>>
      /\ RowsNamed' /\ CallsNamed'
  BY DEF RefreshBegins, RowsNamed, CallsNamed
<1>7. \A r \in DueRows : HeldRow(p, r)'
  <2> SUFFICES ASSUME NEW r \in DueRows PROVE HeldRow(p, r)'
    OBVIOUS
  <2>1. r \in Conns /\ conn[r].state = "active" /\ conn[r].due /\ conn[r].fails < MaxFails
    BY <1>1 DEF DueRows, Active, RowsNamed
  <2> QED
    BY <1>2, <1>5, <1>6, <2>1 DEF HeldRow
<1>8. \A q \in Refreshers \ {p} : \A r \in refresher[q].locked : r \notin DueRows
  BY DEF DueRows, RowLocked
<1>9. \A q \in Refreshers \ {p} : \A r \in refresher[q].locked : HeldRow(q, r)'
  BY <1>5, <1>6 DEF JobRows, HeldRow
<1>10. JobRows'
  <2> SUFFICES ASSUME NEW a \in Refreshers
      PROVE  /\ refresher'[a].todo \subseteq refresher'[a].locked
             /\ \A b \in Refreshers \ {a} : refresher'[a].locked \cap refresher'[b].locked = {}
             /\ \A r \in refresher'[a].locked : HeldRow(a, r)'
    BY DEF JobRows
  <2>1. CASE a = p
    BY <1>5, <1>7, <1>8, <2>1
  <2>2. CASE a # p
    BY <1>5, <1>8, <1>9, <2>2 DEF JobRows
  <2> QED
    BY <2>1, <2>2
<1>11. refresher' \in [Refreshers -> Refreshes]
  BY <1>3, <1>4
<1> QED
  BY <1>6, <1>10, <1>11

LEMMA JobRefreshes ==
  ASSUME ConnectionsAssumption, ConnInv, NEW p \in Refreshers,
         RefreshOk(p) \/ RefreshFails(p) \/ AnswerLost(p)
  PROVE  ConnInv'
<1> USE DEF ConnInv, ConnectionsTypeOK
<1>1. PICK r \in refresher[p].todo :
        \/ /\ Rotate(refresher[p].wrote[r].merchant, refresher[p].wrote[r].token)
           /\ Wrote(p, r, [refresher[p].wrote[r] EXCEPT
                              !.token = issued + 1, !.fails = 0, !.due = FALSE])
           /\ UNCHANGED <<lost, losses>>
        \/ /\ UNCHANGED <<issued, valid, lost, losses>>
           /\ Wrote(p, r, Failed(refresher[p].wrote[r]))
        \/ /\ Rotate(refresher[p].wrote[r].merchant, refresher[p].wrote[r].token)
           /\ losses < MaxLost /\ losses' = losses + 1 /\ lost' = lost \cup {r}
           /\ Wrote(p, r, Failed(refresher[p].wrote[r]))
  BY DEF RefreshOk, RefreshFails, AnswerLost
<1> DEFINE old == refresher[p].wrote[r]
<1>2. /\ r \in Conns /\ old = conn[r] /\ conn[r] \in ConnRows /\ conn[r].state = "active"
      /\ conn[r].fails < MaxFails /\ conn[r].merchant \in Merchants
  BY HeldRows
<1>3. UNCHANGED <<conn, oauth, callback>> /\ RowsNamed' /\ CallsNamed'
  BY DEF RefreshOk, RefreshFails, AnswerLost, RowsNamed, CallsNamed
<1>4. lost' \subseteq Conns /\ losses' \in 0 .. MaxLost
  BY <1>1, <1>2 DEF ConnectionsAssumption
<1>5. issued' \in 0 .. MaxTokens /\ valid' \in [Merchants -> SUBSET Tokens]
  <2>1. CASE Rotate(old.merchant, old.token)
    <3>1. issued + 1 \in Tokens /\ issued + 1 \in 0 .. MaxTokens
      BY <2>1 DEF Rotate, Tokens, ConnectionsAssumption
    <3> QED
      BY <1>2, <2>1, <3>1 DEF Rotate
  <2>2. CASE UNCHANGED <<issued, valid>>
    BY <2>2
  <2> QED
    BY <1>1, <2>1, <2>2
<1>6. PICK row \in ConnRows :
        /\ Wrote(p, r, row) /\ row.merchant = conn[r].merchant
        /\ row.state \in {"active", "error"}
        /\ row.state = "active" => row.fails < MaxFails
  <2>1. CASE Wrote(p, r, Failed(old))
    BY <1>2, <2>1, FailedRow, FailedKeeps
  <2>2. CASE /\ Rotate(old.merchant, old.token)
             /\ Wrote(p, r, [old EXCEPT !.token = issued + 1, !.fails = 0, !.due = FALSE])
    <3>1. PICK held \in ConnRows, t \in Tokens : held = old /\ t = issued + 1
      BY <1>2, <2>2 DEF Rotate, Tokens, ConnectionsAssumption
    <3> DEFINE row == [held EXCEPT !.token = t, !.fails = 0, !.due = FALSE]
    <3>2. row \in ConnRows /\ row.merchant = held.merchant /\ row.state = held.state
          /\ row.fails = 0
      BY RefreshedRow
    <3>3. Wrote(p, r, row)
      BY <2>2, <3>1
    <3> HIDE DEF row
    <3> QED
      BY <1>2, <3>1, <3>2, <3>3 DEF ConnectionsAssumption
  <2> QED
    BY <1>1, <2>1, <2>2
<1>7. refresher' \in [Refreshers -> Refreshes]
  BY <1>2, <1>6, WroteRefreshes
<1>8. JobRows'
  BY <1>3, <1>6, JobWrites
<1> QED
  BY <1>3, <1>4, <1>5, <1>7, <1>8

(* A transaction that ends gives its rows back.                            *)
LEMMA JobEnds ==
  ASSUME ConnectionsAssumption, ConnInv, NEW p \in Refreshers,
         RefreshCommits(p) \/ RefreshCrashes(p)
  PROVE  ConnInv'
<1> USE DEF ConnInv, ConnectionsTypeOK
<1>1. /\ refresher' = [refresher EXCEPT ![p] = Resting]
      /\ UNCHANGED <<oauth, callback, issued, valid>> /\ CallsNamed'
  BY DEF RefreshCommits, RefreshCrashes, CallsNamed
<1>2. Resting \in Refreshes
  BY NoConnRow DEF Resting, Refreshes
<1>3. ASSUME NEW r \in Conns
      PROVE  /\ conn'[r] \in ConnRows
             /\ conn'[r].state # "absent" => conn'[r].merchant \in Merchants
             /\ conn'[r].state = "active" => conn'[r].fails < MaxFails
             /\ r \notin refresher[p].locked => conn'[r] = conn[r]
  <2>1. CASE conn'[r] = conn[r]
    BY <2>1 DEF RowsNamed
  <2>2. CASE r \in refresher[p].locked /\ conn'[r] = refresher[p].wrote[r]
    <3>1. HeldRow(p, r) /\ refresher[p].wrote[r] \in ConnRows
      BY <2>2 DEF JobRows, Refreshes
    <3> QED
      BY <2>2, <3>1 DEF HeldRow, RowsNamed
  <2> QED
    BY <2>1, <2>2 DEF RefreshCommits, RefreshCrashes
<1>4. conn' \in [Conns -> ConnRows]
  <2>1. conn' = [r \in Conns |-> conn'[r]]
    BY DEF RefreshCommits, RefreshCrashes
  <2> QED
    BY <1>3, <2>1
<1>5. RowsNamed'
  BY <1>3 DEF RowsNamed
<1>6. lost' \subseteq Conns /\ losses' \in 0 .. MaxLost
  BY DEF RefreshCommits, RefreshCrashes, Refreshes, ConnectionsAssumption
<1>7. /\ refresher'[p].locked = {} /\ refresher'[p].todo = {}
      /\ \A q \in Refreshers \ {p} : refresher'[q] = refresher[q]
  BY <1>1 DEF Resting
<1>8. ASSUME NEW q \in Refreshers \ {p}, NEW r \in refresher[q].locked
      PROVE  HeldRow(q, r)'
  <2>1. HeldRow(q, r) /\ r \in Conns /\ r \notin refresher[p].locked
    BY <1>8 DEF JobRows, Refreshes
  <2> QED
    BY <1>3, <1>7, <2>1 DEF HeldRow
<1>9. JobRows'
  BY <1>7, <1>8 DEF JobRows
<1> QED
  BY <1>1, <1>2, <1>4, <1>5, <1>6, <1>9

(* The refresh job's rows are its own in every reachable state.            *)
LEMMA ConnStep ==
  ConnectionsAssumption /\ ConnInv /\ [ConnectionsNext]_connectionsVars => ConnInv'
<1> SUFFICES ASSUME ConnectionsAssumption, ConnInv, [ConnectionsNext]_connectionsVars
             PROVE  ConnInv'
  OBVIOUS
<1>1. CASE UNCHANGED connectionsVars
  BY <1>1 DEF connectionsVars, ConnInv, ConnectionsTypeOK, JobRows, HeldRow, RowsNamed,
              CallsNamed
<1>2. ASSUME NEW t \in Restaurants, NEW s \in StateTokens, Connect(t, s) PROVE ConnInv'
  <2>1. CallsNamed'
    BY <1>2 DEF Connect, ConnInv, CallsNamed
  <2> QED
    BY <1>2, <2>1, ConnStill DEF Connect, ConnInv, ConnectionsTypeOK
<1>3. ASSUME NEW s \in StateTokens, StateExpires(s) PROVE ConnInv'
  <2>1. CallsNamed'
    BY <1>3 DEF StateExpires, ConnInv, CallsNamed
  <2> QED
    BY <1>3, <2>1, ConnStill DEF StateExpires, ConnInv, ConnectionsTypeOK
<1>4. CASE \E c \in Callbacks, s \in StateTokens, m \in Merchants : CallbackArrives(c, s, m)
  BY <1>4, FlowSteps
<1>5. CASE \E c \in Callbacks : \/ Exchange(c) \/ CallbackDies(c)
                                \/ Reconnect(c) \/ FirstConnect(c) \/ MerchantTaken(c)
  BY <1>5, FlowSteps, ConnectSteps
<1>6. CASE (\E t \in Restaurants : Disconnect(t)) \/ (\E r \in Conns : Expiring(r))
  BY <1>6, OwnerSteps
<1>7. CASE \E p \in Refreshers : JobStep(p) \/ AnswerLost(p) \/ RefreshCrashes(p)
  BY <1>7, JobBegins, JobRefreshes, JobEnds DEF JobStep
<1> QED
  BY <1>1, <1>2, <1>3, <1>4, <1>5, <1>6, <1>7 DEF ConnectionsNext

(* The tables, the requests and the job's transactions keep their types.   *)
THEOREM ConnectionsTypeCorrect == ConnectionsSpec => []ConnectionsTypeOK
<1> USE ConnectionsAssumption
<1>1. ConnectionsInit => ConnInv
  BY ConnInit
<1>2. ConnInv /\ [ConnectionsNext]_connectionsVars => ConnInv'
  BY ConnStep
<1>3. ConnInv => ConnectionsTypeOK
  BY DEF ConnInv
<1> QED
  BY <1>1, <1>2, <1>3, PTL DEF ConnectionsSpec

(* A callback that holds a state token is the only one that does, and the  *)
(* token can not be presented again.                                       *)
THEOREM StateTokensSpentOnce == ConnectionsSpec => []StateSpentOnce
<1> USE ConnectionsAssumption
<1>1. ConnectionsInit => ConnInv /\ StateSpentOnce
  BY ConnInit DEF ConnectionsInit, StateSpentOnce
<1>2. ConnInv /\ StateSpentOnce /\ [ConnectionsNext]_connectionsVars => StateSpentOnce'
  <2> SUFFICES ASSUME ConnInv, StateSpentOnce, [ConnectionsNext]_connectionsVars
               PROVE  StateSpentOnce'
    OBVIOUS
  <2> USE DEF ConnInv, ConnectionsTypeOK
  <2>1. ASSUME UNCHANGED oauth \/ \E s \in StateTokens : StateExpires(s),
               \A c \in Callbacks : callback'[c] # NoCall =>
                 callback'[c].state = callback[c].state /\ callback[c] # NoCall
        PROVE  StateSpentOnce'
    <3> SUFFICES ASSUME NEW c \in Callbacks, callback'[c] # NoCall
        PROVE  /\ oauth'[callback'[c].state] = NoOne
               /\ \A d \in Callbacks \ {c} : callback'[d].state # callback'[c].state
      BY DEF StateSpentOnce
    <3>1. /\ callback'[c].state = callback[c].state /\ callback[c] # NoCall
          /\ callback[c].state \in StateTokens
      BY <2>1 DEF CallsNamed
    <3>2. oauth'[callback[c].state] = NoOne
      BY <2>1, <3>1 DEF StateSpentOnce, StateExpires
    <3>3. ASSUME NEW d \in Callbacks \ {c} PROVE callback'[d].state # callback'[c].state
      <4>1. CASE callback'[d] = NoCall
        BY <3>1, <4>1 DEF NoCall, ConnectionsAssumption
      <4>2. CASE callback'[d] # NoCall
        BY <2>1, <3>1, <4>2 DEF StateSpentOnce
      <4> QED
        BY <4>1, <4>2
    <3> QED
      BY <3>1, <3>2, <3>3
  <2>2. ASSUME NEW t \in Restaurants, NEW s \in StateTokens, Connect(t, s)
        PROVE  StateSpentOnce'
    BY <2>2 DEF Connect, StateSpentOnce, CallsNamed
  <2>3. ASSUME NEW s \in StateTokens, StateExpires(s) PROVE StateSpentOnce'
    BY <2>1, <2>3 DEF StateExpires
  <2>4. ASSUME NEW c \in Callbacks, NEW s \in StateTokens, NEW m \in Merchants,
               CallbackArrives(c, s, m)
        PROVE  StateSpentOnce'
    <3> DEFINE call == [step |-> "exchange", state |-> s, tenant |-> oauth[s],
                        merchant |-> m, token |-> 0]
    <3>1. callback' = [callback EXCEPT ![c] = call] /\ call.state = s
      BY <2>4 DEF CallbackArrives
    <3>2. oauth' = [oauth EXCEPT ![s] = NoOne] /\ oauth[s] # NoOne
      BY <2>4 DEF CallbackArrives, ConsumeState
    <3> HIDE DEF call
    <3>3. \A d \in Callbacks \ {c} : callback[d].state # s
      <4> SUFFICES ASSUME NEW d \in Callbacks \ {c} PROVE callback[d].state # s
        OBVIOUS
      <4>1. CASE callback[d] = NoCall
        BY <4>1 DEF NoCall, ConnectionsAssumption
      <4>2. CASE callback[d] # NoCall
        BY <3>2, <4>2 DEF StateSpentOnce
      <4> QED
        BY <4>1, <4>2
    <3> QED
      BY <3>1, <3>2, <3>3 DEF StateSpentOnce, CallsNamed
  <2>5. ASSUME NEW c \in Callbacks, Exchange(c) PROVE StateSpentOnce'
    <3>1. callback'[c].state = callback[c].state /\ callback[c] # NoCall
      BY <2>5 DEF Exchange, Callings, NoCall
    <3>2. \A d \in Callbacks \ {c} : callback'[d] = callback[d]
      BY <2>5 DEF Exchange
    <3> QED
      BY <2>1, <2>5, <3>1, <3>2 DEF Exchange
  <2>6. ASSUME NEW c \in Callbacks,
               \/ CallbackDies(c) \/ Reconnect(c) \/ FirstConnect(c) \/ MerchantTaken(c)
        PROVE  StateSpentOnce'
    <3>1. UNCHANGED oauth /\ callback' = [callback EXCEPT ![c] = NoCall]
      BY <2>6 DEF CallbackDies, Reconnect, FirstConnect, MerchantTaken
    <3> QED
      BY <2>1, <3>1
  <2>7. ASSUME UNCHANGED <<oauth, callback>> PROVE StateSpentOnce'
    BY <2>1, <2>7
  <2> QED
    BY <2>2, <2>3, <2>4, <2>5, <2>6, <2>7
    DEF ConnectionsNext, connectionsVars, JobStep, Disconnect, Expiring, RefreshBegins,
        RefreshOk, RefreshFails, AnswerLost, RefreshCommits, RefreshCrashes
<1>3. ConnInv /\ [ConnectionsNext]_connectionsVars => ConnInv'
  BY ConnStep
<1> QED
  BY <1>1, <1>2, <1>3, PTL DEF ConnectionsSpec

(* A revoked connection is never written again: the rows the job writes    *)
(* are active, for it holds their locks.                                   *)
THEOREM RevokedStaysRevoked == ConnectionsSpec => RevokedFinal
<1> USE ConnectionsAssumption
<1>1. ConnInv /\ [ConnectionsNext]_connectionsVars =>
        [\A r \in Conns : conn[r].state = "revoked" => conn'[r] = conn[r]]_connectionsVars
  <2> SUFFICES ASSUME ConnInv, ConnectionsNext, NEW r \in Conns, conn[r].state = "revoked"
               PROVE  conn'[r] = conn[r]
    BY DEF connectionsVars
  <2> USE DEF ConnInv, ConnectionsTypeOK
  <2>1. ASSUME NEW c \in Callbacks, Reconnect(c) \/ FirstConnect(c) PROVE conn'[r] = conn[r]
    BY <2>1 DEF Reconnect, FirstConnect, Mine, Active, FirstFree
  <2>2. ASSUME NEW t \in Restaurants, Disconnect(t) PROVE conn'[r] = conn[r]
    BY <2>2 DEF Disconnect, Mine, Active
  <2>3. ASSUME NEW q \in Conns, Expiring(q) PROVE conn'[r] = conn[r]
    BY <2>3 DEF Expiring, Active
  <2>4. ASSUME NEW p \in Refreshers, RefreshCommits(p) PROVE conn'[r] = conn[r]
    BY <2>4 DEF RefreshCommits, JobRows, HeldRow
  <2> QED
    BY <2>1, <2>2, <2>3, <2>4
    DEF ConnectionsNext, JobStep, Connect, StateExpires, CallbackArrives, Exchange,
        CallbackDies, MerchantTaken, RefreshBegins, RefreshOk, RefreshFails, AnswerLost,
        RefreshCrashes
<1>2. ConnectionsInit => ConnInv
  BY ConnInit
<1>3. ConnInv /\ [ConnectionsNext]_connectionsVars => ConnInv'
  BY ConnStep
<1> QED
  BY <1>1, <1>2, <1>3, PTL DEF ConnectionsSpec, RevokedFinal

-----------------------------------------------------------------------------
(* The refresh tokens. *)

(* Two rows never claim one merchant, so one row's rotation leaves the     *)
(* other row's token alone.                                                *)
ClaimedOnce ==
  \A r, q \in Conns : r # q /\ Claims(r) /\ Claims(q) => conn[r].merchant # conn[q].merchant

(* A callback about to write holds an accepted token that is in no row.    *)
CallTokens ==
  \A c \in Callbacks : callback[c].step = "write" =>
    LET t == callback[c].token IN
    /\ t \in valid[callback[c].merchant] /\ t <= issued
    /\ \A d \in Callbacks \ {c} : callback[d].step = "write" => callback[d].token # t
    /\ \A r \in Conns : conn[r].token # t
    /\ \A p \in Refreshers : \A r \in refresher[p].locked : refresher[p].wrote[r].token # t

TokensIssued ==
  /\ \A r \in Conns : conn[r].token <= issued
  /\ \A p \in Refreshers : \A r \in refresher[p].locked : refresher[p].wrote[r].token <= issued

(* An active row's newest token is accepted, in the table or with the job. *)
RowTokens ==
  \A r \in Conns : Active(r) /\ r \notin lost =>
    /\ ~RowLocked(r) => conn[r].token \in valid[conn[r].merchant]
    /\ \A p \in Refreshers : r \in refresher[p].locked =>
         refresher[p].wrote[r].token \in valid[conn[r].merchant]

TokenInv == ClaimedOnce /\ CallTokens /\ TokensIssued /\ RowTokens

LEMMA TokenInit == ConnectionsInit => TokenInv
BY DEF ConnectionsInit, TokenInv, ClaimedOnce, CallTokens, TokensIssued, RowTokens, Claims,
       Active, NoCall, NoConn, Resting

(* The steps that make no token and move none.                             *)
LEMMA TokensStill ==
  ASSUME ConnInv, TokenInv, UNCHANGED <<refresher, issued, valid, lost>>,
         \A c \in Callbacks : callback'[c].step = "write" => callback'[c] = callback[c],
         \A r \in Conns : /\ conn'[r].token = conn[r].token
                          /\ conn'[r].merchant = conn[r].merchant
                          /\ conn'[r].state \in {conn[r].state, "revoked"}
  PROVE  TokenInv'
<1> USE DEF TokenInv
<1>1. ClaimedOnce'
  BY DEF ClaimedOnce, Claims
<1>2. CallTokens'
  <2> SUFFICES ASSUME NEW c \in Callbacks, callback'[c].step = "write"
      PROVE  LET t == callback'[c].token IN
             /\ t \in valid'[callback'[c].merchant] /\ t <= issued'
             /\ \A d \in Callbacks \ {c} : callback'[d].step = "write" => callback'[d].token # t
             /\ \A r \in Conns : conn'[r].token # t
             /\ \A p \in Refreshers : \A r \in refresher'[p].locked :
                  refresher'[p].wrote[r].token # t
    BY DEF CallTokens
  <2>1. callback'[c] = callback[c]
    OBVIOUS
  <2> QED
    BY <2>1 DEF CallTokens
<1>3. TokensIssued'
  BY DEF TokensIssued
<1>4. RowTokens'
  BY DEF RowTokens, RowLocked, Active
<1> QED
  BY <1>1, <1>2, <1>3, <1>4

LEMMA ExchangeTokens ==
  ASSUME ConnectionsAssumption, ConnInv, TokenInv, NEW c \in Callbacks, Exchange(c)
  PROVE  TokenInv'
<1> USE DEF TokenInv, ConnInv, ConnectionsTypeOK
<1> DEFINE m == callback[c].merchant
<1>1. /\ issued' = issued + 1 /\ issued \in Nat
      /\ UNCHANGED <<conn, refresher, lost>>
      /\ \A d \in Callbacks \ {c} : callback'[d] = callback[d]
      /\ callback'[c].token = issued + 1 /\ callback'[c].merchant = m
  BY DEF Exchange, Callings, ConnectionsAssumption
<1>2. m \in Merchants
  BY DEF Exchange, CallsNamed, NoCall
<1>3. /\ issued + 1 \in valid'[m]
      /\ \A n \in Merchants : valid[n] \subseteq valid'[n]
  BY <1>2 DEF Exchange
<1> HIDE DEF m
<1>4. /\ \A r \in Conns : conn[r].token \in Int /\ conn[r].token <= issued
      /\ \A p \in Refreshers : \A r \in refresher[p].locked :
           refresher[p].wrote[r].token \in Int /\ refresher[p].wrote[r].token <= issued
  BY DEF TokensIssued, Refreshes, ConnRows, Tokens
<1>5. \A d \in Callbacks : callback[d].step = "write" =>
        callback[d].token \in Int /\ callback[d].token <= issued
  BY DEF CallTokens, Callings, Tokens
<1>6. ClaimedOnce'
  BY <1>1 DEF ClaimedOnce, Claims
<1>7. CallTokens'
  <2>1. ASSUME NEW d \in Callbacks, callback'[d].step = "write", d # c
        PROVE  callback[d] = callback'[d] /\ callback[d].merchant \in Merchants
    BY <1>1, <2>1 DEF CallsNamed, NoCall
  <2>2. ASSUME NEW d \in Callbacks \ {c}, callback'[d].step = "write"
        PROVE  callback'[d].token # callback'[c].token
    BY <1>1, <1>5, <2>1, <2>2
  <2>3. /\ \A r \in Conns : conn'[r].token # callback'[c].token
        /\ \A p \in Refreshers : \A r \in refresher'[p].locked :
             refresher'[p].wrote[r].token # callback'[c].token
    BY <1>1, <1>4
  <2> SUFFICES ASSUME NEW d \in Callbacks, callback'[d].step = "write"
      PROVE  LET t == callback'[d].token IN
             /\ t \in valid'[callback'[d].merchant] /\ t <= issued'
             /\ \A e \in Callbacks \ {d} : callback'[e].step = "write" => callback'[e].token # t
             /\ \A r \in Conns : conn'[r].token # t
             /\ \A p \in Refreshers : \A r \in refresher'[p].locked :
                  refresher'[p].wrote[r].token # t
    BY DEF CallTokens
  <2>4. CASE d = c
    BY <1>1, <1>3, <2>2, <2>3, <2>4
  <2>5. CASE d # c
    <3>1. callback'[d].token \in valid'[callback'[d].merchant]
      BY <1>3, <2>1, <2>5 DEF CallTokens
    <3>2. callback'[d].token <= issued'
      BY <1>1, <1>5, <2>1, <2>5
    <3>3. ASSUME NEW e \in Callbacks \ {d}, callback'[e].step = "write"
          PROVE  callback'[e].token # callback'[d].token
      BY <1>1, <2>1, <2>2, <2>5, <3>3 DEF CallTokens
    <3> QED
      BY <1>1, <2>1, <2>5, <3>1, <3>2, <3>3 DEF CallTokens
  <2> QED
    BY <2>4, <2>5
<1>8. TokensIssued'
  BY <1>1, <1>4 DEF TokensIssued
<1>9. RowTokens'
  <2>1. \A r \in Conns : Active(r) => conn[r].merchant \in Merchants
    BY DEF Active, RowsNamed
  <2> QED
    BY <1>1, <1>3, <2>1 DEF RowTokens, RowLocked, Active
<1> QED
  BY <1>6, <1>7, <1>8, <1>9

(* The callback's token goes to a row no job holds, and to a merchant no   *)
(* other row claims.                                                       *)
LEMMA ConnectTokens ==
  ASSUME ConnectionsAssumption, ConnInv, TokenInv, NEW c \in Callbacks,
         Reconnect(c) \/ FirstConnect(c)
  PROVE  TokenInv'
<1> USE DEF TokenInv, ConnInv, ConnectionsTypeOK
<1> DEFINE t == callback[c].token
<1> DEFINE m == callback[c].merchant
<1>1. /\ callback[c].step = "write" /\ callback' = [callback EXCEPT ![c] = NoCall]
      /\ UNCHANGED <<refresher, issued, valid>>
  BY DEF Reconnect, FirstConnect
<1>2. PICK r \in Conns : /\ conn' = [conn EXCEPT ![r] = Fresh(c)]
                         /\ ~Taken(m, r) /\ ~RowLocked(r)
                         /\ lost \subseteq lost' \cup {r}
  <2>1. CASE Reconnect(c)
    <3>1. PICK r \in Mine(callback[c].tenant) :
            /\ ~RowLocked(r) /\ ~Taken(m, r) /\ lost' = lost \ {r}
            /\ conn' = [conn EXCEPT ![r] = Fresh(c)]
      BY <2>1 DEF Reconnect
    <3>2. r \in Conns /\ lost \subseteq lost' \cup {r}
      BY <3>1 DEF Mine
    <3> QED
      BY <3>1, <3>2
  <2>2. CASE FirstConnect(c)
    <3>1. PICK r \in Conns : /\ FirstFree(r) /\ ~Taken(m, r) /\ lost' = lost
                             /\ conn' = [conn EXCEPT ![r] = Fresh(c)]
      BY <2>2 DEF FirstConnect
    <3>2. ~RowLocked(r)
      BY <3>1 DEF RowLocked, FirstFree, JobRows, HeldRow
    <3> QED
      BY <3>1, <3>2
  <2> QED
    BY <2>1, <2>2
<1>3. /\ conn'[r] = Fresh(c) /\ \A q \in Conns \ {r} : conn'[q] = conn[q]
      /\ Fresh(c).token = t /\ Fresh(c).merchant = m /\ Fresh(c).state = "active"
  BY <1>2 DEF Fresh
<1>4. t \in valid[m] /\ t <= issued
  BY <1>1 DEF CallTokens
<1>5. callback'[c].step = "idle" /\ \A d \in Callbacks \ {c} : callback'[d] = callback[d]
  BY <1>1 DEF NoCall
<1>6. ClaimedOnce'
  BY <1>2, <1>3 DEF ClaimedOnce, Claims, Taken
<1>7. CallTokens'
  <2> SUFFICES ASSUME NEW d \in Callbacks \ {c}, callback[d].step = "write"
      PROVE  /\ callback[d].token \in valid[callback[d].merchant]
             /\ callback[d].token <= issued
             /\ \A e \in Callbacks \ {d} : callback'[e].step = "write" =>
                  callback'[e].token # callback[d].token
             /\ \A q \in Conns : conn'[q].token # callback[d].token
             /\ \A p \in Refreshers : \A q \in refresher[p].locked :
                  refresher[p].wrote[q].token # callback[d].token
    BY <1>1, <1>5 DEF CallTokens
  <2>1. callback[d].token # t
    BY <1>1 DEF CallTokens
  <2>2. \A q \in Conns : conn'[q].token # callback[d].token
    BY <1>3, <2>1 DEF CallTokens
  <2> QED
    BY <1>5, <2>2 DEF CallTokens
<1>8. TokensIssued'
  BY <1>1, <1>3, <1>4 DEF TokensIssued
<1>9. RowTokens'
  <2> SUFFICES ASSUME NEW q \in Conns, conn'[q].state = "active", q \notin lost'
      PROVE  /\ ~RowLocked(q) => conn'[q].token \in valid[conn'[q].merchant]
             /\ \A p \in Refreshers : q \in refresher[p].locked =>
                  refresher[p].wrote[q].token \in valid[conn'[q].merchant]
    BY <1>1 DEF RowTokens, Active, RowLocked
  <2>1. CASE q = r
    BY <1>2, <1>3, <1>4, <2>1 DEF RowLocked
  <2>2. CASE q # r
    BY <1>2, <1>3, <2>2 DEF RowTokens, Active
  <2> QED
    BY <2>1, <2>2
<1> QED
  BY <1>6, <1>7, <1>8, <1>9

LEMMA BeginTokens ==
  ASSUME ConnectionsAssumption, ConnInv, TokenInv, NEW p \in Refreshers, RefreshBegins(p)
  PROVE  TokenInv'
<1> USE DEF TokenInv, ConnInv, ConnectionsTypeOK
<1> DEFINE w == [r \in Conns |-> IF r \in DueRows THEN conn[r] ELSE NoConn]
<1>1. UNCHANGED <<conn, callback, issued, valid, lost>> /\ DueRows \subseteq Conns
  BY DEF RefreshBegins, DueRows
<1>2. \A r \in DueRows : w[r] = conn[r]
  BY <1>1
<1>3. /\ refresher'[p].locked = DueRows /\ refresher'[p].wrote = w
      /\ \A q \in Refreshers \ {p} : refresher'[q] = refresher[q]
  BY DEF RefreshBegins
<1> HIDE DEF w
<1>4. ASSUME NEW q \in Refreshers, NEW r \in refresher'[q].locked
      PROVE  \/ r \in refresher[q].locked /\ refresher'[q].wrote[r] = refresher[q].wrote[r]
             \/ r \in DueRows /\ refresher'[q].wrote[r] = conn[r]
  BY <1>2, <1>3, <1>4
<1>5. ClaimedOnce'
  BY <1>1 DEF ClaimedOnce, Claims
<1>6. CallTokens'
  <2> SUFFICES ASSUME NEW c \in Callbacks, callback[c].step = "write"
      PROVE  /\ callback[c].token \in valid[callback[c].merchant]
             /\ callback[c].token <= issued
             /\ \A d \in Callbacks \ {c} : callback[d].step = "write" =>
                  callback[d].token # callback[c].token
             /\ \A r \in Conns : conn[r].token # callback[c].token
             /\ \A q \in Refreshers : \A r \in refresher'[q].locked :
                  refresher'[q].wrote[r].token # callback[c].token
    BY <1>1 DEF CallTokens
  <2>1. ASSUME NEW q \in Refreshers, NEW r \in refresher'[q].locked
        PROVE  refresher'[q].wrote[r].token # callback[c].token
    BY <1>1, <1>4, <2>1 DEF CallTokens
  <2> QED
    BY <2>1 DEF CallTokens
<1>7. TokensIssued'
  <2>1. ASSUME NEW q \in Refreshers, NEW r \in refresher'[q].locked
        PROVE  refresher'[q].wrote[r].token <= issued
    BY <1>1, <1>4, <2>1 DEF TokensIssued
  <2> QED
    BY <1>1, <2>1 DEF TokensIssued
<1>8. RowTokens'
  <2> SUFFICES ASSUME NEW r \in Conns, Active(r), r \notin lost
      PROVE  /\ ~RowLocked(r)' => conn[r].token \in valid[conn[r].merchant]
             /\ \A q \in Refreshers : r \in refresher'[q].locked =>
                  refresher'[q].wrote[r].token \in valid[conn[r].merchant]
    BY <1>1 DEF RowTokens, Active
  <2>1. ~RowLocked(r)' => ~RowLocked(r)
    <3>1. refresher[p].locked = {}
      BY DEF RefreshBegins, Resting
    <3> QED
      BY <1>3, <3>1 DEF RowLocked
  <2>2. r \in DueRows => ~RowLocked(r)
    BY DEF DueRows
  <2>3. ASSUME NEW q \in Refreshers, r \in refresher'[q].locked
        PROVE  refresher'[q].wrote[r].token \in valid[conn[r].merchant]
    BY <1>4, <2>2, <2>3 DEF RowTokens
  <2> QED
    BY <2>1, <2>3 DEF RowTokens
<1> QED
  BY <1>5, <1>6, <1>7, <1>8

(* A refresh of row r in which Clover rotates its token, and the job       *)
(* learns the new one or not; or in which Clover does nothing.             *)
LEMMA RefreshTokens ==
  ASSUME ConnectionsAssumption, ConnInv, TokenInv, NEW p \in Refreshers,
         RefreshOk(p) \/ RefreshFails(p) \/ AnswerLost(p)
  PROVE  TokenInv'
<1> USE DEF TokenInv, ConnInv, ConnectionsTypeOK
<1>1. UNCHANGED <<conn, callback>>
  BY DEF RefreshOk, RefreshFails, AnswerLost
<1>2. PICK r, row :
        /\ r \in refresher[p].todo
        /\ Wrote(p, r, row) /\ refresher'[p].wrote[r] = row
        /\ \/ /\ Rotate(refresher[p].wrote[r].merchant, refresher[p].wrote[r].token)
              /\ row.token = issued + 1 /\ lost' = lost
           \/ /\ UNCHANGED <<issued, valid, lost>>
              /\ row.token = refresher[p].wrote[r].token
           \/ /\ Rotate(refresher[p].wrote[r].merchant, refresher[p].wrote[r].token)
              /\ row.token = refresher[p].wrote[r].token /\ lost' = lost \cup {r}
  <2>1. PICK r \in refresher[p].todo :
          \/ /\ Rotate(refresher[p].wrote[r].merchant, refresher[p].wrote[r].token)
             /\ Wrote(p, r, [refresher[p].wrote[r] EXCEPT
                                !.token = issued + 1, !.fails = 0, !.due = FALSE])
             /\ lost' = lost
          \/ /\ UNCHANGED <<issued, valid, lost>>
             /\ Wrote(p, r, Failed(refresher[p].wrote[r]))
          \/ /\ Rotate(refresher[p].wrote[r].merchant, refresher[p].wrote[r].token)
             /\ Wrote(p, r, Failed(refresher[p].wrote[r])) /\ lost' = lost \cup {r}
    BY DEF RefreshOk, RefreshFails, AnswerLost
  <2>2. PICK held \in ConnRows : /\ held = refresher[p].wrote[r] /\ held.fails < MaxFails
                                 /\ r \in Conns /\ refresher[p].wrote \in [Conns -> ConnRows]
    BY HeldRows DEF Refreshes
  <2>3. ASSUME NEW row, Wrote(p, r, row) PROVE refresher'[p].wrote[r] = row
    BY <2>2, <2>3 DEF Wrote
  <2>4. Failed(held).token = held.token
    BY <2>2, FailedKeeps
  <2>5. CASE /\ Wrote(p, r, Failed(held))
             /\ \/ UNCHANGED <<issued, valid, lost>>
                \/ Rotate(held.merchant, held.token) /\ lost' = lost \cup {r}
    BY <2>1, <2>2, <2>3, <2>4, <2>5
  <2>6. CASE /\ Rotate(held.merchant, held.token) /\ lost' = lost
             /\ Wrote(p, r, [held EXCEPT !.token = issued + 1, !.fails = 0, !.due = FALSE])
    <3>1. PICK t \in Tokens : t = issued + 1
      BY <2>6 DEF Rotate, Tokens, ConnectionsAssumption
    <3> DEFINE row == [held EXCEPT !.token = t, !.fails = 0, !.due = FALSE]
    <3>2. row.token = t
      BY RefreshedRow
    <3>3. Wrote(p, r, row)
      BY <2>6, <3>1
    <3> HIDE DEF row
    <3> QED
      BY <2>2, <2>3, <2>6, <3>1, <3>2, <3>3
  <2> QED
    BY <2>1, <2>2, <2>5, <2>6
<1> DEFINE m == conn[r].merchant
<1> DEFINE old == refresher[p].wrote[r].token
<1>3. /\ r \in Conns /\ r \in refresher[p].locked /\ m \in Merchants /\ Active(r)
      /\ refresher[p].wrote[r].merchant = m /\ old = conn[r].token
  BY <1>2, HeldRows DEF Active
<1>4. /\ issued \in Nat /\ issued' >= issued /\ row.token <= issued'
  BY <1>2, <1>3 DEF Rotate, TokensIssued, ConnectionsAssumption, ConnRows, Tokens
<1>5. /\ \A n \in Merchants \ {m} : valid'[n] = valid[n]
      /\ valid[m] \ {old} \subseteq valid'[m]
  BY <1>2, <1>3 DEF Rotate
<1>6. row.token \in valid'[m] \/ r \in lost'
  BY <1>2, <1>3 DEF Rotate, RowTokens
<1>7. \A q \in Refreshers :
        /\ refresher'[q].locked = refresher[q].locked
        /\ \A n \in refresher[q].locked :
             ~(q = p /\ n = r) => refresher'[q].wrote[n] = refresher[q].wrote[n]
  <2>1. /\ refresher[p].wrote \in [Conns -> ConnRows] /\ refresher[p].locked \subseteq Conns
        /\ \A q \in Refreshers \ {p} : refresher'[q] = refresher[q]
        /\ refresher'[p].locked = refresher[p].locked
        /\ refresher'[p].wrote = [refresher[p].wrote EXCEPT ![r] = row]
    BY <1>2 DEF Wrote, Refreshes
  <2> QED
    BY <1>3, <2>1
<1>8. refresher'[p].wrote[r] = row /\ lost \subseteq lost' /\ lost' \subseteq lost \cup {r}
  BY <1>2
<1>9. row.token = old \/ row.token = issued + 1
  BY <1>2
<1> HIDE DEF m, old
<1>10. /\ \A n \in Conns : conn[n].token \in Int
       /\ \A q \in Refreshers : \A n \in refresher[q].locked :
            n \in Conns /\ refresher[q].wrote[n].token \in Int
  BY DEF ConnRows, Tokens, Refreshes
<1>11. ClaimedOnce'
  BY <1>1 DEF ClaimedOnce, Claims
<1>12. CallTokens'
  <2> SUFFICES ASSUME NEW c \in Callbacks, callback[c].step = "write"
      PROVE  /\ callback[c].token \in valid'[callback[c].merchant]
             /\ callback[c].token <= issued'
             /\ \A d \in Callbacks \ {c} : callback[d].step = "write" =>
                  callback[d].token # callback[c].token
             /\ \A n \in Conns : conn[n].token # callback[c].token
             /\ \A q \in Refreshers : \A n \in refresher'[q].locked :
                  refresher'[q].wrote[n].token # callback[c].token
    BY <1>1 DEF CallTokens
  <2>1. /\ callback[c].merchant \in Merchants /\ callback[c].token \in Int
        /\ callback[c].token \in valid[callback[c].merchant] /\ callback[c].token <= issued
        /\ callback[c].token # old
    BY <1>3 DEF CallTokens, CallsNamed, NoCall, Tokens
  <2>2. callback[c].token \in valid'[callback[c].merchant]
    BY <1>5, <2>1
  <2>3. row.token # callback[c].token
    BY <1>4, <1>9, <2>1
  <2>4. ASSUME NEW q \in Refreshers, NEW n \in refresher'[q].locked
        PROVE  refresher'[q].wrote[n].token # callback[c].token
    BY <1>7, <1>8, <2>3, <2>4 DEF CallTokens
  <2>5. callback[c].token <= issued'
    BY <1>2, <2>1, <1>4 DEF Rotate
  <2> QED
    BY <2>2, <2>4, <2>5 DEF CallTokens
<1>13. TokensIssued'
  <2>1. \A n \in Conns : conn'[n].token <= issued'
    BY <1>1, <1>2, <1>4, <1>10 DEF TokensIssued, Rotate
  <2>2. ASSUME NEW q \in Refreshers, NEW n \in refresher'[q].locked
        PROVE  refresher'[q].wrote[n].token <= issued'
    <3>1. CASE q = p /\ n = r
      BY <1>4, <1>8, <3>1
    <3>2. CASE ~(q = p /\ n = r)
      <4>1. refresher'[q].wrote[n].token = refresher[q].wrote[n].token
        BY <1>7, <2>2, <3>2
      <4>2. n \in refresher[q].locked
        BY <1>7, <2>2
      <4>3. issued' = issued \/ issued' = issued + 1
        BY <1>2 DEF Rotate
      <4> QED
        BY <1>4, <1>10, <4>1, <4>2, <4>3 DEF TokensIssued
    <3> QED
      BY <3>1, <3>2
  <2> QED
    BY <2>1, <2>2 DEF TokensIssued
<1>14. RowTokens'
  <2>1. \A n \in Conns : RowLocked(n)' = RowLocked(n)
    BY <1>7 DEF RowLocked
  <2> SUFFICES ASSUME NEW n \in Conns, Active(n), n \notin lost'
      PROVE  /\ ~RowLocked(n) => conn[n].token \in valid'[conn[n].merchant]
             /\ \A q \in Refreshers : n \in refresher[q].locked =>
                  refresher'[q].wrote[n].token \in valid'[conn[n].merchant]
    BY <1>1, <1>7, <2>1 DEF RowTokens, Active
  <2>2. CASE n = r
    <3>1. RowLocked(n) /\ \A q \in Refreshers : n \in refresher[q].locked => q = p
      BY <1>3, <2>2 DEF RowLocked, JobRows
    <3> QED
      BY <1>6, <1>8, <2>2, <3>1 DEF m
  <2>3. CASE n # r
    <3>1. conn[n].merchant \in Merchants \ {m}
      BY <1>3, <2>3 DEF ClaimedOnce, Claims, Active, RowsNamed, m
    <3> QED
      BY <1>5, <1>7, <1>8, <2>3, <3>1 DEF RowTokens
  <2> QED
    BY <2>2, <2>3
<1> QED
  BY <1>11, <1>12, <1>13, <1>14

LEMMA EndTokens ==
  ASSUME ConnectionsAssumption, ConnInv, TokenInv, NEW p \in Refreshers,
         RefreshCommits(p) \/ RefreshCrashes(p)
  PROVE  TokenInv'
<1> USE DEF TokenInv, ConnInv, ConnectionsTypeOK
<1>1. /\ refresher' = [refresher EXCEPT ![p] = Resting]
      /\ UNCHANGED <<callback, issued, valid>> /\ lost \subseteq lost'
  BY DEF RefreshCommits, RefreshCrashes
<1>2. /\ refresher'[p].locked = {}
      /\ \A q \in Refreshers \ {p} : refresher'[q] = refresher[q]
  BY <1>1 DEF Resting
<1>3. ASSUME NEW r \in Conns
      PROVE  \/ conn'[r] = conn[r]
             \/ r \in refresher[p].locked /\ conn'[r] = refresher[p].wrote[r]
  BY DEF RefreshCommits, RefreshCrashes
<1>4. ASSUME NEW r \in Conns
      PROVE  conn'[r].merchant = conn[r].merchant /\ (Claims(r)' => Claims(r))
             /\ (Active(r)' => Active(r))
  BY <1>3 DEF JobRows, HeldRow, Claims, Active
<1>5. ClaimedOnce'
  BY <1>4 DEF ClaimedOnce
<1>6. CallTokens'
  <2> SUFFICES ASSUME NEW c \in Callbacks, callback[c].step = "write"
      PROVE  /\ callback[c].token \in valid[callback[c].merchant]
             /\ callback[c].token <= issued
             /\ \A d \in Callbacks \ {c} : callback[d].step = "write" =>
                  callback[d].token # callback[c].token
             /\ \A r \in Conns : conn'[r].token # callback[c].token
             /\ \A q \in Refreshers : \A r \in refresher'[q].locked :
                  refresher'[q].wrote[r].token # callback[c].token
    BY <1>1 DEF CallTokens
  <2>1. \A r \in Conns : conn'[r].token # callback[c].token
    BY <1>3 DEF CallTokens
  <2>2. ASSUME NEW q \in Refreshers, NEW r \in refresher'[q].locked
        PROVE  refresher'[q].wrote[r].token # callback[c].token
    BY <1>2, <2>2 DEF CallTokens
  <2> QED
    BY <2>1, <2>2 DEF CallTokens
<1>7. TokensIssued'
  <2>1. \A r \in Conns : conn'[r].token <= issued
    BY <1>3 DEF TokensIssued
  <2>2. ASSUME NEW q \in Refreshers, NEW r \in refresher'[q].locked
        PROVE  refresher'[q].wrote[r].token <= issued
    BY <1>2, <2>2 DEF TokensIssued
  <2> QED
    BY <1>1, <2>1, <2>2 DEF TokensIssued
<1>8. RowTokens'
  <2> SUFFICES ASSUME NEW r \in Conns, Active(r)', r \notin lost'
      PROVE  /\ ~RowLocked(r)' => conn'[r].token \in valid[conn[r].merchant]
             /\ \A q \in Refreshers : r \in refresher'[q].locked =>
                  refresher'[q].wrote[r].token \in valid[conn[r].merchant]
    BY <1>1, <1>4 DEF RowTokens
  <2>1. Active(r) /\ r \notin lost
    BY <1>1, <1>4
  <2>2. CASE r \in refresher[p].locked
    <3>1. refresher[p].wrote[r].token \in valid[conn[r].merchant]
      BY <2>1, <2>2 DEF RowTokens
    <3>2. conn'[r].token = refresher[p].wrote[r].token
      <4>1. CASE RefreshCommits(p)
        BY <2>2, <4>1 DEF RefreshCommits
      <4>2. CASE RefreshCrashes(p)
        BY <2>2, <4>2 DEF RefreshCrashes
      <4> QED
        BY <4>1, <4>2
    <3>3. \A q \in Refreshers : r \notin refresher'[q].locked
      BY <1>2, <2>2 DEF JobRows
    <3> QED
      BY <3>1, <3>2, <3>3
  <2>3. CASE r \notin refresher[p].locked
    <3>1. conn'[r] = conn[r] /\ (~RowLocked(r)' => ~RowLocked(r))
      BY <1>2, <1>3, <2>3 DEF RowLocked
    <3>2. ASSUME NEW q \in Refreshers, r \in refresher'[q].locked
          PROVE  refresher'[q].wrote[r].token \in valid[conn[r].merchant]
      BY <1>2, <2>1, <3>2 DEF RowTokens
    <3> QED
      BY <2>1, <3>1, <3>2 DEF RowTokens
  <2> QED
    BY <2>2, <2>3
<1> QED
  BY <1>5, <1>6, <1>7, <1>8

LEMMA TokenStep ==
  ConnectionsAssumption /\ ConnInv /\ TokenInv /\ [ConnectionsNext]_connectionsVars
    => TokenInv'
<1> SUFFICES ASSUME ConnectionsAssumption, ConnInv, TokenInv,
                    [ConnectionsNext]_connectionsVars
             PROVE  TokenInv'
  OBVIOUS
<1>1. ASSUME UNCHANGED <<conn, callback, refresher, issued, valid, lost>> PROVE TokenInv'
  BY <1>1, TokensStill
<1>2. ASSUME NEW c \in Callbacks, NEW s \in StateTokens, NEW m \in Merchants,
             CallbackArrives(c, s, m)
      PROVE  TokenInv'
  <2>1. \A d \in Callbacks : callback'[d].step = "write" => callback'[d] = callback[d]
    BY <1>2 DEF CallbackArrives, ConnInv, ConnectionsTypeOK
  <2> QED
    BY <1>2, <2>1, TokensStill DEF CallbackArrives
<1>3. ASSUME NEW c \in Callbacks, CallbackDies(c) \/ MerchantTaken(c) PROVE TokenInv'
  <2>1. \A d \in Callbacks : callback'[d].step = "write" => callback'[d] = callback[d]
    BY <1>3 DEF CallbackDies, MerchantTaken, NoCall, ConnInv, ConnectionsTypeOK
  <2> QED
    BY <1>3, <2>1, TokensStill DEF CallbackDies, MerchantTaken
<1>4. CASE \E c \in Callbacks : Exchange(c) \/ Reconnect(c) \/ FirstConnect(c)
  BY <1>4, ExchangeTokens, ConnectTokens
<1>5. ASSUME NEW t \in Restaurants, Disconnect(t) PROVE TokenInv'
  <2>1. ASSUME NEW r \in Conns
        PROVE  /\ conn'[r].token = conn[r].token /\ conn'[r].merchant = conn[r].merchant
               /\ conn'[r].state \in {conn[r].state, "revoked"}
    <3>1. \/ conn'[r] = conn[r]
          \/ conn'[r] = [conn[r] EXCEPT !.state = "revoked"] /\ conn[r] \in ConnRows
      BY <1>5 DEF Disconnect, ConnInv, ConnectionsTypeOK
    <3> QED
      BY <3>1 DEF ConnRows
  <2> QED
    BY <1>5, <2>1, TokensStill DEF Disconnect
<1>6. ASSUME NEW q \in Conns, Expiring(q) PROVE TokenInv'
  <2>1. ASSUME NEW r \in Conns
        PROVE  /\ conn'[r].token = conn[r].token /\ conn'[r].merchant = conn[r].merchant
               /\ conn'[r].state \in {conn[r].state, "revoked"}
    BY <1>6 DEF Expiring, ConnInv, ConnectionsTypeOK, ConnRows
  <2> QED
    BY <1>6, <2>1, TokensStill DEF Expiring
<1>7. CASE \E p \in Refreshers : JobStep(p) \/ AnswerLost(p) \/ RefreshCrashes(p)
  BY <1>7, BeginTokens, RefreshTokens, EndTokens DEF JobStep
<1> QED
  BY <1>1, <1>2, <1>3, <1>4, <1>5, <1>6, <1>7
  DEF ConnectionsNext, connectionsVars, Connect, StateExpires

(* An active connection can be refreshed: its token is one Clover accepts, *)
(* unless the job lost the answer or died with it.                         *)
THEOREM ActiveTokensFit == ConnectionsSpec => []TokenFits
<1> USE ConnectionsAssumption
<1>1. ConnectionsInit => ConnInv /\ TokenInv
  BY ConnInit, TokenInit
<1>2. ConnInv /\ TokenInv /\ [ConnectionsNext]_connectionsVars => ConnInv' /\ TokenInv'
  BY ConnStep, TokenStep
<1>3. TokenInv => TokenFits
  BY DEF TokenInv, RowTokens, TokenFits
<1> QED
  BY <1>1, <1>2, <1>3, PTL DEF ConnectionsSpec

-----------------------------------------------------------------------------
(* Tenancy. *)

(* An invitation that a request has locked is open, and locked once.       *)
HeldInvites ==
  \A p \in People : accepting[p] # Nobody =>
    /\ invites[accepting[p]].state = "open"
    /\ \A q \in People \ {p} : accepting[q] # accepting[p]

InvitesNamed ==
  \A i \in Invites : invites[i].state # "absent" \/ i \in revoking =>
    invites[i].slug \in Slugs /\ invites[i].email \in Emails

TenancyInv == TenancyTypeOK /\ HeldInvites /\ InvitesNamed

LEMMA InviteStates ==
  ASSUME NEW row \in InviteRows, NEW st \in {"accepted", "deleted"}
  PROVE  LET new == [row EXCEPT !.state = st] IN
         /\ new \in InviteRows /\ new.state = st /\ new.slug = row.slug
         /\ new.email = row.email
BY DEF InviteRows

LEMMA InviteLate ==
  ASSUME NEW row \in InviteRows
  PROVE  LET new == [row EXCEPT !.late = TRUE] IN
         /\ new \in InviteRows /\ new.state = row.state /\ new.slug = row.slug
         /\ new.email = row.email
BY DEF InviteRows

LEMMA TenancyStart == TenancyAssumption /\ TenancyInit => TenancyInv
<1> SUFFICES ASSUME TenancyAssumption, TenancyInit PROVE TenancyInv
  OBVIOUS
<1>1. NoInvite \in InviteRows
  BY DEF NoInvite, InviteRows
<1> QED
  BY <1>1 DEF TenancyInit, TenancyInv, TenancyTypeOK, HeldInvites, InvitesNamed, NoInvite,
              TenancyAssumption

(* The steps that write one invitation nobody has locked, or none.         *)
LEMMA InvitesStep ==
  ASSUME TenancyInv, UNCHANGED <<accepting, revoking>>,
         address' \in [People -> Emails], renames' \in 0 .. MaxRenames,
         users' \in [People -> Emails \cup {Nobody}], members' \in [People -> SUBSET Slugs],
         owners' \in [Slugs -> People \cup {Nobody}],
         NEW i \in Invites, NEW row \in InviteRows, invites' = [invites EXCEPT ![i] = row],
         row.slug \in Slugs /\ row.email \in Emails,
         row.state = "open" \/ ~InviteLocked(i) \/ row = invites[i]
  PROVE  TenancyInv'
<1> USE DEF TenancyInv, TenancyTypeOK
<1>1. invites'[i] = row /\ \A j \in Invites \ {i} : invites'[j] = invites[j]
  OBVIOUS
<1>2. HeldInvites'
  <2> SUFFICES ASSUME NEW p \in People, accepting[p] # Nobody
      PROVE  /\ invites'[accepting[p]].state = "open"
             /\ \A q \in People \ {p} : accepting[q] # accepting[p]
    BY DEF HeldInvites
  <2> QED
    BY <1>1 DEF HeldInvites, InviteLocked
<1>3. InvitesNamed'
  BY <1>1 DEF InvitesNamed
<1>4. TenancyTypeOK'
  OBVIOUS
<1> QED
  BY <1>2, <1>3, <1>4

(* The steps in which a request takes a lock or gives it back.             *)
LEMMA TenancyStep ==
  TenancyAssumption /\ TenancyInv /\ [TenancyNext]_tenancyVars => TenancyInv'
<1> SUFFICES ASSUME TenancyAssumption, TenancyInv, [TenancyNext]_tenancyVars
             PROVE  TenancyInv'
  OBVIOUS
<1> USE DEF TenancyInv, TenancyTypeOK
<1>1. CASE UNCHANGED tenancyVars
  BY <1>1 DEF tenancyVars, HeldInvites, InvitesNamed
<1>2. ASSUME NEW p \in People, NEW e \in Emails, Rename(p, e) PROVE TenancyInv'
  BY <1>2 DEF Rename, HeldInvites, InvitesNamed, TenancyAssumption
<1>3. ASSUME NEW p \in People, Me(p) \/ \E t \in Slugs : RegisterTenant(p, t)
      PROVE  TenancyInv'
  BY <1>3 DEF Me, RegisterTenant, Upsert, HeldInvites, InvitesNamed
<1>4. ASSUME NEW p \in People, NEW i \in Invites, AcceptBegins(p, i) PROVE TenancyInv'
  <2>1. HeldInvites'
    BY <1>4 DEF AcceptBegins, InviteLocked, HeldInvites
  <2>2. InvitesNamed'
    BY <1>4 DEF AcceptBegins, InvitesNamed
  <2> QED
    BY <1>4, <2>1, <2>2 DEF AcceptBegins
<1>5. ASSUME NEW p \in People, AcceptConflicts(p) \/ AcceptDies(p) PROVE TenancyInv'
  <2>1. /\ accepting' = [accepting EXCEPT ![p] = Nobody]
        /\ UNCHANGED <<address, renames, users, members, owners, invites, revoking>>
    BY <1>5 DEF AcceptConflicts, AcceptDies
  <2> QED
    BY <2>1 DEF HeldInvites, InvitesNamed
<1>6. ASSUME NEW p \in People, AcceptCommits(p) PROVE TenancyInv'
  <2> DEFINE i == accepting[p]
  <2> DEFINE row == [invites[i] EXCEPT !.state = "accepted"]
  <2>1. i \in Invites /\ i # Nobody /\ invites[i].state = "open" /\ invites[i] \in InviteRows
    BY <1>6 DEF AcceptCommits, HeldInvites
  <2>2. invites[i].slug \in Slugs /\ invites[i].email \in Emails
    BY <2>1 DEF InvitesNamed
  <2>3. /\ row \in InviteRows /\ row.state = "accepted" /\ row.slug = invites[i].slug
        /\ row.email = invites[i].email
    BY <2>1, InviteStates
  <2>4. invites' = [invites EXCEPT ![i] = row]
    BY <1>6, <2>1 DEF AcceptCommits
  <2>5. /\ accepting' = [accepting EXCEPT ![p] = Nobody]
        /\ users' = [users EXCEPT ![p] = invites[i].email]
        /\ members' = [members EXCEPT ![p] = members[p] \cup {invites[i].slug}]
        /\ UNCHANGED <<address, renames, owners, revoking>>
    BY <1>6 DEF AcceptCommits, Upsert
  <2> HIDE DEF row
  <2>6. TenancyTypeOK'
    BY <2>1, <2>2, <2>3, <2>4, <2>5
  <2>7. InvitesNamed'
    BY <2>1, <2>2, <2>3, <2>4, <2>5 DEF InvitesNamed
  <2>8. HeldInvites'
    <3> SUFFICES ASSUME NEW q \in People \ {p}, accepting[q] # Nobody
        PROVE  /\ invites'[accepting[q]].state = "open"
               /\ \A a \in People \ {q} : accepting'[a] # accepting[q]
      BY <2>5 DEF HeldInvites
    <3>1. accepting[q] # i /\ accepting[q] \in Invites
      BY <2>1 DEF HeldInvites
    <3>2. invites'[accepting[q]] = invites[accepting[q]]
      BY <2>4, <3>1
    <3> QED
      BY <2>5, <3>2 DEF HeldInvites
  <2> QED
    BY <2>6, <2>7, <2>8
<1>7. ASSUME NEW i \in Invites, NEW t \in Slugs, NEW e \in Emails, CreateInvite(i, t, e)
      PROVE  TenancyInv'
  <2> DEFINE row == [state |-> "open", slug |-> t, email |-> e, late |-> FALSE]
  <2>1. row \in InviteRows /\ row.state = "open" /\ row.slug = t /\ row.email = e
    BY DEF InviteRows
  <2>2. invites' = [invites EXCEPT ![i] = row]
    BY <1>7 DEF CreateInvite
  <2> HIDE DEF row
  <2> QED
    BY <1>7, <2>1, <2>2, InvitesStep DEF CreateInvite
<1>8. ASSUME NEW i \in Invites, InviteExpires(i) PROVE TenancyInv'
  <2> DEFINE row == [invites[i] EXCEPT !.late = TRUE]
  <2>1. invites[i] \in InviteRows /\ invites[i].state = "open"
    BY <1>8 DEF InviteExpires
  <2>2. /\ row \in InviteRows /\ row.state = "open" /\ row.slug = invites[i].slug
        /\ row.email = invites[i].email
    BY <2>1, InviteLate
  <2>3. invites' = [invites EXCEPT ![i] = row]
    BY <1>8 DEF InviteExpires
  <2> HIDE DEF row
  <2>4. row.slug \in Slugs /\ row.email \in Emails
    BY <2>1, <2>2 DEF InvitesNamed
  <2> QED
    BY <1>8, <2>2, <2>3, <2>4, InvitesStep DEF InviteExpires
<1>9. ASSUME NEW i \in Invites, RevokeReads(i) PROVE TenancyInv'
  BY <1>9 DEF RevokeReads, HeldInvites, InvitesNamed
<1>10. ASSUME NEW i \in Invites, RevokeDeletes(i) PROVE TenancyInv'
  <2> DEFINE row == [invites[i] EXCEPT !.state = "deleted"]
  <2>1. invites[i] \in InviteRows /\ ~InviteLocked(i)
    BY <1>10 DEF RevokeDeletes
  <2>2. invites' = [invites EXCEPT ![i] = row]
    BY <1>10 DEF RevokeDeletes
  <2>3. /\ row \in InviteRows /\ row.slug = invites[i].slug /\ row.email = invites[i].email
        /\ row.state = "deleted"
    BY <2>1, InviteStates
  <2> HIDE DEF row
  <2>4. HeldInvites'
    <3> SUFFICES ASSUME NEW p \in People, accepting[p] # Nobody
        PROVE  /\ invites'[accepting[p]].state = "open"
               /\ \A q \in People \ {p} : accepting[q] # accepting[p]
      BY <1>10 DEF RevokeDeletes, HeldInvites
    <3>1. accepting[p] # i /\ accepting[p] \in Invites
      BY <2>1 DEF InviteLocked
    <3> QED
      BY <2>2, <3>1 DEF HeldInvites
  <2>5. InvitesNamed'
    BY <1>10, <2>2, <2>3 DEF RevokeDeletes, InvitesNamed
  <2> QED
    BY <1>10, <2>2, <2>3, <2>4, <2>5 DEF RevokeDeletes
<1> QED
  BY <1>1, <1>2, <1>3, <1>4, <1>5, <1>6, <1>7, <1>8, <1>9, <1>10 DEF TenancyNext

(* Users, memberships and invitations keep their types.                    *)
THEOREM TenancyTypeCorrect == TenancySpec => []TenancyTypeOK
<1> USE TenancyAssumption
<1>1. TenancyInit => TenancyInv
  BY TenancyStart
<1>2. TenancyInv /\ [TenancyNext]_tenancyVars => TenancyInv'
  BY TenancyStep
<1>3. TenancyInv => TenancyTypeOK
  BY DEF TenancyInv
<1> QED
  BY <1>1, <1>2, <1>3, PTL DEF TenancySpec

(* Every membership is a registration or uses up one open invitation: the  *)
(* one the accepting request has locked since it found it open.            *)
THEOREM MembershipsInvited == TenancySpec => MembersInvited
<1> USE TenancyAssumption
<1>1. TenancyInv /\ [TenancyNext]_tenancyVars =>
        [\A p \in People, t \in Slugs :
           t \in members'[p] \ members[p] =>
             \/ owners[t] = Nobody /\ owners'[t] = p
             \/ \E i \in Invites :
                  /\ invites[i].state = "open" /\ invites'[i].state = "accepted"
                  /\ invites[i].slug = t /\ invites[i].email = users'[p]]_tenancyVars
  <2> SUFFICES ASSUME TenancyInv, TenancyNext, NEW p \in People, NEW t \in Slugs,
                      t \in members'[p] \ members[p]
      PROVE  \/ owners[t] = Nobody /\ owners'[t] = p
             \/ \E i \in Invites :
                  /\ invites[i].state = "open" /\ invites'[i].state = "accepted"
                  /\ invites[i].slug = t /\ invites[i].email = users'[p]
    BY DEF tenancyVars
  <2> USE DEF TenancyInv, TenancyTypeOK
  <2>1. CASE \E q \in People, u \in Slugs : RegisterTenant(q, u)
    BY <2>1 DEF RegisterTenant
  <2>2. CASE \E q \in People : AcceptCommits(q)
    <3>1. PICK q \in People : AcceptCommits(q)
      BY <2>2
    <3>2. q = p /\ t = invites[accepting[p]].slug
      BY <3>1 DEF AcceptCommits
    <3>3. /\ accepting[p] \in Invites /\ invites[accepting[p]].state = "open"
          /\ invites[accepting[p]] \in InviteRows
      BY <3>1, <3>2 DEF AcceptCommits, HeldInvites
    <3>4. invites'[accepting[p]].state = "accepted"
      BY <3>1, <3>2, <3>3, InviteStates DEF AcceptCommits
    <3>5. users'[p] = invites[accepting[p]].email
      BY <3>1, <3>2 DEF AcceptCommits, Upsert
    <3> QED
      BY <3>2, <3>3, <3>4, <3>5
  <2> QED
    BY <2>1, <2>2
    DEF TenancyNext, Rename, Me, CreateInvite, InviteExpires, AcceptBegins, AcceptConflicts,
        AcceptDies, RevokeReads, RevokeDeletes
<1>2. TenancyInit => TenancyInv
  BY TenancyStart
<1>3. TenancyInv /\ [TenancyNext]_tenancyVars => TenancyInv'
  BY TenancyStep
<1> QED
  BY <1>1, <1>2, <1>3, PTL DEF TenancySpec, MembersInvited

-----------------------------------------------------------------------------
(* Pages. *)

(* Offsets are multiples of the page size.                                 *)
LEMMA PageOffsets ==
  ASSUME NEW n \in Nat \ {0}, NEW m \in Nat \ {0}, NEW k \in 0 .. m - 1
  PROVE  /\ n * k \in Nat /\ n * (k + 1) \in Nat /\ n * k + n = n * (k + 1)
         /\ n * (k + 1) \in 0 .. n * m
         /\ k + 1 \in 0 .. m - 1 \/ n * (k + 1) = n * m
<1>1. k \in Nat
  OBVIOUS
<1>2. PICK d \in Nat : m = k + 1 + d
  <2>1. m - (k + 1) \in Nat
    BY <1>1
  <2> QED
    BY <1>1, <2>1
<1>3. n * d \in Nat /\ n * (k + 1) \in Nat /\ n * k \in Nat
  BY <1>1
<1>4. n * m = n * (k + 1) + n * d
  BY <1>1, <1>2
<1>5. n * k + n = n * (k + 1)
  BY <1>1
<1>6. k + 1 \in 0 .. m - 1 \/ d = 0
  BY <1>1, <1>2
<1> QED
  BY <1>1, <1>3, <1>4, <1>5, <1>6

-----------------------------------------------------------------------------
(* Catalog syncs. *)

(* Ranks number a list from 0 without gaps, so a page that is not full     *)
(* holds its end.                                                          *)
LEMMA IntervalSize ==
  ASSUME NEW a \in Nat, NEW n \in Nat
  PROVE  IsFiniteSet(a .. a + n - 1) /\ Cardinality(a .. a + n - 1) = n
<1>1. PICK b \in Int : b = a + n - 1
  OBVIOUS
<1>2. IsFiniteSet(a .. b) /\ Cardinality(a .. b) = IF a > b THEN 0 ELSE b - a + 1
  BY FS_Interval
<1> QED
  BY <1>1, <1>2

LEMMA RankIn ==
  ASSUME NEW list \in SUBSET Nat, IsFiniteSet(list), NEW i \in list
  PROVE  /\ Rank(list, i) \in 0 .. Cardinality(list) - 1
         /\ \A j \in list : i < j => Rank(list, i) < Rank(list, j)
<1>1. ASSUME NEW S \in SUBSET list, NEW T \in SUBSET S, S # T
      PROVE  /\ Cardinality(S) \in Nat /\ Cardinality(T) \in Nat
             /\ Cardinality(T) < Cardinality(S)
  <2>1. IsFiniteSet(S)
    BY <1>1, FS_Subset
  <2>2. /\ IsFiniteSet(T) /\ Cardinality(T) <= Cardinality(S)
        /\ Cardinality(S) # Cardinality(T)
    BY <1>1, <2>1, FS_Subset
  <2> QED
    BY <2>1, <2>2, FS_CardinalityType
<1>2. /\ {k \in list : k < i} \in SUBSET list /\ {k \in list : k < i} # list
      /\ Cardinality(list) \in Nat
  BY FS_CardinalityType
<1>3. Cardinality({k \in list : k < i}) \in Nat
      /\ Cardinality({k \in list : k < i}) < Cardinality(list)
  BY <1>1, <1>2
<1>4. ASSUME NEW j \in list, i < j PROVE Rank(list, i) < Rank(list, j)
  <2>0. \A k \in list : k < i => k < j
    BY <1>4
  <2>1. /\ {k \in list : k < j} \in SUBSET list
        /\ {k \in list : k < i} \in SUBSET {k \in list : k < j}
    BY <2>0
  <2>3. i \in {k \in list : k < j} /\ i \notin {k \in list : k < i}
    BY <1>4
  <2>2. {k \in list : k < j} # {k \in list : k < i}
    BY <2>3
  <2> QED
    BY <1>1, <2>1, <2>2 DEF Rank
<1> QED
  BY <1>2, <1>3, <1>4 DEF Rank

LEMMA ShortPage ==
  ASSUME NEW list \in SUBSET Nat, IsFiniteSet(list), NEW a \in Nat, NEW n \in Nat \ {0},
         Cardinality(Between(list, a, a + n)) < n
  PROVE  \A i \in list : Rank(list, i) < a + n
<1> SUFFICES ASSUME NEW i \in list, ~(Rank(list, i) < a + n) PROVE FALSE
  OBVIOUS
<1> DEFINE c == Cardinality(list)
<1> DEFINE f == [j \in list |-> Rank(list, j)]
<1> DEFINE page == Between(list, a, a + n)
<1> DEFINE g == [j \in page |-> Rank(list, j)]
<1>1. c \in Nat /\ \A j \in list : Rank(list, j) \in 0 .. c - 1
  BY RankIn, FS_CardinalityType
<1>2. f \in Injection(list, 0 .. c - 1)
  <2>1. ASSUME NEW j \in list, NEW k \in list, j # k PROVE f[j] # f[k]
    <3>1. j < k \/ k < j
      BY <2>1
    <3> QED
      BY <1>1, <3>1, RankIn
  <2>2. f \in [list -> 0 .. c - 1]
    BY <1>1
  <2>3. IsInjective(f)
    BY <2>1 DEF IsInjective
  <2> QED
    BY <2>2, <2>3 DEF Injection
<1>3. IsFiniteSet(0 .. c - 1) /\ Cardinality(0 .. c - 1) = c
  <2>1. IsFiniteSet(0 .. 0 + c - 1) /\ Cardinality(0 .. 0 + c - 1) = c
    BY <1>1, IntervalSize
  <2> QED
    BY <1>1, <2>1
<1>4. f \in Surjection(list, 0 .. c - 1)
  BY <1>2, <1>3, FS_Injection
<1>5. a + n <= c - 1 /\ c - 1 \in Int
  BY <1>1
<1>6. g \in Surjection(page, a .. a + n - 1)
  <2>1. \A j \in page : Rank(list, j) \in a .. a + n - 1
    BY <1>1 DEF Between
  <2>2. ASSUME NEW t \in a .. a + n - 1 PROVE \E j \in page : Rank(list, j) = t
    <3>1. t \in 0 .. c - 1
      BY <1>5
    <3>2. PICK j \in list : f[j] = t
      BY <1>4, <3>1 DEF Surjection
    <3>3. Rank(list, j) = t /\ j \in page
      BY <3>2 DEF Between
    <3> QED
      BY <3>3
  <2> QED
    BY <2>1, <2>2 DEF Surjection
<1>7. IsFiniteSet(page)
  BY FS_Subset DEF Between
<1>8. IsFiniteSet(a .. a + n - 1) /\ Cardinality(a .. a + n - 1) = n
  BY IntervalSize
<1>9. Cardinality(a .. a + n - 1) <= Cardinality(page) /\ Cardinality(page) \in Nat
  BY <1>6, <1>7, FS_Surjection, FS_CardinalityType
<1> QED
  BY <1>8, <1>9

(* A pull has every steady item that lies before its offset, and all of    *)
(* them when it has come to the end.                                       *)
PullSteady(s) ==
  \A i \in steady[s] :
    /\ i \in catalog
    /\ sync[s].step = "items" /\ Rank(catalog, i) < sync[s].offset => i \in sync[s].got
    /\ sync[s].step \in {"groups", "apply"} => i \in sync[s].got

(* The offset of a pull that goes on is that of a page it may ask for.     *)
PullPaged(s) ==
  sync[s].step = "items" =>
    \E k \in 0 .. MaxItemPages - 1 : sync[s].offset = ItemsPerPage * k

CatalogInv == CatalogTypeOK /\ \A s \in Syncs : PullSteady(s) /\ PullPaged(s)

LEMMA NoPullPull == CatalogAssumption => NoPull \in Pulls
BY DEF CatalogAssumption, NoPull, Pulls

LEMMA CatalogLists ==
  ASSUME CatalogAssumption, NEW list \in SUBSET Items
  PROVE  /\ list \in SUBSET Nat /\ IsFiniteSet(list)
         /\ \A i \in list : Rank(list, i) \in Nat
<1>1. list \in SUBSET Nat /\ IsFiniteSet(list)
  BY FS_Subset DEF CatalogAssumption
<1> QED
  BY <1>1, RankIn, FS_CardinalityType

LEMMA CatalogStart == CatalogAssumption /\ CatalogInit => CatalogInv
BY NoPullPull DEF CatalogInit, CatalogInv, CatalogTypeOK, PullSteady, PullPaged, NoPull,
                 CatalogAssumption

LEMMA EditSteady ==
  ASSUME CatalogAssumption, CatalogInv, NEW list \in SUBSET Items, Edit(list)
  PROVE  CatalogInv'
<1> USE DEF CatalogInv, CatalogTypeOK
<1>1. catalog' = list /\ UNCHANGED <<sync, menu>> /\ edits' \in 0 .. MaxEdits
  BY DEF Edit, CatalogAssumption
<1>2. ASSUME NEW s \in Syncs PROVE steady'[s] \subseteq steady[s] \cap list
  BY DEF Edit
<1>3. ASSUME NEW s \in Syncs, NEW i \in steady'[s], sync[s].step = "items"
      PROVE  Rank(list, i) < sync[s].offset => Rank(catalog, i) < sync[s].offset
  <2>1. i \notin Moved(s, list) /\ i \in list /\ i \in catalog
    BY <1>2, <1>3 DEF Edit, PullSteady
  <2>2. Rank(list, i) \in Nat /\ Rank(catalog, i) \in Nat
    BY <2>1, CatalogLists
  <2> QED
    BY <2>1, <2>2 DEF Moved, Between
<1>4. ASSUME NEW s \in Syncs PROVE PullSteady(s)' /\ PullPaged(s)'
  BY <1>1, <1>2, <1>3 DEF PullSteady, PullPaged
<1>5. steady' \in [Syncs -> SUBSET Items]
  BY <1>1 DEF Edit
<1> QED
  BY <1>1, <1>4, <1>5

LEMMA PullKeeps ==
  ASSUME CatalogAssumption, CatalogInv, NEW s \in Syncs, PullPage(s)
  PROVE  CatalogInv'
<1> USE DEF CatalogInv, CatalogTypeOK
<1> DEFINE off == sync[s].offset
<1> DEFINE next == off + ItemsPerPage
<1> DEFINE page == Between(catalog, off, next)
<1> DEFINE step == AfterPage(page, next)
<1>1. /\ sync[s].step = "items" /\ UNCHANGED <<catalog, edits, menu>>
      /\ sync[s] \in Pulls
  BY DEF PullPage
<1>2. PICK k \in 0 .. MaxItemPages - 1 : off = ItemsPerPage * k
  BY <1>1 DEF PullPaged
<1>3. /\ off \in Nat /\ next \in 0 .. ItemsPerPage * MaxItemPages
      /\ ItemsPerPage \in Nat \ {0}
      /\ next # ItemsPerPage * MaxItemPages =>
           \E l \in 0 .. MaxItemPages - 1 : next = ItemsPerPage * l
  BY <1>2, PageOffsets DEF CatalogAssumption
<1>4. ASSUME NEW q \in Syncs \ {s} PROVE PullSteady(q)' /\ PullPaged(q)'
  BY <1>1 DEF PullPage, PullSteady, PullPaged
<1>5. CASE step = "idle"
  <2>1. sync' = [sync EXCEPT ![s] = NoPull] /\ steady' = [steady EXCEPT ![s] = {}]
    BY <1>5 DEF PullPage
  <2>2. PullSteady(s)' /\ PullPaged(s)'
    BY <2>1 DEF PullSteady, PullPaged, NoPull
  <2> QED
    BY <1>1, <1>4, <2>1, <2>2, NoPullPull
<1>6. CASE step # "idle"
  <2> DEFINE pull == [step |-> step, got |-> sync[s].got \cup page, offset |-> next]
  <2>1. sync' = [sync EXCEPT ![s] = pull] /\ steady' = steady
    BY <1>6 DEF PullPage
  <2>2. /\ page \subseteq Items /\ step \in {"groups", "items"}
        /\ step = "items" => next # ItemsPerPage * MaxItemPages
        /\ step = "groups" => Cardinality(page) < ItemsPerPage
    BY <1>6 DEF Between, AfterPage
  <2>3. pull \in Pulls
    BY <1>1, <1>3, <2>2 DEF Pulls
  <2>4. ASSUME NEW i \in steady[s], Rank(catalog, i) < next PROVE i \in sync[s].got \cup page
    <3>1. i \in catalog /\ (Rank(catalog, i) < off => i \in sync[s].got)
      BY <1>1, <2>4 DEF PullSteady
    <3>2. Rank(catalog, i) \in Nat
      BY <3>1, CatalogLists
    <3> QED
      BY <1>3, <2>4, <3>1, <3>2 DEF Between
  <2>5. ASSUME NEW i \in steady[s], step = "groups" PROVE Rank(catalog, i) < next
    <3>1. i \in catalog /\ catalog \in SUBSET Nat /\ IsFiniteSet(catalog)
      BY <2>5, CatalogLists DEF PullSteady
    <3> QED
      BY <1>3, <2>2, <2>5, <3>1, ShortPage
  <2>6. sync'[s].step = step /\ sync'[s].got = sync[s].got \cup page /\ sync'[s].offset = next
    BY <2>1
  <2> HIDE DEF step, page, next, pull
  <2>7. PullSteady(s)'
    <3> SUFFICES ASSUME NEW i \in steady[s]
        PROVE  /\ i \in catalog
               /\ step = "items" /\ Rank(catalog, i) < next => i \in sync[s].got \cup page
               /\ step \in {"groups", "apply"} => i \in sync[s].got \cup page
      BY <1>1, <2>1, <2>6 DEF PullSteady
    <3> QED
      BY <2>2, <2>4, <2>5 DEF PullSteady
  <2>8. PullPaged(s)'
    BY <1>3, <2>2, <2>6 DEF PullPaged
  <2> QED
    BY <1>1, <1>4, <2>1, <2>3, <2>7, <2>8
<1> QED
  BY <1>5, <1>6

LEMMA CatalogStep ==
  CatalogAssumption /\ CatalogInv /\ [CatalogNext]_catalogVars => CatalogInv'
<1> SUFFICES ASSUME CatalogAssumption, CatalogInv, [CatalogNext]_catalogVars
             PROVE  CatalogInv'
  OBVIOUS
<1> USE DEF CatalogInv, CatalogTypeOK
<1>1. CASE UNCHANGED catalogVars
  BY <1>1 DEF catalogVars, PullSteady, PullPaged
<1>2. CASE \E i \in Items : AddItem(i) \/ RemoveItem(i)
  <2>1. PICK list \in SUBSET Items : Edit(list)
    BY <1>2 DEF AddItem, RemoveItem
  <2> QED
    BY <2>1, EditSteady
<1>3. ASSUME NEW s \in Syncs, SyncBegins(s) PROVE CatalogInv'
  <2> DEFINE pull == [sync[s] EXCEPT !.step = "items"]
  <2>1. /\ sync[s] = NoPull /\ UNCHANGED <<catalog, edits, menu>>
        /\ sync' = [sync EXCEPT ![s] = pull] /\ steady' = [steady EXCEPT ![s] = catalog]
    BY <1>3 DEF SyncBegins
  <2>2. /\ pull \in Pulls /\ pull.step = "items" /\ pull.offset = 0
    BY <2>1 DEF Pulls, NoPull, CatalogAssumption
  <2> HIDE DEF pull
  <2>3. PullPaged(s)'
    <3>1. 0 \in 0 .. MaxItemPages - 1 /\ ItemsPerPage * 0 = 0
      BY DEF CatalogAssumption
    <3> QED
      BY <2>1, <2>2, <3>1 DEF PullPaged
  <2>4. PullSteady(s)'
    <3>1. \A i \in catalog : ~(Rank(catalog, i) < 0)
      BY CatalogLists
    <3> QED
      BY <2>1, <2>2, <3>1 DEF PullSteady
  <2>5. ASSUME NEW q \in Syncs \ {s} PROVE PullSteady(q)' /\ PullPaged(q)'
    BY <2>1 DEF PullSteady, PullPaged
  <2> QED
    BY <2>1, <2>2, <2>3, <2>4, <2>5
<1>4. ASSUME NEW s \in Syncs, PullGroups(s) PROVE CatalogInv'
  <2> DEFINE pull == [sync[s] EXCEPT !.step = "apply"]
  <2>1. /\ sync[s].step = "groups" /\ UNCHANGED <<catalog, edits, menu, steady>>
        /\ sync' = [sync EXCEPT ![s] = pull]
    BY <1>4 DEF PullGroups
  <2>2. pull \in Pulls /\ pull.step = "apply" /\ pull.got = sync[s].got
    BY DEF Pulls
  <2> HIDE DEF pull
  <2>3. ASSUME NEW q \in Syncs PROVE PullSteady(q)' /\ PullPaged(q)'
    BY <2>1, <2>2 DEF PullSteady, PullPaged
  <2> QED
    BY <2>1, <2>2, <2>3
<1>5. ASSUME NEW s \in Syncs, AbortSync(s) \/ Apply(s) PROVE CatalogInv'
  <2>1. /\ sync' = [sync EXCEPT ![s] = NoPull] /\ steady' = [steady EXCEPT ![s] = {}]
        /\ UNCHANGED <<catalog, edits>>
    BY <1>5 DEF AbortSync, Apply
  <2>2. menu' \in [Items -> {"absent", "active", "inactive"}]
    BY <1>5 DEF AbortSync, Apply
  <2>3. ASSUME NEW q \in Syncs PROVE PullSteady(q)' /\ PullPaged(q)'
    BY <2>1 DEF PullSteady, PullPaged, NoPull
  <2> QED
    BY <2>1, <2>2, <2>3, NoPullPull
<1> QED
  BY <1>1, <1>2, <1>3, <1>4, <1>5, PullKeeps DEF CatalogNext, SyncStep

(* The catalog, the pulls and the menu keep their types.                   *)
THEOREM CatalogTypeCorrect == CatalogSpec => []CatalogTypeOK
<1> USE CatalogAssumption
<1>1. CatalogInit => CatalogInv
  BY CatalogStart
<1>2. CatalogInv /\ [CatalogNext]_catalogVars => CatalogInv'
  BY CatalogStep
<1>3. CatalogInv => CatalogTypeOK
  BY DEF CatalogInv
<1> QED
  BY <1>1, <1>2, <1>3, PTL DEF CatalogSpec

(* A sync keeps what it had to find, for every page size and page limit: a *)
(* pull is applied only when a short page has shown the end of the list.   *)
THEOREM MenuIsKept == CatalogSpec => MenuKept
<1> USE CatalogAssumption
<1>1. CatalogInv /\ [CatalogNext]_catalogVars =>
        [\A s \in Syncs : sync[s].step = "apply" /\ sync'[s] = NoPull =>
           \A i \in steady[s] : menu[i] = "active" => menu'[i] = "active"]_catalogVars
  <2> SUFFICES ASSUME CatalogInv, CatalogNext, NEW s \in Syncs, sync[s].step = "apply",
                      sync'[s] = NoPull, NEW i \in steady[s], menu[i] = "active"
               PROVE  menu'[i] = "active"
    BY DEF catalogVars
  <2> USE DEF CatalogInv, CatalogTypeOK
  <2>1. ASSUME NEW q \in Syncs, Apply(q) PROVE menu'[i] = "active"
    <3>1. q = s
      BY <2>1 DEF Apply, NoPull
    <3>2. i \in sync[s].got /\ i \in Items
      BY DEF PullSteady
    <3> QED
      BY <2>1, <3>1, <3>2 DEF Apply
  <2> QED
    BY <2>1 DEF CatalogNext, SyncStep, AddItem, RemoveItem, Edit, SyncBegins, PullPage,
                PullGroups, AbortSync
<1>2. CatalogInit => CatalogInv
  BY CatalogStart
<1>3. CatalogInv /\ [CatalogNext]_catalogVars => CatalogInv'
  BY CatalogStep
<1> QED
  BY <1>1, <1>2, <1>3, PTL DEF CatalogSpec, MenuKept

-----------------------------------------------------------------------------
(* Reconciliation. *)

VersionOf(o) == [order |-> o, time |-> listed[o].time, locked |-> listed[o].locked]
Told(o)      == inbox[o] = listed[o].time \/ o \in slipped

(* What every run and the cursor know lies in the past, and a change that  *)
(* does not show yet is no older than the overlap.                         *)
Clocked ==
  /\ \A o \in Orders :
       /\ listed[o].time <= clock /\ inbox[o] <= listed[o].time
       /\ listed[o].locked => listed[o].time > 0
  /\ coming # NoVersion =>
       /\ coming \in Versions /\ listed[coming.order].time < coming.time
       /\ coming.time <= clock /\ clock <= coming.time + Overlap
       /\ listed[coming.order].locked => coming.locked
  /\ cursor # Unset => cursor <= clock
  /\ \A p \in Runners :
       /\ run[p].seen <= clock /\ (run[p].start > 0 => run[p].start + Overlap <= clock)
       /\ \A v \in run[p].page : v.time <= listed[v.order].time

(* Every locked order from before c's window is told of, or in the page.   *)
Covered(c, page) ==
  \A o \in Orders : listed[o].locked /\ listed[o].time < StartOf(c) =>
    Told(o) \/ VersionOf(o) \in page

(* The same holds of a run for what lies before its start, behind its      *)
(* offset, and before the window of each time it may leave as the cursor.  *)
RunRead(p) ==
  /\ \A o \in Orders : listed[o].locked =>
       /\ listed[o].time < run[p].start => Told(o)
       /\ VersionOf(o) \in Behind(p, listed) => Told(o) \/ VersionOf(o) \in run[p].page
  /\ Covered(run[p].seen, run[p].page)
  /\ \A v \in run[p].page : Covered(v.time, run[p].page)

RunPaged(p) == run[p].more => \E k \in 0 .. MaxPages - 1 : run[p].offset = PageSize * k

RecInv ==
  /\ ReconciliationTypeOK /\ Clocked
  /\ \A p \in Runners : RunRead(p) /\ RunPaged(p)
  /\ cursor # Unset => Covered(cursor, {})

LEMMA StartOfTime ==
  ASSUME ReconciliationAssumption, NEW c \in Times
  PROVE  /\ StartOf(c) \in Times /\ c # Unset
         /\ StartOf(c) > 0 => StartOf(c) + Overlap = c
BY DEF ReconciliationAssumption, Times, StartOf

LEMMA NoRunRun == ReconciliationAssumption => NoRun \in Runs
BY DEF ReconciliationAssumption, NoRun, Runs, Times

LEMMA NewRun ==
  ASSUME ReconciliationAssumption, NEW from \in Times, NEW sn \in Times
  PROVE  LET new == [NoRun EXCEPT !.on = TRUE, !.start = from, !.more = TRUE, !.seen = sn] IN
         /\ new \in Runs /\ new.start = from /\ new.seen = sn /\ new.page = {}
         /\ new.offset = 0
<1> 0 \in 0 .. PageSize * MaxPages
  BY DEF ReconciliationAssumption
<1> QED
  BY DEF NoRun, Runs

LEMMA NothingFirst ==
  ASSUME NEW all, IsFiniteSet(all) PROVE FirstOf(all, 0) = {}
<1> SUFFICES ASSUME NEW v \in all, Cardinality(Ahead(all, v)) < 0 PROVE FALSE
  BY DEF FirstOf
<1>1. Ahead(all, v) \in SUBSET all
  BY DEF Ahead
<1> QED
  BY <1>1, FS_Subset, FS_CardinalityType

(* What is ahead of an order in the list is ahead of all the later ones.   *)
LEMMA FirstEarlier ==
  ASSUME NEW all \in SUBSET Versions, IsFiniteSet(all), NEW n \in Nat, NEW v \in FirstOf(all, n),
         NEW w \in all, w.time <= v.time
  PROVE  w \in FirstOf(all, n)
<1>1. v \in all /\ Cardinality(Ahead(all, v)) < n
  BY DEF FirstOf
<1>2. Ahead(all, w) \in SUBSET Ahead(all, v) /\ Ahead(all, v) \in SUBSET all
  BY <1>1 DEF Ahead, Versions, Times
<1>3. Cardinality(Ahead(all, w)) <= Cardinality(Ahead(all, v))
      /\ Cardinality(Ahead(all, w)) \in Nat /\ Cardinality(Ahead(all, v)) \in Nat
  BY <1>2, FS_Subset, FS_CardinalityType
<1> QED
  BY <1>1, <1>3 DEF FirstOf

LEMMA SinceFinite ==
  ASSUME ReconciliationAssumption, NEW list \in [Orders -> Listings], NEW start \in Times
  PROVE  Since(list, start) \in SUBSET Versions /\ IsFiniteSet(Since(list, start))
<1> DEFINE all == Since(list, start)
<1> DEFINE f == [v \in all |-> v.order]
<1>1. all \in SUBSET Versions
  BY DEF Since, Versions, Listings
<1>2. \A v, w \in all : v.order = w.order => v = w
  BY DEF Since
<1>3. f \in Injection(all, Orders)
  BY <1>1, <1>2 DEF Injection, IsInjective, Versions
<1> QED
  BY <1>1, <1>3, FS_Injection DEF ReconciliationAssumption

LEMMA RecInit == ReconciliationAssumption /\ ReconciliationInit => RecInv
<1> SUFFICES ASSUME ReconciliationAssumption, ReconciliationInit PROVE RecInv
  OBVIOUS
<1>1. ReconciliationTypeOK
  BY NoRunRun DEF ReconciliationInit, ReconciliationTypeOK, ReconciliationAssumption, Times,
                  Nothing, Listings
<1>2. Clocked
  BY DEF ReconciliationInit, Clocked, Nothing, NoRun
<1>3. \A p \in Runners : RunRead(p) /\ RunPaged(p)
  BY DEF ReconciliationInit, RunRead, RunPaged, Covered, Nothing, NoRun
<1> QED
  BY <1>1, <1>2, <1>3 DEF RecInv, ReconciliationInit

(* A change shows in the list: with a time that no window has left behind, *)
(* and what it moves behind an offset has slipped.                         *)
LEMMA ListStep ==
  ASSUME ReconciliationAssumption, RecInv, NEW o \in Orders, NEW version \in Listings,
         ListAs(o, version), UNCHANGED <<cursor, run, broken, inbox>>,
         clock' \in Times, clock <= clock', changes' \in 0 .. MaxChanges,
         listed[o].time < version.time, version.time <= clock',
         clock <= version.time + Overlap,
         coming' \in Versions \cup {NoVersion},
         coming' # NoVersion => coming'.order # o /\ coming' = coming
                                /\ clock' <= coming.time + Overlap
  PROVE  RecInv'
<1> USE DEF RecInv, ReconciliationTypeOK
<1> DEFINE Passed == UNION {Behind(p, listed') \ Behind(p, listed) : p \in Runners}
<1>1. /\ listed' = [listed EXCEPT ![o] = version]
      /\ slipped \subseteq slipped' \cup {o}
      /\ \A p \in Runners : \A v \in Behind(p, listed') \ Behind(p, listed) :
           v.order \in slipped'
  <2>1. /\ listed' = [listed EXCEPT ![o] = version]
        /\ slipped' = (slipped \ {o}) \cup {v.order : v \in Passed}
    BY DEF ListAs
  <2>2. ASSUME NEW p \in Runners, NEW v \in Behind(p, listed') \ Behind(p, listed)
        PROVE  v \in Passed
    BY <2>2
  <2> HIDE DEF Passed
  <2> QED
    BY <2>1, <2>2
<1>2. listed'[o] = version /\ \A q \in Orders \ {o} : listed'[q] = listed[q]
  BY <1>1
<1>3. \A p \in Runners : run[p] \in Runs
  OBVIOUS
<1>4. slipped' \subseteq Orders
  <2>1. \A p \in Runners : \A v \in Behind(p, listed') : v.order \in Orders
    BY DEF Behind, FirstOf, Since
  <2>2. slipped' = (slipped \ {o}) \cup {v.order : v \in Passed}
    BY DEF ListAs
  <2>3. \A v \in Passed : v.order \in Orders
    BY <2>1
  <2> HIDE DEF Passed
  <2> QED
    BY <2>2, <2>3
<1>5. /\ clock \in Nat /\ clock' \in Nat /\ version.time \in Nat /\ listed[o].time \in Nat
      /\ Overlap \in Nat
  BY DEF Times, Listings, ReconciliationAssumption
<1>6. \A q \in Orders : inbox[q] \in Nat /\ listed[q].time \in Nat /\ listed'[q].time \in Nat
  BY <1>2, <1>5 DEF Times, Listings
<1>7. Clocked'
  <2>1. ASSUME NEW q \in Orders
        PROVE  /\ listed'[q].time <= clock' /\ inbox[q] <= listed'[q].time
               /\ listed'[q].locked => listed'[q].time > 0
               /\ listed[q].time <= listed'[q].time
    <3>1. CASE q = o
      BY <1>2, <1>5, <1>6, <3>1 DEF Clocked
    <3>2. CASE q # o
      BY <1>2, <1>5, <1>6, <3>2 DEF Clocked
    <3> QED
      BY <3>1, <3>2
  <2>2. coming' # NoVersion =>
          /\ coming' \in Versions /\ listed'[coming'.order].time < coming'.time
          /\ coming'.time <= clock' /\ clock' <= coming'.time + Overlap
          /\ listed'[coming'.order].locked => coming'.locked
    BY <1>2, <1>5 DEF Clocked, Versions, Times
  <2>3. cursor # Unset => cursor <= clock'
    BY <1>5 DEF Clocked, Times
  <2>4. ASSUME NEW p \in Runners
        PROVE  /\ run[p].seen <= clock' /\ (run[p].start > 0 => run[p].start + Overlap <= clock')
               /\ \A v \in run[p].page : v.time <= listed'[v.order].time
    <3>1. run[p].seen \in Nat /\ run[p].start \in Nat
          /\ \A v \in run[p].page : v.order \in Orders /\ v.time \in Nat
      BY <1>3 DEF Runs, Versions, Times
    <3> QED
      BY <1>5, <1>6, <2>1, <3>1 DEF Clocked
  <2> QED
    BY <2>1, <2>2, <2>3, <2>4 DEF Clocked
<1>8. ASSUME NEW c \in Times, c <= clock PROVE ~(version.time < StartOf(c))
  BY <1>5, <1>8, StartOfTime DEF Times
<1>9. ASSUME NEW q \in Orders \ {o}, Told(q) PROVE Told(q)'
  BY <1>1, <1>2, <1>9 DEF Told
<1>10. ASSUME NEW c \in Times, c <= clock, NEW page, Covered(c, page)
       PROVE  Covered(c, page)'
  <2> SUFFICES ASSUME NEW q \in Orders, listed'[q].locked, listed'[q].time < StartOf(c)
      PROVE  Told(q)' \/ VersionOf(q)' \in page
    BY DEF Covered
  <2>1. q # o
    BY <1>2, <1>8, <1>10
  <2>2. VersionOf(q)' = VersionOf(q)
    BY <1>2, <2>1 DEF VersionOf
  <2> QED
    BY <1>2, <1>9, <1>10, <2>1, <2>2 DEF Covered
<1>11. ASSUME NEW p \in Runners PROVE RunRead(p)' /\ RunPaged(p)'
  <2>1. /\ run[p].seen \in Times /\ run[p].seen <= clock /\ run[p].start \in Times
        /\ \A v \in run[p].page : v.time \in Times /\ v.time <= clock
    <3>1. run[p].seen \in Times /\ run[p].start \in Times
          /\ \A v \in run[p].page : v.order \in Orders /\ v.time \in Times
      BY <1>3 DEF Runs, Versions
    <3> QED
      BY <1>5, <1>6, <3>1 DEF Clocked, Times
  <2>2. Covered(run[p].seen, run[p].page)'
        /\ \A v \in run[p].page : Covered(v.time, run[p].page)'
    BY <1>10, <2>1 DEF RunRead
  <2>3. ASSUME NEW q \in Orders, listed'[q].locked, listed'[q].time < run[p].start
        PROVE  Told(q)'
    <3>1. ~(version.time < run[p].start)
      BY <1>5, <2>1 DEF Clocked, Times
    <3>2. q # o
      BY <1>2, <2>3, <3>1
    <3> QED
      BY <1>2, <1>9, <2>3, <3>2 DEF RunRead
  <2>4. ASSUME NEW q \in Orders, listed'[q].locked, VersionOf(q)' \in Behind(p, listed)'
        PROVE  Told(q)' \/ VersionOf(q)' \in run[p].page
    <3>1. Behind(p, listed)' = Behind(p, listed')
      BY DEF Behind
    <3>2. VersionOf(q)'.order = q
      BY DEF VersionOf
    <3>3. CASE VersionOf(q)' \notin Behind(p, listed)
      BY <1>1, <2>4, <3>1, <3>2, <3>3 DEF Told
    <3>4. CASE VersionOf(q)' \in Behind(p, listed)
      <4>1. q # o
        <5>1. \A v \in Behind(p, listed) : v.time = listed[v.order].time
          BY DEF Behind, FirstOf, Since
        <5>2. VersionOf(q)'.time = listed'[q].time
          BY DEF VersionOf
        <5> QED
          BY <1>2, <1>5, <3>2, <3>4, <5>1, <5>2
      <4>2. VersionOf(q)' = VersionOf(q)
        BY <1>2, <4>1 DEF VersionOf
      <4> QED
        BY <1>2, <1>9, <2>4, <3>4, <4>1, <4>2 DEF RunRead
    <3> QED
      BY <3>3, <3>4
  <2> QED
    BY <2>2, <2>3, <2>4 DEF RunRead, RunPaged
<1>12. cursor # Unset => Covered(cursor, {})'
  BY <1>10 DEF Clocked
<1>13. ReconciliationTypeOK'
  BY <1>1, <1>4
<1> QED
  BY <1>7, <1>11, <1>12, <1>13

LEMMA ChangeSteps ==
  ASSUME ReconciliationAssumption, RecInv, NEW o \in Orders, NEW locked \in BOOLEAN,
         NEW now \in Times, Change(o, locked, now) \/ ChangeLate(o, locked, now)
  PROVE  RecInv'
<1> USE DEF RecInv, ReconciliationTypeOK
<1>1. /\ MayChange(o, locked, now) /\ clock' = now /\ changes' = changes + 1
      /\ UNCHANGED <<cursor, run, broken, inbox>>
  BY DEF Change, ChangeLate
<1>2. /\ now \in Nat /\ clock \in Nat /\ now > clock /\ listed[o].time < now
      /\ listed[o].locked => locked
      /\ changes' \in 0 .. MaxChanges /\ Overlap \in Nat
  BY <1>1 DEF MayChange, Times, ReconciliationAssumption
<1>3. CASE Change(o, locked, now)
  <2> DEFINE version == [time |-> now, locked |-> locked]
  <2>1. version \in Listings /\ version.time = now
    BY DEF Listings
  <2>2. ListAs(o, version) /\ coming' = coming
    BY <1>3 DEF Change
  <2> HIDE DEF version
  <2>3. coming' # NoVersion => coming.order # o /\ clock' <= coming.time + Overlap
    BY <1>1, <2>2 DEF MayChange
  <2> QED
    BY <1>1, <1>2, <2>1, <2>2, <2>3, ListStep
<1>4. CASE ChangeLate(o, locked, now)
  <2>1. /\ coming' = [order |-> o, time |-> now, locked |-> locked]
        /\ UNCHANGED <<listed, slipped>>
    BY <1>4 DEF ChangeLate
  <2>2. coming' \in Versions /\ coming'.order = o /\ coming'.time = now
        /\ coming'.locked = locked
    BY <2>1 DEF Versions
  <2>3. Clocked'
    <3>1. ASSUME NEW q \in Orders PROVE listed[q].time <= now
      BY <1>2, <3>1 DEF Clocked, Times, Listings
    <3>2. cursor # Unset => cursor <= now
      BY <1>2 DEF Clocked, Times
    <3>3. ASSUME NEW p \in Runners
          PROVE  run[p].seen <= now /\ (run[p].start > 0 => run[p].start + Overlap <= now)
      BY <1>2 DEF Clocked, Times, Runs
    <3> QED
      BY <1>1, <1>2, <2>1, <2>2, <3>1, <3>2, <3>3 DEF Clocked
  <2>4. \A p \in Runners : RunRead(p)' /\ RunPaged(p)'
    BY <1>1, <2>1 DEF RunRead, RunPaged, Covered, Told, VersionOf, Behind
  <2>5. cursor' # Unset => Covered(cursor, {})'
    BY <1>1, <2>1 DEF Covered, Told, VersionOf
  <2> QED
    BY <1>1, <1>2, <2>1, <2>2, <2>3, <2>4, <2>5
<1> QED
  BY <1>3, <1>4

LEMMA ShowStep ==
  ASSUME ReconciliationAssumption, RecInv, ShowLate PROVE RecInv'
<1> USE DEF RecInv, ReconciliationTypeOK
<1> DEFINE version == [time |-> coming.time, locked |-> coming.locked]
<1>1. /\ coming # NoVersion /\ coming' = NoVersion /\ coming \in Versions
      /\ ListAs(coming.order, version)
      /\ UNCHANGED <<clock, changes, cursor, run, broken, inbox>>
  BY DEF ShowLate, Clocked
<1>2. version \in Listings /\ version.time = coming.time /\ coming.order \in Orders
  BY <1>1 DEF Versions, Listings
<1>3. /\ listed[coming.order].time < coming.time /\ coming.time <= clock
      /\ clock <= coming.time + Overlap
  BY <1>1 DEF Clocked
<1> HIDE DEF version
<1> QED
  BY <1>1, <1>2, <1>3, ListStep DEF Times

(* The steps of a run that leave the list and the inbox alone.             *)
LEMMA RunOnly ==
  ASSUME RecInv, UNCHANGED <<clock, changes, listed, coming, cursor, inbox, slipped>>,
         broken' \in 0 .. MaxBroken, NEW p \in Runners, NEW row \in Runs,
         run' = [run EXCEPT ![p] = row],
         row.seen <= clock, row.start > 0 => row.start + Overlap <= clock,
         \A v \in row.page : v.time <= listed[v.order].time,
         RunRead(p)', RunPaged(p)'
  PROVE  RecInv'
<1> USE DEF RecInv, ReconciliationTypeOK
<1>1. run'[p] = row /\ \A q \in Runners \ {p} : run'[q] = run[q]
  OBVIOUS
<1>2. Clocked'
  BY <1>1 DEF Clocked
<1>3. ASSUME NEW q \in Runners PROVE RunRead(q)' /\ RunPaged(q)'
  BY <1>1 DEF RunRead, RunPaged, Covered, Told, VersionOf, Behind
<1>4. cursor' # Unset => Covered(cursor, {})'
  BY DEF Covered, Told, VersionOf
<1> QED
  BY <1>2, <1>3, <1>4

(* A run that begins, or that is no longer one.                            *)
LEMMA RunAnew ==
  ASSUME ReconciliationAssumption, RecInv, NEW p \in Runners, NEW row \in Runs,
         run' = [run EXCEPT ![p] = row], UNCHANGED <<listed, inbox, slipped>>,
         row.offset = 0, row.page = {},
         \A o \in Orders : listed[o].locked /\ listed[o].time < row.start => Told(o),
         Covered(row.seen, {})
  PROVE  RunRead(p)' /\ RunPaged(p)'
<1> USE DEF RecInv, ReconciliationTypeOK
<1>1. run'[p] = row
  OBVIOUS
<1>2. Behind(p, listed)' = {}
  <2>1. row.start \in Times
    BY DEF Runs
  <2>2. IsFiniteSet(Since(listed, row.start))
    BY <2>1, SinceFinite
  <2>3. Behind(p, listed)' = FirstOf(Since(listed, row.start), 0)
    BY <1>1 DEF Behind, Since
  <2> QED
    BY <2>2, <2>3, NothingFirst
<1>3. RunRead(p)'
  BY <1>1, <1>2 DEF RunRead, Covered, Told, VersionOf
<1>4. RunPaged(p)'
  <2>1. 0 \in 0 .. MaxPages - 1 /\ PageSize * 0 = 0
    BY DEF ReconciliationAssumption
  <2> QED
    BY <1>1, <2>1 DEF RunPaged
<1> QED
  BY <1>3, <1>4

LEMMA BeginStep ==
  ASSUME ReconciliationAssumption, RecInv, NEW p \in Runners, Begin(p)
  PROVE  RecInv'
<1> USE DEF RecInv, ReconciliationTypeOK
<1> DEFINE seen == IF cursor = Unset THEN 0 ELSE cursor
<1> DEFINE row == [NoRun EXCEPT !.on = TRUE, !.start = StartOf(cursor), !.more = TRUE,
                                !.seen = seen]
<1>1. seen \in Times /\ seen <= clock /\ StartOf(cursor) = StartOf(seen)
  BY StartOfTime DEF Clocked, Times, ReconciliationAssumption, StartOf
<1>2. /\ row.start = StartOf(seen) /\ row.seen = seen /\ row.page = {} /\ row.offset = 0
      /\ row \in Runs
  <2>1. StartOf(seen) \in Times
    BY <1>1, StartOfTime
  <2>2. PICK from, sn \in Times : from = StartOf(cursor) /\ sn = seen
    BY <1>1, <2>1
  <2> DEFINE new == [NoRun EXCEPT !.on = TRUE, !.start = from, !.more = TRUE, !.seen = sn]
  <2>3. row = new
    BY <2>2
  <2>4. /\ new \in Runs /\ new.start = from /\ new.seen = sn /\ new.page = {}
        /\ new.offset = 0
    BY NewRun
  <2> HIDE DEF new, row, seen
  <2> QED
    BY <1>1, <2>2, <2>3, <2>4
<1>3. /\ run' = [run EXCEPT ![p] = row]
      /\ UNCHANGED <<clock, changes, listed, coming, cursor, broken, inbox, slipped>>
  BY DEF Begin
<1>4. Covered(seen, {})
  BY DEF Covered, Times, ReconciliationAssumption, StartOf, Listings
<1> HIDE DEF row, seen
<1>5. \A o \in Orders : listed[o].locked /\ listed[o].time < row.start => Told(o)
  BY <1>2, <1>4 DEF Covered
<1>6. row.start > 0 => row.start + Overlap <= clock
  BY <1>1, <1>2, StartOfTime
<1>7. RunRead(p)' /\ RunPaged(p)'
  BY <1>2, <1>3, <1>4, <1>5, RunAnew
<1> QED
  BY <1>1, <1>2, <1>3, <1>6, <1>7, RunOnly

LEMMA RunEnds ==
  ASSUME ReconciliationAssumption, RecInv, NEW p \in Runners,
         run' = [run EXCEPT ![p] = NoRun], UNCHANGED <<listed, inbox, slipped>>
  PROVE  RunRead(p)' /\ RunPaged(p)'
<1>1. NoRun \in Runs /\ NoRun.offset = 0 /\ NoRun.page = {} /\ NoRun.start = 0
      /\ NoRun.seen = 0
  BY NoRunRun DEF NoRun
<1>2. \A o \in Orders : ~(listed[o].time < 0)
  BY DEF RecInv, ReconciliationTypeOK, Listings, Times
<1>3. StartOf(0) = 0
  BY DEF StartOf, ReconciliationAssumption
<1> QED
  BY <1>1, <1>2, <1>3, RunAnew DEF Covered

LEMMA FailStep ==
  ASSUME ReconciliationAssumption, RecInv, NEW p \in Runners, RunFails(p)
  PROVE  RecInv'
<1>1. /\ run' = [run EXCEPT ![p] = NoRun] /\ broken' \in 0 .. MaxBroken
      /\ UNCHANGED <<clock, changes, listed, coming, cursor, inbox, slipped>>
  BY DEF RunFails, RecInv, ReconciliationTypeOK, ReconciliationAssumption
<1>2. /\ NoRun \in Runs /\ NoRun.page = {} /\ NoRun.start = 0 /\ NoRun.seen = 0
      /\ 0 <= clock
  BY NoRunRun DEF NoRun, RecInv, ReconciliationTypeOK, Times
<1>3. /\ NoRun.seen <= clock /\ (NoRun.start > 0 => NoRun.start + Overlap <= clock)
      /\ \A v \in NoRun.page : v.time <= listed[v.order].time
  BY <1>2
<1>4. RunRead(p)' /\ RunPaged(p)'
  BY <1>1, RunEnds
<1> QED
  BY <1>1, <1>2, <1>3, <1>4, RunOnly

LEMMA FinishStep ==
  ASSUME ReconciliationAssumption, RecInv, NEW p \in Runners, Finish(p)
  PROVE  RecInv'
<1> USE DEF RecInv, ReconciliationTypeOK
<1>1. /\ run' = [run EXCEPT ![p] = NoRun] /\ cursor' = run[p].seen /\ run[p].page = {}
      /\ UNCHANGED <<clock, changes, listed, coming, broken, inbox, slipped>>
  BY DEF Finish
<1>2. run[p].seen \in Times /\ run[p].seen <= clock /\ Covered(run[p].seen, {})
  BY <1>1 DEF Runs, Clocked, RunRead
<1>3. /\ NoRun \in Runs /\ NoRun.page = {} /\ NoRun.start = 0 /\ NoRun.seen = 0
      /\ 0 <= clock
  BY NoRunRun DEF NoRun, Times
<1>4. run'[p] = NoRun /\ \A q \in Runners \ {p} : run'[q] = run[q]
  BY <1>1
<1>5. Clocked'
  BY <1>1, <1>2, <1>3, <1>4 DEF Clocked
<1>6. ASSUME NEW q \in Runners \ {p} PROVE RunRead(q)' /\ RunPaged(q)'
  BY <1>1, <1>4 DEF RunRead, RunPaged, Covered, Told, VersionOf, Behind
<1>7. RunRead(p)' /\ RunPaged(p)'
  BY <1>1, RunEnds
<1>8. Covered(cursor, {})'
  BY <1>1, <1>2 DEF Covered, Told, VersionOf
<1>9. ReconciliationTypeOK'
  BY <1>1, <1>2, <1>3
<1> QED
  BY <1>5, <1>6, <1>7, <1>8, <1>9

Fetched(row, page, next, more) == [row EXCEPT !.page = page, !.offset = next, !.more = more]

LEMMA FetchedRun ==
  ASSUME NEW row \in Runs, NEW page \in SUBSET Versions,
         NEW next \in 0 .. PageSize * MaxPages, NEW more \in BOOLEAN
  PROVE  LET new == Fetched(row, page, next, more) IN
         /\ new \in Runs /\ new.start = row.start /\ new.seen = row.seen /\ new.page = page
         /\ new.offset = next /\ new.more = more
BY DEF Runs, Fetched

(* A page holds all that lies between its first order and its last, so     *)
(* each of its times may become the cursor.                                *)
LEMMA FetchStep ==
  ASSUME ReconciliationAssumption, RecInv, NEW p \in Runners, FetchPage(p)
  PROVE  RecInv'
<1> USE DEF RecInv, ReconciliationTypeOK
<1>1. PICK old \in Runs : old = run[p]
  OBVIOUS
<1>2. PICK all \in SUBSET Versions : all = Since(listed, old.start) /\ IsFiniteSet(all)
  BY SinceFinite DEF Runs
<1>3. /\ old.more /\ old.page = {} /\ old.start \in Times /\ old.seen \in Times
      /\ UNCHANGED <<clock, changes, listed, coming, cursor, broken, inbox, slipped>>
  BY <1>1 DEF FetchPage, Runs
<1>4. PICK k \in 0 .. MaxPages - 1 : old.offset = PageSize * k
  BY <1>1, <1>3 DEF RunPaged
<1>5. PICK next \in 0 .. PageSize * MaxPages :
        /\ next = old.offset + PageSize /\ next \in Nat /\ old.offset \in Nat
        /\ \/ \E l \in 0 .. MaxPages - 1 : next = PageSize * l
           \/ next = PageSize * MaxPages
  BY <1>4, PageOffsets DEF ReconciliationAssumption
<1>6. PICK page \in SUBSET all :
        /\ page = Page(all, old.offset)
        /\ page = FirstOf(all, next) \ FirstOf(all, old.offset)
  BY <1>5 DEF Page, FirstOf
<1>7. PICK more \in BOOLEAN :
        /\ more = More(page, next)
        /\ more => \E l \in 0 .. MaxPages - 1 : next = PageSize * l
  <2>1. More(page, next) \in BOOLEAN
    BY Zenon DEF More
  <2>2. More(page, next) => \E l \in 0 .. MaxPages - 1 : next = PageSize * l
    BY <1>5 DEF More
  <2> QED
    BY <2>1, <2>2, Zenon
<1>8. PICK row \in Runs :
        /\ run' = [run EXCEPT ![p] = row]
        /\ row.start = old.start /\ row.seen = old.seen /\ row.page = page
        /\ row.offset = next /\ row.more = more
  <2> DEFINE new == Fetched(old, page, next, more)
  <2>1. run' = [run EXCEPT ![p] = new]
    BY <1>1, <1>2, <1>5, <1>6, <1>7 DEF FetchPage, Fetched
  <2>2. /\ new \in Runs /\ new.start = old.start /\ new.seen = old.seen /\ new.page = page
        /\ new.offset = next /\ new.more = more
    <3>1. page \in SUBSET Versions /\ old \in Runs /\ more \in BOOLEAN
          /\ next \in 0 .. PageSize * MaxPages
      OBVIOUS
    <3> QED
      BY <3>1, FetchedRun
  <2> HIDE DEF new
  <2> QED
    BY <2>1, <2>2
<1>9. run'[p] = row
  BY <1>8
<1>10. Behind(p, listed)' = FirstOf(all, next)
  <2>1. listed' = listed /\ run'[p].start = old.start /\ run'[p].offset = next
    BY <1>3, <1>8, <1>9
  <2> QED
    BY <1>2, <2>1 DEF Behind
<1>11. Behind(p, listed) = FirstOf(all, old.offset)
  BY <1>1, <1>2 DEF Behind
<1>12. \A v \in page : v.time = listed[v.order].time /\ v.order \in Orders /\ v.time \in Times
  BY <1>2, <1>6 DEF Since, Versions
<1>13. ASSUME NEW o \in Orders, listed[o].locked, VersionOf(o) \in FirstOf(all, next)
       PROVE  Told(o) \/ VersionOf(o) \in page
  BY <1>1, <1>3, <1>6, <1>11, <1>13 DEF RunRead
<1>14. ASSUME NEW v \in page, NEW o \in Orders, listed[o].locked,
              listed[o].time < StartOf(v.time)
       PROVE  Told(o) \/ VersionOf(o) \in page
  <2>1. CASE listed[o].time < old.start
    BY <1>1, <1>14, <2>1 DEF RunRead
  <2>2. CASE ~(listed[o].time < old.start)
    <3>1. VersionOf(o) \in all
      <4>1. listed[o].time > 0 /\ listed[o].time >= old.start
        BY <1>3, <1>14, <2>2 DEF Clocked, Times, Listings
      <4> QED
        BY <1>2, <4>1 DEF Since, VersionOf
    <3>2. VersionOf(o).time <= v.time
      <4>1. v.time \in Nat /\ listed[o].time \in Nat /\ Overlap \in Nat
        BY <1>12 DEF Times, Listings, ReconciliationAssumption
      <4>2. StartOf(v.time) <= v.time /\ StartOf(v.time) \in Nat
        BY <1>12, <4>1, StartOfTime DEF Times
      <4> QED
        BY <1>14, <4>1, <4>2 DEF VersionOf
    <3>3. v \in FirstOf(all, next)
      BY <1>6
    <3>4. VersionOf(o) \in FirstOf(all, next)
      BY <1>2, <1>5, <3>1, <3>2, <3>3, FirstEarlier
    <3> QED
      BY <1>13, <1>14, <3>4
  <2> QED
    BY <2>1, <2>2
<1>15. RunRead(p)'
  <2>1. \A o \in Orders : VersionOf(o)' = VersionOf(o) /\ Told(o)' = Told(o)
    BY <1>3 DEF VersionOf, Told
  <2>2. Covered(old.seen, {})
    BY <1>1, <1>3 DEF RunRead
  <2>3. Covered(old.seen, page)'
    BY <1>3, <2>1, <2>2 DEF Covered
  <2>4. \A v \in page : Covered(v.time, page)'
    BY <1>3, <1>14, <2>1 DEF Covered
  <2>5. \A o \in Orders : listed[o].locked /\ listed[o].time < old.start => Told(o)
    BY <1>1 DEF RunRead
  <2> QED
    BY <1>3, <1>8, <1>9, <1>10, <1>13, <2>1, <2>3, <2>4, <2>5 DEF RunRead
<1>16. RunPaged(p)'
  BY <1>7, <1>8, <1>9 DEF RunPaged
<1>17. row.seen <= clock /\ (row.start > 0 => row.start + Overlap <= clock)
       /\ \A v \in row.page : v.time <= listed[v.order].time
  <2>1. \A v \in page : v.time <= listed[v.order].time
    BY <1>12 DEF Times
  <2> QED
    BY <1>1, <1>8, <2>1 DEF Clocked
<1> QED
  BY <1>3, <1>8, <1>15, <1>16, <1>17, RunOnly

Stored(row, v, sn) == [row EXCEPT !.page = row.page \ {v}, !.seen = sn]

LEMMA StoredRun ==
  ASSUME NEW row \in Runs, NEW v \in Versions, NEW sn \in Times
  PROVE  LET new == Stored(row, v, sn) IN
         /\ new \in Runs /\ new.start = row.start /\ new.seen = sn
         /\ new.page = row.page \ {v} /\ new.offset = row.offset /\ new.more = row.more
BY DEF Runs, Stored

LEMMA StoreStep ==
  ASSUME ReconciliationAssumption, RecInv, NEW p \in Runners, StoreOrder(p)
  PROVE  RecInv'
<1> USE DEF RecInv, ReconciliationTypeOK
<1>1. PICK v \in run[p].page :
        /\ run' = [run EXCEPT
             ![p].page = run[p].page \ {v},
             ![p].seen = IF v.locked /\ v.time > run[p].seen THEN v.time ELSE run[p].seen]
        /\ inbox' = IF v.locked /\ v.time > inbox[v.order]
                    THEN [inbox EXCEPT ![v.order] = v.time] ELSE inbox
  BY DEF StoreOrder, FirstOf
<1>2. UNCHANGED <<clock, changes, listed, coming, cursor, broken, slipped>>
  BY DEF StoreOrder
<1>3. PICK old \in Runs : old = run[p]
  OBVIOUS
<1>20. /\ run[p] \in Runs /\ v \in Versions /\ v.order \in Orders /\ v.time \in Times
      /\ v.locked \in BOOLEAN /\ run[p].seen \in Times
  BY <1>1 DEF Runs, Versions
<1>4. PICK sn \in Times :
        /\ sn = run[p].seen \/ sn = v.time
        /\ sn = IF v.locked /\ v.time > run[p].seen THEN v.time ELSE run[p].seen
  BY <1>20
<1> DEFINE row == Stored(old, v, sn)
<1>5. run' = [run EXCEPT ![p] = row]
  BY <1>1, <1>3, <1>4 DEF Stored
<1>6. /\ row \in Runs /\ row.start = old.start /\ row.seen = sn
      /\ row.page = old.page \ {v} /\ row.offset = old.offset /\ row.more = old.more
  <2>1. old \in Runs /\ v \in Versions /\ sn \in Times
    BY <1>20
  <2> QED
    BY <2>1, StoredRun
<1> HIDE DEF row
<1>7. run'[p] = row /\ \A q \in Runners \ {p} : run'[q] = run[q]
  BY <1>5
<1>8. \A o \in Orders : inbox[o] \in Nat /\ listed[o].time \in Nat
  BY DEF Times, Listings
<1>9. inbox' \in [Orders -> Times]
  BY <1>1, <1>20
<1>10. v.time <= listed[v.order].time /\ v.time <= clock
  BY <1>1, <1>8, <1>20 DEF Clocked, Times
<1>11. ASSUME NEW o \in Orders
       PROVE  /\ inbox'[o] <= listed[o].time
              /\ inbox[o] = listed[o].time => inbox'[o] = listed[o].time
              /\ o = v.order /\ v.locked /\ v.time = listed[o].time =>
                   inbox'[o] = listed[o].time
  <2>1. v.time \in Nat /\ inbox[o] <= listed[o].time
    BY <1>20 DEF Times, Clocked
  <2>2. CASE o = v.order
    BY <1>1, <1>8, <1>10, <1>20, <2>1, <2>2
  <2>3. CASE o # v.order
    BY <1>1, <1>8, <1>20, <2>1, <2>3
  <2> QED
    BY <2>2, <2>3
<1>12. \A o \in Orders : /\ Told(o) => Told(o)'
                         /\ VersionOf(o) = v /\ v.locked => Told(o)'
                         /\ VersionOf(o)' = VersionOf(o)
  BY <1>2, <1>11 DEF Told, VersionOf
<1>13. ASSUME NEW c, NEW page, Covered(c, page) PROVE Covered(c, page)'
  BY <1>2, <1>12, <1>13 DEF Covered
<1>14. ASSUME NEW c, Covered(c, old.page) PROVE Covered(c, old.page \ {v})'
  <2> SUFFICES ASSUME NEW o \in Orders, listed[o].locked, listed[o].time < StartOf(c)
      PROVE  Told(o)' \/ VersionOf(o) \in old.page \ {v}
    BY <1>2, <1>12 DEF Covered
  <2>1. VersionOf(o).locked = listed[o].locked
    BY DEF VersionOf
  <2> QED
    BY <1>12, <1>14, <2>1 DEF Covered
<1>15. RunRead(p)'
  <2>1. Covered(old.seen, old.page) /\ \A w \in old.page : Covered(w.time, old.page)
    BY <1>3 DEF RunRead
  <2>2. Covered(sn, old.page \ {v})'
    BY <1>1, <1>3, <1>4, <1>14, <2>1
  <2>3. \A w \in old.page \ {v} : Covered(w.time, old.page \ {v})'
    BY <1>14, <2>1
  <2>4. Behind(p, listed)' = Behind(p, listed)
    <3>1. listed' = listed /\ run'[p].start = run[p].start /\ run'[p].offset = run[p].offset
      BY <1>2, <1>3, <1>6, <1>7
    <3> QED
      BY <3>1 DEF Behind
  <2>5. ASSUME NEW o \in Orders, listed[o].locked, listed[o].time < old.start
        PROVE  Told(o)'
    BY <1>3, <1>12, <2>5 DEF RunRead
  <2>6. ASSUME NEW o \in Orders, listed[o].locked, VersionOf(o) \in Behind(p, listed)
        PROVE  Told(o)' \/ VersionOf(o) \in old.page \ {v}
    <3>1. VersionOf(o).locked
      BY <2>6 DEF VersionOf
    <3> QED
      BY <1>3, <1>12, <2>6, <3>1 DEF RunRead
  <2> QED
    BY <1>2, <1>6, <1>7, <1>12, <2>2, <2>3, <2>4, <2>5, <2>6 DEF RunRead
<1>16. ASSUME NEW q \in Runners \ {p} PROVE RunRead(q)' /\ RunPaged(q)'
  <2>1. PICK mine \in Runs : mine = run[q] /\ mine = run'[q]
    BY <1>7
  <2>2. Behind(q, listed)' = Behind(q, listed)
    BY <1>2, <2>1 DEF Behind
  <2>3. Covered(mine.seen, mine.page)' /\ \A w \in mine.page : Covered(w.time, mine.page)'
    BY <1>13, <2>1 DEF RunRead
  <2> QED
    BY <1>2, <1>12, <2>1, <2>2, <2>3 DEF RunRead, RunPaged
<1>17. RunPaged(p)'
  BY <1>3, <1>6, <1>7 DEF RunPaged
<1>18. Clocked'
  <2>1. sn <= clock
    BY <1>4, <1>10 DEF Clocked
  <2> QED
    BY <1>2, <1>3, <1>6, <1>7, <1>11, <2>1 DEF Clocked
<1>19. cursor' # Unset => Covered(cursor, {})'
  <2>1. PICK c : c = cursor
    OBVIOUS
  <2> QED
    BY <1>2, <1>13, <2>1
<1>21. ReconciliationTypeOK'
  BY <1>2, <1>5, <1>6, <1>9
<1> QED
  BY <1>15, <1>16, <1>17, <1>18, <1>19, <1>21

LEMMA RecStep ==
  ReconciliationAssumption /\ RecInv /\ [ReconciliationNext]_reconciliationVars => RecInv'
<1> SUFFICES ASSUME ReconciliationAssumption, RecInv,
                    [ReconciliationNext]_reconciliationVars
             PROVE  RecInv'
  OBVIOUS
<1>1. CASE UNCHANGED reconciliationVars
  <2> USE <1>1 DEF reconciliationVars, RecInv
  <2>1. ReconciliationTypeOK' /\ Clocked'
    BY DEF ReconciliationTypeOK, Clocked
  <2>2. ASSUME NEW p \in Runners PROVE RunRead(p)' /\ RunPaged(p)'
    BY DEF RunRead, RunPaged, Covered, Told, VersionOf, Behind
  <2>3. cursor' # Unset => Covered(cursor, {})'
    BY DEF Covered, Told, VersionOf
  <2> QED
    BY <2>1, <2>2, <2>3
<1> QED
  BY <1>1, ChangeSteps, ShowStep, BeginStep, FetchStep, StoreStep, FinishStep, FailStep
  DEF ReconciliationNext, RunStep

(* The list, the runs and the cursor keep their types: a run looks at no   *)
(* more than MAX_PAGES pages.                                              *)
THEOREM ReconciliationTypeCorrect == ReconciliationSpec => []ReconciliationTypeOK
<1> USE ReconciliationAssumption
<1>1. ReconciliationInit => RecInv
  BY RecInit
<1>2. RecInv /\ [ReconciliationNext]_reconciliationVars => RecInv'
  BY RecStep
<1>3. RecInv => ReconciliationTypeOK
  BY DEF RecInv
<1> QED
  BY <1>1, <1>2, <1>3, PTL DEF ReconciliationSpec

(* With any number of runs at once, and for every page size, page limit    *)
(* and overlap, the cursor passes no locked order that was not stored.     *)
THEOREM NothingIsMissed == ReconciliationSpec => []NothingMissed
<1> USE ReconciliationAssumption
<1>1. ReconciliationInit => RecInv
  BY RecInit
<1>2. RecInv /\ [ReconciliationNext]_reconciliationVars => RecInv'
  BY RecStep
<1>3. RecInv => NothingMissed
  BY DEF RecInv, NothingMissed, Covered, Told
<1> QED
  BY <1>1, <1>2, <1>3, PTL DEF ReconciliationSpec

-----------------------------------------------------------------------------
(* The four side by side: a behaviour of the whole is one of each part.    *)

LEMMA PartsInit ==
  Init => ConnectionsInit /\ ReconciliationInit /\ CatalogInit /\ TenancyInit
BY DEF Init

LEMMA PartsStep ==
  [Next]_BackOfficeVars =>
    /\ [ConnectionsNext]_connectionsVars
    /\ [ReconciliationNext]_reconciliationVars
    /\ [CatalogNext]_catalogVars
    /\ [TenancyNext]_tenancyVars
BY DEF Next, BackOfficeVars

(* Each component moves as its own module says, whatever the others do.    *)
THEOREM PartsRefine ==
  Spec => ConnectionsSpec /\ ReconciliationSpec /\ CatalogSpec /\ TenancySpec
BY PartsInit, PartsStep, PTL
   DEF Spec, ConnectionsSpec, ReconciliationSpec, CatalogSpec, TenancySpec

(* Every table and every process of the four components keeps its type.    *)
THEOREM BackOfficeTypeCorrect == Spec => []BackOfficeTypeOK
<1>1. ConnectionsTypeOK /\ ReconciliationTypeOK /\ CatalogTypeOK /\ TenancyTypeOK
        => BackOfficeTypeOK
  BY DEF BackOfficeTypeOK
<1> QED
  BY <1>1, PartsRefine, ConnectionsTypeCorrect, ReconciliationTypeCorrect,
     CatalogTypeCorrect, TenancyTypeCorrect, PTL

(* What each component promises holds when they stand side by side.        *)
THEOREM BackOfficeKeepsPromises ==
  Spec => /\ []TokenFits /\ RevokedFinal
          /\ []NothingMissed
          /\ MenuKept
          /\ MembersInvited
BY PartsRefine, ActiveTokensFit, RevokedStaysRevoked, NothingIsMissed, MenuIsKept,
   MembershipsInvited, PTL
=============================================================================
