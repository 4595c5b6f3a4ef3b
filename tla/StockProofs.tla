---------------------------- MODULE StockProofs ----------------------------
(***************************************************************************)
(* Proofs about Stock, for any number of happenings, requests and callers: *)
(* a request that can be recognised is applied once, a sale booked late    *)
(* across a count is never silent, a count is what the balance goes on     *)
(* from, and the list shows what is on the shelf.                          *)
(*                                                                         *)
(* The first part needs no sum: Typed leaves the quantities in some set S, *)
(* whatever it is.  The second part adds the quantities up (SumTheorems).  *)
(***************************************************************************)
EXTENDS Stock, SumTheorems

Steps    == {"idle", "reserved", "checked", "locked", "committed"}
InFlight == {"reserved", "checked", "locked"}

EventRows(S) == [by : Requests, at : Times, qty : S, predicted : S, cutoff : Times]
CallRows(S)  == [step : Steps, req : Requests \cup {Nobody}, start : Times,
                 cutoff : Times, predicted : S]

Typed(S) ==
  /\ Unknown \in S
  /\ events \in Seq(EventRows(S))
  /\ keys \in [Keyed -> {"none", "open", "done"}]
  /\ now \in Times
  /\ happened \in [Happenings -> Times]
  /\ begun \in [Happenings -> Times]
  /\ body \in [Requests -> [qty : S, looked : Times]]
  /\ call \in [Callers -> CallRows(S)]
  /\ \A m \in ledger : m.at \in Times /\ m.made \in Times

Shape == \E S : Typed(S)

\* A call that is served has a request somebody looked for; only a keyed one
\* is left to store a response.
Serving ==
  \A c \in Callers : call[c].step # "idle" =>
    /\ call[c].req \in Requests
    /\ body[call[c].req].looked # 0
    /\ call[c].step = "committed" => call[c].req \in Keyed

ShapeInv == Shape /\ Serving
-----------------------------------------------------------------------------
LEMMA ShapeInit == Init => ShapeInv
<1> SUFFICES ASSUME Init PROVE ShapeInv
  OBVIOUS
<1>1. 0 \in Times
  BY StockAssumption DEF StockAssumption, Times
<1>2. Typed({0, Unknown})
  BY <1>1, StockAssumption DEF Init, Typed, EventRows, CallRows, Idle, Steps, StockAssumption
<1>3. Serving
  BY DEF Init, Serving, Idle
<1> QED
  BY <1>2, <1>3 DEF ShapeInv, Shape

LEMMA TickTime == ASSUME now \in Times, Tick PROVE now' \in Times /\ now' # 0 /\ now' > now
BY StockAssumption DEF StockAssumption, Times, Tick

LEMMA WhenTime ==
  ASSUME NEW S, Typed(S), Serving, NEW c \in Callers, call[c].step # "idle"
  PROVE  When(c) \in Times
BY DEF Typed, CallRows, Serving, When

LEMMA SeqWider == ASSUME NEW A, NEW B, A \subseteq B, NEW s \in Seq(A) PROVE s \in Seq(B)
OBVIOUS

LEMMA Wider ==
  ASSUME NEW S, Typed(S), NEW v PROVE Typed(S \cup {v})
<1>1. EventRows(S) \subseteq EventRows(S \cup {v}) /\ CallRows(S) \subseteq CallRows(S \cup {v})
  BY DEF EventRows, CallRows
<1>2. events \in Seq(EventRows(S \cup {v}))
  <2>1. events \in Seq(EventRows(S))
    BY DEF Typed
  <2> QED BY <1>1, <2>1, SeqWider
<1>3. call \in [Callers -> CallRows(S \cup {v})]
  BY <1>1 DEF Typed
<1>4. body \in [Requests -> [qty : S \cup {v}, looked : Times]]
  BY DEF Typed
<1> QED
  BY <1>2, <1>3, <1>4 DEF Typed

\* The rows a caller may be put in.
LEMMA CallerRows ==
  ASSUME NEW S, Typed(S), NEW c \in Callers
  PROVE  /\ Idle \in CallRows(S)
         /\ \A r \in Requests, t \in Times :
              [Idle EXCEPT !.step = "reserved", !.req = r, !.start = t] \in CallRows(S)
         /\ \A r \in Requests : [Idle EXCEPT !.step = "committed", !.req = r] \in CallRows(S)
         /\ [call[c] EXCEPT !.step = "checked"] \in CallRows(S)
         /\ \A t \in Times, v \in S :
              [call[c] EXCEPT !.step = "locked", !.cutoff = t, !.predicted = v] \in CallRows(S)
<1>1. 0 \in Times
  BY StockAssumption DEF StockAssumption, Times
<1>2. call[c] \in CallRows(S) /\ Unknown \in S
  BY DEF Typed
<1> QED
  BY <1>1, <1>2 DEF CallRows, Idle, Steps

\* A commit leaves the keys and the calls typed, and the caller idle or with a
\* keyed request whose response is to be stored.
LEMMA CommitTyped ==
  ASSUME NEW S, Typed(S), Serving, NEW c \in Callers, call[c].step # "idle", Commit(c)
  PROVE  /\ keys' \in [Keyed -> {"none", "open", "done"}]
         /\ call' \in [Callers -> CallRows(S)]
         /\ \A d \in Callers \ {c} : call'[d] = call[d]
         /\ call'[c].step \in {"idle", "committed"}
         /\ call'[c].step = "committed" =>
              call'[c].req = call[c].req /\ call[c].req \in Keyed
         /\ call[c].req \in Keyed => keys' = [keys EXCEPT ![call[c].req] = "open"]
         /\ call[c].req \notin Keyed => keys' = keys
<1>1. call[c].req \in Requests
  BY DEF Serving
<1>2. call \in [Callers -> CallRows(S)] /\ keys \in [Keyed -> {"none", "open", "done"}]
  BY DEF Typed
<1>3. CASE call[c].req \in Keyed
  <2>1. call' = [call EXCEPT ![c] = [Idle EXCEPT !.step = "committed", !.req = call[c].req]]
        /\ keys' = [keys EXCEPT ![call[c].req] = "open"]
    BY <1>3 DEF Commit
  <2> QED
    BY <1>1, <1>2, <1>3, <2>1, CallerRows DEF Idle
<1>4. CASE call[c].req \notin Keyed
  <2>1. call' = [call EXCEPT ![c] = Idle] /\ keys' = keys
    BY <1>4 DEF Commit
  <2> QED
    BY <1>2, <1>4, <2>1, CallerRows DEF Idle
<1> QED
  BY <1>3, <1>4

LEMMA ShapeStep == ShapeInv /\ [Next]_vars => ShapeInv'
<1> SUFFICES ASSUME ShapeInv, [Next]_vars PROVE ShapeInv'
  OBVIOUS
<1>1. PICK S : Typed(S)
  BY DEF ShapeInv, Shape
<1>2. Serving
  BY DEF ShapeInv
<1>t. /\ now \in Times /\ (Tick => now' \in Times /\ now' # 0)
      /\ call \in [Callers -> CallRows(S)]
      /\ body \in [Requests -> [qty : S, looked : Times]]
      /\ 0 \in Times
  BY <1>1, TickTime, StockAssumption DEF Typed, StockAssumption, Times
<1>3. CASE UNCHANGED vars
  BY <1>1, <1>2, <1>3 DEF vars, itemVars, worldVars, ShapeInv, Shape, Typed, Serving
<1>4. ASSUME NEW x \in Happenings, Happen(x) \/ Begin(x) \/ Abort(x) PROVE ShapeInv'
  <2>1. UNCHANGED <<ledger, events, keys, body, call>>
    BY <1>4 DEF Happen, Begin, Abort, itemVars
  <2>2. now' \in Times
    BY <1>4, <1>t DEF Happen, Begin, Abort
  <2>3. happened' \in [Happenings -> Times] /\ begun' \in [Happenings -> Times]
    BY <1>4, <1>1, <1>t DEF Happen, Begin, Abort, Typed
  <2> QED
    BY <1>1, <1>2, <2>1, <2>2, <2>3 DEF ShapeInv, Shape, Typed, Serving
<1>5. ASSUME NEW x \in Happenings, Book(x) PROVE ShapeInv'
  <2>1. UNCHANGED <<events, keys, now, happened, begun, body, call>>
        /\ ledger' = ledger \cup {Movement(x)}
    BY <1>5 DEF Book, BookSale, BookRefund, Receive, Adjust, Insert, worldVars
  <2>2. Movement(x).at \in Times /\ Movement(x).made \in Times
    BY <1>1 DEF Movement, Typed
  <2> QED
    BY <1>1, <1>2, <2>1, <2>2 DEF ShapeInv, Shape, Typed, Serving
<1>6. ASSUME NEW r \in Requests, LookAt(r) PROVE ShapeInv'
  <2>. PICK q : q = Shelf
    OBVIOUS
  <2> DEFINE T == S \cup {q}
  <2>1. Typed(T)
    BY <1>1, Wider
  <2>2. UNCHANGED <<ledger, events, keys, happened, begun, call>>
        /\ now' \in Times /\ now' # 0
        /\ body' = [body EXCEPT ![r] = [qty |-> q, looked |-> now']]
    BY <1>6, <1>t DEF LookAt, itemVars
  <2>3. q \in T
    OBVIOUS
  <2> HIDE DEF T
  <2>4. body' \in [Requests -> [qty : T, looked : Times]]
    BY <2>1, <2>2, <2>3 DEF Typed
  <2>5. Serving'
    BY <1>2, <1>t, <2>2 DEF Serving
  <2>6. Typed(T)'
    BY <2>1, <2>2, <2>4 DEF Typed
  <2> QED
    BY <2>5, <2>6 DEF ShapeInv, Shape
<1>7. ASSUME NEW c \in Callers, NEW r \in Requests, Send(c, r) PROVE ShapeInv'
  <2> DEFINE row == [Idle EXCEPT !.step = "reserved", !.req = r, !.start = now']
  <2>1. UNCHANGED <<ledger, events, keys, happened, begun, body>> /\ now' \in Times
        /\ call' = [call EXCEPT ![c] = row] /\ body[r].looked # 0
    BY <1>7, <1>t DEF Send, itemVars, worldVars
  <2>2. row \in CallRows(S) /\ row.step = "reserved" /\ row.req = r
    BY <1>1, <2>1, CallerRows DEF Idle
  <2> HIDE DEF row
  <2>3. call' \in [Callers -> CallRows(S)]
    BY <1>t, <2>1, <2>2
  <2>4. Serving'
    BY <1>2, <1>t, <2>1, <2>2 DEF Serving
  <2> QED
    BY <1>1, <2>1, <2>3, <2>4 DEF ShapeInv, Shape, Typed
<1>8. ASSUME NEW c \in Callers, CountLock(c) PROVE ShapeInv'
  <2>. PICK v : v = Watermark(now')
    OBVIOUS
  <2> DEFINE T == S \cup {v}
             row == [call[c] EXCEPT !.step = "locked", !.cutoff = now', !.predicted = v]
  <2>1. UNCHANGED <<ledger, events, keys, happened, begun, body>> /\ now' \in Times
        /\ call' = [call EXCEPT ![c] = row] /\ call[c].step # "idle"
    BY <1>8, <1>t DEF CountLock, itemVars, worldVars
  <2>2. Typed(T) /\ v \in T
    BY <1>1, Wider
  <2>3. row \in CallRows(T)
    BY <2>1, <2>2, CallerRows
  <2>4. row.step = "locked" /\ row.req = call[c].req
    BY <1>t DEF CallRows
  <2> HIDE DEF row, T
  <2>5. call' \in [Callers -> CallRows(T)]
    BY <2>1, <2>2, <2>3 DEF Typed
  <2>6. Serving'
    BY <1>2, <1>t, <2>1, <2>4 DEF Serving
  <2>7. Typed(T)'
    BY <2>1, <2>2, <2>5 DEF Typed
  <2> QED
    BY <2>6, <2>7 DEF ShapeInv, Shape
<1>9. ASSUME NEW c \in Callers, CountAgain(c) \/ OpenAgain(c) PROVE ShapeInv'
  <2>1. UNCHANGED <<ledger, events, now, happened, begun, body>> /\ Commit(c)
        /\ call[c].step # "idle"
    BY <1>9 DEF CountAgain, OpenAgain, itemVars, worldVars
  <2> QED
    BY <1>1, <1>2, <2>1, CommitTyped DEF ShapeInv, Shape, Typed, Serving
<1>10. ASSUME NEW c \in Callers, CountWrite(c) PROVE ShapeInv'
  <2> DEFINE row == [by |-> call[c].req, at |-> When(c), qty |-> body[call[c].req].qty,
                     predicted |-> call[c].predicted, cutoff |-> call[c].cutoff]
  <2>1. UNCHANGED <<now, happened, begun, body>> /\ Commit(c) /\ call[c].step # "idle"
        /\ events' = Append(events, row)
    BY <1>10 DEF CountWrite, worldVars
  <2>2. When(c) \in Times
    BY <1>1, <1>2, <2>1, WhenTime
  <2>3. row \in EventRows(S)
    BY <1>2, <1>t, <2>1, <2>2 DEF EventRows, CallRows, Serving
  <2> HIDE DEF row
  <2>4. events' \in Seq(EventRows(S))
    <3>1. events \in Seq(EventRows(S))
      BY <1>1 DEF Typed
    <3> HIDE DEF EventRows
    <3> QED BY <2>1, <2>3, <3>1
  <2>5. ledger' \subseteq ledger \cup {CountAdjust(c)}
    BY <1>10 DEF CountWrite
  <2>6. CountAdjust(c).at \in Times /\ CountAdjust(c).made \in Times
    BY <1>t, <2>2 DEF CountAdjust, CallRows
  <2>7. \A m \in ledger' : m.at \in Times /\ m.made \in Times
    BY <1>1, <2>5, <2>6 DEF Typed
  <2>8. Typed(S)'
    BY <1>1, <1>2, <2>1, <2>4, <2>7, CommitTyped DEF Typed
  <2>9. Serving'
    BY <1>1, <1>2, <2>1, CommitTyped DEF Serving
  <2> QED
    BY <2>8, <2>9 DEF ShapeInv, Shape
<1>11. ASSUME NEW c \in Callers, OpenCheck(c) PROVE ShapeInv'
  <2> DEFINE row == [call[c] EXCEPT !.step = "checked"]
  <2>1. UNCHANGED <<ledger, events, keys, now, happened, begun, body>>
        /\ call' = [call EXCEPT ![c].step = "checked"] /\ call[c].step # "idle"
    BY <1>11 DEF OpenCheck, itemVars, worldVars
  <2>2. row \in CallRows(S)
    BY <1>1, CallerRows
  <2>5. row.step = "checked" /\ row.req = call[c].req
    BY <1>t DEF CallRows
  <2>6. call' = [call EXCEPT ![c] = row]
    BY <1>t, <2>1
  <2> HIDE DEF row
  <2>3. call' \in [Callers -> CallRows(S)]
    BY <1>t, <2>2, <2>6
  <2>4. Serving'
    BY <1>2, <1>t, <2>1, <2>5, <2>6 DEF Serving
  <2> QED
    BY <1>1, <2>1, <2>3, <2>4 DEF ShapeInv, Shape, Typed
<1>12. ASSUME NEW c \in Callers, OpenWrite(c) PROVE ShapeInv'
  <2> DEFINE row == [key |-> Opening, type |-> "opening_balance",
                     delta |-> body[call[c].req].qty, at |-> When(c), made |-> call[c].start]
  <2>1. UNCHANGED <<events, now, happened, begun, body>> /\ Commit(c)
        /\ call[c].step # "idle" /\ ledger' = ledger \cup {row}
    BY <1>12 DEF OpenWrite, worldVars
  <2>2. When(c) \in Times
    BY <1>1, <1>2, <2>1, WhenTime
  <2>3. row.at \in Times /\ row.made \in Times
    BY <1>t, <2>2 DEF CallRows
  <2> HIDE DEF row
  <2>4. \A m \in ledger' : m.at \in Times /\ m.made \in Times
    BY <1>1, <2>1, <2>3 DEF Typed
  <2> QED
    BY <1>1, <1>2, <2>1, <2>4, CommitTyped DEF ShapeInv, Shape, Typed, Serving
<1>13. ASSUME NEW c \in Callers, StoreResponse(c) \/ Lose(c) PROVE ShapeInv'
  <2>1. UNCHANGED <<ledger, events, now, happened, begun, body>>
        /\ call' = [call EXCEPT ![c] = Idle]
    BY <1>13 DEF StoreResponse, Lose, itemVars, worldVars
  <2>2. keys' \in [Keyed -> {"none", "open", "done"}]
    BY <1>1, <1>13 DEF StoreResponse, Lose, Typed
  <2>3. call' \in [Callers -> CallRows(S)]
    BY <1>1, <1>t, <2>1, CallerRows
  <2>4. Serving'
    BY <1>2, <1>t, <2>1 DEF Serving, Idle
  <2> QED
    BY <1>1, <2>1, <2>2, <2>3, <2>4 DEF ShapeInv, Shape, Typed
<1> QED
  BY <1>3, <1>4, <1>5, <1>6, <1>7, <1>8, <1>9, <1>10, <1>11, <1>12, <1>13
     DEF Next, Count, Open

\* The part of TypeOK that no sum enters holds in every reachable state.
THEOREM ShapeHolds == Spec => []ShapeInv
<1> QED
  BY ShapeInit, ShapeStep, PTL DEF Spec
-----------------------------------------------------------------------------
(* Keys and the item's lock                                                *)

\* A request whose effect is not committed holds its key, whose row nobody
\* else sees; afterwards the row is there; one count at a time has the item.
KeyFree   == \A c \in Callers : call[c].step \in InFlight /\ call[c].req \in Keyed =>
               keys[call[c].req] = "none"
KeyTaken  == \A c \in Callers : call[c].step = "committed" => keys[call[c].req] # "none"
OneHolder == \A c, d \in Callers :
               (/\ call[c].step \in InFlight /\ call[d].step \in InFlight
                /\ call[c].req = call[d].req /\ call[c].req \in Keyed) => c = d
OneLock   == \A c, d \in Callers : call[c].step = "locked" /\ call[d].step = "locked" => c = d

LockInv == KeyFree /\ KeyTaken /\ OneHolder /\ OneLock

LEMMA LockInit == Init => LockInv
BY DEF Init, LockInv, KeyFree, KeyTaken, OneHolder, OneLock, Idle, InFlight

LEMMA LockStep == ShapeInv /\ LockInv /\ [Next]_vars => LockInv'
<1> SUFFICES ASSUME ShapeInv, LockInv, [Next]_vars PROVE LockInv'
  OBVIOUS
<1>1. PICK S : Typed(S)
  BY DEF ShapeInv, Shape
<1>2. Serving
  BY DEF ShapeInv
<1>t. call \in [Callers -> CallRows(S)] /\ keys \in [Keyed -> {"none", "open", "done"}]
  BY <1>1 DEF Typed
<1>3. ASSUME UNCHANGED <<keys, call>> PROVE LockInv'
  BY <1>3 DEF LockInv, KeyFree, KeyTaken, OneHolder, OneLock
<1>4. ASSUME NEW x \in Happenings, Happen(x) \/ Begin(x) \/ Abort(x) \/ Book(x) PROVE LockInv'
  BY <1>3, <1>4 DEF Happen, Begin, Abort, Book, BookSale, BookRefund, Receive, Adjust, Insert
<1>5. ASSUME NEW r \in Requests, LookAt(r) PROVE LockInv'
  BY <1>3, <1>5 DEF LookAt
<1>6. ASSUME NEW c \in Callers, NEW r \in Requests, Send(c, r) PROVE LockInv'
  <2>1. keys' = keys /\ (r \in Keyed => ~ KeyHeld(r) /\ keys[r] = "none")
    BY <1>6 DEF Send
  <2>2. /\ \A d \in Callers \ {c} : call'[d] = call[d]
        /\ call'[c].step = "reserved" /\ call'[c].req = r
    BY <1>6, <1>t DEF Send, Idle
  <2> QED
    BY <2>1, <2>2 DEF LockInv, KeyFree, KeyTaken, OneHolder, OneLock, KeyHeld, InFlight
<1>7. ASSUME NEW c \in Callers, CountLock(c) PROVE LockInv'
  <2>1. keys' = keys /\ call[c].step = "reserved" /\ ~ ItemHeld
    BY <1>7 DEF CountLock
  <2>2. /\ \A d \in Callers \ {c} : call'[d] = call[d]
        /\ call'[c].step = "locked" /\ call'[c].req = call[c].req
    BY <1>7, <1>t DEF CountLock, CallRows
  <2> QED
    BY <2>1, <2>2 DEF LockInv, KeyFree, KeyTaken, OneHolder, OneLock, ItemHeld, InFlight
<1>8. ASSUME NEW c \in Callers, OpenCheck(c) PROVE LockInv'
  <2>1. keys' = keys /\ call[c].step = "reserved"
    BY <1>8 DEF OpenCheck
  <2>2. /\ \A d \in Callers \ {c} : call'[d] = call[d]
        /\ call'[c].step = "checked" /\ call'[c].req = call[c].req
    BY <1>8, <1>t DEF OpenCheck, CallRows
  <2> QED
    BY <2>1, <2>2 DEF LockInv, KeyFree, KeyTaken, OneHolder, OneLock, InFlight
<1>9. ASSUME NEW c \in Callers, Count(c) \/ Open(c), ~ CountLock(c), ~ OpenCheck(c)
      PROVE  LockInv'
  <2>1. Commit(c) /\ call[c].step \in InFlight
    BY <1>9 DEF Count, Open, CountAgain, CountWrite, OpenAgain, OpenWrite, InFlight
  <2>2. /\ \A d \in Callers \ {c} : call'[d] = call[d]
        /\ call'[c].step \in {"idle", "committed"}
        /\ call'[c].step = "committed" =>
             call'[c].req = call[c].req /\ call[c].req \in Keyed
        /\ call[c].req \in Keyed => keys' = [keys EXCEPT ![call[c].req] = "open"]
        /\ call[c].req \notin Keyed => keys' = keys
    BY <1>1, <1>2, <2>1, CommitTyped DEF InFlight
  <2>3. KeyFree'
    <3> SUFFICES ASSUME NEW d \in Callers, call'[d].step \in InFlight, call'[d].req \in Keyed
                 PROVE  keys'[call'[d].req] = "none"
      BY DEF KeyFree
    <3>1. d # c /\ call'[d] = call[d]
      BY <2>2 DEF InFlight
    <3>2. keys[call[d].req] = "none" /\ call[d].req # call[c].req
      BY <2>1, <3>1 DEF LockInv, KeyFree, OneHolder
    <3> QED
      BY <1>t, <2>2, <3>1, <3>2
  <2>4. KeyTaken'
    <3> SUFFICES ASSUME NEW d \in Callers, call'[d].step = "committed"
                 PROVE  keys'[call'[d].req] # "none"
      BY DEF KeyTaken
    <3>1. CASE d = c
      BY <1>t, <2>2, <3>1
    <3>2. CASE d # c
      <4>1. call'[d] = call[d] /\ keys[call[d].req] # "none" /\ call[d].req \in Keyed
        BY <1>2, <2>2, <3>2 DEF LockInv, KeyTaken, Serving
      <4> QED
        BY <1>t, <2>2, <4>1
    <3> QED
      BY <3>1, <3>2
  <2>5. OneHolder' /\ OneLock'
    BY <2>2 DEF LockInv, OneHolder, OneLock, InFlight
  <2> QED
    BY <2>3, <2>4, <2>5 DEF LockInv
<1>10. ASSUME NEW c \in Callers, StoreResponse(c) \/ Lose(c) PROVE LockInv'
  <2>1. /\ \A d \in Callers \ {c} : call'[d] = call[d]
        /\ call'[c].step = "idle"
    BY <1>10, <1>t DEF StoreResponse, Lose, Idle
  <2>2. OneHolder' /\ OneLock'
    BY <2>1 DEF LockInv, OneHolder, OneLock, InFlight
  <2>3. CASE Lose(c)
    BY <2>1, <2>2, <2>3 DEF Lose, LockInv, KeyFree, KeyTaken, InFlight
  <2>4. CASE StoreResponse(c)
    <3>1. call[c].step = "committed" /\ keys' = [keys EXCEPT ![call[c].req] = "done"]
      BY <2>4 DEF StoreResponse
    <3>2. keys[call[c].req] # "none"
      BY <3>1 DEF LockInv, KeyTaken
    <3>3. KeyFree'
      BY <1>t, <2>1, <3>1, <3>2 DEF LockInv, KeyFree, InFlight
    <3>4. KeyTaken'
      BY <1>t, <1>2, <2>1, <3>1 DEF LockInv, KeyTaken, Serving
    <3> QED
      BY <2>2, <3>3, <3>4 DEF LockInv
  <2> QED
    BY <1>10, <2>3, <2>4
<1>11. CASE UNCHANGED vars
  BY <1>3, <1>11 DEF vars
<1> QED
  BY <1>4, <1>5, <1>6, <1>7, <1>8, <1>9, <1>10, <1>11 DEF Next
-----------------------------------------------------------------------------
(* What was applied                                                        *)

\* An event has the quantity and, if its request has one, the time its request
\* reported; the key of its request is used.
EventsKnown ==
  \A i \in DOMAIN events :
    LET r == events[i].by
    IN  /\ r \in Requests /\ body[r].looked # 0
        /\ r \in Keyed => keys[r] # "none"
        /\ r \in Dated => events[i].at = body[r].looked /\ events[i].qty = body[r].qty

\* A dated count that has the item is not yet among the events.
LockFresh ==
  \A c \in Callers : call[c].step = "locked" /\ call[c].req \in Dated =>
    \A i \in DOMAIN events : events[i].by # call[c].req

OnceInv == EventsKnown /\ LockFresh /\ AppliedOnce

LEMMA OnceInit == Init => OnceInv
BY DEF Init, OnceInv, EventsKnown, LockFresh, AppliedOnce

LEMMA OnceStep == ShapeInv /\ LockInv /\ OnceInv /\ [Next]_vars => OnceInv'
<1> SUFFICES ASSUME ShapeInv, LockInv, OnceInv, [Next]_vars PROVE OnceInv'
  OBVIOUS
<1>1. PICK S : Typed(S)
  BY DEF ShapeInv, Shape
<1>2. Serving
  BY DEF ShapeInv
<1>t. /\ call \in [Callers -> CallRows(S)] /\ keys \in [Keyed -> {"none", "open", "done"}]
      /\ body \in [Requests -> [qty : S, looked : Times]]
      /\ events \in Seq(EventRows(S))
  BY <1>1 DEF Typed
<1>3. ASSUME UNCHANGED <<events, body>>,
             \A r \in Keyed : keys[r] # "none" => keys'[r] # "none",
             \A c \in Callers : call'[c].step = "locked" => call'[c] = call[c]
      PROVE  OnceInv'
  BY <1>3 DEF OnceInv, EventsKnown, LockFresh, AppliedOnce
<1>4. ASSUME NEW x \in Happenings, Happen(x) \/ Begin(x) \/ Abort(x) \/ Book(x) PROVE OnceInv'
  <2>1. UNCHANGED <<events, body, keys, call>>
    BY <1>4 DEF Happen, Begin, Abort, Book, BookSale, BookRefund, Receive, Adjust, Insert,
                itemVars, worldVars
  <2> QED
    BY <1>3, <2>1
<1>5. ASSUME NEW r \in Requests, LookAt(r) PROVE OnceInv'
  <2>1. UNCHANGED <<events, keys, call>> /\ body[r].looked = 0
        /\ \A q \in Requests \ {r} : body'[q] = body[q]
    BY <1>5, <1>t DEF LookAt, itemVars
  <2> QED
    BY <2>1 DEF OnceInv, EventsKnown, LockFresh, AppliedOnce
<1>6. ASSUME NEW c \in Callers, NEW r \in Requests, Send(c, r) PROVE OnceInv'
  <2>1. UNCHANGED <<events, body, keys>>
    BY <1>6 DEF Send, itemVars, worldVars
  <2>2. \A d \in Callers : call'[d].step = "locked" => call'[d] = call[d]
    BY <1>6, <1>t DEF Send, Idle
  <2> QED
    BY <1>3, <2>1, <2>2
<1>7. ASSUME NEW c \in Callers, CountLock(c) PROVE OnceInv'
  <2>1. UNCHANGED <<events, body, keys>> /\ ~ SameCount(call[c].req)
    BY <1>7 DEF CountLock, itemVars, worldVars
  <2>2. /\ \A d \in Callers \ {c} : call'[d] = call[d]
        /\ call'[c].req = call[c].req
    BY <1>7, <1>t DEF CountLock, CallRows
  <2>3. call[c].req \in Dated => \A i \in DOMAIN events : events[i].by # call[c].req
    BY <2>1 DEF SameCount, OnceInv, EventsKnown
  <2>4. LockFresh'
    BY <2>1, <2>2, <2>3 DEF OnceInv, LockFresh
  <2> QED
    BY <2>1, <2>4 DEF OnceInv, EventsKnown, AppliedOnce
<1>8. ASSUME NEW c \in Callers, OpenCheck(c) PROVE OnceInv'
  <2>1. UNCHANGED <<events, body, keys>>
    BY <1>8 DEF OpenCheck, itemVars, worldVars
  <2>2. \A d \in Callers : call'[d].step = "locked" => call'[d] = call[d]
    BY <1>8, <1>t DEF OpenCheck, CallRows
  <2> QED
    BY <1>3, <2>1, <2>2
<1>9. ASSUME NEW c \in Callers, CountAgain(c) \/ OpenAgain(c) \/ OpenWrite(c) PROVE OnceInv'
  <2>1. UNCHANGED <<events, body>> /\ Commit(c) /\ call[c].step # "idle"
    BY <1>9 DEF CountAgain, OpenAgain, OpenWrite, itemVars, worldVars
  <2>2. \A d \in Callers : call'[d].step = "locked" => call'[d] = call[d]
    BY <1>1, <1>2, <2>1, CommitTyped
  <2>3. \A r \in Keyed : keys[r] # "none" => keys'[r] # "none"
    BY <1>1, <1>2, <1>t, <2>1, CommitTyped
  <2> QED
    BY <1>3, <2>1, <2>2, <2>3
<1>10. ASSUME NEW c \in Callers, CountWrite(c) PROVE OnceInv'
  <2> DEFINE r == call[c].req
             row == [by |-> r, at |-> When(c), qty |-> body[r].qty,
                     predicted |-> call[c].predicted, cutoff |-> call[c].cutoff]
  <2>1. body' = body /\ Commit(c) /\ call[c].step = "locked" /\ events' = Append(events, row)
    BY <1>10 DEF CountWrite, worldVars
  <2>2. r \in Requests /\ body[r].looked # 0
    BY <1>2, <2>1 DEF Serving
  <2>3. /\ DOMAIN events' = DOMAIN events \cup {Len(events) + 1}
        /\ Len(events) + 1 \notin DOMAIN events
        /\ \A i \in DOMAIN events : events'[i] = events[i]
        /\ events'[Len(events) + 1] = row
    <3> HIDE DEF row
    <3> QED BY <1>t, <2>1
  <2>4. \A i \in DOMAIN events : events[i].by = r => r \notin Keyed \cup Dated
    BY <2>1 DEF LockInv, KeyFree, InFlight, OnceInv, EventsKnown, LockFresh
  <2>5. /\ \A q \in Keyed : keys[q] # "none" => keys'[q] # "none"
        /\ r \in Keyed => keys'[r] # "none"
    BY <1>1, <1>2, <1>t, <2>1, CommitTyped
  <2>6. AppliedOnce'
    BY <2>3, <2>4 DEF OnceInv, AppliedOnce
  <2>7. r \in Dated => row.at = body[r].looked
    BY DEF When
  <2>8. EventsKnown'
    BY <2>1, <2>2, <2>3, <2>5, <2>7 DEF OnceInv, EventsKnown
  <2>9. \A d \in Callers : call'[d].step # "locked"
    BY <1>1, <1>2, <2>1, CommitTyped DEF LockInv, OneLock
  <2> QED
    BY <2>6, <2>8, <2>9 DEF OnceInv, LockFresh
<1>11. ASSUME NEW c \in Callers, StoreResponse(c) \/ Lose(c) PROVE OnceInv'
  <2>1. UNCHANGED <<events, body>>
    BY <1>11 DEF StoreResponse, Lose, itemVars, worldVars
  <2>2. \A r \in Keyed : keys[r] # "none" => keys'[r] # "none"
    BY <1>11, <1>t DEF StoreResponse, Lose
  <2>3. \A d \in Callers : call'[d].step = "locked" => call'[d] = call[d]
    BY <1>11, <1>t DEF StoreResponse, Lose, Idle
  <2> QED
    BY <1>3, <2>1, <2>2, <2>3
<1>12. CASE UNCHANGED vars
  BY <1>3, <1>12 DEF vars, itemVars, worldVars
<1> QED
  BY <1>4, <1>5, <1>6, <1>7, <1>8, <1>9, <1>10, <1>11, <1>12 DEF Next, Count, Open

\* A request that has a key, or says when the client looked, never becomes two
\* count events (AppliedOnce), however often it is sent and whatever crashes.
THEOREM RequestsApplyOnce == Spec => []AppliedOnce
<1>1. Init => ShapeInv /\ LockInv /\ OnceInv
  BY ShapeInit, LockInit, OnceInit
<1>2. (ShapeInv /\ LockInv /\ OnceInv) /\ [Next]_vars => (ShapeInv /\ LockInv /\ OnceInv)'
  BY ShapeStep, LockStep, OnceStep
<1>3. OnceInv => AppliedOnce
  BY DEF OnceInv
<1> QED
  BY <1>1, <1>2, <1>3, PTL DEF Spec
-----------------------------------------------------------------------------
(* Late sales                                                              *)

\* No stamp lies in the future, and the cutoff of a count in progress lies
\* after every movement in the ledger.
Stamped ==
  /\ \A m \in ledger : m.made <= now
  /\ \A x \in Happenings : begun[x] <= now
  /\ \A c \in Callers : call[c].start <= now

CutoffIsLast ==
  \A c \in Callers : call[c].step = "locked" => \A m \in ledger : m.made <= call[c].cutoff

LateInv == Stamped /\ CutoffIsLast /\ LateSalesFlagged

LEMMA LateInit == Init => LateInv
BY StockAssumption
   DEF StockAssumption, Init, LateInv, Stamped, CutoffIsLast, LateSalesFlagged, Idle

LEMMA LateStep == ShapeInv /\ LockInv /\ LateInv /\ [Next]_vars => LateInv'
<1> SUFFICES ASSUME ShapeInv, LockInv, LateInv, [Next]_vars PROVE LateInv'
  OBVIOUS
<1>1. PICK S : Typed(S)
  BY DEF ShapeInv, Shape
<1>2. Serving
  BY DEF ShapeInv
<1>t. /\ call \in [Callers -> CallRows(S)] /\ events \in Seq(EventRows(S))
      /\ now \in Nat /\ LateAfter \in Nat
      /\ happened \in [Happenings -> Nat] /\ begun \in [Happenings -> Nat]
      /\ \A c \in Callers : call[c].start \in Nat /\ call[c].cutoff \in Nat
      /\ \A m \in ledger : m.at \in Nat /\ m.made \in Nat
      /\ \A i \in DOMAIN events : events[i].cutoff \in Nat
  <2>1. Times \subseteq Nat /\ LateAfter \in Nat
    BY StockAssumption DEF Times, StockAssumption
  <2>2. call \in [Callers -> CallRows(S)] /\ events \in Seq(EventRows(S))
    BY <1>1 DEF Typed
  <2>3. /\ now \in Nat /\ happened \in [Happenings -> Nat] /\ begun \in [Happenings -> Nat]
        /\ \A m \in ledger : m.at \in Nat /\ m.made \in Nat
    BY <1>1, <2>1 DEF Typed
  <2>4. \A c \in Callers : call[c].start \in Nat /\ call[c].cutoff \in Nat
    BY <2>1, <2>2 DEF CallRows
  <2>5. \A i \in DOMAIN events : events[i].cutoff \in Nat
    <3>1. \A i \in DOMAIN events : events[i] \in EventRows(S)
      BY <2>2
    <3> QED BY <2>1, <3>1 DEF EventRows
  <2> QED
    BY <2>1, <2>2, <2>3, <2>4, <2>5
<1>u. /\ \A x \in Happenings : begun[x] <= now
      /\ \A c \in Callers : call[c].start <= now
  BY DEF LateInv, Stamped
<1>s. Tick => now' \in Nat /\ now' > now
  BY <1>t DEF Tick
<1>3. ASSUME UNCHANGED <<ledger, events, late>>, now' \in Nat, now' >= now,
             \A x \in Happenings : begun'[x] <= now',
             \A c \in Callers : call'[c].start <= now',
             \A c \in Callers : call'[c].step = "locked" =>
               call'[c] = call[c] \/ call'[c].cutoff = now'
      PROVE  LateInv'
  <2>1. Stamped'
    BY <1>3, <1>t DEF LateInv, Stamped
  <2>2. CutoffIsLast'
    BY <1>3, <1>t DEF LateInv, Stamped, CutoffIsLast
  <2> QED
    BY <1>3, <2>1, <2>2 DEF LateInv, LateSalesFlagged
<1>4. ASSUME NEW x \in Happenings, Happen(x) \/ Begin(x) \/ Abort(x) PROVE LateInv'
  <2>1. UNCHANGED <<ledger, events, late, call>> /\ now' \in Nat /\ now' >= now
    BY <1>4, <1>s, <1>t DEF Happen, Begin, Abort, itemVars
  <2>2. \A y \in Happenings : begun'[y] <= now'
    <3>1. CASE Happen(x)
      BY <2>1, <3>1, <1>t, <1>u DEF Happen
    <3>2. CASE Begin(x)
      BY <2>1, <3>2, <1>t, <1>u DEF Begin
    <3>3. CASE Abort(x)
      BY <2>1, <3>3, <1>t, <1>u DEF Abort
    <3> QED
      BY <1>4, <3>1, <3>2, <3>3
  <2>3. /\ \A d \in Callers : call'[d].start <= now'
        /\ \A y \in Happenings : begun'[y] <= now'
    BY <1>t, <1>u, <2>1, <2>2
  <2>4. \A d \in Callers : call'[d].step = "locked" =>
          call'[d] = call[d] \/ call'[d].cutoff = now'
    BY <2>1
  <2> QED
    BY <1>3, <1>t, <2>1, <2>3, <2>4
<1>5. ASSUME NEW x \in Happenings, Book(x) PROVE LateInv'
  <2>1. /\ UNCHANGED <<events, now, begun, call>> /\ ~ ItemHeld
        /\ ledger' = ledger \cup {Movement(x)}
    BY <1>5 DEF Book, BookSale, BookRefund, Receive, Adjust, Insert, worldVars
  <2>l. (late => late') /\ ((Kind[x] = "sale" /\ CrossesCount(x)) => late')
    <3>1. CASE BookSale(x)
      BY <3>1, Zenon DEF BookSale
    <3>2. ASSUME Kind[x] # "sale", late' = late
          PROVE  (late => late') /\ ((Kind[x] = "sale" /\ CrossesCount(x)) => late')
      BY <3>2, Zenon
    <3>3. BookSale(x) \/ (Kind[x] # "sale" /\ late' = late)
      BY <1>5 DEF Book, BookRefund, Receive, Adjust, Adjustments
    <3> QED
      BY <3>1, <3>2, <3>3, Zenon
  <2>2. /\ Movement(x).made = begun[x] /\ Movement(x).type = TypeOf(x)
        /\ Kind[x] = "sale" => Movement(x).at = happened[x]
    BY DEF Movement
  <2>3. Stamped'
    BY <2>1, <2>2 DEF LateInv, Stamped
  <2>4. CutoffIsLast'
    BY <2>1 DEF CutoffIsLast, ItemHeld
  <2>5. TypeOf(x) \in {"sale_depletion", "sale_signal"} => Kind[x] = "sale"
    BY StockAssumption DEF TypeOf, StockAssumption, Kinds, Adjustments
  <2>6. ASSUME NEW i \in DOMAIN events, Kind[x] = "sale",
               happened[x] < events[i].cutoff, begun[x] - happened[x] > LateAfter
        PROVE  CrossesCount(x)
    <3>1. begun[x] <= now
      BY DEF LateInv, Stamped
    <3> QED
      BY <1>t, <2>6, <3>1 DEF CrossesCount
  <2>7. LateSalesFlagged'
    BY <2>1, <2>l, <2>2, <2>5, <2>6 DEF LateInv, LateSalesFlagged
  <2> QED
    BY <2>3, <2>4, <2>7 DEF LateInv
<1>6. ASSUME NEW r \in Requests, LookAt(r) PROVE LateInv'
  <2>1. UNCHANGED <<ledger, events, late, call, begun>> /\ now' \in Nat /\ now' >= now
    BY <1>6, <1>s, <1>t DEF LookAt, itemVars
  <2> QED
    BY <1>3, <1>t, <2>1 DEF LateInv, Stamped
<1>7. ASSUME NEW c \in Callers, NEW r \in Requests, Send(c, r) PROVE LateInv'
  <2>1. UNCHANGED <<ledger, events, late, begun>> /\ now' \in Nat /\ now' >= now
    BY <1>7, <1>s, <1>t DEF Send, itemVars, worldVars
  <2>2. /\ \A d \in Callers \ {c} : call'[d] = call[d]
        /\ call'[c].step = "reserved" /\ call'[c].start = now'
    BY <1>7, <1>t DEF Send, Idle
  <2>3. /\ \A d \in Callers : call'[d].start <= now'
        /\ \A x \in Happenings : begun'[x] <= now'
    BY <1>t, <1>u, <2>1, <2>2
  <2>4. \A d \in Callers : call'[d].step = "locked" =>
          call'[d] = call[d] \/ call'[d].cutoff = now'
    BY <2>2
  <2> QED
    BY <1>3, <1>t, <2>1, <2>3, <2>4
<1>8. ASSUME NEW c \in Callers, CountLock(c) PROVE LateInv'
  <2>1. UNCHANGED <<ledger, events, late, begun>> /\ now' \in Nat /\ now' >= now
    BY <1>8, <1>s, <1>t DEF CountLock, itemVars, worldVars
  <2>2. /\ \A d \in Callers \ {c} : call'[d] = call[d]
        /\ call'[c].cutoff = now' /\ call'[c].start = call[c].start
    BY <1>8, <1>t DEF CountLock, CallRows
  <2>3. /\ \A d \in Callers : call'[d].start <= now'
        /\ \A x \in Happenings : begun'[x] <= now'
    BY <1>t, <1>u, <2>1, <2>2
  <2>4. \A d \in Callers : call'[d].step = "locked" =>
          call'[d] = call[d] \/ call'[d].cutoff = now'
    BY <2>2
  <2> QED
    BY <1>3, <1>t, <2>1, <2>3, <2>4
<1>9. ASSUME NEW c \in Callers, OpenCheck(c) PROVE LateInv'
  <2>1. UNCHANGED <<ledger, events, late, begun, now>>
    BY <1>9 DEF OpenCheck, itemVars, worldVars
  <2>2. /\ \A d \in Callers \ {c} : call'[d] = call[d]
        /\ call'[c].step = "checked" /\ call'[c].start = call[c].start
    BY <1>9, <1>t DEF OpenCheck, CallRows
  <2>3. /\ \A d \in Callers : call'[d].start <= now'
        /\ \A x \in Happenings : begun'[x] <= now'
    BY <1>t, <1>u, <2>1, <2>2
  <2>4. \A d \in Callers : call'[d].step = "locked" =>
          call'[d] = call[d] \/ call'[d].cutoff = now'
    BY <2>2
  <2> QED
    BY <1>3, <1>t, <2>1, <2>3, <2>4
<1>c. ASSUME NEW c \in Callers, call[c].step # "idle", Commit(c)
      PROVE  /\ \A d \in Callers \ {c} : call'[d] = call[d]
             /\ call'[c].step \in {"idle", "committed"} /\ call'[c].start = 0
  <2>1. \A d \in Callers \ {c} : call'[d] = call[d]
    BY <1>1, <1>2, <1>c, CommitTyped
  <2>2. call'[c].step \in {"idle", "committed"} /\ call'[c].start = 0
    <3>1. CASE call' = [call EXCEPT ![c] = [Idle EXCEPT !.step = "committed", !.req = call[c].req]]
      BY <1>t, <3>1 DEF Idle
    <3>2. CASE call' = [call EXCEPT ![c] = Idle]
      BY <1>t, <3>2 DEF Idle
    <3> QED
      BY <1>c, <3>1, <3>2 DEF Commit
  <2> QED
    BY <2>1, <2>2
<1>10. ASSUME NEW c \in Callers, CountAgain(c) \/ OpenAgain(c) PROVE LateInv'
  <2>1. UNCHANGED <<ledger, events, late, begun, now>> /\ Commit(c) /\ call[c].step # "idle"
    BY <1>10 DEF CountAgain, OpenAgain, itemVars, worldVars
  <2> QED
    BY <1>3, <1>c, <1>t, <2>1 DEF LateInv, Stamped
<1>11. ASSUME NEW c \in Callers, StoreResponse(c) \/ Lose(c) PROVE LateInv'
  <2>1. UNCHANGED <<ledger, events, late, begun, now>>
    BY <1>11 DEF StoreResponse, Lose, itemVars, worldVars
  <2>2. /\ \A d \in Callers \ {c} : call'[d] = call[d]
        /\ call'[c].step = "idle" /\ call'[c].start = 0
    BY <1>11, <1>t DEF StoreResponse, Lose, Idle
  <2>3. /\ \A d \in Callers : call'[d].start <= now'
        /\ \A x \in Happenings : begun'[x] <= now'
    BY <1>t, <1>u, <2>1, <2>2
  <2>4. \A d \in Callers : call'[d].step = "locked" =>
          call'[d] = call[d] \/ call'[d].cutoff = now'
    BY <2>2
  <2> QED
    BY <1>3, <1>t, <2>1, <2>3, <2>4
<1>12. ASSUME NEW c \in Callers, CountWrite(c) PROVE LateInv'
  <2> DEFINE row == [by |-> call[c].req, at |-> When(c), qty |-> body[call[c].req].qty,
                     predicted |-> call[c].predicted, cutoff |-> call[c].cutoff]
  <2>1. /\ UNCHANGED <<now, begun, late>> /\ Commit(c) /\ call[c].step = "locked"
        /\ events' = Append(events, row) /\ ledger' \subseteq ledger \cup {CountAdjust(c)}
    BY <1>12 DEF CountWrite, worldVars
  <2>2. CountAdjust(c).type = "count_adjust" /\ CountAdjust(c).made = call[c].start
    BY DEF CountAdjust
  <2>3. row.cutoff = call[c].cutoff
    OBVIOUS
  <2> HIDE DEF row
  <2>4. /\ DOMAIN events' = DOMAIN events \cup {Len(events) + 1}
        /\ \A i \in DOMAIN events : events'[i] = events[i]
        /\ events'[Len(events) + 1] = row
    BY <1>t, <2>1
  <2>5. /\ \A d \in Callers \ {c} : call'[d] = call[d]
        /\ call'[c].step \in {"idle", "committed"} /\ call'[c].start = 0
    BY <1>c, <2>1
  <2>6. Stamped'
    <3>1. \A d \in Callers : call'[d].start <= now'
      <4>0. now' = now /\ now \in Nat
        BY <1>t, <2>1
      <4>1. call'[c].start <= now'
        BY <4>0, <2>5
      <4>2. \A d \in Callers \ {c} : call'[d].start <= now'
        BY <1>u, <4>0, <2>5
      <4> QED BY <4>1, <4>2
    <3>2. \A m \in ledger' : m.made <= now'
      BY <1>u, <2>1, <2>2 DEF LateInv, Stamped
    <3> QED BY <1>u, <2>1, <3>1, <3>2 DEF Stamped
  <2>7. CutoffIsLast'
    BY <2>1, <2>5 DEF LockInv, OneLock, CutoffIsLast
  <2>8. LateSalesFlagged'
    <3> SUFFICES ASSUME NEW m \in ledger', NEW i \in DOMAIN events',
                        m.type \in {"sale_depletion", "sale_signal"},
                        m.at < events'[i].cutoff, events'[i].cutoff < m.made,
                        m.made - m.at > LateAfter
                 PROVE  late'
      BY DEF LateSalesFlagged
    <3>1. m \in ledger
      BY <2>1, <2>2
    <3>2. m.made <= call[c].cutoff
      BY <2>1, <3>1 DEF LateInv, CutoffIsLast
    <3>3. i \in DOMAIN events
      BY <1>t, <2>3, <2>4, <3>1, <3>2
    <3> QED
      BY <2>1, <2>4, <3>1, <3>3 DEF LateInv, LateSalesFlagged
  <2> QED
    BY <2>6, <2>7, <2>8 DEF LateInv
<1>13. ASSUME NEW c \in Callers, OpenWrite(c) PROVE LateInv'
  <2> DEFINE row == [key |-> Opening, type |-> "opening_balance",
                     delta |-> body[call[c].req].qty, at |-> When(c), made |-> call[c].start]
  <2>1. /\ UNCHANGED <<events, now, begun, late>> /\ Commit(c) /\ call[c].step # "idle"
        /\ ~ ItemHeld /\ ledger' = ledger \cup {row}
    BY <1>13 DEF OpenWrite, worldVars
  <2>2. row.type = "opening_balance" /\ row.made = call[c].start
    OBVIOUS
  <2> HIDE DEF row
  <2>3. /\ \A d \in Callers \ {c} : call'[d] = call[d]
        /\ call'[c].step \in {"idle", "committed"} /\ call'[c].start = 0
    BY <1>c, <2>1
  <2>4. Stamped'
    <3>1. \A d \in Callers : call'[d].start <= now'
      <4>0. now' = now /\ now \in Nat
        BY <1>t, <2>1
      <4>1. call'[c].start <= now'
        BY <4>0, <2>3
      <4>2. \A d \in Callers \ {c} : call'[d].start <= now'
        BY <1>u, <4>0, <2>3
      <4> QED BY <4>1, <4>2
    <3>2. \A m \in ledger' : m.made <= now'
      BY <1>u, <2>1, <2>2 DEF LateInv, Stamped
    <3> QED BY <1>u, <2>1, <3>1, <3>2 DEF Stamped
  <2>5. CutoffIsLast'
    BY <2>1, <2>3 DEF CutoffIsLast, ItemHeld
  <2>6. LateSalesFlagged'
    BY <2>1, <2>2 DEF LateInv, LateSalesFlagged
  <2> QED
    BY <2>4, <2>5, <2>6 DEF LateInv
<1>14. CASE UNCHANGED vars
  BY <1>3, <1>t, <1>14 DEF vars, itemVars, worldVars, LateInv, Stamped
<1> QED
  BY <1>4, <1>5, <1>6, <1>7, <1>8, <1>9, <1>10, <1>11, <1>12, <1>13, <1>14 DEF Next, Count, Open

\* No sale is booked late across a count without the alert (LateSalesFlagged):
\* a count holds the item while its event cannot be seen.
THEOREM LateSalesAreFlagged == Spec => []LateSalesFlagged
<1>1. Init => ShapeInv /\ LockInv /\ LateInv
  BY ShapeInit, LockInit, LateInit
<1>2. (ShapeInv /\ LockInv /\ LateInv) /\ [Next]_vars => (ShapeInv /\ LockInv /\ LateInv)'
  BY ShapeStep, LockStep, LateStep
<1>3. LateInv => LateSalesFlagged
  BY DEF LateInv
<1> QED
  BY <1>1, <1>2, <1>3, PTL DEF Spec
-----------------------------------------------------------------------------
(* Quantities                                                              *)

Shelved == {x \in Happenings : happened[x] # 0}

\* Every quantity is a number, and what is added up is finite.
Numbers ==
  /\ mode \in AllModes
  /\ anchor \in [qty : Int, at : Times]
  /\ drift \in {"none", "info", "warn", "critical"} /\ late \in BOOLEAN
  /\ look.by \in Requests \cup {Nobody}
  /\ \A m \in ledger : m.delta \in Int
  /\ \A i \in DOMAIN events : events[i].qty \in Int /\ events[i].predicted \in Int \cup {Unknown}
  /\ \A r \in Requests : body[r].qty \in Int
  /\ \A c \in Callers : call[c].predicted \in Int \cup {Unknown}
  /\ IsFiniteSet(ledger) /\ IsFiniteSet(Shelved)

Deltas(rows) == [m \in rows |-> m.delta]

LEMMA TotalIsSum == \A rows : Total(rows) = Sum(Deltas(rows), rows)
BY DEF Total, Sum, SumFunction, Deltas

LEMMA TotalInt ==
  ASSUME NEW rows, IsFiniteSet(rows), \A m \in rows : m.delta \in Int
  PROVE  Total(rows) \in Int
<1>1. IntOn(Deltas(rows), rows)
  BY DEF IntOn, Deltas
<1> QED
  BY <1>1, SumInt, TotalIsSum

LEMMA TotalEmpty == Total({}) = 0
BY SumEmpty, TotalIsSum

LEMMA TotalAdd ==
  ASSUME NEW rows, IsFiniteSet(rows), \A m \in rows : m.delta \in Int,
         NEW row, row \notin rows, row.delta \in Int
  PROVE  Total(rows \cup {row}) = Total(rows) + row.delta
<1> DEFINE more == rows \cup {row}
           f == Deltas(more)
<1>1. IntOn(f, rows) /\ f[row] = row.delta /\ IntOn(Deltas(rows), rows)
  BY DEF IntOn, Deltas
<1>2. \A m \in rows : Deltas(rows)[m] = f[m]
  BY DEF Deltas
<1> HIDE DEF f
<1>3. Sum(f, more) = f[row] + Sum(f, rows)
  BY <1>1, SumAdd
<1>4. Sum(Deltas(rows), rows) = Sum(f, rows)
  BY <1>1, <1>2, SumSame
<1>5. Total(more) = Sum(f, more) /\ Total(rows) = Sum(Deltas(rows), rows)
  BY TotalIsSum DEF f
<1>6. Sum(f, rows) \in Int
  BY <1>1, SumInt
<1> QED
  BY <1>1, <1>3, <1>4, <1>5, <1>6

LEMMA TotalOne == ASSUME NEW row, row.delta \in Int PROVE Total({row}) = row.delta
<1>1. Total({} \cup {row}) = Total({}) + row.delta
  BY FS_EmptySet, TotalAdd
<1>2. {} \cup {row} = {row}
  OBVIOUS
<1> QED
  BY <1>1, <1>2, TotalEmpty

LEMMA SeqOf == ASSUME NEW A, NEW B, NEW s \in Seq(A), \A i \in DOMAIN s : s[i] \in B
               PROVE  s \in Seq(B)
OBVIOUS

LEMMA Typing == ShapeInv /\ Numbers => TypeOK
<1> SUFFICES ASSUME ShapeInv, Numbers PROVE TypeOK
  OBVIOUS
<1>1. PICK S : Typed(S)
  BY DEF ShapeInv, Shape
<1>2. events \in Seq([by : Requests, at : Times, qty : Int,
                     predicted : Int \cup {Unknown}, cutoff : Times])
  <2>1. events \in Seq(EventRows(S))
    BY <1>1 DEF Typed
  <2>2. \A i \in DOMAIN events :
          events[i] \in [by : Requests, at : Times, qty : Int,
                        predicted : Int \cup {Unknown}, cutoff : Times]
    <3>1. \A i \in DOMAIN events : events[i] \in EventRows(S)
      BY <2>1
    <3> QED
      BY <3>1 DEF EventRows, Numbers
  <2> QED
    BY <2>1, <2>2, SeqOf
<1>3. body \in [Requests -> [qty : Int, looked : Times]]
  BY <1>1 DEF Typed, Numbers
<1>4. call \in [Callers -> [step : Steps, req : Requests \cup {Nobody}, start : Times,
                          cutoff : Times, predicted : Int \cup {Unknown}]]
  <2>1. \A c \in Callers : call[c] \in CallRows(S) /\ call[c].predicted \in Int \cup {Unknown}
    BY <1>1 DEF Typed, Numbers
  <2>2. \A c \in Callers : call[c] \in [step : Steps, req : Requests \cup {Nobody}, start : Times,
                                        cutoff : Times, predicted : Int \cup {Unknown}]
    BY <2>1 DEF CallRows
  <2> QED
    BY <1>1, <2>2 DEF Typed
<1> QED
  BY <1>1, <1>2, <1>3, <1>4 DEF TypeOK, Numbers, Typed, Steps

\* What a step leaves alone.
LEMMA Moves ==
  ASSUME [Next]_vars
  PROVE  /\ mode' = mode
         /\ \/ \E x \in Happenings : Book(x)
            \/ \E c \in Callers : CountWrite(c) \/ OpenWrite(c)
            \/ UNCHANGED <<ledger, anchor, look>>
         /\ (\E c \in Callers : CountWrite(c)) \/ UNCHANGED <<events, drift>>
         /\ (\E x \in Happenings : Happen(x)) \/ UNCHANGED happened
         /\ (\E r \in Requests : LookAt(r)) \/ UNCHANGED body
         /\ (\E x \in Happenings : BookSale(x)) \/ UNCHANGED late
<1>1. CASE UNCHANGED vars
  BY <1>1 DEF vars, itemVars, worldVars
<1>2. ASSUME NEW x \in Happenings, Happen(x) \/ Begin(x) \/ Abort(x)
      PROVE  /\ UNCHANGED <<itemVars, body, look>>
             /\ Happen(x) \/ UNCHANGED happened
  BY <1>2 DEF Happen, Begin, Abort
<1>3. ASSUME NEW x \in Happenings, Book(x)
      PROVE  /\ UNCHANGED <<mode, anchor, events, drift, look, happened, body>>
             /\ BookSale(x) \/ UNCHANGED late
  BY <1>3 DEF Book, BookSale, BookRefund, Receive, Adjust, Insert, worldVars
<1>4. ASSUME NEW r \in Requests, LookAt(r) PROVE UNCHANGED <<itemVars, happened, look>>
  BY <1>4 DEF LookAt
<1>5. ASSUME NEW c \in Callers, NEW r \in Requests, Send(c, r)
      PROVE  UNCHANGED <<itemVars, worldVars, look>>
  BY <1>5 DEF Send
<1>6. ASSUME NEW c \in Callers, StoreResponse(c) \/ Lose(c) \/ CountAgain(c) \/ CountLock(c)
                                \/ OpenAgain(c) \/ OpenCheck(c)
      PROVE  UNCHANGED <<itemVars, worldVars, look>>
  BY <1>6 DEF StoreResponse, Lose, CountAgain, CountLock, OpenAgain, OpenCheck
<1>7. ASSUME NEW c \in Callers, CountWrite(c) PROVE UNCHANGED <<mode, late, worldVars>>
  BY <1>7 DEF CountWrite
<1>8. ASSUME NEW c \in Callers, OpenWrite(c) PROVE UNCHANGED <<mode, events, drift, late, worldVars>>
  BY <1>8 DEF OpenWrite
<1> USE DEF itemVars, worldVars
<1> QED
  BY <1>1, <1>2, <1>3, <1>4, <1>5, <1>6, <1>7, <1>8 DEF Next, Count, Open

\* What a step does to a caller.
CallMoved(c) ==
  \/ call'[c] = call[c]
  \/ call'[c].step \in {"idle", "committed"} /\ call'[c].predicted = Unknown
  \/ /\ call'[c].step = "reserved" /\ call'[c].predicted = Unknown
     /\ call'[c].start = now' /\ Tick
  \/ /\ CountLock(c)
     /\ call'[c].step = "locked" /\ call'[c].predicted = Watermark(now')
     /\ call'[c].req = call[c].req /\ call'[c].start = call[c].start
  \/ /\ OpenCheck(c)
     /\ call'[c].step = "checked" /\ call'[c].predicted = call[c].predicted
     /\ call'[c].req = call[c].req /\ call'[c].start = call[c].start

LEMMA CallMoves ==
  ASSUME ShapeInv, [Next]_vars, NEW c \in Callers
  PROVE  CallMoved(c)
<1>1. PICK S : Typed(S)
  BY DEF ShapeInv, Shape
<1>2. call \in [Callers -> CallRows(S)]
  BY <1>1 DEF Typed
<1>3. CASE UNCHANGED call
  BY <1>3 DEF CallMoved
<1>4. ASSUME NEW d \in Callers, Commit(d) PROVE CallMoved(c)
  <2>1. CASE d # c
    BY <1>2, <1>4, <2>1 DEF Commit, CallMoved
  <2>2. CASE d = c /\ call' = [call EXCEPT ![c] = [Idle EXCEPT !.step = "committed", !.req = call[c].req]]
    BY <1>2, <2>2 DEF CallMoved, Idle
  <2>3. CASE d = c /\ call' = [call EXCEPT ![c] = Idle]
    BY <1>2, <2>3 DEF CallMoved, Idle
  <2> QED
    BY <1>4, <2>1, <2>2, <2>3 DEF Commit
<1>5. ASSUME NEW d \in Callers, NEW r \in Requests, Send(d, r) PROVE CallMoved(c)
  <2>1. CASE d # c
    BY <1>2, <1>5, <2>1 DEF Send, CallMoved
  <2>2. CASE d = c
    BY <1>2, <1>5, <2>2 DEF Send, CallMoved, Idle
  <2> QED
    BY <2>1, <2>2
<1>6. ASSUME NEW d \in Callers, CountLock(d) PROVE CallMoved(c)
  <2>1. CASE d # c
    BY <1>2, <1>6, <2>1 DEF CountLock, CallMoved
  <2>2. CASE d = c
    <3>1. call'[c] = [call[c] EXCEPT !.step = "locked", !.cutoff = now', !.predicted = Watermark(now')]
      BY <1>2, <1>6, <2>2 DEF CountLock
    <3> QED
      BY <1>2, <1>6, <2>2, <3>1 DEF CallMoved, CallRows
  <2> QED
    BY <2>1, <2>2
<1>7. ASSUME NEW d \in Callers, OpenCheck(d) PROVE CallMoved(c)
  <2>1. CASE d # c
    BY <1>2, <1>7, <2>1 DEF OpenCheck, CallMoved
  <2>2. CASE d = c
    BY <1>2, <1>7, <2>2 DEF OpenCheck, CallMoved, CallRows
  <2> QED
    BY <2>1, <2>2
<1>8. ASSUME NEW d \in Callers, StoreResponse(d) \/ Lose(d) PROVE CallMoved(c)
  BY <1>2, <1>8 DEF StoreResponse, Lose, CallMoved, Idle
<1>9. CASE \E x \in Happenings : Happen(x) \/ Begin(x) \/ Abort(x) \/ Book(x)
  BY <1>3, <1>9 DEF Happen, Begin, Abort, Book, BookSale, BookRefund, Receive, Adjust, Insert
<1>10. CASE \E r \in Requests : LookAt(r)
  BY <1>3, <1>10 DEF LookAt
<1>11. ASSUME NEW d \in Callers, CountAgain(d) \/ CountWrite(d) \/ OpenAgain(d) \/ OpenWrite(d)
       PROVE  CallMoved(c)
  BY <1>4, <1>11 DEF CountAgain, CountWrite, OpenAgain, OpenWrite
<1>12. CASE UNCHANGED vars
  BY <1>3, <1>12 DEF vars
<1> QED
  BY <1>5, <1>6, <1>7, <1>8, <1>9, <1>10, <1>11, <1>12 DEF Next, Count, Open
-----------------------------------------------------------------------------
(* What the rows stand for                                                 *)

\* A row is a happening's, the opening balance, or a correction of a count,
\* which only Mode A writes; no two rows have a key in common.
RowOf(m, x) ==
  /\ m.key = x /\ happened[x] # 0 /\ m.type = TypeOf(x)
  /\ m.delta = IF TypeOf(x) \in Signals THEN -Effect[x] ELSE Effect[x]

Correction(m) ==
  /\ mode = "recipe_deducted" /\ m.type = "count_adjust"
  /\ \E n \in 1 .. Len(events) : m.key = <<"count_adjust", n>>

RowsKnown ==
  \A m \in ledger : \/ \E x \in Happenings : RowOf(m, x)
                    \/ m.key = Opening /\ m.type = "opening_balance"
                    \/ Correction(m)

OneRowEach == \A m, n \in ledger : m.key = n.key => m = n

BegunHappened == \A x \in Happenings : begun[x] # 0 => happened[x] # 0

LedgerInv == RowsKnown /\ OneRowEach /\ BegunHappened

\* A count that has the item knows the balance: no row can slip in.
CallInv ==
  \A c \in Callers :
    /\ call[c].step \in InFlight => call[c].start # 0
    /\ call[c].step = "locked" => Task[call[c].req] = "count"
    /\ call[c].step = "checked" => Task[call[c].req] = "opening"
    /\ call[c].step = "locked" /\ mode = "recipe_deducted" => call[c].predicted = Total(ledger)

\* What a client saw is what had happened by then.
By(t) == {x \in Shelved : happened[x] <= t}

Reports ==
  /\ \A x \in Happenings : happened[x] <= now
  /\ \A r \in Requests : body[r].looked <= now
  /\ \A r \in Requests : body[r].looked # 0 =>
       body[r].qty = Stocked + Sum(Effect, By(body[r].looked))

\* The rows booked since the last quantity was posted are happenings', and in
\* Mode A the balance is that quantity and them; in Mode B it is the anchor.
Unseen == {m \in ledger : m.key \notin look.seen}

LookInv == look.by # Nobody =>
  /\ look.by \in Requests /\ body[look.by].looked # 0
  /\ look.seen \subseteq {m.key : m \in ledger}
  /\ \A m \in Unseen : m.key \in Happenings
  /\ mode = "recipe_deducted" /\ (Task[look.by] = "count" \/ look.seen = {Opening}) =>
       Total(ledger) = body[look.by].qty + Total(Unseen)
  /\ mode = "count_anchored" => anchor.qty = body[look.by].qty /\ anchor.at # 0

QuantityInv == Numbers /\ LedgerInv /\ CallInv /\ Reports /\ LookInv

LEMMA TotalPart ==
  ASSUME Numbers, NEW rows \in SUBSET ledger PROVE Total(rows) \in Int /\ IsFiniteSet(rows)
<1>1. IsFiniteSet(rows) /\ \A m \in rows : m.delta \in Int
  BY FS_Subset DEF Numbers
<1> QED
  BY <1>1, TotalInt

LEMMA OnHandInt ==
  ASSUME Numbers, NEW since \in SUBSET ledger PROVE OnHand(since) \in Int \cup {Unknown}
<1>1. Total({m \in ledger : m.type \notin Signals}) \in Int
  BY TotalPart
<1>2. Total(OfType(since, Arrivals)) \in Int /\ Total(OfType(since, Signals)) \in Int
  BY TotalPart DEF OfType
<1>3. anchor.qty \in Int
  BY DEF Numbers
<1> QED
  BY <1>1, <1>2, <1>3 DEF OnHand

LEMMA EffectSum ==
  ASSUME NEW S \in SUBSET Happenings, IsFiniteSet(S)
  PROVE  IntOn(Effect, S) /\ Sum(Effect, S) \in Int
<1>1. IntOn(Effect, S)
  BY StockAssumption DEF StockAssumption, IntOn
<1> QED
  BY <1>1, SumInt

LEMMA ShelfInt == ASSUME Numbers PROVE Shelf \in Int /\ Shelf = Stocked + Sum(Effect, Shelved)
<1>1. Shelf = Stocked + Sum(Effect, Shelved)
  BY DEF Shelf, Sum, Shelved
<1>2. Sum(Effect, Shelved) \in Int
  BY EffectSum DEF Numbers, Shelved
<1> QED
  BY <1>1, <1>2, StockAssumption DEF StockAssumption

LEMMA NumbersInit == Init => Numbers
<1> SUFFICES ASSUME Init PROVE Numbers
  OBVIOUS
<1>1. 0 \in Times
  BY StockAssumption DEF StockAssumption, Times
<1>2. IsFiniteSet(ledger) /\ IsFiniteSet(Shelved)
  <2>1. Shelved = {} /\ ledger = {}
    BY DEF Init, Shelved
  <2> QED
    BY <2>1, FS_EmptySet
<1>3. /\ \A r \in Requests : body[r].qty = 0
      /\ \A c \in Callers : call[c].predicted = Unknown
      /\ DOMAIN events = {}
  BY DEF Init, Idle
<1>4. mode \in AllModes /\ anchor \in [qty : Int, at : Times]
  BY <1>1, StockAssumption DEF Init, StockAssumption
<1> QED
  BY <1>2, <1>3, <1>4 DEF Init, Numbers

LEMMA NumbersStep == ShapeInv /\ Numbers /\ CallInv /\ [Next]_vars => Numbers'
<1> SUFFICES ASSUME ShapeInv, Numbers, CallInv, [Next]_vars PROVE Numbers'
  OBVIOUS
<1>1. PICK S : Typed(S)
  BY DEF ShapeInv, Shape
<1>2. Serving
  BY DEF ShapeInv
<1>t. /\ call \in [Callers -> CallRows(S)]
      /\ body \in [Requests -> [qty : S, looked : Times]]
      /\ events \in Seq(EventRows(S))
  BY <1>1 DEF Typed
<1>n. /\ \A r \in Requests : body[r].qty \in Int
      /\ \A c \in Callers : call[c].predicted \in Int \cup {Unknown}
      /\ \A m \in ledger : m.delta \in Int
      /\ IsFiniteSet(ledger) /\ IsFiniteSet(Shelved)
  BY DEF Numbers
<1>3. mode' \in AllModes
  BY Moves DEF Numbers
<1>4. IsFiniteSet(Shelved')
  <2>1. CASE UNCHANGED happened
    BY <1>n, <2>1 DEF Shelved
  <2>2. ASSUME NEW x \in Happenings, Happen(x) PROVE IsFiniteSet(Shelved')
    <3>1. Shelved' \subseteq Shelved \cup {x}
      BY <1>1, <2>2 DEF Happen, Shelved, Typed
    <3> QED
      BY <1>n, <3>1, FS_AddElement, FS_Subset
  <2> QED
    BY <2>1, <2>2, Moves
<1>5. \A r \in Requests : body'[r].qty \in Int
  <2>1. CASE UNCHANGED body
    BY <1>n, <2>1
  <2>2. ASSUME NEW q \in Requests, LookAt(q) PROVE \A r \in Requests : body'[r].qty \in Int
    BY <1>n, <1>t, <2>2, ShelfInt DEF LookAt
  <2> QED
    BY <2>1, <2>2, Moves
<1>6. \A c \in Callers : call'[c].predicted \in Int \cup {Unknown}
  <2> SUFFICES ASSUME NEW c \in Callers PROVE call'[c].predicted \in Int \cup {Unknown}
    OBVIOUS
  <2>1. CallMoved(c)
    BY CallMoves
  <2>2. Watermark(now') \in Int \cup {Unknown}
    <3>1. {m \in ledger : m.made > now'} \in SUBSET ledger
      OBVIOUS
    <3> QED
      BY <3>1, OnHandInt DEF Watermark
  <2> QED
    BY <1>n, <2>1, <2>2 DEF CallMoved
<1>7. ASSUME NEW c \in Callers, CountWrite(c)
      PROVE  /\ anchor' \in [qty : Int, at : Times] /\ look'.by \in Requests \cup {Nobody}
             /\ drift' \in {"none", "info", "warn", "critical"}
             /\ \A m \in ledger' : m.delta \in Int
             /\ IsFiniteSet(ledger')
             /\ \A i \in DOMAIN events' : events'[i].qty \in Int
                                          /\ events'[i].predicted \in Int \cup {Unknown}
  <2> DEFINE r == call[c].req
             row == [by |-> r, at |-> When(c), qty |-> body[r].qty,
                     predicted |-> call[c].predicted, cutoff |-> call[c].cutoff]
  <2>1. r \in Requests /\ When(c) \in Times /\ body[r].qty \in Int
    BY <1>1, <1>2, <1>7, <1>n, WhenTime DEF CountWrite, Serving
  <2>2. row.qty \in Int /\ row.predicted \in Int \cup {Unknown}
    BY <1>n, <2>1
  <2>3. events' = Append(events, row)
    BY <1>7 DEF CountWrite
  <2>4. anchor' \in [qty : Int, at : Times] /\ look'.by \in Requests \cup {Nobody}
    BY <1>7, <2>1 DEF CountWrite, Posted, Numbers
  <2>5. drift' \in {"none", "info", "warn", "critical"}
    BY <1>7 DEF CountWrite, Severity, Numbers
  <2> HIDE DEF row, r
  <2>6. \A i \in DOMAIN events' : events'[i].qty \in Int
                                  /\ events'[i].predicted \in Int \cup {Unknown}
    <3>1. /\ DOMAIN events' = DOMAIN events \cup {Len(events) + 1}
          /\ \A i \in DOMAIN events : events'[i] = events[i]
          /\ events'[Len(events) + 1] = row
      BY <1>t, <2>3
    <3> QED
      BY <2>2, <3>1 DEF Numbers
  <2>7. CASE ledger' = ledger
    BY <1>n, <2>4, <2>5, <2>6, <2>7
  <2>8. CASE ledger' # ledger
    <3>1. mode = "recipe_deducted" /\ ledger' = ledger \cup {CountAdjust(c)}
      BY <1>7, <2>8 DEF CountWrite, Numbers, AllModes
    <3>2. call[c].predicted \in Int
      <4>1. call[c].predicted = Total(ledger)
        BY <1>7, <3>1 DEF CountWrite, CallInv
      <4> QED
        BY <1>n, <4>1, TotalInt
    <3>3. CountAdjust(c).delta \in Int
      BY <1>n, <2>1, <3>2 DEF CountAdjust, r
    <3> QED
      BY <1>n, <2>4, <2>5, <2>6, <3>1, <3>3, FS_AddElement
  <2> QED
    BY <2>7, <2>8
<1>8. ASSUME NEW c \in Callers, OpenWrite(c)
      PROVE  /\ anchor' \in [qty : Int, at : Times] /\ look'.by \in Requests \cup {Nobody}
             /\ \A m \in ledger' : m.delta \in Int
             /\ IsFiniteSet(ledger')
  <2> DEFINE row == [key |-> Opening, type |-> "opening_balance",
                     delta |-> body[call[c].req].qty, at |-> When(c), made |-> call[c].start]
  <2>1. call[c].req \in Requests /\ When(c) \in Times /\ body[call[c].req].qty \in Int
    BY <1>1, <1>2, <1>8, <1>n, WhenTime DEF OpenWrite, Serving
  <2>2. row.delta \in Int /\ ledger' = ledger \cup {row}
    BY <1>8, <2>1 DEF OpenWrite
  <2>3. anchor' \in [qty : Int, at : Times] /\ look'.by \in Requests \cup {Nobody}
    BY <1>8, <2>1 DEF OpenWrite, Posted, Numbers
  <2> HIDE DEF row
  <2> QED
    BY <1>n, <2>2, <2>3, FS_AddElement
<1>9. ASSUME NEW x \in Happenings, Book(x)
      PROVE  /\ UNCHANGED <<anchor, look>>
             /\ \A m \in ledger' : m.delta \in Int
             /\ IsFiniteSet(ledger')
  <2>1. ledger' = ledger \cup {Movement(x)} /\ UNCHANGED <<anchor, look>>
    BY <1>9 DEF Book, BookSale, BookRefund, Receive, Adjust, Insert
  <2>2. Movement(x).delta \in Int
    BY StockAssumption DEF Movement, StockAssumption
  <2> QED
    BY <1>n, <2>1, <2>2, FS_AddElement
<1>10. late' \in BOOLEAN
  <2>1. ASSUME NEW x \in Happenings, BookSale(x) PROVE late' \in BOOLEAN
    BY <2>1 DEF BookSale
  <2> QED
    BY <2>1, Moves DEF Numbers
<1>11. /\ anchor' \in [qty : Int, at : Times] /\ look'.by \in Requests \cup {Nobody}
       /\ (\A m \in ledger' : m.delta \in Int) /\ IsFiniteSet(ledger')
  <2>1. CASE \E x \in Happenings : Book(x)
    BY <1>9, <2>1 DEF Numbers
  <2>2. CASE \E c \in Callers : CountWrite(c) \/ OpenWrite(c)
    BY <1>7, <1>8, <2>2
  <2>3. CASE UNCHANGED <<ledger, anchor, look>>
    BY <2>3 DEF Numbers
  <2> QED
    BY <2>1, <2>2, <2>3, Moves
<1>12. /\ drift' \in {"none", "info", "warn", "critical"}
       /\ \A i \in DOMAIN events' : events'[i].qty \in Int
                                    /\ events'[i].predicted \in Int \cup {Unknown}
  <2>1. CASE \E c \in Callers : CountWrite(c)
    BY <1>7, <2>1
  <2>2. CASE UNCHANGED <<events, drift>>
    BY <2>2 DEF Numbers
  <2> QED
    BY <2>1, <2>2, Moves
<1> QED
  BY <1>3, <1>4, <1>5, <1>6, <1>10, <1>11, <1>12 DEF Numbers

\* The key of a count's correction is nobody's yet.
LEMMA CorrectionIsNew ==
  ASSUME ShapeInv, LedgerInv
  PROVE  \A m \in ledger : m.key # <<"count_adjust", Len(events) + 1>>
<1>1. PICK S : Typed(S)
  BY DEF ShapeInv, Shape
<1>2. Len(events) \in Nat
  BY <1>1 DEF Typed
<1>3. <<"count_adjust", Len(events) + 1>> \in CountKeys
  BY <1>2 DEF CountKeys
<1>4. \A x \in Happenings \cup {Opening} : x # <<"count_adjust", Len(events) + 1>>
  BY <1>3, StockAssumption DEF StockAssumption
<1>5. \A n \in 1 .. Len(events) : <<"count_adjust", n>> # <<"count_adjust", Len(events) + 1>>
  BY <1>2
<1> QED
  BY <1>4, <1>5 DEF LedgerInv, RowsKnown, RowOf, Correction

LEMMA LedgerStep == ShapeInv /\ Numbers /\ LedgerInv /\ [Next]_vars => LedgerInv'
<1> SUFFICES ASSUME ShapeInv, Numbers, LedgerInv, [Next]_vars PROVE LedgerInv'
  OBVIOUS
<1>1. PICK S : Typed(S)
  BY DEF ShapeInv, Shape
<1>t. /\ happened \in [Happenings -> Times] /\ begun \in [Happenings -> Times]
      /\ events \in Seq(EventRows(S))
      /\ mode' = mode
  BY <1>1, Moves DEF Typed
<1>2. \A x \in Happenings : happened[x] # 0 => happened'[x] = happened[x]
  <2>1. ASSUME NEW y \in Happenings, Happen(y), NEW x \in Happenings, happened[x] # 0
        PROVE  happened'[x] = happened[x]
    BY <1>t, <2>1 DEF Happen
  <2> QED
    BY <2>1, Moves
<1>3. Len(events') >= Len(events) /\ Len(events) \in Nat /\ Len(events') \in Nat
  <2>1. CASE UNCHANGED events
    BY <1>t, <2>1
  <2>2. ASSUME NEW c \in Callers, CountWrite(c) PROVE Len(events') = Len(events) + 1
    <3>1. \A row : Len(Append(events, row)) = Len(events) + 1
      BY <1>t
    <3> QED
      BY <2>2, <3>1 DEF CountWrite
  <2> QED
    BY <1>t, <2>1, <2>2, Moves
<1>4. BegunHappened'
  <2> SUFFICES ASSUME NEW x \in Happenings, begun'[x] # 0 PROVE happened'[x] # 0
    BY DEF BegunHappened
  <2>1. begun'[x] = begun[x] \/ begun'[x] = 0 \/ happened[x] # 0
    <3>1. CASE UNCHANGED begun
      BY <3>1
    <3>2. ASSUME NEW y \in Happenings, Begin(y) \/ Abort(y)
          PROVE  begun'[x] = begun[x] \/ begun'[x] = 0 \/ happened[x] # 0
      BY <1>t, <3>2 DEF Begin, Abort
    <3>3. (\E y \in Happenings : Begin(y) \/ Abort(y)) \/ UNCHANGED begun
      BY DEF Next, vars, worldVars, Happen, Book, BookSale, BookRefund, Receive, Adjust, Insert,
             LookAt, Send, Count, Open, CountAgain, CountLock, CountWrite, OpenAgain, OpenCheck,
             OpenWrite, StoreResponse, Lose
    <3> QED
      BY <3>1, <3>2, <3>3
  <2>2. happened[x] # 0
    BY <2>1 DEF LedgerInv, BegunHappened
  <2> QED
    BY <1>2, <2>2
<1>5. \A m \in ledger : \A x \in Happenings : RowOf(m, x) => RowOf(m, x)'
  BY <1>t, <1>2 DEF RowOf, TypeOf
<1>6. \A m : Correction(m) => Correction(m)'
  BY <1>t, <1>3 DEF Correction
<1>7. \A m \in ledger : \/ \E x \in Happenings : RowOf(m, x)'
                        \/ m.key = Opening /\ m.type = "opening_balance"
                        \/ Correction(m)'
  BY <1>5, <1>6 DEF LedgerInv, RowsKnown
<1>8. ASSUME ledger' \subseteq ledger PROVE LedgerInv'
  BY <1>4, <1>7, <1>8 DEF LedgerInv, RowsKnown, OneRowEach
<1>9. ASSUME NEW row, ledger' \subseteq ledger \cup {row}, ~ Booked(row.key),
             \/ \E x \in Happenings : RowOf(row, x)'
             \/ row.key = Opening /\ row.type = "opening_balance"
             \/ Correction(row)'
      PROVE  LedgerInv'
  <2>1. OneRowEach'
    BY <1>9 DEF LedgerInv, OneRowEach, Booked
  <2>2. RowsKnown'
    BY <1>7, <1>9 DEF RowsKnown
  <2> QED
    BY <1>4, <2>1, <2>2 DEF LedgerInv
<1>10. ASSUME NEW x \in Happenings, Book(x) PROVE LedgerInv'
  <2>1. /\ ledger' = ledger \cup {Movement(x)} /\ ~ Booked(x) /\ begun[x] # 0
        /\ UNCHANGED happened
    BY <1>10 DEF Book, BookSale, BookRefund, Receive, Adjust, Insert, worldVars
  <2>. PICK row : row = Movement(x)
    OBVIOUS
  <2>2. row.key = x /\ RowOf(row, x)'
    BY <1>t, <2>1 DEF RowOf, Movement, TypeOf, LedgerInv, BegunHappened
  <2> QED
    BY <1>9, <2>1, <2>2
<1>11. ASSUME NEW c \in Callers, OpenWrite(c) PROVE LedgerInv'
  <2> DEFINE row == [key |-> Opening, type |-> "opening_balance",
                     delta |-> body[call[c].req].qty, at |-> When(c), made |-> call[c].start]
  <2>1. ledger' = ledger \cup {row} /\ ~ Booked(Opening)
    BY <1>11 DEF OpenWrite
  <2>2. row.key = Opening /\ row.type = "opening_balance"
    OBVIOUS
  <2> HIDE DEF row
  <2> QED
    BY <1>9, <2>1, <2>2
<1>12. ASSUME NEW c \in Callers, CountWrite(c) PROVE LedgerInv'
  <2>1. CASE ledger' = ledger
    BY <1>8, <2>1
  <2>2. CASE ledger' # ledger
    <3>1. mode # "count_anchored" /\ ledger' = ledger \cup {CountAdjust(c)}
      BY <1>12, <2>2 DEF CountWrite
    <3>2. mode = "recipe_deducted"
      BY <3>1 DEF Numbers, AllModes
    <3>3. Len(events') = Len(events) + 1
      <4>1. \A e : Len(Append(events, e)) = Len(events) + 1
        BY <1>t
      <4> QED
        BY <1>12, <4>1 DEF CountWrite
    <3>. PICK row : row = CountAdjust(c)
      OBVIOUS
    <3>k. row.key = <<"count_adjust", Len(events) + 1>> /\ row.type = "count_adjust"
      BY DEF CountAdjust
    <3>4. Correction(row)'
      BY <1>3, <1>t, <3>2, <3>3, <3>k DEF Correction
    <3>5. ~ Booked(row.key)
      BY <3>k, CorrectionIsNew DEF Booked
    <3> QED
      BY <1>9, <3>1, <3>4, <3>5
  <2> QED
    BY <2>1, <2>2
<1> QED
  BY <1>8, <1>10, <1>11, <1>12, Moves

\* In Mode A no row is a signal, and the balance is the whole ledger.
LEMMA BalanceA ==
  ASSUME LedgerInv, mode = "recipe_deducted"
  PROVE  (\A m \in ledger : m.type \notin Signals) /\ \A since : OnHand(since) = Total(ledger)
<1>1. \A x \in Happenings : TypeOf(x) \notin Signals
  BY StockAssumption DEF StockAssumption, TypeOf, Signals, Kinds, Adjustments
<1>2. \A m \in ledger : m.type \notin Signals
  BY <1>1 DEF LedgerInv, RowsKnown, RowOf, Correction, Signals
<1>3. {m \in ledger : m.type \notin Signals} = ledger
  BY <1>2
<1> QED
  BY <1>2, <1>3 DEF OnHand

\* Only a count that has the item adds rows while it is had.
LEMMA HeldLedger ==
  ASSUME LockInv, [Next]_vars, NEW c \in Callers, call[c].step = "locked"
  PROVE  ledger' = ledger \/ CountWrite(c)
<1>1. ItemHeld
  BY DEF ItemHeld
<1>2. \A x \in Happenings : ~ Book(x)
  BY <1>1 DEF Book, BookSale, BookRefund, Receive, Adjust, Insert
<1>3. \A d \in Callers : ~ OpenWrite(d)
  BY <1>1 DEF OpenWrite
<1>4. \A d \in Callers : CountWrite(d) => d = c
  BY DEF CountWrite, LockInv, OneLock
<1> QED
  BY <1>2, <1>3, <1>4, Moves

LEMMA CallStep == ShapeInv /\ LockInv /\ LedgerInv /\ CallInv /\ [Next]_vars => CallInv'
<1> SUFFICES ASSUME ShapeInv, LockInv, LedgerInv, CallInv, [Next]_vars, NEW c \in Callers
             PROVE  /\ call'[c].step \in InFlight => call'[c].start # 0
                    /\ call'[c].step = "locked" => Task[call'[c].req] = "count"
                    /\ call'[c].step = "checked" => Task[call'[c].req] = "opening"
                    /\ call'[c].step = "locked" /\ mode' = "recipe_deducted" =>
                         call'[c].predicted = Total(ledger')
  BY DEF CallInv
<1>1. PICK S : Typed(S)
  BY DEF ShapeInv, Shape
<1>2. Serving /\ mode' = mode
  BY Moves DEF ShapeInv
<1>3. CASE call'[c] = call[c]
  <2>1. ASSUME call[c].step = "locked" PROVE ledger' = ledger
    <3>1. ~ CountWrite(c)
      <4>1. Commit(c) => call'[c].step # "locked"
        BY <1>1, <1>2, <2>1, CommitTyped
      <4> QED
        BY <1>3, <2>1, <4>1 DEF CountWrite
    <3> QED
      BY <2>1, <3>1, HeldLedger
  <2> QED
    BY <1>2, <1>3, <2>1 DEF CallInv
<1>4. CASE call'[c].step \in {"idle", "committed"}
  BY <1>4 DEF InFlight
<1>5. CASE call'[c].step = "reserved" /\ call'[c].start = now' /\ Tick
  <2>1. now' # 0
    BY <1>1, <1>5, TickTime DEF Typed
  <2> QED
    BY <1>5, <2>1
<1>6. CASE /\ CountLock(c)
           /\ call'[c].step = "locked" /\ call'[c].predicted = Watermark(now')
           /\ call'[c].req = call[c].req /\ call'[c].start = call[c].start
  <2>1. call[c].step = "reserved" /\ Task[call[c].req] = "count" /\ ledger' = ledger
    BY <1>6 DEF CountLock, itemVars
  <2>2. mode = "recipe_deducted" => Watermark(now') = Total(ledger)
    BY BalanceA DEF Watermark
  <2> QED
    BY <1>2, <1>6, <2>1, <2>2 DEF CallInv, InFlight
<1>7. CASE /\ OpenCheck(c)
           /\ call'[c].step = "checked"
           /\ call'[c].req = call[c].req /\ call'[c].start = call[c].start
  BY <1>7 DEF OpenCheck, CallInv, InFlight
<1> QED
  BY <1>3, <1>4, <1>5, <1>6, <1>7, CallMoves DEF CallMoved

LEMMA NowMoves == ASSUME ShapeInv, [Next]_vars
                  PROVE  now \in Nat /\ now' \in Nat /\ now' >= now
<1>1. PICK S : Typed(S)
  BY DEF ShapeInv, Shape
<1>2. now \in Nat
  BY <1>1, StockAssumption DEF Typed, Times, StockAssumption
<1>3. now' = now \/ now' = now + 1
  BY DEF Next, vars, Tick, Happen, Begin, Abort, Book, BookSale, BookRefund, Receive, Adjust, Insert,
         LookAt, Send, Count, Open, CountAgain, CountLock, CountWrite, OpenAgain, OpenCheck,
         OpenWrite, StoreResponse, Lose
<1> QED
  BY <1>2, <1>3

LEMMA ReportsStep == ShapeInv /\ Numbers /\ Reports /\ [Next]_vars => Reports'
<1> SUFFICES ASSUME ShapeInv, Numbers, Reports, [Next]_vars PROVE Reports'
  OBVIOUS
<1>1. PICK S : Typed(S)
  BY DEF ShapeInv, Shape
<1>t. /\ body \in [Requests -> [qty : S, looked : Times]]
      /\ happened \in [Happenings -> Nat]
      /\ \A r \in Requests : body[r].looked \in Nat
      /\ now \in Nat /\ now' \in Nat /\ now' >= now
  BY <1>1, NowMoves, StockAssumption DEF Typed, Times, StockAssumption
<1>2. \A x \in Happenings : happened'[x] <= now'
  <2>1. CASE UNCHANGED happened
    BY <1>t, <2>1 DEF Reports
  <2>2. ASSUME NEW y \in Happenings, Happen(y) PROVE \A x \in Happenings : happened'[x] <= now'
    BY <1>t, <2>2 DEF Reports, Happen
  <2> QED
    BY <2>1, <2>2, Moves
<1>3. \A r \in Requests : body'[r].looked <= now'
  <2>1. CASE UNCHANGED body
    BY <1>t, <2>1 DEF Reports
  <2>2. ASSUME NEW q \in Requests, LookAt(q) PROVE \A r \in Requests : body'[r].looked <= now'
    BY <1>t, <2>2 DEF Reports, LookAt
  <2> QED
    BY <2>1, <2>2, Moves
<1>4. ASSUME NEW t \in Nat, t <= now PROVE By(t)' = By(t)
  <2>1. CASE UNCHANGED happened
    BY <2>1 DEF By, Shelved
  <2>2. ASSUME NEW y \in Happenings, Happen(y) PROVE By(t)' = By(t)
    <3>1. happened[y] = 0 /\ now' > now /\ happened' = [happened EXCEPT ![y] = now']
      BY <1>t, <2>2 DEF Happen, Tick
    <3>2. \A x \in Happenings \ {y} : happened'[x] = happened[x]
      BY <1>t, <3>1
    <3>3. happened'[y] > t
      BY <1>t, <1>4, <3>1
    <3>4. y \notin By(t) /\ y \notin By(t)'
      BY <1>t, <1>4, <3>1, <3>3 DEF By, Shelved
    <3> QED
      BY <3>2, <3>4 DEF By, Shelved
  <2> QED
    BY <2>1, <2>2, Moves
<1>5. ASSUME NEW r \in Requests, body'[r].looked # 0
      PROVE  body'[r].qty = Stocked + Sum(Effect, {x \in Happenings : happened'[x] # 0
                                                              /\ happened'[x] <= body'[r].looked})
  <2>. PICK t : t = body'[r].looked
    OBVIOUS
  <2>1. By(t)' = {x \in Happenings : happened'[x] # 0 /\ happened'[x] <= body'[r].looked}
    BY DEF By, Shelved
  <2>2. CASE body'[r] = body[r]
    <3>1. body[r].looked = t /\ t \in Nat /\ t <= now /\ t # 0
      BY <1>5, <1>t, <2>2 DEF Reports
    <3>2. body[r].qty = Stocked + Sum(Effect, By(t))
      BY <3>1 DEF Reports
    <3> QED
      BY <1>4, <2>1, <2>2, <3>1, <3>2
  <2>3. CASE body'[r] # body[r]
    <3>1. PICK q \in Requests : LookAt(q)
      BY <2>3, Moves
    <3>2. q = r
      BY <1>t, <2>3, <3>1 DEF LookAt
    <3>3. body'[r].qty = Shelf /\ body'[r].looked = now' /\ now' > now /\ UNCHANGED happened
      BY <1>t, <3>1, <3>2 DEF LookAt, Tick
    <3>4. \A x \in Happenings : happened[x] <= t
      BY <1>t, <3>3 DEF Reports
    <3>5. By(t)' = Shelved
      BY <3>3, <3>4 DEF By, Shelved
    <3> QED
      BY <2>1, <3>3, <3>5, ShelfInt
  <2> QED
    BY <2>2, <2>3
<1>6. (\A r \in Requests : body[r].looked # 0 =>
         body[r].qty = Stocked + Sum(Effect, By(body[r].looked)))'
  BY <1>5 DEF By, Shelved
<1> QED
  BY <1>2, <1>3, <1>6 DEF Reports

LEMMA LookStep ==
  ShapeInv /\ LockInv /\ Numbers /\ LedgerInv /\ CallInv /\ LookInv /\ [Next]_vars => LookInv'
<1> SUFFICES ASSUME ShapeInv, LockInv, Numbers, LedgerInv, CallInv, LookInv, [Next]_vars,
                    look'.by # Nobody
             PROVE  LookInv'
  BY DEF LookInv
<1>1. PICK S : Typed(S)
  BY DEF ShapeInv, Shape
<1>2. Serving /\ mode' = mode
  BY Moves DEF ShapeInv
<1>t. /\ body \in [Requests -> [qty : S, looked : Times]]
      /\ call \in [Callers -> CallRows(S)]
  BY <1>1 DEF Typed
<1>n. /\ \A r \in Requests : body[r].qty \in Int
      /\ \A m \in ledger : m.delta \in Int
      /\ IsFiniteSet(ledger)
  BY DEF Numbers
<1>b. \A r \in Requests : body[r].looked # 0 => body'[r] = body[r]
  <2>1. ASSUME NEW q \in Requests, LookAt(q), NEW r \in Requests, body[r].looked # 0
        PROVE  body'[r] = body[r]
    BY <1>t, <2>1 DEF LookAt
  <2> QED
    BY <2>1, Moves
<1>3. CASE UNCHANGED <<ledger, anchor, look>>
  BY <1>2, <1>3, <1>b DEF LookInv, Unseen
<1>4. ASSUME NEW x \in Happenings, Book(x) PROVE LookInv'
  <2>. PICK row : row = Movement(x)
    OBVIOUS
  <2>1. /\ ledger' = ledger \cup {row} /\ ~ Booked(x)
        /\ UNCHANGED <<anchor, look, body>>
    BY <1>4 DEF Book, BookSale, BookRefund, Receive, Adjust, Insert, worldVars
  <2>2. row.key = x /\ row.delta \in Int
    BY StockAssumption DEF Movement, StockAssumption
  <2>3. x \notin look.seen /\ row \notin ledger
    BY <2>1, <2>2 DEF Booked, LookInv
  <2>4. Unseen' = Unseen \cup {row} /\ row \notin Unseen /\ Unseen \in SUBSET ledger
    BY <2>1, <2>2, <2>3 DEF Unseen
  <2>5. Total(ledger') = Total(ledger) + row.delta
    BY <1>n, <2>1, <2>2, <2>3, TotalAdd
  <2>6. Total(Unseen') = Total(Unseen) + row.delta
    <3>1. IsFiniteSet(Unseen) /\ \A m \in Unseen : m.delta \in Int
      BY <1>n, <2>4, FS_Subset
    <3> QED
      BY <2>2, <2>4, <3>1, TotalAdd
  <2>7. Total(ledger) \in Int /\ Total(Unseen) \in Int
    BY <2>4, TotalPart
  <2>8. mode = "recipe_deducted" /\ (Task[look.by] = "count" \/ look.seen = {Opening}) =>
          Total(ledger') = body[look.by].qty + Total(Unseen')
    <3>1. mode = "recipe_deducted" /\ (Task[look.by] = "count" \/ look.seen = {Opening}) =>
            Total(ledger) = body[look.by].qty + Total(Unseen)
      BY <2>1 DEF LookInv
    <3>2. body[look.by].qty \in Int
      BY <1>n, <2>1 DEF LookInv
    <3> QED
      BY <2>2, <2>5, <2>6, <2>7, <3>1, <3>2
  <2>9. Total(ledger)' = Total(ledger') /\ Total(Unseen)' = Total(Unseen')
    BY DEF Total
  <2> QED
    BY <1>2, <2>1, <2>2, <2>4, <2>8, <2>9 DEF LookInv
<1>5. ASSUME NEW c \in Callers, call[c].step \in InFlight, look' = Posted(c), UNCHANGED body
      PROVE  /\ look'.by \in Requests /\ body'[look'.by].looked # 0
             /\ look'.by = call[c].req
             /\ look'.seen = {m.key : m \in ledger'}
             /\ Unseen' = {} /\ Total(Unseen)' = 0
             /\ When(c) # 0
  <2>1. call[c].req \in Requests /\ body[call[c].req].looked # 0
    BY <1>2, <1>5 DEF Serving, InFlight
  <2>2. look'.by = call[c].req /\ look'.seen = {m.key : m \in ledger'}
    BY <1>5 DEF Posted
  <2>3. Unseen' = {}
    BY <2>2 DEF Unseen
  <2>4. Total(Unseen)' = 0
    BY <2>3, TotalEmpty DEF Total
  <2>5. When(c) # 0
    BY <1>5, <2>1 DEF When, CallInv
  <2> QED
    BY <1>5, <2>1, <2>2, <2>3, <2>4, <2>5
<1>6. ASSUME NEW c \in Callers, CountWrite(c) PROVE LookInv'
  <2> DEFINE r == call[c].req
  <2>1. /\ call[c].step = "locked" /\ look' = Posted(c) /\ UNCHANGED body
        /\ call[c].step \in InFlight
    BY <1>6 DEF CountWrite, worldVars, InFlight
  <2>2. /\ r \in Requests /\ look'.by = r /\ body'[r].looked # 0
        /\ look'.seen = {m.key : m \in ledger'}
        /\ Unseen' = {} /\ Total(Unseen)' = 0 /\ When(c) # 0
    BY <1>5, <2>1
  <2>3. body[r].qty \in Int
    BY <1>n, <2>2
  <2>4. mode = "count_anchored" => anchor'.qty = body[r].qty /\ anchor'.at # 0
    BY <1>6, <2>2 DEF CountWrite
  <2>5. mode = "recipe_deducted" => Total(ledger') = body[r].qty
    <3> SUFFICES ASSUME mode = "recipe_deducted" PROVE Total(ledger') = body[r].qty
      OBVIOUS
    <3>1. call[c].predicted = Total(ledger) /\ Total(ledger) \in Int
      BY <1>n, <2>1, TotalInt DEF CallInv
    <3>2. CASE body[r].qty = call[c].predicted
      BY <1>6, <3>1, <3>2 DEF CountWrite
    <3>3. CASE body[r].qty # call[c].predicted
      <4>. PICK row : row = CountAdjust(c)
        OBVIOUS
      <4>1. ledger' = ledger \cup {row}
        BY <1>6, <3>3 DEF CountWrite
      <4>2. row.key = <<"count_adjust", Len(events) + 1>>
            /\ row.delta = body[r].qty - call[c].predicted
        BY DEF CountAdjust
      <4>3. row \notin ledger
        BY <4>2, CorrectionIsNew
      <4>4. Total(ledger') = Total(ledger) + row.delta
        BY <1>n, <2>3, <3>1, <4>1, <4>2, <4>3, TotalAdd
      <4> QED
        BY <2>3, <3>1, <4>2, <4>4
    <3> QED
      BY <3>2, <3>3
  <2>6. Total(ledger)' = Total(ledger')
    BY DEF Total
  <2> HIDE DEF r
  <2> QED
    BY <1>2, <2>1, <2>2, <2>3, <2>4, <2>5, <2>6 DEF LookInv
<1>7. ASSUME NEW c \in Callers, OpenWrite(c) PROVE LookInv'
  <2> DEFINE r == call[c].req
  <2>1. /\ call[c].step = "checked" /\ look' = Posted(c) /\ UNCHANGED body
        /\ call[c].step \in InFlight
    BY <1>7 DEF OpenWrite, worldVars, InFlight
  <2>2. /\ r \in Requests /\ look'.by = r /\ body'[r].looked # 0
        /\ look'.seen = {m.key : m \in ledger'}
        /\ Unseen' = {} /\ Total(Unseen)' = 0 /\ When(c) # 0
    BY <1>5, <2>1
  <2>3. body[r].qty \in Int /\ Task[r] = "opening"
    BY <1>n, <2>1, <2>2 DEF CallInv
  <2>4. mode = "count_anchored" => anchor'.qty = body[r].qty /\ anchor'.at # 0
    BY <1>7, <2>2 DEF OpenWrite
  <2>5. look'.seen = {Opening} => Total(ledger') = body[r].qty
    <3>. PICK row : row = [key |-> Opening, type |-> "opening_balance",
                           delta |-> body[r].qty, at |-> When(c), made |-> call[c].start]
      OBVIOUS
    <3>1. ledger' = ledger \cup {row} /\ ~ Booked(Opening)
      BY <1>7 DEF OpenWrite
    <3>2. look'.seen = {Opening} => ledger = {}
      BY <2>2, <3>1 DEF Booked
    <3>3. row.delta = body[r].qty
      OBVIOUS
    <3> HIDE DEF r
    <3>4. Total({row}) = row.delta
      BY <2>3, <3>3, TotalOne
    <3>5. look'.seen = {Opening} => ledger' = {row}
      BY <3>1, <3>2
    <3> QED
      BY <3>3, <3>4, <3>5
  <2>6. Total(ledger)' = Total(ledger')
    BY DEF Total
  <2> HIDE DEF r
  <2> QED
    BY <1>2, <2>1, <2>2, <2>3, <2>4, <2>5, <2>6 DEF LookInv
<1> QED
  BY <1>3, <1>4, <1>6, <1>7, Moves

\* The quantities, the rows and the reports stay in step.
LEMMA QuantityHolds == Spec => [](ShapeInv /\ LockInv /\ QuantityInv)
<1>1. Init => ShapeInv /\ LockInv /\ QuantityInv
  <2>1. ASSUME Init PROVE LedgerInv /\ CallInv /\ Reports /\ LookInv
    BY <2>1, StockAssumption
       DEF Init, LedgerInv, RowsKnown, OneRowEach, BegunHappened, CallInv, Reports, LookInv,
           Idle, InFlight, StockAssumption
  <2> QED
    BY <2>1, ShapeInit, LockInit, NumbersInit DEF QuantityInv
<1>2. (ShapeInv /\ LockInv /\ QuantityInv) /\ [Next]_vars => (ShapeInv /\ LockInv /\ QuantityInv)'
  BY ShapeStep, LockStep, NumbersStep, LedgerStep, CallStep, ReportsStep, LookStep
     DEF QuantityInv
<1> QED
  BY <1>1, <1>2, PTL DEF Spec

\* Every variable keeps its type (TypeOK): no sum or difference of quantities
\* is ever taken of a balance the item does not have.
THEOREM StockTypeCorrect == Spec => []TypeOK
<1>1. ShapeInv /\ LockInv /\ QuantityInv => TypeOK
  BY Typing DEF QuantityInv
<1> QED
  BY <1>1, QuantityHolds, PTL

\* From a count on, the balance of a Mode A item is what was counted and what
\* has been booked since (CountAnchors): the count's prediction is the balance
\* still when its correction is written, since it has the item.
THEOREM CountsAnchor == Spec => []CountAnchors
<1>1. ShapeInv /\ LockInv /\ QuantityInv => CountAnchors
  BY BalanceA DEF QuantityInv, LookInv, CountAnchors, Unseen
<1> QED
  BY <1>1, QuantityHolds, PTL

\* What happened by then and what happened after make up the shelf.
After(t) == {x \in Shelved : happened[x] > t}

LEMMA ShelfSplits ==
  ASSUME ShapeInv, Numbers, Reports, NEW r \in Requests, body[r].looked # 0
  PROVE  /\ Shelf = body[r].qty + Sum(Effect, After(body[r].looked))
         /\ Sum(Effect, After(body[r].looked)) \in Int
         /\ IsFiniteSet(After(body[r].looked))
<1> DEFINE t == body[r].looked
<1>1. PICK S : Typed(S)
  BY DEF ShapeInv, Shape
<1>2. t \in Nat /\ happened \in [Happenings -> Nat]
  BY <1>1, StockAssumption DEF Typed, Times, StockAssumption
<1>3. By(t) \cup After(t) = Shelved /\ By(t) \cap After(t) = {}
  BY <1>2 DEF By, After, Shelved
<1>4. /\ IsFiniteSet(By(t)) /\ By(t) \in SUBSET Happenings
      /\ IsFiniteSet(After(t)) /\ After(t) \in SUBSET Happenings
  <2>1. IsFiniteSet(Shelved) /\ Shelved \subseteq Happenings
    BY DEF Numbers, Shelved
  <2> QED
    BY <1>3, <2>1, FS_Subset
<1>5. body[r].qty = Stocked + Sum(Effect, By(t))
  BY DEF Reports
<1> HIDE DEF t
<1>6. /\ Sum(Effect, By(t)) \in Int /\ Sum(Effect, After(t)) \in Int
      /\ IntOn(Effect, By(t)) /\ IntOn(Effect, After(t))
  BY <1>4, EffectSum
<1>7. Sum(Effect, Shelved) = Sum(Effect, By(t)) + Sum(Effect, After(t))
  <2>1. Sum(Effect, By(t) \cup After(t)) = Sum(Effect, By(t)) + Sum(Effect, After(t))
    BY <1>3, <1>4, <1>6, SumDisjoint
  <2> QED
    BY <1>3, <2>1
<1>8. Shelf = Stocked + Sum(Effect, Shelved) /\ Stocked \in Int
  BY ShelfInt, StockAssumption DEF StockAssumption
<1>9. Shelf = body[r].qty + Sum(Effect, After(t))
  BY <1>5, <1>6, <1>7, <1>8
<1> QED
  BY <1>4, <1>6, <1>9 DEF t

\* Rows of happenings, each of them the row of one in xs, add up to its effect.
Moved(rows) == [m \in rows |-> Effect[m.key]]

LEMMA RowsMove ==
  ASSUME Numbers, LedgerInv, NEW rows \in SUBSET ledger, NEW xs \in SUBSET Happenings,
         IsFiniteSet(xs), \A m \in rows : m.key \in xs, \A x \in xs : \E m \in rows : m.key = x
  PROVE  Sum(Moved(rows), rows) = Sum(Effect, xs)
<1> DEFINE h == [m \in rows |-> m.key]
<1>1. IsFiniteSet(rows) /\ IntOn(Effect, xs)
  BY TotalPart, EffectSum
<1>2. IntOn(Moved(rows), rows)
  BY StockAssumption DEF StockAssumption, IntOn, Moved
<1>3. h \in [rows -> xs] /\ \A m \in rows : Moved(rows)[m] = Effect[h[m]]
  BY DEF Moved
<1>4. \A m, n \in rows : h[m] = h[n] => m = n
  BY DEF LedgerInv, OneRowEach
<1>5. \A x \in xs : \E m \in rows : h[m] = x
  OBVIOUS
<1> HIDE DEF h
<1> QED
  BY <1>1, <1>2, <1>3, <1>4, <1>5, SumCorresponds

\* The row of a happening.
LEMMA RowOfHappening ==
  ASSUME LedgerInv, NEW m \in ledger, m.key \in Happenings
  PROVE  RowOf(m, m.key)
<1>1. m.key # Opening /\ ~ Correction(m)
  <2>1. m.key \notin CountKeys /\ m.key # Opening
    BY StockAssumption DEF StockAssumption
  <2>2. \A n \in 1 .. Len(events) : <<"count_adjust", n>> \in CountKeys
    BY DEF CountKeys
  <2> QED
    BY <2>1, <2>2 DEF Correction
<1> QED
  BY <1>1 DEF LedgerInv, RowsKnown, RowOf
\* Mode A: the rows not seen by the last report are what happened after it.
LEMMA ListedA ==
  ASSUME ShapeInv, QuantityInv, mode = "recipe_deducted", look.by # Nobody, Summable,
         \A x \in Happenings : happened[x] # 0 => Booked(x) /\ OnItsSide(x)
  PROVE  Listed = Shelf
<1> USE DEF QuantityInv
<1> DEFINE r == look.by
           xs == After(body[r].looked)
<1>1. r \in Requests /\ body[r].looked # 0 /\ Unseen \in SUBSET ledger
      /\ \A m \in Unseen : m.key \in Happenings
  BY DEF LookInv, Unseen
<1>2. Shelf = body[r].qty + Sum(Effect, xs) /\ IsFiniteSet(xs) /\ xs \in SUBSET Happenings
  BY <1>1, ShelfSplits DEF After, Shelved
<1>3. Task[r] = "count" \/ look.seen = {Opening}
  BY <1>1, StockAssumption DEF Summable, StockAssumption
<1>4. Total(ledger) = body[r].qty + Total(Unseen)
  BY <1>3 DEF LookInv
<1>5. Listed = Total(ledger)
  BY BalanceA DEF Listed, Historical
<1>6. \A m \in Unseen : m.key \in xs /\ m.delta = Effect[m.key]
  <2> SUFFICES ASSUME NEW m \in Unseen PROVE m.key \in xs /\ m.delta = Effect[m.key]
    OBVIOUS
  <2>1. m \in ledger /\ m.key \in Happenings /\ m.key \notin look.seen
    BY <1>1 DEF Unseen
  <2>2. RowOf(m, m.key)
    BY <2>1, RowOfHappening
  <2>3. happened[m.key] > body[r].looked /\ happened[m.key] # 0
    BY <2>1, <2>2 DEF RowOf, OnItsSide
  <2>4. m.delta = Effect[m.key]
    <3>1. m.type \notin Signals
      BY <2>1, BalanceA
    <3> QED
      BY <2>2, <3>1 DEF RowOf
  <2> QED
    BY <2>1, <2>3, <2>4 DEF After, Shelved
<1>7. \A x \in xs : \E m \in Unseen : m.key = x
  <2> SUFFICES ASSUME NEW x \in xs PROVE \E m \in Unseen : m.key = x
    OBVIOUS
  <2>1. x \in Happenings /\ happened[x] # 0 /\ happened[x] > body[r].looked
    BY DEF After, Shelved
  <2>2. Booked(x) /\ x \notin look.seen
    BY <2>1 DEF OnItsSide
  <2> QED
    BY <2>2 DEF Booked, Unseen
<1>8. Total(Unseen) = Sum(Effect, xs)
  <2>1. Sum(Moved(Unseen), Unseen) = Sum(Effect, xs)
    <3> HIDE DEF xs
    <3> QED
      BY <1>1, <1>2, <1>6, <1>7, RowsMove
  <2>2. Sum(Deltas(Unseen), Unseen) = Sum(Moved(Unseen), Unseen)
    <3>1. IntOn(Deltas(Unseen), Unseen) /\ IsFiniteSet(Unseen)
      BY <1>1, TotalPart DEF IntOn, Deltas, Numbers
    <3>2. \A m \in Unseen : Deltas(Unseen)[m] = Moved(Unseen)[m]
      BY <1>6 DEF Deltas, Moved
    <3> QED
      BY <3>1, <3>2, SumSame
  <2> QED
    BY <2>1, <2>2, TotalIsSum
<1> QED
  BY <1>2, <1>4, <1>5, <1>8

\* Mode B: the rows recorded after the anchor are; sales are listed by amount.
LEMMA ListedB ==
  ASSUME ShapeInv, QuantityInv, mode = "count_anchored", look.by # Nobody, Summable,
         \A x \in Happenings : happened[x] # 0 => Booked(x) /\ OnItsSide(x)
  PROVE  Listed = Shelf
<1> USE DEF QuantityInv
<1> DEFINE r == look.by
           xs == After(body[r].looked)
           in == OfType(SinceCount, Arrivals)
           out == OfType(SinceCount, {"sale_signal"})
           sold == [m \in out |-> Abs(m.delta)]
<1>1. r \in Requests /\ body[r].looked # 0 /\ anchor.qty = body[r].qty /\ anchor.at # 0
  BY DEF LookInv
<1>2. Shelf = body[r].qty + Sum(Effect, xs) /\ IsFiniteSet(xs) /\ xs \in SUBSET Happenings
  BY <1>1, ShelfSplits DEF After, Shelved
<1>3. /\ SinceCount \in SUBSET ledger /\ in \in SUBSET ledger /\ out \in SUBSET ledger
      /\ in \cap out = {} /\ in \cup out = SinceCount
  BY DEF SinceCount, OfType, Arrivals, Summable
<1>4. Listed = anchor.qty + Total(in) - Sum(sold, out)
  BY <1>1 DEF Listed, SumFunction, Sum
<1>5. \A m \in SinceCount : m \in ledger /\ m.key \in Happenings /\ RowOf(m, m.key)
  BY RowOfHappening DEF Summable, SinceCount
<1>6. \A m \in SinceCount : m.key \in xs
  BY <1>5 DEF RowOf, OnItsSide, After, Shelved
<1>7. \A x \in xs : \E m \in SinceCount : m.key = x
  BY DEF OnItsSide, After, Shelved
<1>8. Sum(Moved(SinceCount), SinceCount) = Sum(Effect, xs)
  <2> HIDE DEF xs, in, out
  <2> QED
    BY <1>2, <1>3, <1>6, <1>7, RowsMove
<1>9. /\ IsFiniteSet(in) /\ IsFiniteSet(out)
      /\ \A f : IntOn(f, SinceCount) => IntOn(f, in) /\ IntOn(f, out)
      /\ IntOn(Moved(SinceCount), SinceCount)
  <2>1. IntOn(Moved(SinceCount), SinceCount)
    BY <1>5, StockAssumption DEF StockAssumption, IntOn, Moved
  <2>2. IsFiniteSet(in) /\ IsFiniteSet(out)
    <3> HIDE DEF in, out
    <3> QED
      BY <1>3, TotalPart
  <2>3. \A f : IntOn(f, SinceCount) => IntOn(f, in) /\ IntOn(f, out)
    BY <1>3 DEF IntOn
  <2> QED
    BY <2>1, <2>2, <2>3
<1> DEFINE g == Moved(SinceCount)
<1>10. Sum(g, SinceCount) = Sum(g, in) + Sum(g, out) /\ Sum(g, in) \in Int /\ Sum(g, out) \in Int
  <2> HIDE DEF g, in, out
  <2>1. IntOn(g, in) /\ IntOn(g, out)
    BY <1>9 DEF g
  <2>2. Sum(g, in \cup out) = Sum(g, in) + Sum(g, out)
    BY <1>3, <1>9, <2>1, SumDisjoint
  <2> QED
    BY <1>3, <1>9, <2>1, <2>2, SumInt
<1>11. Total(in) = Sum(g, in)
  <2>1. \A m \in in : Deltas(in)[m] = g[m]
    <3> SUFFICES ASSUME NEW m \in in PROVE m.delta = Effect[m.key] /\ m \in SinceCount
      BY DEF Deltas, Moved
    <3>1. m \in SinceCount /\ m.type \notin Signals
      BY DEF OfType, Arrivals, Signals
    <3> QED
      BY <1>5, <3>1 DEF RowOf
  <2>2. IntOn(Deltas(in), in)
    BY <1>3 DEF IntOn, Deltas, Numbers
  <2> HIDE DEF g, in
  <2> QED
    BY <1>9, <2>1, <2>2, SumSame, TotalIsSum
<1>12. Sum(sold, out) = -Sum(g, out)
  <2>1. \A m \in out : sold[m] = -g[m]
    <3> SUFFICES ASSUME NEW m \in out PROVE Abs(m.delta) = -Effect[m.key] /\ m \in SinceCount
      BY DEF Moved
    <3>1. m \in SinceCount /\ m.type = "sale_signal"
      BY DEF OfType
    <3>2. m.key \in Happenings /\ RowOf(m, m.key)
      BY <1>5, <3>1
    <3>3. Kind[m.key] = "sale"
      BY <3>1, <3>2, StockAssumption DEF RowOf, TypeOf, StockAssumption, Kinds, Adjustments
    <3>4. m.delta = -Effect[m.key] /\ Effect[m.key] \in Int /\ Effect[m.key] <= 0
      BY <3>1, <3>2, <3>3, StockAssumption DEF RowOf, Signals, StockAssumption
    <3> QED
      BY <3>1, <3>4 DEF Abs
  <2>2. IntOn(g, out)
    BY <1>9
  <2> HIDE DEF g, out, sold
  <2> QED
    BY <1>9, <2>1, <2>2, SumNegated
<1>13. anchor.qty \in Int
  BY DEF Numbers
<1> HIDE DEF xs, in, out, sold, g
<1> QED
  BY <1>1, <1>2, <1>4, <1>8, <1>10, <1>11, <1>12, <1>13 DEF g

\* The list shows what is on the shelf once all that happened is booked on its
\* side of the last report (ShelfMatches): what the client saw is what had
\* happened by then, and the rows that are added to it are, one to one, what
\* happened after.
THEOREM ListShowsShelf == Spec => []ShelfMatches
<1>1. ShapeInv /\ LockInv /\ QuantityInv => ShelfMatches
  BY ListedA, ListedB DEF ShelfMatches, QuantityInv, Numbers, AllModes
<1> QED
  BY <1>1, QuantityHolds, PTL
=============================================================================
