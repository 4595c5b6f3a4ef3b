-------------------------------- MODULE Stock --------------------------------
(***************************************************************************)
(* The stock of one inventory item: the ledger of its movements, the count *)
(* its quantity is anchored to, and the requests that count it or give it  *)
(* an opening balance while sales and receipts are booked.                 *)
(*                                                                         *)
(* What happens on the shelf and when it is booked are two moments.  A     *)
(* booking and a request each lie in one transaction that has stamped its  *)
(* rows (created_at) when it began.  A count locks the item row FOR UPDATE *)
(* from before it reads the ledger until it commits; a movement inserted   *)
(* meanwhile waits for that row (its foreign key).  A request with an      *)
(* Idempotency-Key commits its effect first and its response after.        *)
(*                                                                         *)
(* Clocks have microseconds: two readings of the clock never agree, so     *)
(* each reading of it here is a tick.  No code writes yield factors: 1.    *)
(***************************************************************************)
EXTENDS Integers, Sequences, FiniteSets, Functions

CONSTANTS
  Modes,       \* inventory_items.inventory_mode: the item's is chosen once
  Happenings,  \* what happens on the shelf and is booked as a movement
  Kind,        \* Kind[x]: what it is
  Effect,      \* Effect[x]: the quantity it adds to the shelf; a sale adds none
               \* (CHECKs on recipes, units and sale_line_items: no negative factor)
  Reversed,    \* Reversed[x]: the sale a refund takes back
  Stocked,     \* the quantity on the shelf at first
  Requests,    \* what clients ask for; each may be sent again and again
  Task,        \* Task[r]: count or opening
  Keyed,       \* the requests sent with an Idempotency-Key
  Dated,       \* the requests that say when the client looked
  Callers,     \* requests served at the same time
  Opening,     \* the opening movement
  Nobody, Unknown,  \* no request; SQL's NULL
  LateAfter,   \* 30 minutes, in ticks
  MaxTime      \* bound: ticks

AllModes == {"recipe_deducted", "count_anchored"}
Adjustments == {"adjustment", "count_adjust", "waste"}
Kinds    == {"sale", "refund", "receive"} \cup Adjustments
Times    == 0 .. MaxTime           \* 0: not yet, or NULL
CountKeys == {"count_adjust"} \X Nat  \* the keys of counts' corrections

ASSUME StockAssumption ==
  /\ Modes \subseteq AllModes
  /\ Kind \in [Happenings -> Kinds] /\ Effect \in [Happenings -> Int]
  /\ \A x \in Happenings : Kind[x] = "refund" => Reversed[x] \in Happenings
  /\ \A x \in Happenings : Kind[x] = "sale" => Effect[x] <= 0
  /\ Opening \notin Happenings
  /\ \A x \in Happenings \cup {Opening} : x \notin CountKeys
  /\ Stocked \in Nat
  /\ Task \in [Requests -> {"count", "opening"}]
  /\ Keyed \subseteq Requests /\ Dated \subseteq Requests
  /\ Nobody \notin Requests /\ Unknown \notin Int
  /\ MaxTime \in Nat /\ LateAfter \in Nat

VARIABLES
  mode,      \* inventory_items.inventory_mode
  anchor,    \* inventory_items: last_count_quantity and last_count_at
  ledger,    \* inventory_movements
  events,    \* inventory_count_events
  drift,     \* the severity of the alert integrity_drift_high
  late,      \* is the alert late_signal_reconciliation raised?
  keys,      \* idempotency_keys
  now,       \* the clock
  happened,  \* when each thing happened on the shelf
  begun,     \* when the transaction that books it began
  body,      \* the quantity each request reports and when it was seen
  call,      \* each caller's place in its endpoint
  look       \* history: the last count or opening posted, and what preceded it

itemVars  == <<mode, anchor, ledger, events, drift, late>>
worldVars == <<happened, begun, body>>
vars == <<itemVars, keys, now, worldVars, call, look>>

Idle == [step |-> "idle", req |-> Nobody, start |-> 0, cutoff |-> 0, predicted |-> Unknown]

TypeOK ==
  /\ mode \in AllModes
  /\ anchor \in [qty : Int, at : Times]
  /\ \A m \in ledger : m.delta \in Int /\ m.at \in Times /\ m.made \in Times
  /\ events \in Seq([by : Requests, at : Times, qty : Int,
                     predicted : Int \cup {Unknown}, cutoff : Times])
  /\ drift \in {"none", "info", "warn", "critical"} /\ late \in BOOLEAN
  /\ keys \in [Keyed -> {"none", "open", "done"}]
  /\ now \in Times
  /\ happened \in [Happenings -> Times] /\ begun \in [Happenings -> Times]
  /\ body \in [Requests -> [qty : Int, looked : Times]]
  /\ call \in [Callers -> [step : {"idle", "reserved", "checked", "locked", "committed"},
                           req : Requests \cup {Nobody}, start : Times,
                           cutoff : Times, predicted : Int \cup {Unknown}]]
  /\ look.by \in Requests \cup {Nobody}

Init ==
  /\ mode \in Modes
  /\ anchor = [qty |-> 0, at |-> 0]
  /\ ledger = {} /\ events = << >> /\ drift = "none" /\ late = FALSE
  /\ keys = [r \in Keyed |-> "none"]
  /\ now = 0
  /\ happened = [x \in Happenings |-> 0] /\ begun = [x \in Happenings |-> 0]
  /\ body = [r \in Requests |-> [qty |-> 0, looked |-> 0]]
  /\ call = [c \in Callers |-> Idle]
  /\ look = [by |-> Nobody, seen |-> {}]

-----------------------------------------------------------------------------
(* Quantities *)

Total(rows) == SumFunction([m \in rows |-> m.delta])
Abs(n) == IF n < 0 THEN -n ELSE n

Signals == {"sale_signal", "sale_signal_reversal"}
Arrivals == {"receive", "transfer_in", "count_adjust", "opening_balance"}
OfType(rows, types) == {m \in rows : m.type \in types}

\* What on_hand() returns when the rows `since` lie after its boundary.
OnHand(since) ==
  CASE mode = "recipe_deducted" -> Total({m \in ledger : m.type \notin Signals})
    [] mode = "count_anchored" /\ anchor.at # 0 ->
         anchor.qty + Total(OfType(since, Arrivals)) - Total(OfType(since, Signals))
    [] OTHER -> Unknown

Watermark(cutoff) == OnHand({m \in ledger : m.made > cutoff})
SinceCount == {m \in ledger : m.at > anchor.at}
Historical == OnHand(SinceCount)

\* The number GET /inventory/items shows.
Listed ==
  CASE mode = "count_anchored" /\ anchor.at # 0 ->
         anchor.qty + Total(OfType(SinceCount, Arrivals))
           - SumFunction([m \in OfType(SinceCount, {"sale_signal"}) |-> Abs(m.delta)])
    [] OTHER -> Historical

Severity(predicted, counted) ==
  LET gap == 100 * Abs(predicted - counted)
  IN  IF gap > 20 * counted THEN "critical"
      ELSE IF gap > 5 * counted THEN "warn" ELSE "info"

-----------------------------------------------------------------------------
(* The shelf, and the client who looks at it *)

Shelf == Stocked + SumFunctionOnSet(Effect, {x \in Happenings : happened[x] # 0})

Booked(k) == \E m \in ledger : m.key = k
ItemHeld  == \E c \in Callers : call[c].step = "locked"

Tick == now < MaxTime /\ now' = now + 1

Happen(x) ==
  /\ happened[x] = 0 /\ Tick
  /\ Kind[x] = "refund" => Booked(Reversed[x])
  /\ Shelf + Effect[x] >= 0
  /\ happened' = [happened EXCEPT ![x] = now']
  /\ UNCHANGED <<itemVars, keys, begun, body, call, look>>

LookAt(r) ==
  /\ body[r].looked = 0 /\ Tick
  /\ body' = [body EXCEPT ![r] = [qty |-> Shelf, looked |-> now']]
  /\ UNCHANGED <<itemVars, keys, happened, begun, call, look>>

-----------------------------------------------------------------------------
(* Booking what happened: the depletion worker, a receipt's commit, an adjustment *)

TypeOf(x) ==
  CASE Kind[x] = "sale"   -> IF mode = "count_anchored" THEN "sale_signal" ELSE "sale_depletion"
    [] Kind[x] = "refund" -> IF mode = "count_anchored" THEN "sale_signal_reversal"
                                                        ELSE "sale_depletion_reversal"
    [] OTHER -> Kind[x]

\* A sale carries the vendor's time; the other rows the default, now().
Movement(x) ==
  [key |-> x, type |-> TypeOf(x),
   delta |-> IF TypeOf(x) \in Signals THEN -Effect[x] ELSE Effect[x],
   at |-> IF Kind[x] = "sale" THEN happened[x] ELSE begun[x],
   made |-> begun[x]]

Begin(x) ==
  /\ happened[x] # 0 /\ begun[x] = 0 /\ Tick
  /\ begun' = [begun EXCEPT ![x] = now']
  /\ UNCHANGED <<itemVars, keys, happened, body, call, look>>

Abort(x) ==
  /\ begun[x] # 0 /\ ~ Booked(x)
  /\ begun' = [begun EXCEPT ![x] = 0]
  /\ UNCHANGED <<itemVars, keys, now, happened, body, call, look>>

\* Mutant: the alert compares with the count's own time, not its cutoff.
CrossesCount_ByCountTime(x) ==
  /\ now - happened[x] > LateAfter
  /\ \E i \in DOMAIN events : events[i].at > happened[x]

CrossesCount(x) ==
  /\ now - happened[x] > LateAfter
  /\ \E i \in DOMAIN events : events[i].cutoff > happened[x]

\* Mutant: the insert does not wait for a count in progress.
Insert_NoWait(x) ==
  /\ begun[x] # 0 /\ ~ Booked(x)
  /\ ledger' = ledger \cup {Movement(x)}
  /\ UNCHANGED <<mode, anchor, events, drift, keys, now, worldVars, call, look>>

\* ON CONFLICT DO NOTHING, or a key nobody else uses.
Insert(x) ==
  /\ begun[x] # 0 /\ ~ Booked(x) /\ ~ ItemHeld
  /\ ledger' = ledger \cup {Movement(x)}
  /\ UNCHANGED <<mode, anchor, events, drift, keys, now, worldVars, call, look>>

BookSale(x) ==
  /\ Kind[x] = "sale" /\ Insert(x)
  /\ late' = (late \/ CrossesCount(x))

BookRefund(x) == Kind[x] = "refund" /\ Insert(x) /\ UNCHANGED late

Receive(x) == Kind[x] = "receive" /\ Insert(x) /\ UNCHANGED late

Adjust(x) == Kind[x] \in Adjustments /\ Insert(x) /\ UNCHANGED late

-----------------------------------------------------------------------------
(* Requests *)

\* A key's row is in a transaction not yet committed: the second INSERT waits.
KeyHeld(r) == \E c \in Callers : /\ call[c].req = r
                                 /\ call[c].step \in {"reserved", "checked", "locked"}

\* Mutant: a key without a response is taken for a new one.
Send_OpenProceeds(c, r) ==
  /\ call[c].step = "idle" /\ body[r].looked # 0
  /\ r \in Keyed => ~ KeyHeld(r) /\ keys[r] # "done"
  /\ Tick
  /\ call' = [call EXCEPT ![c] = [Idle EXCEPT !.step = "reserved", !.req = r, !.start = now']]
  /\ UNCHANGED <<itemVars, keys, worldVars, look>>

\* The request arrives and, with a key, passes check_and_lock: a key already
\* used is answered 409, or the stored response, and changes nothing.
Send(c, r) ==
  /\ call[c].step = "idle" /\ body[r].looked # 0
  /\ r \in Keyed => ~ KeyHeld(r) /\ keys[r] = "none"
  /\ Tick
  /\ call' = [call EXCEPT ![c] = [Idle EXCEPT !.step = "reserved", !.req = r, !.start = now']]
  /\ UNCHANGED <<itemVars, keys, worldVars, look>>

\* Mutant: a count without a time is stored without one.
When_Missing(c) ==
  LET r == call[c].req IN IF r \in Dated THEN body[r].looked ELSE Unknown

When(c) == LET r == call[c].req IN IF r \in Dated THEN body[r].looked ELSE call[c].start

\* The commit of the request's effect: its key's row is there for all to see.
Commit(c) ==
  LET r == call[c].req
  IN  IF r \in Keyed
      THEN /\ keys' = [keys EXCEPT ![r] = "open"]
           /\ call' = [call EXCEPT ![c] = [Idle EXCEPT !.step = "committed", !.req = r]]
      ELSE call' = [call EXCEPT ![c] = Idle] /\ UNCHANGED keys

\* UNIQUE (tenant_id, idempotency_key): item, counted_at and quantity.
SameCount(r) == \E i \in DOMAIN events : /\ r \in Dated
                                         /\ events[i].at = body[r].looked
                                         /\ events[i].qty = body[r].qty

CountAgain(c) ==
  /\ call[c].step = "reserved" /\ Task[call[c].req] = "count" /\ ~ ItemHeld
  /\ SameCount(call[c].req)
  /\ Commit(c)
  /\ UNCHANGED <<itemVars, now, worldVars, look>>

CountLock(c) ==
  /\ call[c].step = "reserved" /\ Task[call[c].req] = "count" /\ ~ ItemHeld
  /\ ~ SameCount(call[c].req)
  /\ Tick
  /\ call' = [call EXCEPT ![c] = [@ EXCEPT !.step = "locked", !.cutoff = now',
                                           !.predicted = Watermark(now')]]
  /\ UNCHANGED <<itemVars, keys, worldVars, look>>

\* Mutant: the correction has the sign of the reported drift.
CountAdjust_Swapped(c) ==
  [key |-> <<"count_adjust", Len(events) + 1>>, type |-> "count_adjust",
   delta |-> call[c].predicted - body[call[c].req].qty,
   at |-> When(c), made |-> call[c].start]

CountAdjust(c) ==
  [key |-> <<"count_adjust", Len(events) + 1>>, type |-> "count_adjust",
   delta |-> body[call[c].req].qty - call[c].predicted,
   at |-> When(c), made |-> call[c].start]

\* The rows a posted quantity stands for; a count's own correction is one.
Posted(c) == [by |-> call[c].req, seen |-> {m.key : m \in ledger'}]

CountWrite(c) ==
  LET r == call[c].req  counted == body[r].qty  predicted == call[c].predicted
  IN  /\ call[c].step = "locked"
      /\ events' = Append(events, [by |-> r, at |-> When(c), qty |-> counted,
                                   predicted |-> predicted, cutoff |-> call[c].cutoff])
      /\ IF mode = "count_anchored"
         THEN anchor' = [qty |-> counted, at |-> When(c)] /\ UNCHANGED ledger
         ELSE /\ ledger' = IF counted # predicted THEN ledger \cup {CountAdjust(c)} ELSE ledger
              /\ UNCHANGED anchor
      /\ drift' = IF predicted # Unknown /\ counted > 0 THEN Severity(predicted, counted)
                                                       ELSE drift
      /\ look' = Posted(c)
      /\ Commit(c)
      /\ UNCHANGED <<mode, late, now, worldVars>>

\* An item has one opening balance: a second request gets the first one's id.
OpenAgain(c) ==
  /\ call[c].step = "reserved" /\ Task[call[c].req] = "opening" /\ Booked(Opening)
  /\ Commit(c)
  /\ UNCHANGED <<itemVars, now, worldVars, look>>

\* The trigger has found no other movement; the foreign key still waits.
OpenCheck(c) ==
  /\ call[c].step = "reserved" /\ Task[call[c].req] = "opening"
  /\ ledger = {}
  /\ call' = [call EXCEPT ![c].step = "checked"]
  /\ UNCHANGED <<itemVars, keys, now, worldVars, look>>

OpenWrite(c) ==
  LET quantity == body[call[c].req].qty
  IN  /\ call[c].step = "checked" /\ ~ ItemHeld /\ ~ Booked(Opening)
      /\ ledger' = ledger \cup {[key |-> Opening, type |-> "opening_balance",
                                 delta |-> quantity, at |-> When(c), made |-> call[c].start]}
      /\ anchor' = IF mode = "count_anchored" THEN [qty |-> quantity, at |-> When(c)]
                                              ELSE anchor
      /\ look' = Posted(c)
      /\ Commit(c)
      /\ UNCHANGED <<mode, events, drift, late, now, worldVars>>

StoreResponse(c) ==
  /\ call[c].step = "committed"
  /\ keys' = [keys EXCEPT ![call[c].req] = "done"]
  /\ call' = [call EXCEPT ![c] = Idle]
  /\ UNCHANGED <<itemVars, now, worldVars, look>>

\* The process dies, or the database refuses a row: the transaction is lost.
Lose(c) ==
  /\ call[c].step # "idle"
  /\ call' = [call EXCEPT ![c] = Idle]
  /\ UNCHANGED <<itemVars, keys, now, worldVars, look>>

Count(c) == CountAgain(c) \/ CountLock(c) \/ CountWrite(c)
Open(c)  == OpenAgain(c) \/ OpenCheck(c) \/ OpenWrite(c)

Book(x)  == BookSale(x) \/ BookRefund(x) \/ Receive(x) \/ Adjust(x)

Next ==
  \/ \E x \in Happenings : Happen(x) \/ Begin(x) \/ Abort(x) \/ Book(x)
  \/ \E r \in Requests : LookAt(r)
  \/ \E c \in Callers, r \in Requests : Send(c, r)
  \/ \E c \in Callers : Count(c) \/ Open(c) \/ StoreResponse(c) \/ Lose(c)

Spec == Init /\ [][Next]_vars

-----------------------------------------------------------------------------
(* Properties *)

\* A count sent twice takes effect once, if its request carries an
\* Idempotency-Key or says when the client looked, whatever crashes and whoever
\* else is served (check_and_lock; the count's own key).
AppliedOnce ==
  \A r \in Keyed \cup Dated : \A i, j \in DOMAIN events :
    events[i].by = r /\ events[j].by = r => i = j

\* Mode A: from a count on, the balance is what was counted and what has been
\* booked since: no movement slips in between the sum the count read and the
\* correction it wrote (record_count_event, the lock on the item row).
CountAnchors ==
  mode = "recipe_deducted" /\ look.by # Nobody /\ Task[look.by] = "count"
    => OnHand({}) = body[look.by].qty + Total({m \in ledger : m.key \notin look.seen})

\* A sale that began to be booked after a count, long after it was made before
\* the count, has raised the late-signal alert (_maybe_late_signal_alert): its
\* query cannot miss the event of a count still in progress.
LateSalesFlagged ==
  \A m \in ledger : \A i \in DOMAIN events :
    /\ m.type \in {"sale_depletion", "sale_signal"}
    /\ m.at < events[i].cutoff /\ events[i].cutoff < m.made
    /\ m.made - m.at > LateAfter
    => late

\* What the list can sum up to the shelf: in Mode B it leaves refunds, waste and
\* corrections out, and adds an opening balance older than the count's report.
Summable ==
  IF mode = "recipe_deducted"
  THEN Task[look.by] = "opening" => look.seen = {Opening}
  ELSE \A m \in SinceCount : /\ m.key \in Happenings
                             /\ m.type \in Arrivals \cup {"sale_signal"}

\* The documented boundary of a count, its cutoff against created_at, and the
\* rows beyond it.  Only a count has one.
LastCutoff  == events[Len(events)].cutoff
SinceCutoff == {m \in ledger : m.made > LastCutoff}

\* x lies on the same side of the report on the shelf and in the books: in Mode
\* A by the order of booking; in Mode B by the recorded time, which the list
\* uses, and by the created time, which the documentation does.
OnItsSide(x) ==
  LET after == happened[x] > body[look.by].looked
  IN  IF mode = "recipe_deducted" THEN after = (x \notin look.seen)
      ELSE /\ after = (\E m \in SinceCount : m.key = x)
           /\ Task[look.by] = "count" => after = (\E m \in SinceCutoff : m.key = x)

\* When all that happened is booked, and each of it on its side of the last
\* report, the list shows what is on the shelf (list_inventory_items, on_hand).
\* A late sale, on which Mode B's two boundaries disagree, is left out here:
\* LateSaleDeducted is about it.
ShelfMatches ==
  (/\ look.by # Nobody /\ Summable
   /\ \A x \in Happenings : happened[x] # 0 => Booked(x) /\ OnItsSide(x))
  => Listed = Shelf

\* A sale of a count-anchored item made before a count and booked late, after
\* it, is included in the quantity on hand from then on
\* (inventory_accounting_semantics.md, sections 3, 4 and 8): the quantity
\* listed falls by what it took.
LateSaleDeducted ==
  [][\A m \in ledger' \ ledger :
       /\ m.type = "sale_signal" /\ events # << >>
       /\ m.at < LastCutoff /\ LastCutoff < m.made /\ m.made - m.at > LateAfter
       => Listed' = Listed - m.delta]_vars

\* A count's prediction is the on-hand quantity just before it
\* (record_count_event: "predicted stock").
PredictedIsOnHand ==
  [][\A i \in DOMAIN events' \ DOMAIN events : events'[i].predicted = Historical]_vars
=============================================================================
