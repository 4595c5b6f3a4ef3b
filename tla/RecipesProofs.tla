--------------------------- MODULE RecipesProofs ---------------------------
(***************************************************************************)
(* Theorems about recipes and modifiers, for any number of dishes,         *)
(* modifiers, ingredients and requests.                                    *)
(***************************************************************************)
EXTENDS Recipes, FiniteSetTheorems, SequenceTheorems, TLAPS

-----------------------------------------------------------------------------
(* The shape of a step. *)

(* A request that ends and leaves nothing behind.                          *)
Quits(c) == Close(c) /\ UNCHANGED <<status, pointer, draft, versions, rows, drafts>>

(* Every step is one of nine, of a request on a thing.                     *)
LEMMA StepCases ==
  ASSUME RecipesAssumption, RecipesNext
  PROVE  \/ \E m \in Modifiers : SyncModifier(m)
         \/ \E c \in Requests, t \in Things, o \in Ops, ls \in SUBSET Ingredients :
              Start(c, o, t, ls)
         \/ \E c \in Requests :
              \/ Quits(c) \/ SaveRecipe(c) \/ SaveModifier(c) \/ Skip(c)
              \/ BeginConfirm(c) \/ Resolve(c) \/ FinishConfirm(c) \/ Unconfirm(c)
<1>1. ASSUME NEW c \in Requests, NEW t \in Things, NEW ls \in Lists[t], Save(c, t, ls)
      PROVE  ls \in SUBSET Ingredients /\ "save" \in Ops /\ Start(c, "save", t, ls)
  BY <1>1 DEF RecipesAssumption, Save, Ops
<1>2. ASSUME NEW c \in Requests, NEW t \in Things, NEW o \in Ops, Ask(c, o, t)
      PROVE  {} \in SUBSET Ingredients /\ Start(c, o, t, {})
  BY <1>2 DEF Ask
<1>3. ASSUME NEW c \in Requests, Step(c) \/ Abandon(c)
      PROVE  \/ Quits(c) \/ SaveRecipe(c) \/ SaveModifier(c) \/ Skip(c)
             \/ BeginConfirm(c) \/ Resolve(c) \/ FinishConfirm(c) \/ Unconfirm(c)
  BY <1>3 DEF Step, Abandon, Quits, InsertFails, RefuseConfirm, UnitConflict,
              RefuseUnconfirm, BreakDeadlock
<1> QED
  BY <1>1, <1>2, <1>3 DEF RecipesNext

(* A request at rest is a transaction.                                     *)
LEMMA ClosedRequest ==
  ASSUME RecipesAssumption
  PROVE  Closed \in Transactions /\ Closed.step = "closed"
<1>1. 0 \in 0 .. MaxDrafts /\ <<>> \in Seq(Rows)
  BY DEF RecipesAssumption
<1> QED
  BY <1>1 DEF Closed, Transactions, Statuses

(* The records a request's first read and a confirm make of it.            *)
Asked(o, t, ls, r, s, v) ==
  [Closed EXCEPT !.step = "open", !.op = o, !.on = t, !.lines = ls,
                 !.rev = r, !.seen = s, !.version = v]

Resolving(row, ls, r, q) ==
  [row EXCEPT !.step = "confirming", !.lines = ls, !.rev = r, !.todo = q]

Resolved(row, q, m) == [row EXCEPT !.todo = q, !.made = m]

LEMMA StartedRequest ==
  ASSUME RecipesAssumption, NEW o \in Ops, NEW t \in Things, NEW ls \in SUBSET Ingredients,
         NEW r \in 0 .. MaxDrafts, NEW s \in Statuses, NEW v \in Nat
  PROVE  LET new == Asked(o, t, ls, r, s, v) IN
         /\ new \in Transactions /\ new.step = "open" /\ new.op = o /\ new.on = t
         /\ new.lines = ls /\ new.rev = r /\ new.version = v
<1>1. PICK row \in Transactions : row = Closed
  BY ClosedRequest
<1>2. LET new == [row EXCEPT !.step = "open", !.op = o, !.on = t, !.lines = ls,
                             !.rev = r, !.seen = s, !.version = v] IN
      /\ new \in Transactions /\ new.step = "open" /\ new.op = o /\ new.on = t
      /\ new.lines = ls /\ new.rev = r /\ new.version = v
  BY DEF Transactions
<1> QED
  BY <1>1, <1>2 DEF Asked

LEMMA ConfirmingRequest ==
  ASSUME NEW row \in Transactions, NEW ls \in SUBSET Ingredients, NEW r \in 0 .. MaxDrafts,
         NEW q \in Seq(Rows)
  PROVE  LET new == Resolving(row, ls, r, q) IN
         /\ new \in Transactions /\ new.step = "confirming" /\ new.op = row.op
         /\ new.on = row.on /\ new.lines = ls /\ new.rev = r /\ new.todo = q
         /\ new.made = row.made /\ new.version = row.version
BY DEF Transactions, Resolving

LEMMA ResolvingRequest ==
  ASSUME NEW row \in Transactions, NEW q \in Seq(Rows), NEW m \in SUBSET Rows
  PROVE  LET new == Resolved(row, q, m) IN
         /\ new \in Transactions /\ new.step = row.step /\ new.op = row.op
         /\ new.on = row.on /\ new.lines = row.lines /\ new.rev = row.rev
         /\ new.todo = q /\ new.made = m /\ new.version = row.version
BY DEF Transactions, Resolved

(* The resolver's list holds the unit and the item of every ingredient.    *)
LEMMA RowsForAll ==
  ASSUME RecipesAssumption, NEW ls \in SUBSET Ingredients, NEW q \in Orders(ls)
  PROVE  /\ RowsFor(q) \in Seq(Rows)
         /\ \A i \in ls : \E k, n \in 1 .. Len(RowsFor(q)) :
              RowsFor(q)[k] = ItemOf[i] /\ RowsFor(q)[n] = UnitOf[i]
<1> DEFINE n == Cardinality(ls)
<1>1. IsFiniteSet(ls) /\ n \in Nat
  BY FS_Subset, FS_CardinalityType DEF RecipesAssumption
<1>2. q \in [1 .. n -> ls] /\ q \in Injection(1 .. n, ls)
  BY DEF Orders, Injection, IsInjective
<1>3. q \in Surjection(1 .. n, ls)
  <2>1. IsFiniteSet(1 .. n) /\ Cardinality(1 .. n) = n
    BY <1>1, FS_Interval
  <2> QED
    BY <1>1, <1>2, <2>1, FS_Injection
<1>4. \A i \in ls : \E j \in 1 .. n : q[j] = i
  BY <1>3 DEF Surjection
<1>5. Len(q) = n
  BY <1>1, <1>2
<1> HIDE DEF n
<1>6. RowsFor(q) = [k \in 1 .. 2 * n |->
                      IF k % 2 = 1 THEN UnitOf[q[(k + 1) \div 2]] ELSE ItemOf[q[k \div 2]]]
  BY <1>5 DEF RowsFor
<1>7. ASSUME NEW k \in 1 .. 2 * n
      PROVE  (IF k % 2 = 1 THEN UnitOf[q[(k + 1) \div 2]] ELSE ItemOf[q[k \div 2]]) \in Rows
  <2>1. CASE k % 2 = 1
    <3>1. (k + 1) \div 2 \in 1 .. n
      BY <1>1, <2>1
    <3>2. q[(k + 1) \div 2] \in Ingredients
      BY <1>2, <3>1
    <3> QED
      BY <2>1, <3>2 DEF Rows, Units
  <2>2. CASE k % 2 # 1
    <3>1. k \div 2 \in 1 .. n
      BY <1>1, <2>2
    <3>2. q[k \div 2] \in Ingredients
      BY <1>2, <3>1
    <3> QED
      BY <2>2, <3>2 DEF Rows, Items
  <2> QED
    BY <2>1, <2>2
<1>8. RowsFor(q) \in Seq(Rows) /\ Len(RowsFor(q)) = 2 * n
  <2>1. 2 * n \in Nat
    BY <1>1
  <2>2. RowsFor(q) \in [1 .. 2 * n -> Rows]
    BY <1>6, <1>7
  <2> QED
    BY <2>1, <2>2
<1>9. ASSUME NEW i \in ls
      PROVE  \E k, m \in 1 .. 2 * n : RowsFor(q)[k] = ItemOf[i] /\ RowsFor(q)[m] = UnitOf[i]
  <2>1. PICK j \in 1 .. n : q[j] = i
    BY <1>4
  <2>2. /\ 2 * j \in 1 .. 2 * n /\ (2 * j) % 2 # 1 /\ (2 * j) \div 2 = j
        /\ 2 * j - 1 \in 1 .. 2 * n /\ (2 * j - 1) % 2 = 1 /\ ((2 * j - 1) + 1) \div 2 = j
    BY <1>1
  <2>3. RowsFor(q)[2 * j] = ItemOf[i]
    BY <1>6, <2>1, <2>2
  <2>4. RowsFor(q)[2 * j - 1] = UnitOf[i]
    BY <1>6, <2>1, <2>2
  <2> QED
    BY <2>2, <2>3, <2>4
<1> QED
  BY <1>8, <1>9

-----------------------------------------------------------------------------
(* Types, and what every request and draft row names. *)

Writing(c) == At(c, "save") \/ At(c, "unconfirm")

(* A request at work is about a thing, read a pointer of its versions, and *)
(* writes a draft of its own number or publishes one that was saved.       *)
Named(c) ==
  req[c].step # "closed" =>
    /\ req[c].on \in Things
    /\ req[c].version <= Len(versions[req[c].on])
    /\ Writing(c) => req[c].rev \in 1 .. drafts
    /\ Confirming(c) => /\ req[c].rev \in 1 .. drafts
                        /\ req[c].lines # {} /\ Distinct(req[c].lines)

DraftRow(t) ==
  draft[t].rev <= drafts /\ (draft[t].rev = 0 => draft[t] = NoDraft)

BasicInv ==
  /\ RecipesTypeOK
  /\ \A c \in Requests : Named(c)
  /\ \A t \in Things : DraftRow(t)

DraftRows == [rev : 0 .. MaxDrafts, lines : SUBSET Ingredients, parent : Nat]

(* A request that closes is closed, and the others are as they were.       *)
LEMMA ClosedNow ==
  ASSUME RecipesTypeOK, NEW c \in Requests, Close(c), RecipesAssumption
  PROVE  /\ req' \in [Requests -> Transactions] /\ req'[c] = Closed
         /\ \A d \in Requests \ {c} : req'[d] = req[d]
         /\ Named(c)'
<1>1. Closed \in Transactions /\ Closed.step = "closed"
  BY ClosedRequest
<1>2. /\ req' \in [Requests -> Transactions] /\ req'[c] = Closed
      /\ \A d \in Requests \ {c} : req'[d] = req[d]
  BY <1>1 DEF RecipesTypeOK, Close
<1> QED
  BY <1>1, <1>2 DEF Named

(* What a request may do beside the others.                                *)
LEMMA OthersNamed ==
  ASSUME BasicInv, NEW c \in Requests, Named(c)',
         \A d \in Requests \ {c} : req'[d] = req[d],
         \A t \in Things : Len(versions'[t]) >= Len(versions[t]) /\ Len(versions'[t]) \in Nat,
         drafts' >= drafts, drafts' \in Nat
  PROVE  \A d \in Requests : Named(d)'
<1> SUFFICES ASSUME NEW d \in Requests \ {c} PROVE Named(d)'
  OBVIOUS
<1>1. Named(d) /\ req'[d] = req[d] /\ req[d] \in Transactions
  BY DEF BasicInv, RecipesTypeOK
<1>2. req[d].step # "closed" => /\ req[d].on \in Things
                                /\ Len(versions[req[d].on]) \in Nat
  BY <1>1 DEF Named, BasicInv, RecipesTypeOK
<1>3. drafts \in Nat /\ req[d].rev \in Nat /\ req[d].version \in Nat
  BY <1>1 DEF BasicInv, RecipesTypeOK, Transactions, RecipesAssumption
<1> QED
  BY <1>1, <1>2, <1>3 DEF Named, Writing, At, Confirming

(* A request that will write a draft has a thing and a number.             *)
LEMMA WritingNamed ==
  ASSUME RecipesAssumption, BasicInv, NEW c \in Requests, Writing(c)
  PROVE  req[c].on \in Things /\ req[c].rev # 0
<1>1. req[c].step # "closed" /\ Named(c)
  BY DEF Writing, At, BasicInv
<1>2. req[c].on \in Things /\ req[c].rev \in 1 .. drafts
  BY <1>1 DEF Named
<1>3. drafts \in Nat
  BY DEF BasicInv, RecipesTypeOK, RecipesAssumption
<1> QED
  BY <1>2, <1>3

(* A draft written has the number of its request; the others stay.         *)
LEMMA WrittenDraft ==
  ASSUME RecipesAssumption, BasicInv, NEW c \in Requests, Writing(c),
         NEW ls \in SUBSET Ingredients, NEW v \in Nat, Write(c, ls, v)
  PROVE  /\ draft' \in [Things -> DraftRows]
         /\ draft'[req[c].on] = [rev |-> req[c].rev, lines |-> ls, parent |-> v]
         /\ \A t \in Things \ {req[c].on} : draft'[t] = draft[t]
         /\ UNCHANGED drafts => \A t \in Things : DraftRow(t)'
<1>1. req[c].on \in Things /\ req[c].rev \in 1 .. drafts /\ drafts \in 0 .. MaxDrafts
  BY DEF BasicInv, RecipesTypeOK, Named, Writing, At
<1>2. [rev |-> req[c].rev, lines |-> ls, parent |-> v] \in DraftRows
  BY <1>1 DEF DraftRows, RecipesAssumption
<1>3. draft \in [Things -> DraftRows]
  BY DEF BasicInv, RecipesTypeOK, DraftRows
<1>4. /\ draft' \in [Things -> DraftRows]
      /\ draft'[req[c].on] = [rev |-> req[c].rev, lines |-> ls, parent |-> v]
      /\ \A t \in Things \ {req[c].on} : draft'[t] = draft[t]
  BY <1>1, <1>2, <1>3 DEF Write
<1>5. ASSUME UNCHANGED drafts, NEW t \in Things PROVE DraftRow(t)'
  <2>1. CASE t = req[c].on
    BY <1>1, <1>4, <1>5, <2>1 DEF DraftRow
  <2>2. CASE t # req[c].on
    BY <1>4, <1>5, <2>2 DEF DraftRow, BasicInv
  <2> QED
    BY <2>1, <2>2
<1> QED
  BY <1>4, <1>5

(* What a save or an un-confirm writes is a draft.                         *)
LEMMA WritesLines ==
  ASSUME RecipesAssumption, BasicInv, NEW c \in Requests,
         SaveRecipe(c) \/ SaveModifier(c) \/ Unconfirm(c)
  PROVE  \E ls \in SUBSET Ingredients, v \in Nat : Write(c, ls, v)
<1> DEFINE t == req[c].on
<1>0. RecipesTypeOK
  BY DEF BasicInv
<1>1. t \in Things /\ Writing(c) /\ req[c].lines \in SUBSET Ingredients
  BY <1>0 DEF SaveRecipe, SaveModifier, Unconfirm, Writing, At, BasicInv, Named,
              RecipesTypeOK, Transactions
<1>5. draft[t].parent \in Nat
  BY <1>0, <1>1 DEF RecipesTypeOK
<1>3. CASE SaveRecipe(c) \/ SaveModifier(c)
  BY <1>1, <1>5, <1>3 DEF SaveRecipe, SaveModifier
<1>4. CASE Unconfirm(c)
  <2>1. Reopened(c) \in Nat /\ Reopened(c) <= Len(versions[t])
    BY <1>0, <1>1 DEF Reopened, BasicInv, RecipesTypeOK, Named, Transactions, Writing, At
  <2>2. LinesOf(t, Reopened(c)) \in SUBSET Ingredients
    <3>1. CASE Reopened(c) = 0
      BY <3>1 DEF LinesOf
    <3>2. CASE Reopened(c) # 0
      <4>1. Reopened(c) \in 1 .. Len(versions[t]) /\ versions[t] \in Seq(Versions)
        BY <1>0, <1>1, <2>1, <3>2 DEF RecipesTypeOK
      <4>2. versions[t][Reopened(c)] \in Versions
        BY <4>1, ElementOfSeq
      <4> QED
        BY <3>2, <4>2 DEF LinesOf, Versions
    <3> QED
      BY <3>1, <3>2
  <2>3. Write(c, LinesOf(t, Reopened(c)), Reopened(c))
    BY <1>4 DEF Unconfirm
  <2> QED
    BY <2>1, <2>2, <2>3
<1> QED
  BY <1>3, <1>4

(* The first step of a confirm: it has locked the row and read the draft.  *)
LEMMA BegunRequest ==
  ASSUME RecipesAssumption, BasicInv, NEW c \in Requests, BeginConfirm(c)
  PROVE  LET t == req[c].on IN
         /\ t \in Things /\ draft[t].lines # {} /\ Distinct(draft[t].lines)
         /\ draft[t].rev \in 1 .. drafts
         /\ \E new \in Transactions, q \in Orders(draft[t].lines) :
              /\ req' = [req EXCEPT ![c] = new]
              /\ new.step = "confirming" /\ new.op = "confirm" /\ new.on = t
              /\ new.lines = draft[t].lines /\ new.rev = draft[t].rev
              /\ new.version = req[c].version
              /\ new.todo = RowsFor(q) /\ new.made = req[c].made
<1> USE DEF DraftRows
<1> DEFINE t == req[c].on
<1>0. RecipesTypeOK
  BY DEF BasicInv
<1>1. t \in Things /\ draft[t] \in DraftRows /\ DraftRow(t) /\ req[c].op = "confirm"
  BY <1>0 DEF BeginConfirm, At, BasicInv, Named, RecipesTypeOK
<1>2. /\ draft[t].lines # {} /\ Distinct(draft[t].lines)
      /\ draft[t].rev \in 1 .. drafts /\ draft[t].rev \in 0 .. MaxDrafts
  BY <1>0, <1>1 DEF BeginConfirm, Confirmable, DraftRow, NoDraft
<1>3. PICK q \in Orders(draft[t].lines) :
        req' = [req EXCEPT ![c] = [req[c] EXCEPT !.step = "confirming",
                  !.lines = draft[t].lines, !.rev = draft[t].rev, !.todo = RowsFor(q)]]
  BY DEF BeginConfirm
<1>4. RowsFor(q) \in Seq(Rows)
  BY <1>1, RowsForAll
<1>5. req[c] \in Transactions
  BY <1>0 DEF RecipesTypeOK
<1>6. \E new \in Transactions :
        /\ req' = [req EXCEPT ![c] = new]
        /\ new.step = "confirming" /\ new.op = "confirm" /\ new.on = t
        /\ new.lines = draft[t].lines /\ new.rev = draft[t].rev
        /\ new.version = req[c].version
        /\ new.todo = RowsFor(q) /\ new.made = req[c].made
  <2> DEFINE new == Resolving(req[c], draft[t].lines, draft[t].rev, RowsFor(q))
  <2>1. /\ new \in Transactions /\ new.step = "confirming" /\ new.op = req[c].op
        /\ new.on = t /\ new.lines = draft[t].lines /\ new.rev = draft[t].rev
        /\ new.version = req[c].version
        /\ new.todo = RowsFor(q) /\ new.made = req[c].made
    <3>1. draft[t].lines \in SUBSET Ingredients
      BY <1>1
    <3> QED
      BY <1>2, <1>4, <1>5, <3>1, ConfirmingRequest
  <2>2. req' = [req EXCEPT ![c] = new]
    BY <1>3 DEF Resolving
  <2> HIDE DEF new
  <2> QED
    BY <1>1, <2>1, <2>2
<1> QED
  BY <1>1, <1>2, <1>6

(* A confirm's next step: one row of the list found or inserted.           *)
LEMMA ResolvedRequest ==
  ASSUME RecipesTypeOK, NEW c \in Requests, Resolve(c)
  PROVE  \E new \in Transactions :
           /\ req' = [req EXCEPT ![c] = new]
           /\ new.step = "confirming" /\ new.op = req[c].op /\ new.on = req[c].on
           /\ new.lines = req[c].lines /\ new.rev = req[c].rev
           /\ new.version = req[c].version
           /\ req[c].todo \in Seq(Rows) /\ req[c].todo # <<>>
           /\ new.todo = Tail(req[c].todo)
           /\ new.made \subseteq Rows /\ req[c].made \subseteq new.made
           /\ Head(req[c].todo) \in new.made \cup rows
<1>1. PICK r \in Rows :
        /\ Needs(c, r)
        /\ req' = [req EXCEPT ![c] = [req[c] EXCEPT !.todo = Tail(req[c].todo),
                                                  !.made = req[c].made \cup ({r} \ rows)]]
  BY DEF Resolve
<1>2. PICK row \in Transactions : row = req[c]
  BY DEF RecipesTypeOK
<1>3. row.todo \in Seq(Rows) /\ row.made \subseteq Rows
  BY DEF Transactions
<1>4. row.todo # <<>> /\ Head(row.todo) = r /\ row.step = "confirming"
  BY <1>1, <1>2 DEF Needs, Confirming
<1>5. PICK q \in Seq(Rows) : q = Tail(row.todo)
  BY <1>3, <1>4, HeadTailProperties
<1>6. PICK m \in SUBSET Rows : m = row.made \cup ({r} \ rows)
  BY <1>3
<1> DEFINE new == Resolved(row, q, m)
<1>7. /\ new \in Transactions /\ new.step = row.step /\ new.op = row.op
      /\ new.on = row.on /\ new.lines = row.lines /\ new.rev = row.rev
      /\ new.todo = q /\ new.made = m /\ new.version = row.version
  BY ResolvingRequest
<1>8. req' = [req EXCEPT ![c] = new]
  BY <1>1, <1>2, <1>5, <1>6 DEF Resolved
<1> HIDE DEF new
<1> QED
  BY <1>2, <1>3, <1>4, <1>5, <1>6, <1>7, <1>8

(* A confirm's last step: the new version, after the old ones.             *)
LEMMA Published ==
  ASSUME RecipesAssumption, BasicInv, NEW c \in Requests, FinishConfirm(c)
  PROVE  \E t \in Things, new \in Versions :
         /\ t = req[c].on /\ new = [rev |-> req[c].rev, lines |-> req[c].lines]
         /\ versions[t] \in Seq(Versions) /\ versions'[t] = Append(versions[t], new)
         /\ versions' \in [Things -> Seq(Versions)]
         /\ \A u \in Things \ {t} : versions'[u] = versions[u] /\ draft'[u] = draft[u]
                                    /\ pointer'[u] = pointer[u] /\ status'[u] = status[u]
         /\ Len(versions'[t]) = Len(versions[t]) + 1 /\ Len(versions[t]) \in Nat
         /\ versions'[t][Len(versions[t]) + 1] = new
         /\ \A v \in 1 .. Len(versions[t]) : versions'[t][v] = versions[t][v]
         /\ draft' \in [Things -> DraftRows] /\ draft'[t] = NoDraft
         /\ pointer' \in [Things -> Nat] /\ pointer'[t] = Len(versions[t]) + 1
         /\ status' \in [Things -> Statuses] /\ status'[t] = "confirmed"
<1> DEFINE t == req[c].on
<1> DEFINE new == [rev |-> req[c].rev, lines |-> req[c].lines]
<1>1. /\ t \in Things /\ req[c].rev \in 1 .. drafts /\ drafts \in 0 .. MaxDrafts
      /\ req[c].lines \in SUBSET Ingredients
  BY DEF BasicInv, RecipesTypeOK, Named, FinishConfirm, Confirming, Transactions
<1>2. new \in Versions
  BY <1>1 DEF Versions, RecipesAssumption
<1>3. versions \in [Things -> Seq(Versions)] /\ versions[t] \in Seq(Versions)
  BY <1>1 DEF BasicInv, RecipesTypeOK
<1>4. versions' = [versions EXCEPT ![t] = Append(versions[t], new)]
  BY DEF FinishConfirm, Publish
<1> HIDE DEF new
<1>5. /\ Append(versions[t], new) \in Seq(Versions)
      /\ Len(Append(versions[t], new)) = Len(versions[t]) + 1 /\ Len(versions[t]) \in Nat
      /\ Append(versions[t], new)[Len(versions[t]) + 1] = new
      /\ \A v \in 1 .. Len(versions[t]) : Append(versions[t], new)[v] = versions[t][v]
  BY <1>2, <1>3, AppendProperties
<1>6. NoDraft \in DraftRows
  BY DEF NoDraft, DraftRows, RecipesAssumption
<1> HIDE DEF t
<1>7. /\ versions'[t] = Append(versions[t], new) /\ versions' \in [Things -> Seq(Versions)]
      /\ \A u \in Things \ {t} : versions'[u] = versions[u]
  BY <1>1, <1>3, <1>4, <1>5
<1>8. /\ pointer' = [pointer EXCEPT ![t] = Len(versions[t]) + 1]
      /\ status' = [status EXCEPT ![t] = "confirmed"]
      /\ draft' = [draft EXCEPT ![t] = NoDraft]
  BY DEF FinishConfirm, Publish, t
<1>9. /\ \A u \in Things \ {t} : draft'[u] = draft[u] /\ pointer'[u] = pointer[u]
                                /\ status'[u] = status[u]
      /\ draft' \in [Things -> DraftRows] /\ draft'[t] = NoDraft
      /\ pointer' \in [Things -> Nat] /\ pointer'[t] = Len(versions[t]) + 1
      /\ status' \in [Things -> Statuses] /\ status'[t] = "confirmed"
  BY <1>1, <1>5, <1>6, <1>8 DEF BasicInv, RecipesTypeOK, DraftRows, Statuses
<1>10. [rev |-> req[c].rev, lines |-> req[c].lines] = new /\ req[c].on = t
  BY DEF new, t
<1> t \in Things /\ new \in Versions
  BY <1>1, <1>2
<1> WITNESS t \in Things, new \in Versions
<1> QED
  BY <1>3, <1>5, <1>7, <1>9, <1>10

(* The basic invariant holds at the start, and every step keeps it.        *)
LEMMA BasicInit == RecipesAssumption /\ RecipesInit => BasicInv
<1> SUFFICES ASSUME RecipesAssumption, RecipesInit PROVE BasicInv
  OBVIOUS
<1>1. Closed \in Transactions /\ Closed.step = "closed"
  BY ClosedRequest
<1>2. NoDraft \in DraftRows /\ <<>> \in Seq(Versions) /\ Len(<<>>) = 0 /\ 0 \in 0 .. MaxDrafts
  BY DEF NoDraft, DraftRows, RecipesAssumption
<1>3. RecipesTypeOK
  BY <1>1, <1>2 DEF RecipesInit, RecipesTypeOK, DraftRows, Statuses, RecipesAssumption
<1>4. \A c \in Requests : Named(c)
  BY <1>1 DEF RecipesInit, Named
<1>5. \A t \in Things : DraftRow(t)
  BY DEF RecipesInit, DraftRow, NoDraft
<1> QED
  BY <1>3, <1>4, <1>5 DEF BasicInv

LEMMA BasicStep ==
  RecipesAssumption /\ BasicInv /\ [RecipesNext]_recipesVars => BasicInv'
<1> SUFFICES ASSUME RecipesAssumption, BasicInv, [RecipesNext]_recipesVars
             PROVE  BasicInv'
  OBVIOUS
<1> USE DEF DraftRows
<1>0. /\ RecipesTypeOK /\ drafts \in Nat /\ drafts <= MaxDrafts
      /\ \A t \in Things : Len(versions[t]) \in Nat
  BY DEF BasicInv, RecipesTypeOK, RecipesAssumption
<1>1. CASE UNCHANGED recipesVars
  BY <1>0, <1>1 DEF BasicInv, RecipesTypeOK, Named, DraftRow, Writing, At, Confirming,
                    recipesVars
<1>2. ASSUME NEW m \in Modifiers, SyncModifier(m) PROVE BasicInv'
  <2>1. RecipesTypeOK'
    BY <1>0, <1>2 DEF SyncModifier, RecipesTypeOK, Statuses
  <2> QED
    BY <2>1, <1>0, <1>2 DEF SyncModifier, BasicInv, Named, DraftRow, Writing, At, Confirming
<1>3. ASSUME NEW c \in Requests, NEW t \in Things, NEW o \in Ops,
             NEW ls \in SUBSET Ingredients, Start(c, o, t, ls)
      PROVE  BasicInv'
  <2> DEFINE r == IF Writes(o) THEN drafts + 1 ELSE 0
  <2> DEFINE s == IF o \in {"save", "skip"} THEN status[t] ELSE "none"
  <2> DEFINE v == IF o = "unconfirm" THEN pointer[t] ELSE 0
  <2>1. /\ r \in 0 .. MaxDrafts /\ drafts' \in 0 .. MaxDrafts /\ drafts' >= drafts
        /\ Writes(o) => r \in 1 .. drafts'
    BY <1>0, <1>3 DEF Start, RecipesAssumption
  <2>2. s \in Statuses /\ v \in Nat /\ v <= Len(versions[t])
    BY <1>0 DEF RecipesTypeOK, Statuses
  <2>3. req' = [req EXCEPT ![c] =
          [Closed EXCEPT !.step = "open", !.op = o, !.on = t, !.lines = ls,
                         !.rev = r, !.seen = s, !.version = v]]
    BY <1>3 DEF Start
  <2> HIDE DEF r, s, v
  <2>4. PICK new \in Transactions :
          /\ req' = [req EXCEPT ![c] = new]
          /\ new.step = "open" /\ new.op = o /\ new.on = t /\ new.rev = r /\ new.version = v
    <3> DEFINE new == Asked(o, t, ls, r, s, v)
    <3>1. /\ new \in Transactions /\ new.step = "open" /\ new.op = o /\ new.on = t
          /\ new.rev = r /\ new.version = v
      BY <2>1, <2>2, StartedRequest
    <3>2. req' = [req EXCEPT ![c] = new]
      BY <2>3 DEF Asked
    <3> HIDE DEF new
    <3> QED
      BY <3>1, <3>2
  <2>5. /\ req' \in [Requests -> Transactions] /\ req'[c] = new
        /\ \A d \in Requests \ {c} : req'[d] = req[d]
    BY <1>0, <2>4 DEF RecipesTypeOK
  <2>6. UNCHANGED <<status, pointer, draft, versions, rows>>
    BY <1>3 DEF Start
  <2>7. Named(c)'
    BY <1>0, <2>1, <2>2, <2>4, <2>5, <2>6 DEF Named, Writing, At, Confirming, Writes
  <2>8. \A d \in Requests : Named(d)'
    <3>1. drafts' \in Nat
      BY <2>1 DEF RecipesAssumption
    <3> QED
      BY <1>0, <2>1, <2>5, <2>6, <2>7, <3>1, OthersNamed
  <2>9. \A u \in Things : DraftRow(u)'
    <3> SUFFICES ASSUME NEW u \in Things PROVE DraftRow(u)'
      OBVIOUS
    <3>1. draft[u].rev \in Nat /\ DraftRow(u) /\ drafts' \in Nat
      BY <1>0, <2>1 DEF BasicInv, RecipesTypeOK, RecipesAssumption
    <3> QED
      BY <1>0, <2>1, <2>6, <3>1 DEF DraftRow
  <2> QED
    BY <1>0, <2>1, <2>5, <2>6, <2>8, <2>9 DEF BasicInv, RecipesTypeOK
<1>4. ASSUME NEW c \in Requests, Quits(c) PROVE BasicInv'
  <2>1. /\ Named(c)' /\ req' \in [Requests -> Transactions]
        /\ \A d \in Requests \ {c} : req'[d] = req[d]
    BY <1>0, <1>4, ClosedNow DEF Quits
  <2>2. \A d \in Requests : Named(d)'
    BY <1>0, <1>4, <2>1, OthersNamed DEF Quits
  <2> QED
    BY <1>0, <1>4, <2>1, <2>2 DEF Quits, BasicInv, RecipesTypeOK, DraftRow
<1>5. ASSUME NEW c \in Requests, SaveRecipe(c) \/ SaveModifier(c) \/ Unconfirm(c)
      PROVE  BasicInv'
  <2> DEFINE t == req[c].on
  <2>1. t \in Things /\ Writing(c) /\ req[c].lines \in SUBSET Ingredients
    BY <1>0, <1>5 DEF SaveRecipe, SaveModifier, Unconfirm, Writing, At, BasicInv, Named,
                      RecipesTypeOK, Transactions
  <2>2. /\ Named(c)' /\ req' \in [Requests -> Transactions]
        /\ \A d \in Requests \ {c} : req'[d] = req[d]
    BY <1>0, <1>5, ClosedNow DEF SaveRecipe, SaveModifier, Unconfirm
  <2>3. UNCHANGED <<versions, rows, drafts>>
    BY <1>5 DEF SaveRecipe, SaveModifier, Unconfirm
  <2>4. \A d \in Requests : Named(d)'
    BY <1>0, <2>2, <2>3, OthersNamed
  <2>6. PICK ls \in SUBSET Ingredients, v \in Nat : Write(c, ls, v)
    BY <1>5, WritesLines
  <2>7. draft' \in [Things -> DraftRows] /\ \A u \in Things : DraftRow(u)'
    BY <2>1, <2>3, <2>6, WrittenDraft
  <2>8. /\ status' \in [Things -> Statuses] /\ pointer' \in [Things -> Nat]
        /\ \A u \in Things : pointer'[u] <= Len(versions'[u])
    <3>1. CASE SaveRecipe(c)
      BY <1>0, <2>1, <2>3, <3>1 DEF SaveRecipe, RecipesTypeOK, Statuses
    <3>2. CASE SaveModifier(c)
      <4>1. status' = status \/ status' = [status EXCEPT ![t] = "draft"]
        BY <3>2 DEF SaveModifier
      <4> QED
        BY <1>0, <2>1, <2>3, <3>2, <4>1 DEF SaveModifier, RecipesTypeOK, Statuses
    <3>3. CASE Unconfirm(c)
      <4>1. /\ status' = [status EXCEPT ![t] = "draft"]
            /\ pointer' = [pointer EXCEPT ![t] = 0]
        BY <3>3 DEF Unconfirm, Unpublish
      <4> QED
        BY <1>0, <2>1, <2>3, <4>1 DEF RecipesTypeOK, Statuses
    <3> QED
      BY <1>5, <3>1, <3>2, <3>3
  <2> QED
    BY <1>0, <2>2, <2>3, <2>4, <2>7, <2>8 DEF BasicInv, RecipesTypeOK
<1>6. ASSUME NEW c \in Requests, Skip(c) PROVE BasicInv'
  <2>1. /\ Named(c)' /\ req' \in [Requests -> Transactions]
        /\ \A d \in Requests \ {c} : req'[d] = req[d]
    BY <1>0, <1>6, ClosedNow DEF Skip
  <2>2. \A d \in Requests : Named(d)'
    BY <1>0, <1>6, <2>1, OthersNamed DEF Skip
  <2>3. status' \in [Things -> Statuses]
    BY <1>0, <1>6 DEF Skip, RecipesTypeOK, Statuses
  <2> QED
    BY <1>0, <1>6, <2>1, <2>2, <2>3 DEF Skip, BasicInv, RecipesTypeOK, DraftRow
<1>7. ASSUME NEW c \in Requests, BeginConfirm(c) PROVE BasicInv'
  <2> DEFINE t == req[c].on
  <2>1. t \in Things /\ draft[t] \in DraftRows /\ draft[t].lines # {}
        /\ Distinct(draft[t].lines) /\ draft[t].rev \in 1 .. drafts
    BY <1>0, <1>7, BegunRequest DEF RecipesTypeOK
  <2>6. PICK new \in Transactions :
          /\ req' = [req EXCEPT ![c] = new]
          /\ new.step = "confirming" /\ new.op = "confirm" /\ new.on = t
          /\ new.lines = draft[t].lines /\ new.rev = draft[t].rev
          /\ new.version = req[c].version
    BY <1>7, BegunRequest
  <2>7. /\ req' \in [Requests -> Transactions] /\ req'[c] = new
        /\ \A d \in Requests \ {c} : req'[d] = req[d]
    BY <1>0, <2>6 DEF RecipesTypeOK
  <2>8. UNCHANGED <<status, pointer, draft, versions, rows, drafts>>
    BY <1>7 DEF BeginConfirm
  <2>9. Named(c) /\ req[c].step = "open"
    BY <1>7 DEF BasicInv, BeginConfirm, At
  <2>10. Named(c)'
    BY <1>0, <2>1, <2>6, <2>7, <2>8, <2>9 DEF Named, Writing, At, Confirming
  <2>11. \A d \in Requests : Named(d)'
    BY <1>0, <2>7, <2>8, <2>10, OthersNamed
  <2> QED
    BY <1>0, <2>7, <2>8, <2>11 DEF BasicInv, RecipesTypeOK, DraftRow
<1>8. ASSUME NEW c \in Requests, Resolve(c) PROVE BasicInv'
  <2>1. PICK new \in Transactions :
          /\ req' = [req EXCEPT ![c] = new]
          /\ new.step = "confirming" /\ new.on = req[c].on
          /\ new.lines = req[c].lines /\ new.rev = req[c].rev /\ new.version = req[c].version
    BY <1>0, <1>8, ResolvedRequest
  <2>2. /\ req' \in [Requests -> Transactions] /\ req'[c] = new
        /\ \A d \in Requests \ {c} : req'[d] = req[d]
    BY <1>0, <2>1 DEF RecipesTypeOK
  <2>3. UNCHANGED <<status, pointer, draft, versions, rows, drafts>> /\ Confirming(c)
    BY <1>8 DEF Resolve, Needs
  <2>4. Named(c)'
    BY <1>0, <2>1, <2>2, <2>3 DEF BasicInv, Named, Writing, At, Confirming
  <2>5. \A d \in Requests : Named(d)'
    BY <1>0, <2>2, <2>3, <2>4, OthersNamed
  <2> QED
    BY <1>0, <2>2, <2>3, <2>5 DEF BasicInv, RecipesTypeOK, DraftRow
<1>9. ASSUME NEW c \in Requests, FinishConfirm(c) PROVE BasicInv'
  <2>1. /\ Named(c)' /\ req' \in [Requests -> Transactions]
        /\ \A d \in Requests \ {c} : req'[d] = req[d]
    BY <1>0, <1>9, ClosedNow DEF FinishConfirm
  <2>2. PICK t \in Things :
        /\ versions' \in [Things -> Seq(Versions)]
        /\ \A u \in Things \ {t} : versions'[u] = versions[u] /\ draft'[u] = draft[u]
                                   /\ pointer'[u] = pointer[u]
        /\ Len(versions'[t]) = Len(versions[t]) + 1
        /\ draft' \in [Things -> DraftRows] /\ draft'[t] = NoDraft
        /\ pointer' \in [Things -> Nat] /\ pointer'[t] = Len(versions[t]) + 1
        /\ status' \in [Things -> Statuses]
    BY <1>9, Published
  <2>3. drafts' = drafts /\ rows' = rows \cup req[c].made /\ req[c].made \in SUBSET Rows
    BY <1>0, <1>9 DEF FinishConfirm, Publish, RecipesTypeOK, Transactions
  <2>4. \A u \in Things : Len(versions'[u]) >= Len(versions[u]) /\ Len(versions'[u]) \in Nat
    <3> SUFFICES ASSUME NEW u \in Things
                 PROVE  Len(versions'[u]) >= Len(versions[u]) /\ Len(versions'[u]) \in Nat
      OBVIOUS
    <3>1. u = t \/ versions'[u] = versions[u]
      BY <2>2
    <3>2. Len(versions[u]) \in Nat /\ Len(versions'[t]) = Len(versions[t]) + 1
      BY <1>0, <2>2
    <3> QED
      BY <3>1, <3>2
  <2>5. \A d \in Requests : Named(d)'
    BY <1>0, <2>1, <2>3, <2>4, OthersNamed
  <2>6. \A u \in Things : DraftRow(u)'
    <3> SUFFICES ASSUME NEW u \in Things PROVE DraftRow(u)'
      OBVIOUS
    <3>1. u = t \/ draft'[u] = draft[u]
      BY <2>2
    <3>2. CASE u = t
      BY <1>0, <2>2, <2>3, <3>2 DEF DraftRow, NoDraft
    <3>3. CASE u # t
      BY <1>0, <2>3, <3>1, <3>3 DEF BasicInv, DraftRow
    <3> QED
      BY <3>2, <3>3
  <2>7. \A u \in Things : pointer'[u] <= Len(versions'[u])
    <3> SUFFICES ASSUME NEW u \in Things PROVE pointer'[u] <= Len(versions'[u])
      OBVIOUS
    <3>1. u = t \/ (pointer'[u] = pointer[u] /\ versions'[u] = versions[u])
      BY <2>2
    <3>2. Len(versions[t]) \in Nat /\ pointer[u] <= Len(versions[u])
      BY <1>0 DEF RecipesTypeOK
    <3> QED
      BY <2>2, <3>1, <3>2
  <2> QED
    BY <1>0, <2>1, <2>2, <2>3, <2>5, <2>6, <2>7 DEF BasicInv, RecipesTypeOK
<1> QED
  BY <1>1, <1>2, <1>3, <1>4, <1>5, <1>6, <1>7, <1>8, <1>9, StepCases

-----------------------------------------------------------------------------
(* Drafts, pointers and what is being confirmed. *)

(* One request confirms a thing, and the draft of a dish is still the one  *)
(* it has read: what writes that waits for the lock.                       *)
ConfirmsAlone(c) ==
  Confirming(c) =>
    /\ \A d \in Requests \ {c} : Confirming(d) => req[d].on # req[c].on
    /\ req[c].on \in Dishes =>
         draft[req[c].on].rev = req[c].rev /\ draft[req[c].on].lines = req[c].lines

EditInv == ConfirmedIsPublished /\ \A c \in Requests : ConfirmsAlone(c)

(* A request that confirms nothing afterwards disturbs no confirm, if it   *)
(* leaves alone the draft the confirm has read.                            *)
LEMMA AloneKept ==
  ASSUME BasicInv, EditInv, NEW c \in Requests, ~Confirming(c)',
         \A d \in Requests \ {c} : req'[d] = req[d],
         \A d \in Requests \ {c} :
           Confirming(d) /\ req[d].on \in Dishes => draft'[req[d].on] = draft[req[d].on]
  PROVE  \A d \in Requests : ConfirmsAlone(d)'
<1> SUFFICES ASSUME NEW d \in Requests, Confirming(d)' PROVE ConfirmsAlone(d)'
  BY DEF ConfirmsAlone
<1>1. d # c /\ req'[d] = req[d] /\ Confirming(d)
  BY DEF Confirming
<1>2. ASSUME NEW e \in Requests \ {d}, Confirming(e)' PROVE req'[e].on # req'[d].on
  <2>1. e # c /\ req'[e] = req[e] /\ Confirming(e)
    BY <1>2 DEF Confirming
  <2> QED
    BY <1>1, <2>1 DEF EditInv, ConfirmsAlone
<1>3. ASSUME req'[d].on \in Dishes
      PROVE  draft'[req'[d].on].rev = req'[d].rev /\ draft'[req'[d].on].lines = req'[d].lines
  BY <1>1, <1>3 DEF EditInv, ConfirmsAlone
<1> QED
  BY <1>2, <1>3 DEF ConfirmsAlone

(* A request that closes confirms nothing.                                 *)
LEMMA ClosedConfirmsNone ==
  ASSUME RecipesAssumption, BasicInv, NEW c \in Requests, Close(c)
  PROVE  ~Confirming(c)' /\ \A d \in Requests \ {c} : req'[d] = req[d]
BY ClosedRequest, ClosedNow DEF BasicInv, Confirming

(* EditInv holds at the start, and every step keeps it.                    *)
LEMMA EditStart == RecipesAssumption /\ RecipesInit => EditInv
<1> SUFFICES ASSUME RecipesAssumption, RecipesInit PROVE EditInv
  OBVIOUS
<1>1. \A c \in Requests : ~Confirming(c)
  BY ClosedRequest DEF RecipesInit, Confirming
<1>2. Dishes \subseteq Things
  BY DEF Things
<1> QED
  BY <1>1, <1>2 DEF RecipesInit, EditInv, ConfirmsAlone, ConfirmedIsPublished

LEMMA EditStep ==
  RecipesAssumption /\ BasicInv /\ EditInv /\ [RecipesNext]_recipesVars => EditInv'
<1> SUFFICES ASSUME RecipesAssumption, BasicInv, EditInv, [RecipesNext]_recipesVars
             PROVE  EditInv'
  OBVIOUS
<1>0. /\ RecipesTypeOK /\ ConfirmedIsPublished /\ Dishes \subseteq Things
      /\ \A t \in Dishes : t \notin Modifiers
  BY DEF BasicInv, EditInv, Things, RecipesAssumption
<1>1. CASE UNCHANGED recipesVars
  BY <1>1 DEF EditInv, ConfirmedIsPublished, ConfirmsAlone, Confirming, recipesVars
<1>2. ASSUME NEW m \in Modifiers, SyncModifier(m) PROVE EditInv'
  <2>1. ConfirmedIsPublished'
    BY <1>0, <1>2 DEF SyncModifier, ConfirmedIsPublished, RecipesTypeOK
  <2> QED
    BY <2>1, <1>2 DEF SyncModifier, EditInv, ConfirmsAlone, Confirming
<1>3. ASSUME NEW c \in Requests, NEW t \in Things, NEW o \in Ops,
             NEW ls \in SUBSET Ingredients, Start(c, o, t, ls)
      PROVE  EditInv'
  <2>1. ConfirmedIsPublished'
    BY <1>0, <1>3 DEF Start, ConfirmedIsPublished
  <2>2. ~Confirming(c)' /\ \A d \in Requests \ {c} : req'[d] = req[d]
    BY <1>0, <1>3 DEF Start, Confirming, RecipesTypeOK
  <2>3. \A d \in Requests : ConfirmsAlone(d)'
    BY <1>3, <2>2, AloneKept DEF Start
  <2> QED
    BY <2>1, <2>3 DEF EditInv
<1>4. ASSUME NEW c \in Requests, Quits(c) PROVE EditInv'
  <2>1. ConfirmedIsPublished'
    BY <1>0, <1>4 DEF Quits, ConfirmedIsPublished
  <2>2. \A d \in Requests : ConfirmsAlone(d)'
    BY <1>4, AloneKept, ClosedConfirmsNone DEF Quits
  <2> QED
    BY <2>1, <2>2 DEF EditInv
<1>5. ASSUME NEW c \in Requests, SaveRecipe(c) PROVE EditInv'
  <2>1. PICK t \in Dishes : t = req[c].on
    BY <1>5 DEF SaveRecipe
  <2>2. /\ draft'[t] = [rev |-> req[c].rev, lines |-> req[c].lines, parent |-> draft[t].parent]
        /\ \A u \in Things \ {t} : draft'[u] = draft[u]
    BY <1>0, <1>5, <2>1 DEF SaveRecipe, Write, RecipesTypeOK
  <2>3. req[c].rev # 0
    BY <1>5, WritingNamed DEF SaveRecipe, Writing
  <2>4. status'[t] = "draft" /\ \A u \in Things \ {t} : status'[u] = status[u]
    BY <1>0, <1>5, <2>1 DEF SaveRecipe, RecipesTypeOK
  <2>5. UNCHANGED pointer /\ Close(c) /\ ~Locked(t)
    BY <1>5, <2>1 DEF SaveRecipe
  <2>6. draft'[t] # NoDraft
    BY <2>2, <2>3 DEF NoDraft
  <2>7. ConfirmedIsPublished'
    BY <1>0, <2>2, <2>4, <2>5, <2>6 DEF ConfirmedIsPublished
  <2>8. \A d \in Requests \ {c} :
          Confirming(d) /\ req[d].on \in Dishes => draft'[req[d].on] = draft[req[d].on]
    BY <1>0, <2>2, <2>5 DEF Locked
  <2>9. \A d \in Requests : ConfirmsAlone(d)'
    BY <2>5, <2>8, AloneKept, ClosedConfirmsNone
  <2> QED
    BY <2>7, <2>9 DEF EditInv
<1>6. ASSUME NEW c \in Requests, SaveModifier(c) PROVE EditInv'
  <2>1. PICK t \in Modifiers : t = req[c].on
    BY <1>6 DEF SaveModifier
  <2>2. /\ t \in Things /\ UNCHANGED pointer /\ Close(c)
        /\ \A u \in Things \ {t} : status'[u] = status[u] /\ draft'[u] = draft[u]
        /\ status'[t] = status[t] \/ status'[t] = "draft"
    <3>1. t \in Things
      BY DEF Things
    <3>2. \A u \in Things \ {t} : draft'[u] = draft[u]
      BY <1>0, <1>6, <2>1 DEF SaveModifier, Write, RecipesTypeOK
    <3>3. status' = status \/ status' = [status EXCEPT ![t] = "draft"]
      BY <1>6, <2>1 DEF SaveModifier
    <3>4. UNCHANGED pointer /\ Close(c)
      BY <1>6 DEF SaveModifier
    <3> QED
      BY <1>0, <3>1, <3>2, <3>3, <3>4 DEF RecipesTypeOK
  <2>3. ConfirmedIsPublished'
    BY <1>0, <2>2 DEF ConfirmedIsPublished
  <2>4. \A d \in Requests \ {c} :
          Confirming(d) /\ req[d].on \in Dishes => draft'[req[d].on] = draft[req[d].on]
    BY <1>0, <2>2
  <2>5. \A d \in Requests : ConfirmsAlone(d)'
    BY <2>2, <2>4, AloneKept, ClosedConfirmsNone
  <2> QED
    BY <2>3, <2>5 DEF EditInv
<1>7. ASSUME NEW c \in Requests, Skip(c) PROVE EditInv'
  <2>1. ConfirmedIsPublished'
    BY <1>0, <1>7 DEF Skip, ConfirmedIsPublished, RecipesTypeOK
  <2>2. \A d \in Requests : ConfirmsAlone(d)'
    BY <1>7, AloneKept, ClosedConfirmsNone DEF Skip
  <2> QED
    BY <2>1, <2>2 DEF EditInv
<1>8. ASSUME NEW c \in Requests, BeginConfirm(c) PROVE EditInv'
  <2>1. PICK t \in Things, new \in Transactions :
          /\ t = req[c].on /\ req' = [req EXCEPT ![c] = new]
          /\ new.on = t /\ new.lines = draft[t].lines /\ new.rev = draft[t].rev
    BY <1>8, BegunRequest
  <2>2. /\ UNCHANGED <<status, pointer, draft>> /\ ~Locked(t)
        /\ req'[c] = new /\ \A d \in Requests \ {c} : req'[d] = req[d]
    BY <1>0, <1>8, <2>1 DEF BeginConfirm, RecipesTypeOK
  <2>3. ASSUME NEW d \in Requests PROVE ConfirmsAlone(d)'
    <3>1. CASE d = c
      BY <2>1, <2>2, <3>1 DEF ConfirmsAlone, Confirming, Locked
    <3>2. CASE d # c
      BY <2>1, <2>2, <3>2 DEF EditInv, ConfirmsAlone, Confirming, Locked
    <3> QED
      BY <3>1, <3>2
  <2> QED
    BY <1>0, <2>2, <2>3 DEF EditInv, ConfirmedIsPublished
<1>9. ASSUME NEW c \in Requests, Resolve(c) PROVE EditInv'
  <2>1. PICK new \in Transactions :
          /\ req' = [req EXCEPT ![c] = new]
          /\ new.on = req[c].on /\ new.lines = req[c].lines /\ new.rev = req[c].rev
    BY <1>0, <1>9, ResolvedRequest
  <2>2. /\ UNCHANGED <<status, pointer, draft>> /\ Confirming(c)
        /\ req'[c] = new /\ \A d \in Requests \ {c} : req'[d] = req[d]
    BY <1>0, <1>9, <2>1 DEF Resolve, Needs, RecipesTypeOK
  <2>3. \A d \in Requests : /\ Confirming(d)' => Confirming(d)
                            /\ req'[d].on = req[d].on /\ req'[d].lines = req[d].lines
                            /\ req'[d].rev = req[d].rev
    BY <2>1, <2>2 DEF Confirming
  <2>4. ASSUME NEW d \in Requests PROVE ConfirmsAlone(d)'
    BY <2>2, <2>3 DEF EditInv, ConfirmsAlone
  <2> QED
    BY <1>0, <2>2, <2>4 DEF EditInv, ConfirmedIsPublished
<1>10. ASSUME NEW c \in Requests, FinishConfirm(c) PROVE EditInv'
  <2>1. PICK t \in Things :
          /\ t = req[c].on /\ Len(versions[t]) \in Nat
          /\ \A u \in Things \ {t} : /\ draft'[u] = draft[u]
                                     /\ pointer'[u] = pointer[u] /\ status'[u] = status[u]
          /\ draft'[t] = NoDraft /\ pointer'[t] = Len(versions[t]) + 1
          /\ status'[t] = "confirmed"
    <3>1. PICK t \in Things : t = req[c].on
      BY <1>10, Published
    <3>2. /\ Len(versions[t]) \in Nat
          /\ \A u \in Things \ {t} : /\ draft'[u] = draft[u]
                                     /\ pointer'[u] = pointer[u] /\ status'[u] = status[u]
          /\ draft'[t] = NoDraft /\ pointer'[t] = Len(versions[t]) + 1
          /\ status'[t] = "confirmed"
      BY <1>10, <3>1, Published
    <3> QED
      BY <3>1, <3>2
  <2>2. ConfirmedIsPublished'
    BY <1>0, <2>1 DEF ConfirmedIsPublished
  <2>3. Confirming(c) /\ Close(c)
    BY <1>10 DEF FinishConfirm
  <2>4. \A d \in Requests \ {c} :
          Confirming(d) /\ req[d].on \in Dishes => draft'[req[d].on] = draft[req[d].on]
    BY <1>0, <2>1, <2>3 DEF EditInv, ConfirmsAlone
  <2>5. \A d \in Requests : ConfirmsAlone(d)'
    BY <2>3, <2>4, AloneKept, ClosedConfirmsNone
  <2> QED
    BY <2>2, <2>5 DEF EditInv
<1>11. ASSUME NEW c \in Requests, Unconfirm(c) PROVE EditInv'
  <2>1. PICK t \in Things :
          /\ t = req[c].on /\ ~Locked(t) /\ Close(c)
          /\ draft'[t].rev = req[c].rev /\ \A u \in Things \ {t} : draft'[u] = draft[u]
          /\ status'[t] = "draft" /\ \A u \in Things \ {t} : status'[u] = status[u]
          /\ \A u \in Things \ {t} : pointer'[u] = pointer[u]
    <3>1. req[c].on \in Things
      BY <1>0, <1>11 DEF Unconfirm, BasicInv, Named, At
    <3> QED
      BY <1>0, <1>11, <3>1 DEF Unconfirm, Unpublish, Write, RecipesTypeOK
  <2>2. draft'[t] # NoDraft
    <3>1. req[c].rev # 0
      BY <1>11, WritingNamed DEF Unconfirm, Writing
    <3> QED
      BY <2>1, <3>1 DEF NoDraft
  <2>3. ConfirmedIsPublished'
    BY <1>0, <2>1, <2>2 DEF ConfirmedIsPublished
  <2>4. \A d \in Requests \ {c} :
          Confirming(d) /\ req[d].on \in Dishes => draft'[req[d].on] = draft[req[d].on]
    BY <1>0, <2>1 DEF Locked
  <2>5. \A d \in Requests : ConfirmsAlone(d)'
    BY <2>1, <2>4, AloneKept, ClosedConfirmsNone
  <2> QED
    BY <2>3, <2>5 DEF EditInv
<1> QED
  BY <1>1, <1>2, <1>3, <1>4, <1>5, <1>6, <1>7, <1>8, <1>9, <1>10, <1>11, StepCases

-----------------------------------------------------------------------------
(* The first theorems. *)

(* The types of recipes and modifiers; a pointer names a version that is   *)
(* there.                                                                  *)
THEOREM RecipesTypeCorrect == RecipesAssumption /\ RecipesSpec => []RecipesTypeOK
<1> SUFFICES ASSUME RecipesAssumption PROVE RecipesSpec => []RecipesTypeOK
  OBVIOUS
<1>1. RecipesInit => BasicInv
  BY BasicInit
<1>2. BasicInv /\ [RecipesNext]_recipesVars => BasicInv'
  BY BasicStep
<1>3. BasicInv => RecipesTypeOK
  BY DEF BasicInv
<1> QED
  BY <1>1, <1>2, <1>3, PTL DEF RecipesSpec

(* What is confirmed is published, and a confirmed recipe has no draft.    *)
THEOREM ConfirmedArePublished ==
  RecipesAssumption /\ RecipesSpec => []ConfirmedIsPublished
<1> SUFFICES ASSUME RecipesAssumption PROVE RecipesSpec => []ConfirmedIsPublished
  OBVIOUS
<1>1. RecipesInit => BasicInv /\ EditInv
  BY BasicInit, EditStart
<1>2. BasicInv /\ EditInv /\ [RecipesNext]_recipesVars => BasicInv' /\ EditInv'
  BY BasicStep, EditStep
<1>3. EditInv => ConfirmedIsPublished
  BY DEF EditInv
<1> QED
  BY <1>1, <1>2, <1>3, PTL DEF RecipesSpec

(* The step of RecipeEditsKept, and that of ReopenedFromLive below.        *)
EditKept ==
  \A t \in Dishes :
    draft[t] # NoDraft /\ draft'[t] # draft[t] =>
      \/ /\ draft'[t] = NoDraft
         /\ versions'[t] = Append(versions[t], [rev |-> draft[t].rev,
                                                lines |-> draft[t].lines])
      \/ \E c \in Requests : At(c, "save") /\ draft'[t].rev = req[c].rev

(* Every step treats the drafts of dishes so.                              *)
LEMMA EditKeptStep ==
  ASSUME RecipesAssumption, BasicInv, EditInv, [RecipesNext]_recipesVars
  PROVE  EditKept
<1> SUFFICES ASSUME NEW t \in Dishes, draft[t] # NoDraft, draft'[t] # draft[t]
             PROVE  \/ /\ draft'[t] = NoDraft
                       /\ versions'[t] = Append(versions[t], [rev |-> draft[t].rev,
                                                              lines |-> draft[t].lines])
                    \/ \E c \in Requests : At(c, "save") /\ draft'[t].rev = req[c].rev
  BY DEF EditKept
<1>0. RecipesTypeOK /\ t \in Things /\ t \notin Modifiers
  BY DEF BasicInv, Things, RecipesAssumption
<1>1. PICK c \in Requests :
        SaveRecipe(c) \/ SaveModifier(c) \/ FinishConfirm(c) \/ Unconfirm(c)
  BY StepCases DEF recipesVars, SyncModifier, Start, Quits, Skip, BeginConfirm, Resolve
<1>2. req[c].on = t
  <2>1. CASE FinishConfirm(c)
    BY <1>0, <2>1, Published
  <2>2. CASE SaveRecipe(c) \/ SaveModifier(c) \/ Unconfirm(c)
    <3>1. \E ls, v : Write(c, ls, v)
      BY <2>2 DEF SaveRecipe, SaveModifier, Unconfirm
    <3> QED
      BY <1>0, <3>1 DEF Write, RecipesTypeOK
  <2> QED
    BY <1>1, <2>1, <2>2
<1>3. CASE SaveRecipe(c)
  <2>1. draft'[t].rev = req[c].rev
    BY <1>0, <1>2, <1>3 DEF SaveRecipe, Write, RecipesTypeOK
  <2> QED
    BY <1>3, <2>1 DEF SaveRecipe
<1>4. CASE SaveModifier(c)
  BY <1>0, <1>2, <1>4 DEF SaveModifier
<1>5. CASE FinishConfirm(c)
  <2>1. /\ draft'[t] = NoDraft
        /\ versions'[t] = Append(versions[t], [rev |-> req[c].rev, lines |-> req[c].lines])
    BY <1>2, <1>5, Published
  <2>2. draft[t].rev = req[c].rev /\ draft[t].lines = req[c].lines
    BY <1>2, <1>5 DEF FinishConfirm, EditInv, ConfirmsAlone
  <2> QED
    BY <2>1, <2>2
<1>6. CASE Unconfirm(c)
  BY <1>2, <1>6 DEF Unconfirm, EditInv, ConfirmedIsPublished
<1> QED
  BY <1>1, <1>3, <1>4, <1>5, <1>6

(* A saved recipe draft changes only under a later save, or goes as the    *)
(* version that holds exactly its lines.                                   *)
THEOREM RecipeEditsAreKept == RecipesAssumption /\ RecipesSpec => RecipeEditsKept
<1> SUFFICES ASSUME RecipesAssumption PROVE RecipesSpec => [][EditKept]_recipesVars
  BY DEF RecipeEditsKept, EditKept
<1>1. RecipesInit => BasicInv /\ EditInv
  BY BasicInit, EditStart
<1>2. BasicInv /\ EditInv /\ [RecipesNext]_recipesVars => BasicInv' /\ EditInv'
  BY BasicStep, EditStep
<1>3. BasicInv /\ EditInv /\ [RecipesNext]_recipesVars => [EditKept]_recipesVars
  BY EditKeptStep
<1> QED
  BY <1>1, <1>2, <1>3, PTL DEF RecipesSpec

Reopens ==
  \A t \in Things :
    /\ versions[t] = SubSeq(versions'[t], 1, Len(versions[t]))
    /\ t \in Modifiers /\ pointer[t] # 0 /\ pointer'[t] = 0 =>
         /\ draft'[t].parent = pointer[t]
         /\ draft'[t].lines = versions[t][pointer[t]].lines

(* What is appended to leaves what was there.                              *)
LEMMA PrefixOfAppend ==
  ASSUME NEW S, NEW s \in Seq(S), NEW e \in S
  PROVE  SubSeq(Append(s, e), 1, Len(s)) = s
<1>1. /\ Append(s, e) \in Seq(S) /\ Len(Append(s, e)) = Len(s) + 1 /\ Len(s) \in Nat
      /\ \A i \in 1 .. Len(s) : Append(s, e)[i] = s[i]
  BY AppendProperties
<1>2. \A i \in 1 .. Len(s) : Append(s, e)[i] \in S
  BY <1>1
<1>3. /\ SubSeq(Append(s, e), 1, Len(s)) \in Seq(S)
      /\ Len(SubSeq(Append(s, e), 1, Len(s))) = Len(s)
      /\ \A i \in 1 .. Len(s) : SubSeq(Append(s, e), 1, Len(s))[i] = s[i]
  BY <1>1, <1>2, SubSeqProperties
<1> QED
  BY <1>3, SeqEqual

(* Every step treats versions and re-opened modifiers so.                  *)
LEMMA ReopensStep ==
  ASSUME RecipesAssumption, BasicInv, [RecipesNext]_recipesVars
  PROVE  Reopens
<1> SUFFICES ASSUME NEW t \in Things
             PROVE  /\ versions[t] = SubSeq(versions'[t], 1, Len(versions[t]))
                    /\ t \in Modifiers /\ pointer[t] # 0 /\ pointer'[t] = 0 =>
                         /\ draft'[t].parent = pointer[t]
                         /\ draft'[t].lines = versions[t][pointer[t]].lines
  BY DEF Reopens
<1>0. RecipesTypeOK /\ versions[t] \in Seq(Versions)
  BY DEF BasicInv, RecipesTypeOK
<1>1. versions[t] = SubSeq(versions[t], 1, Len(versions[t]))
  BY <1>0, SubSeqFull
<1>2. ASSUME NEW c \in Requests, FinishConfirm(c)
      PROVE  /\ versions[t] = SubSeq(versions'[t], 1, Len(versions[t]))
             /\ ~(pointer[t] # 0 /\ pointer'[t] = 0)
  <2>1. CASE t # req[c].on
    BY <1>1, <1>2, <2>1, Published
  <2>2. CASE t = req[c].on
    <3>1. PICK new \in Versions :
            /\ versions'[t] = Append(versions[t], new)
            /\ pointer'[t] = Len(versions[t]) + 1 /\ Len(versions[t]) \in Nat
      <4>1. PICK u \in Things, new \in Versions :
              /\ u = req[c].on /\ versions'[u] = Append(versions[u], new)
              /\ pointer'[u] = Len(versions[u]) + 1 /\ Len(versions[u]) \in Nat
        BY <1>2, Published
      <4> QED
        BY <2>2, <4>1
    <3> QED
      BY <1>0, <3>1, PrefixOfAppend
  <2> QED
    BY <2>1, <2>2
<1>3. ASSUME NEW c \in Requests, Unconfirm(c), t \in Modifiers, pointer[t] # 0, pointer'[t] = 0
      PROVE  draft'[t].parent = pointer[t] /\ draft'[t].lines = versions[t][pointer[t]].lines
  <2>1. req[c].on = t
    BY <1>0, <1>3 DEF Unconfirm, Unpublish, RecipesTypeOK
  <2>2. Reopened(c) = pointer[t] /\ Write(c, LinesOf(t, Reopened(c)), Reopened(c))
    BY <1>3, <2>1 DEF Unconfirm, Reopened
  <2> QED
    BY <1>0, <1>3, <2>1, <2>2 DEF Write, LinesOf, RecipesTypeOK
<1>4. \/ UNCHANGED <<versions, pointer>>
      \/ \E c \in Requests : FinishConfirm(c)
      \/ UNCHANGED versions /\ \E c \in Requests : Unconfirm(c)
  BY StepCases DEF recipesVars, SyncModifier, Start, Quits, Skip, BeginConfirm, Resolve,
                   SaveRecipe, SaveModifier, Unconfirm
<1> QED
  BY <1>1, <1>2, <1>3, <1>4

(* A version once written never changes, and re-opening a modifier gives   *)
(* back the one that was live.                                             *)
THEOREM ReopenedIsLive == RecipesAssumption /\ RecipesSpec => ReopenedFromLive
<1> SUFFICES ASSUME RecipesAssumption PROVE RecipesSpec => [][Reopens]_recipesVars
  BY DEF ReopenedFromLive, Reopens
<1>1. RecipesInit => BasicInv
  BY BasicInit
<1>2. BasicInv /\ [RecipesNext]_recipesVars => BasicInv'
  BY BasicStep
<1>3. BasicInv /\ [RecipesNext]_recipesVars => [Reopens]_recipesVars
  BY ReopensStep
<1> QED
  BY <1>1, <1>2, <1>3, PTL DEF RecipesSpec

-----------------------------------------------------------------------------
(* Versions: whole, and made once. *)

Carries(t, r) == \E v \in 1 .. Len(versions[t]) : versions[t][v].rev = r

(* What a confirm publishes has its rows, or will have found them.         *)
Listed(c, r) == \E k \in 1 .. Len(req[c].todo) : req[c].todo[k] = r
Pends(c, r)  == r \in rows \/ r \in req[c].made \/ Listed(c, r)

Completes(c) ==
  Confirming(c) =>
    \A i \in req[c].lines : Pends(c, ItemOf[i]) /\ Pends(c, UnitOf[i])

(* The number of a saved list is with one request that will write it, or   *)
(* in a draft, or with one request that confirms it, or in one version.    *)
FreshWrite(c) ==
  Writing(c) =>
    /\ \A t \in Things : draft[t].rev # req[c].rev /\ ~Carries(t, req[c].rev)
    /\ \A d \in Requests \ {c} : Writing(d) \/ Confirming(d) => req[d].rev # req[c].rev

FreshDraft(t)   == draft[t].rev # 0 => ~Carries(t, draft[t].rev)
FreshConfirm(c) == Confirming(c) => ~Carries(req[c].on, req[c].rev)
PastVersions(t) == \A v \in 1 .. Len(versions[t]) : versions[t][v].rev <= drafts

WholeInv ==
  /\ VersionsWhole
  /\ \A c \in Requests : Completes(c) /\ FreshWrite(c) /\ FreshConfirm(c)
  /\ \A t \in Things : FreshDraft(t) /\ PastVersions(t)

(* WholeInv holds at the start, and every step keeps it.                   *)
LEMMA WholeStart == RecipesAssumption /\ RecipesInit => WholeInv
<1> SUFFICES ASSUME RecipesAssumption, RecipesInit PROVE WholeInv
  OBVIOUS
<1>1. \A c \in Requests : ~Confirming(c) /\ ~Writing(c)
  BY ClosedRequest DEF RecipesInit, Confirming, Writing, At
<1>2. \A t \in Things : Len(versions[t]) = 0
  BY DEF RecipesInit
<1> QED
  BY <1>1, <1>2 DEF RecipesInit, WholeInv, VersionsWhole, Completes, FreshWrite, FreshConfirm,
                    FreshDraft, PastVersions, Carries

(* A request that writes and confirms nothing afterwards, and has left the *)
(* tables alone.                                                           *)
LEMMA WholeKept ==
  ASSUME WholeInv, NEW c \in Requests, ~Confirming(c)', ~Writing(c)',
         \A d \in Requests \ {c} : req'[d] = req[d],
         UNCHANGED <<draft, versions, rows>>,
         \A t \in Things : PastVersions(t)'
  PROVE  WholeInv'
<1>1. VersionsWhole'
  BY DEF WholeInv, VersionsWhole
<1>2. ASSUME NEW d \in Requests PROVE Completes(d)' /\ FreshWrite(d)' /\ FreshConfirm(d)'
  <2>1. CASE d = c
    BY <2>1 DEF Completes, FreshWrite, FreshConfirm
  <2>2. CASE d # c
    <3>1. req'[d] = req[d] /\ Completes(d) /\ FreshWrite(d) /\ FreshConfirm(d)
      BY <2>2 DEF WholeInv
    <3>2. Completes(d)' /\ FreshConfirm(d)'
      BY <3>1 DEF Completes, FreshConfirm, Pends, Listed, Carries, Confirming
    <3>3. \A e \in Requests \ {d} :
            (Writing(e) \/ Confirming(e))' => (Writing(e) \/ Confirming(e)) /\ req'[e] = req[e]
      BY DEF Writing, At, Confirming
    <3>4. FreshWrite(d)'
      BY <3>1, <3>3 DEF FreshWrite, Carries, Writing, At
    <3> QED
      BY <3>2, <3>4
  <2> QED
    BY <2>1, <2>2
<1>3. \A t \in Things : FreshDraft(t)'
  BY DEF WholeInv, FreshDraft, Carries
<1> QED
  BY <1>1, <1>2, <1>3 DEF WholeInv

(* A draft is written with the number of the request.                      *)
LEMMA WholeWritten ==
  ASSUME RecipesAssumption, BasicInv, WholeInv, NEW c \in Requests, Writing(c), Close(c),
         NEW ls \in SUBSET Ingredients, NEW v \in Nat, Write(c, ls, v),
         UNCHANGED <<versions, rows, drafts>>
  PROVE  WholeInv'
<1>1. ~Confirming(c)' /\ ~Writing(c)' /\ \A d \in Requests \ {c} : req'[d] = req[d]
  BY ClosedRequest, ClosedNow DEF BasicInv, Confirming, Writing, At
<1>2. PICK t \in Things :
        /\ t = req[c].on /\ draft'[t].rev = req[c].rev
        /\ \A u \in Things \ {t} : draft'[u] = draft[u]
  <2>1. PICK t \in Things : t = req[c].on
    BY WritingNamed
  <2>2. /\ draft'[t] = [rev |-> req[c].rev, lines |-> ls, parent |-> v]
        /\ \A u \in Things \ {t} : draft'[u] = draft[u]
    BY <2>1, WrittenDraft
  <2>3. draft'[t].rev = req[c].rev
    BY <2>2
  <2> QED
    BY <2>1, <2>2, <2>3
<1>3. VersionsWhole'
  BY DEF WholeInv, VersionsWhole
<1>4. ASSUME NEW d \in Requests PROVE Completes(d)' /\ FreshWrite(d)' /\ FreshConfirm(d)'
  <2>1. CASE d = c
    BY <1>1, <2>1 DEF Completes, FreshWrite, FreshConfirm
  <2>2. CASE d # c
    <3>1. req'[d] = req[d] /\ Completes(d) /\ FreshWrite(d) /\ FreshConfirm(d)
      BY <1>1, <2>2 DEF WholeInv
    <3>2. Completes(d)' /\ FreshConfirm(d)'
      BY <3>1 DEF Completes, FreshConfirm, Pends, Listed, Carries, Confirming
    <3>3. ASSUME Writing(d)' PROVE FreshWrite(d)'
      <4>1. Writing(d) /\ req[d].rev # req[c].rev
        BY <2>2, <3>1, <3>3 DEF Writing, At, FreshWrite
      <4>2. \A u \in Things : draft'[u].rev # req[d].rev
        BY <1>2, <3>1, <4>1 DEF FreshWrite
      <4>3. \A e \in Requests \ {d} : (Writing(e) \/ Confirming(e))' => req'[e].rev # req[d].rev
        BY <1>1, <3>1, <4>1 DEF FreshWrite, Writing, At, Confirming
      <4> QED
        BY <3>1, <4>1, <4>2, <4>3 DEF FreshWrite, Carries
    <3> QED
      BY <3>2, <3>3 DEF FreshWrite
  <2> QED
    BY <2>1, <2>2
<1>5. ASSUME NEW u \in Things PROVE FreshDraft(u)' /\ PastVersions(u)'
  <2>1. PastVersions(u)'
    BY DEF WholeInv, PastVersions
  <2>2. CASE u = t
    <3>1. ~Carries(t, req[c].rev)
      BY DEF WholeInv, FreshWrite
    <3> QED
      BY <1>2, <2>1, <2>2, <3>1 DEF FreshDraft, Carries
  <2>3. CASE u # t
    BY <1>2, <2>1, <2>3 DEF WholeInv, FreshDraft, Carries
  <2> QED
    BY <2>2, <2>3
<1> QED
  BY <1>3, <1>4, <1>5 DEF WholeInv

(* A version's number is a number.                                         *)
LEMMA VersionNumber ==
  ASSUME RecipesAssumption, RecipesTypeOK, NEW t \in Things, NEW v \in 1 .. Len(versions[t])
  PROVE  versions[t][v].rev \in Nat
<1>1. versions[t] \in Seq(Versions)
  BY DEF RecipesTypeOK
<1>2. versions[t][v] \in Versions
  BY <1>1, ElementOfSeq
<1> QED
  BY <1>2 DEF Versions, RecipesAssumption

LEMMA WholeStep ==
  RecipesAssumption /\ BasicInv /\ EditInv /\ WholeInv /\ [RecipesNext]_recipesVars => WholeInv'
<1> SUFFICES ASSUME RecipesAssumption, BasicInv, EditInv, WholeInv, [RecipesNext]_recipesVars
             PROVE  WholeInv'
  OBVIOUS
<1>0. /\ RecipesTypeOK /\ drafts \in Nat /\ \A t \in Things : PastVersions(t)
      /\ \A t \in Things : versions[t] \in Seq(Versions) /\ Len(versions[t]) \in Nat
  BY DEF BasicInv, RecipesTypeOK, RecipesAssumption, WholeInv
<1>9. ASSUME UNCHANGED <<versions, drafts>> PROVE \A t \in Things : PastVersions(t)'
  BY <1>0, <1>9 DEF PastVersions
<1>1. CASE UNCHANGED <<req, draft, versions, rows, drafts>>
  <2>1. VersionsWhole' /\ \A t \in Things : FreshDraft(t)' /\ PastVersions(t)'
    BY <1>1 DEF WholeInv, VersionsWhole, FreshDraft, PastVersions, Carries
  <2>2. \A c \in Requests : Completes(c)' /\ FreshConfirm(c)'
    BY <1>1 DEF WholeInv, Completes, Pends, Listed, Confirming, FreshConfirm, Carries
  <2>3. \A c \in Requests : FreshWrite(c)'
    BY <1>1 DEF WholeInv, FreshWrite, Writing, At, Confirming, Carries
  <2> QED
    BY <2>1, <2>2, <2>3 DEF WholeInv
<1>2. UNCHANGED recipesVars \/ (\E m \in Modifiers : SyncModifier(m))
        => UNCHANGED <<req, draft, versions, rows, drafts>>
  BY DEF SyncModifier, recipesVars
<1>3. ASSUME NEW c \in Requests, NEW t \in Things, NEW o \in Ops,
             NEW ls \in SUBSET Ingredients, Start(c, o, t, ls)
      PROVE  WholeInv'
  <2>1. /\ req'[c].step = "open" /\ req'[c].op = o
        /\ \A d \in Requests \ {c} : req'[d] = req[d]
        /\ Writes(o) => req'[c].rev = drafts + 1 /\ drafts' = drafts + 1
        /\ ~Writes(o) => drafts' = drafts
        /\ UNCHANGED <<draft, versions, rows>>
    <3>1. PICK r, s, v :
            /\ req' = [req EXCEPT ![c] = Asked(o, t, ls, r, s, v)]
            /\ Writes(o) => r = drafts + 1
      BY <1>3 DEF Start, Asked
    <3>2. req'[c] = Asked(o, t, ls, r, s, v) /\ \A d \in Requests \ {c} : req'[d] = req[d]
      BY <1>0, <3>1 DEF RecipesTypeOK
    <3>3. LET a == Asked(o, t, ls, r, s, v) IN a.step = "open" /\ a.op = o /\ a.rev = r
      BY DEF Asked, Closed
    <3> QED
      BY <1>3, <3>1, <3>2, <3>3 DEF Start
  <2>2. ASSUME NEW u \in Things PROVE PastVersions(u)'
    <3>1. drafts' \in Nat /\ drafts' >= drafts
      BY <1>0, <2>1
    <3>2. \A v \in 1 .. Len(versions[u]) : versions[u][v].rev \in Nat /\ versions[u][v].rev <= drafts
      BY <1>0, VersionNumber DEF PastVersions
    <3> QED
      BY <1>0, <2>1, <3>1, <3>2 DEF PastVersions
  <2>3. CASE ~Writes(o)
    <3>1. ~Confirming(c)' /\ ~Writing(c)'
      BY <2>1, <2>3 DEF Confirming, Writing, At, Writes
    <3> QED
      BY <2>1, <2>2, <3>1, WholeKept
  <2>4. CASE Writes(o)
    <3>1. ~Confirming(c)' /\ req'[c].rev = drafts + 1
      BY <2>1, <2>4 DEF Confirming
    <3>2. VersionsWhole'
      BY <2>1 DEF WholeInv, VersionsWhole
    <3>3. \A u \in Things : FreshDraft(u)'
      BY <2>1 DEF WholeInv, FreshDraft, Carries
    <3>4. \A u \in Things : draft[u].rev # drafts + 1 /\ ~Carries(u, drafts + 1)
      <4> SUFFICES ASSUME NEW u \in Things
                   PROVE  draft[u].rev # drafts + 1 /\ ~Carries(u, drafts + 1)
        OBVIOUS
      <4>1. draft[u].rev <= drafts /\ draft[u].rev \in Nat
        BY <1>0 DEF BasicInv, DraftRow, RecipesTypeOK
      <4>2. \A v \in 1 .. Len(versions[u]) :
              versions[u][v].rev <= drafts /\ versions[u][v].rev \in Nat
        BY <1>0, VersionNumber DEF PastVersions
      <4> QED
        BY <1>0, <4>1, <4>2 DEF Carries
    <3>5. \A d \in Requests : Writing(d) \/ Confirming(d) => req[d].rev # drafts + 1
      <4> SUFFICES ASSUME NEW d \in Requests, Writing(d) \/ Confirming(d)
                   PROVE  req[d].rev # drafts + 1
        OBVIOUS
      <4>1. req[d].rev \in 1 .. drafts
        BY DEF BasicInv, Named, Writing, At, Confirming
      <4> QED
        BY <1>0, <4>1
    <3>6. ASSUME NEW d \in Requests PROVE Completes(d)' /\ FreshWrite(d)' /\ FreshConfirm(d)'
      <4>1. CASE d = c
        <5>1. \A e \in Requests \ {c} :
                (Writing(e) \/ Confirming(e))' => req'[e].rev # drafts + 1
          BY <2>1, <3>5 DEF Writing, At, Confirming
        <5>2. FreshWrite(c)'
          BY <2>1, <3>1, <3>4, <5>1 DEF FreshWrite, Carries
        <5> QED
          BY <3>1, <4>1, <5>2 DEF Completes, FreshConfirm
      <4>2. CASE d # c
        <5>1. req'[d] = req[d] /\ Completes(d) /\ FreshWrite(d) /\ FreshConfirm(d)
          BY <2>1, <4>2 DEF WholeInv
        <5>2. Completes(d)' /\ FreshConfirm(d)'
          BY <2>1, <5>1 DEF Completes, FreshConfirm, Pends, Listed, Carries, Confirming
        <5>3. ASSUME Writing(d)' PROVE FreshWrite(d)'
          <6>1. Writing(d) /\ req[d].rev # drafts + 1
            BY <3>5, <5>1, <5>3 DEF Writing, At
          <6>2. \A e \in Requests \ {d} : (Writing(e) \/ Confirming(e))' => req'[e].rev # req[d].rev
            BY <2>1, <3>1, <5>1, <6>1 DEF FreshWrite, Writing, At, Confirming
          <6> QED
            BY <2>1, <5>1, <6>1, <6>2 DEF FreshWrite, Carries
        <5> QED
          BY <5>2, <5>3 DEF FreshWrite
      <4> QED
        BY <4>1, <4>2
    <3> QED
      BY <2>2, <3>2, <3>3, <3>6 DEF WholeInv
  <2> QED
    BY <2>3, <2>4
<1>4. ASSUME NEW c \in Requests, Quits(c) \/ Skip(c) PROVE WholeInv'
  <2>1. Close(c) /\ UNCHANGED <<draft, versions, rows, drafts>>
    BY <1>4 DEF Quits, Skip
  <2>2. ~Confirming(c)' /\ ~Writing(c)' /\ \A d \in Requests \ {c} : req'[d] = req[d]
    BY <1>0, <2>1, ClosedRequest, ClosedNow DEF Confirming, Writing, At
  <2> QED
    BY <1>9, <2>1, <2>2, WholeKept
<1>5. ASSUME NEW c \in Requests, SaveRecipe(c) \/ SaveModifier(c) \/ Unconfirm(c)
      PROVE  WholeInv'
  <2>1. Writing(c) /\ Close(c) /\ UNCHANGED <<versions, rows, drafts>>
    BY <1>5 DEF SaveRecipe, SaveModifier, Unconfirm, Writing
  <2>2. \E ls \in SUBSET Ingredients, v \in Nat : Write(c, ls, v)
    BY <1>5, WritesLines
  <2> QED
    BY <2>1, <2>2, WholeWritten
<1>6. ASSUME NEW c \in Requests, BeginConfirm(c) PROVE WholeInv'
  <2>1. PICK t \in Things : /\ t = req[c].on /\ draft[t].rev \in 1 .. drafts
                            /\ draft[t].lines \in SUBSET Ingredients
    BY <1>0, <1>6, BegunRequest DEF RecipesTypeOK
  <2>2. PICK new \in Transactions, q \in Orders(draft[t].lines) :
          /\ req' = [req EXCEPT ![c] = new]
          /\ new.step = "confirming" /\ new.on = t /\ new.lines = draft[t].lines
          /\ new.rev = draft[t].rev /\ new.todo = RowsFor(q)
    BY <1>6, <2>1, BegunRequest
  <2>3. /\ UNCHANGED <<draft, versions, rows, drafts>>
        /\ req'[c] = new /\ \A d \in Requests \ {c} : req'[d] = req[d]
    BY <1>0, <1>6, <2>2 DEF BeginConfirm, RecipesTypeOK
  <2>4. VersionsWhole' /\ \A u \in Things : FreshDraft(u)' /\ PastVersions(u)'
    BY <2>3 DEF WholeInv, VersionsWhole, FreshDraft, PastVersions, Carries
  <2>5. Completes(c)'
    <3>1. \A i \in new.lines : \E k, n \in 1 .. Len(new.todo) :
            new.todo[k] = ItemOf[i] /\ new.todo[n] = UnitOf[i]
      BY <2>1, <2>2, RowsForAll
    <3> QED
      BY <2>3, <3>1 DEF Completes, Pends, Listed
  <2>6. FreshConfirm(c)' /\ FreshWrite(c)'
    <3>1. ~Carries(t, new.rev)
      BY <1>0, <2>1, <2>2 DEF WholeInv, FreshDraft
    <3> QED
      BY <2>2, <2>3, <3>1 DEF FreshConfirm, FreshWrite, Carries, Writing, At
  <2>7. ASSUME NEW d \in Requests \ {c}
        PROVE  Completes(d)' /\ FreshWrite(d)' /\ FreshConfirm(d)'
    <3>1. req'[d] = req[d] /\ Completes(d) /\ FreshWrite(d) /\ FreshConfirm(d)
      BY <2>3 DEF WholeInv
    <3>2. Completes(d)' /\ FreshConfirm(d)'
      BY <2>3, <3>1 DEF Completes, FreshConfirm, Pends, Listed, Carries, Confirming
    <3>3. ASSUME Writing(d)' PROVE FreshWrite(d)'
      <4>1. Writing(d) /\ req[d].rev # new.rev
        BY <2>1, <2>2, <3>1, <3>3 DEF Writing, At, FreshWrite
      <4>2. \A e \in Requests \ {d} : (Writing(e) \/ Confirming(e))' => req'[e].rev # req[d].rev
        BY <2>3, <3>1, <4>1 DEF FreshWrite, Writing, At, Confirming
      <4> QED
        BY <2>3, <3>1, <4>1, <4>2 DEF FreshWrite, Carries
    <3> QED
      BY <3>2, <3>3 DEF FreshWrite
  <2> QED
    BY <2>4, <2>5, <2>6, <2>7 DEF WholeInv
<1>7. ASSUME NEW c \in Requests, Resolve(c) PROVE WholeInv'
  <2>1. PICK new \in Transactions :
          /\ req' = [req EXCEPT ![c] = new]
          /\ new.step = "confirming" /\ new.on = req[c].on
          /\ new.lines = req[c].lines /\ new.rev = req[c].rev
          /\ req[c].todo \in Seq(Rows) /\ req[c].todo # <<>>
          /\ new.todo = Tail(req[c].todo) /\ req[c].made \subseteq new.made
          /\ Head(req[c].todo) \in new.made \cup rows
    BY <1>0, <1>7, ResolvedRequest
  <2>2. /\ UNCHANGED <<draft, versions, rows, drafts>> /\ Confirming(c)
        /\ req'[c] = new /\ \A d \in Requests \ {c} : req'[d] = req[d]
    BY <1>0, <1>7, <2>1 DEF Resolve, Needs, RecipesTypeOK
  <2>3. \A d \in Requests : /\ req'[d].step = req[d].step /\ (d # c => req'[d].op = req[d].op)
                            /\ req'[d].on = req[d].on /\ req'[d].lines = req[d].lines
                            /\ req'[d].rev = req[d].rev
    BY <2>1, <2>2 DEF Confirming
  <2>4. VersionsWhole' /\ \A u \in Things : FreshDraft(u)' /\ PastVersions(u)'
    BY <2>2 DEF WholeInv, VersionsWhole, FreshDraft, PastVersions, Carries
  <2>5. \A d \in Requests : /\ Confirming(d)' <=> Confirming(d)
                            /\ Writing(d)' <=> Writing(d)
    BY <2>1, <2>2, <2>3 DEF Confirming, Writing, At
  <2>6. \A d \in Requests : FreshWrite(d)' /\ FreshConfirm(d)'
    BY <2>2, <2>3, <2>5 DEF WholeInv, FreshWrite, FreshConfirm, Carries
  <2>7. ASSUME NEW r, Pends(c, r) PROVE Pends(c, r)'
    <3>1. CASE r \in rows \/ r \in req[c].made
      BY <2>1, <2>2, <3>1 DEF Pends
    <3>2. CASE Listed(c, r)
      <4>1. PICK k \in 1 .. Len(req[c].todo) : req[c].todo[k] = r
        BY <3>2 DEF Listed
      <4>2. /\ Len(new.todo) = Len(req[c].todo) - 1 /\ Len(req[c].todo) \in Nat
            /\ \A j \in 1 .. Len(new.todo) : new.todo[j] = req[c].todo[j + 1]
        BY <2>1, HeadTailProperties
      <4>3. CASE k = 1
        <5>1. Head(req[c].todo) = r
          BY <2>1, <4>1, <4>3
        <5> QED
          BY <2>1, <2>2, <5>1 DEF Pends
      <4>4. CASE k # 1
        <5>1. k - 1 \in 1 .. Len(new.todo) /\ new.todo[k - 1] = r
          BY <4>1, <4>2, <4>4
        <5> QED
          BY <2>2, <5>1 DEF Pends, Listed
      <4> QED
        BY <4>3, <4>4
    <3> QED
      BY <2>7, <3>1, <3>2 DEF Pends
  <2>8. ASSUME NEW d \in Requests PROVE Completes(d)'
    <3>1. CASE d = c
      BY <2>1, <2>2, <2>7, <3>1 DEF WholeInv, Completes
    <3>2. CASE d # c
      BY <2>2, <3>2 DEF WholeInv, Completes, Pends, Listed, Confirming
    <3> QED
      BY <3>1, <3>2
  <2> QED
    BY <2>4, <2>6, <2>8 DEF WholeInv
<1>8. ASSUME NEW c \in Requests, FinishConfirm(c) PROVE WholeInv'
  <2>1. PICK t \in Things, new \in Versions :
          /\ t = req[c].on /\ new = [rev |-> req[c].rev, lines |-> req[c].lines]
          /\ \A u \in Things \ {t} : versions'[u] = versions[u] /\ draft'[u] = draft[u]
          /\ Len(versions'[t]) = Len(versions[t]) + 1
          /\ versions'[t][Len(versions[t]) + 1] = new
          /\ \A v \in 1 .. Len(versions[t]) : versions'[t][v] = versions[t][v]
          /\ draft'[t] = NoDraft
    BY <1>8, Published
  <2>2. /\ Confirming(c) /\ req[c].todo = <<>> /\ Close(c) /\ drafts' = drafts
        /\ rows' = rows \cup req[c].made
    BY <1>8 DEF FinishConfirm, Publish
  <2>3. ~Confirming(c)' /\ ~Writing(c)' /\ \A d \in Requests \ {c} : req'[d] = req[d]
    BY <1>0, <2>2, ClosedRequest, ClosedNow DEF Confirming, Writing, At
  <2>4. /\ new.rev \in 1 .. drafts /\ new.lines # {} /\ Distinct(new.lines)
        /\ new.rev = req[c].rev /\ new.lines = req[c].lines
    BY <2>1, <2>2 DEF BasicInv, Named, Confirming
  <2>5. \A v \in 1 .. Len(versions[t]) : versions[t][v].rev # new.rev
    BY <2>1, <2>2, <2>4 DEF WholeInv, FreshConfirm, Carries
  <2>6. \A v \in 1 .. Len(versions'[t]) : \/ v \in 1 .. Len(versions[t])
                                          \/ v = Len(versions[t]) + 1
    BY <1>0, <2>1
  <2>7. \A i \in new.lines : ItemOf[i] \in rows' /\ UnitOf[i] \in rows'
    BY <2>2, <2>4 DEF WholeInv, Completes, Pends, Listed
  <2>8. VersionsWhole'
    <3>1. ASSUME NEW u \in Things, NEW v \in 1 .. Len(versions'[u])
          PROVE  /\ versions'[u][v].lines # {} /\ Distinct(versions'[u][v].lines)
                 /\ \A i \in versions'[u][v].lines : {ItemOf[i], UnitOf[i]} \subseteq rows'
      <4>1. CASE u = t /\ v = Len(versions[t]) + 1
        BY <2>1, <2>4, <2>7, <4>1
      <4>2. CASE v \in 1 .. Len(versions[u]) /\ versions'[u][v] = versions[u][v]
        BY <2>2, <4>2 DEF WholeInv, VersionsWhole
      <4> QED
        BY <2>1, <2>6, <4>1, <4>2
    <3>2. ASSUME NEW u \in Things, NEW v \in 1 .. Len(versions'[u]),
                 NEW w \in 1 .. Len(versions'[u]), versions'[u][v].rev = versions'[u][w].rev
          PROVE  v = w
      <4>1. CASE u = t
        <5>1. CASE v \in 1 .. Len(versions[t]) /\ w \in 1 .. Len(versions[t])
          <6>1. versions[t][v].rev = versions[t][w].rev
            BY <2>1, <3>2, <4>1, <5>1
          <6>2. \A x, y \in 1 .. Len(versions[t]) :
                  versions[t][x].rev = versions[t][y].rev => x = y
            BY DEF WholeInv, VersionsWhole
          <6> QED
            BY <5>1, <6>1, <6>2
        <5>2. CASE v = Len(versions[t]) + 1 /\ w \in 1 .. Len(versions[t])
          BY <2>1, <2>5, <3>2, <4>1, <5>2
        <5>3. CASE w = Len(versions[t]) + 1 /\ v \in 1 .. Len(versions[t])
          BY <2>1, <2>5, <3>2, <4>1, <5>3
        <5> QED
          BY <2>6, <4>1, <5>1, <5>2, <5>3
      <4>2. CASE u # t
        BY <2>1, <3>2, <4>2 DEF WholeInv, VersionsWhole
      <4> QED
        BY <4>1, <4>2
    <3> QED
      BY <3>1, <3>2 DEF VersionsWhole
  <2>9. ASSUME NEW u \in Things PROVE FreshDraft(u)' /\ PastVersions(u)'
    <3>1. CASE u = t
      <4>1. new.rev <= drafts
        BY <1>0, <2>4
      <4>2. \A v \in 1 .. Len(versions[t]) : versions[t][v].rev <= drafts
        BY <1>0 DEF PastVersions
      <4>3. PastVersions(t)'
        BY <2>1, <2>2, <2>6, <4>1, <4>2 DEF PastVersions
      <4> QED
        BY <2>1, <3>1, <4>3 DEF FreshDraft, NoDraft
    <3>2. CASE u # t
      BY <2>1, <2>2, <3>2 DEF WholeInv, FreshDraft, PastVersions, Carries
    <3> QED
      BY <3>1, <3>2
  <2>10. ASSUME NEW d \in Requests PROVE Completes(d)' /\ FreshWrite(d)' /\ FreshConfirm(d)'
    <3>1. CASE d = c
      BY <2>3, <3>1 DEF Completes, FreshWrite, FreshConfirm
    <3>2. CASE d # c
      <4>1. req'[d] = req[d] /\ Completes(d) /\ FreshWrite(d) /\ FreshConfirm(d)
        BY <2>3, <3>2 DEF WholeInv
      <4>2. Completes(d)'
        BY <2>2, <4>1 DEF Completes, Pends, Listed, Confirming
      <4>3. FreshConfirm(d)'
        <5>1. ASSUME Confirming(d)' PROVE req[d].on \in Things \ {t}
          BY <2>1, <2>2, <3>2, <4>1, <5>1 DEF EditInv, ConfirmsAlone, BasicInv, Named, Confirming
        <5> QED
          <6> SUFFICES ASSUME Confirming(d)', NEW v \in 1 .. Len(versions'[req'[d].on])
                       PROVE  versions'[req'[d].on][v].rev # req'[d].rev
            BY DEF FreshConfirm, Carries
          <6>1. PICK u \in Things \ {t} : u = req[d].on
            BY <5>1
          <6>2. versions'[u] = versions[u] /\ Confirming(d)
            BY <2>1, <4>1 DEF Confirming
          <6>3. ~Carries(u, req[d].rev)
            BY <4>1, <6>1, <6>2 DEF FreshConfirm
          <6> QED
            BY <4>1, <6>1, <6>2, <6>3 DEF Carries
      <4>4. ASSUME Writing(d)' PROVE FreshWrite(d)'
        <5>1. Writing(d) /\ req[d].rev # new.rev /\ req[d].rev # 0
          BY <2>2, <2>4, <3>2, <4>1, <4>4, WritingNamed DEF Writing, At, FreshWrite
        <5>2. \A u \in Things : draft'[u].rev # req[d].rev
          BY <2>1, <4>1, <5>1 DEF FreshWrite, NoDraft
        <5>3. ASSUME NEW u \in Things, NEW v \in 1 .. Len(versions'[u])
              PROVE  versions'[u][v].rev # req[d].rev
          <6>1. CASE u = t
            BY <2>1, <2>6, <4>1, <5>1, <6>1 DEF FreshWrite, Carries
          <6>2. CASE u # t
            BY <2>1, <4>1, <5>1, <6>2 DEF FreshWrite, Carries
          <6> QED
            BY <6>1, <6>2
        <5>4. \A e \in Requests \ {d} : (Writing(e) \/ Confirming(e))' => req'[e].rev # req[d].rev
          BY <2>3, <4>1, <5>1 DEF FreshWrite, Writing, At, Confirming
        <5> QED
          BY <4>1, <5>2, <5>3, <5>4 DEF FreshWrite, Carries
      <4> QED
        BY <4>2, <4>3, <4>4 DEF FreshWrite
    <3> QED
      BY <3>1, <3>2
  <2> QED
    BY <2>8, <2>9, <2>10 DEF WholeInv
<1> QED
  BY <1>1, <1>2, <1>3, <1>4, <1>5, <1>6, <1>7, <1>8, StepCases

(* A version is whole, its items and units exist, and no saved list makes  *)
(* two versions.                                                           *)
THEOREM VersionsAreWhole == RecipesAssumption /\ RecipesSpec => []VersionsWhole
<1> SUFFICES ASSUME RecipesAssumption PROVE RecipesSpec => []VersionsWhole
  OBVIOUS
<1>1. RecipesInit => BasicInv /\ EditInv /\ WholeInv
  BY BasicInit, EditStart, WholeStart
<1>2. BasicInv /\ EditInv /\ WholeInv /\ [RecipesNext]_recipesVars
        => BasicInv' /\ EditInv' /\ WholeInv'
  BY BasicStep, EditStep, WholeStep
<1>3. WholeInv => VersionsWhole
  BY DEF WholeInv
<1> QED
  BY <1>1, <1>2, <1>3, PTL DEF RecipesSpec

=============================================================================
