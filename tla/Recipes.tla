------------------------------ MODULE Recipes ------------------------------
(***************************************************************************)
(* The onboarding API that drafts, confirms, skips and re-opens recipes    *)
(* and modifiers, with several requests open at the same time.             *)
(*                                                                         *)
(* Each request is one transaction.  A save or a skip reads the status     *)
(* without a lock and writes it later; a confirm locks the row first and   *)
(* reads again, then resolves its ingredients one by one; an un-confirm    *)
(* is like a confirm, but that of a recipe has read the version pointer    *)
(* before it locks.  A refusal writes nothing, so a request that its first *)
(* read refuses is left out.                                               *)
(*                                                                         *)
(* The ingredients of a draft are a set; the order the operator gave them  *)
(* is chosen when a confirm resolves them.  Quantities are left out.       *)
(***************************************************************************)
EXTENDS Integers, Sequences, FiniteSets

CONSTANTS
  Dishes,        \* menu items that may have a recipe
  Modifiers,     \* modifiers of the POS catalog, all additive
  Requests,      \* API requests served at the same time
  Ingredients,   \* draft lines
  ItemOf,        \* the normalized name of a line: lower(btrim(name))
  UnitOf,        \* its canonical unit
  Lists,         \* the ingredient lists an operator may save, for each
  Known,         \* rows that exist at the start
  WrongUnits,    \* units of them with another unit_type
  MaxDrafts,     \* bound: requests that would write a draft
  NoThing        \* no recipe or modifier

Things == Dishes \cup Modifiers
Items  == {ItemOf[i] : i \in Ingredients}
Units  == {UnitOf[i] : i \in Ingredients}
Rows   == Items \cup Units       \* inventory_items and units_of_measure

ASSUME RecipesAssumption ==
  /\ IsFiniteSet(Ingredients)
  /\ Dishes \cap Modifiers = {} /\ NoThing \notin Things
  /\ DOMAIN ItemOf = Ingredients /\ DOMAIN UnitOf = Ingredients
  /\ Items \cap Units = {}
  /\ Lists \in [Things -> SUBSET SUBSET Ingredients]
  /\ Known \subseteq Rows /\ WrongUnits \subseteq Units \cap Known
  /\ MaxDrafts \in Nat

VARIABLES
  status,     \* recipes.status and modifiers.status; "none": no row
  pointer,    \* menu_items.recipe_version_id, modifiers.current_version_id
  draft,      \* recipe_drafts and modifier_drafts
  versions,   \* recipe_versions and modifier_versions with their ingredients
  rows,       \* the committed items and units
  req,        \* each request's place in its transaction
  drafts      \* requests for a draft so far

recipesVars == <<status, pointer, draft, versions, rows, req, drafts>>

Statuses == {"none", "draft", "confirmed", "skipped"}
Ops      == {"save", "skip", "confirm", "unconfirm"}

(* rev is the number of the request that wrote the draft; 0: no draft row. *)
NoDraft == [rev |-> 0, lines |-> {}, parent |-> 0]

Closed ==
  [step |-> "closed", op |-> "none", on |-> NoThing, lines |-> {}, rev |-> 0,
   seen |-> "none", version |-> 0, todo |-> <<>>, made |-> {}]

RecipesInit ==
  /\ status = [t \in Things |-> "none"]
  /\ pointer = [t \in Things |-> 0]
  /\ draft = [t \in Things |-> NoDraft]
  /\ versions = [t \in Things |-> <<>>]
  /\ rows = Known
  /\ req = [c \in Requests |-> Closed]
  /\ drafts = 0

-----------------------------------------------------------------------------
Confirming(c) == req[c].step = "confirming"

(* Mutant: the row is read without FOR UPDATE.                             *)
Locked_Unlocked(t) == FALSE

(* recipes or modifiers FOR UPDATE; the other writers hold it for one step *)
Locked(t) == \E c \in Requests : Confirming(c) /\ req[c].on = t

Close(c) == req' = [req EXCEPT ![c] = Closed]

(* The draft a request writes.                                             *)
Write(c, ls, parent) ==
  draft' = [draft EXCEPT ![req[c].on] =
              [rev |-> req[c].rev, lines |-> ls, parent |-> parent]]

-----------------------------------------------------------------------------
(* The first read of each request. *)

(* A catalog sync inserts a modifier as a draft, and leaves an existing    *)
(* one alone.                                                              *)
SyncModifier(m) ==
  /\ status[m] = "none"
  /\ status' = [status EXCEPT ![m] = "draft"]
  /\ UNCHANGED <<pointer, draft, versions, rows, req, drafts>>

Writes(o) == o \in {"save", "unconfirm"}

Start(c, o, t, ls) ==
  /\ req[c] = Closed
  /\ t \in Modifiers => status[t] # "none"                    \* 404
  /\ o \in {"save", "skip"} => status[t] # "confirmed"        \* 409
  /\ Writes(o) => drafts < MaxDrafts
  /\ drafts' = IF Writes(o) THEN drafts + 1 ELSE drafts
  /\ req' = [req EXCEPT ![c] =
       [Closed EXCEPT
          !.step = "open", !.op = o, !.on = t, !.lines = ls,
          !.rev = IF Writes(o) THEN drafts + 1 ELSE 0,
          !.seen = IF o \in {"save", "skip"} THEN status[t] ELSE "none",
          !.version = IF o = "unconfirm" THEN pointer[t] ELSE 0]]
  /\ UNCHANGED <<status, pointer, draft, versions, rows>>

Save(c, t, ls) == Start(c, "save", t, ls)
Ask(c, o, t)   == o # "save" /\ Start(c, o, t, {})

At(c, o) == req[c].step = "open" /\ req[c].op = o

-----------------------------------------------------------------------------
(* save_draft and skip. *)

(* The row was absent at the read and is there now: uq_recipes_menu_item   *)
(* fails the INSERT.                                                       *)
TooLate(c) == req[c].seen = "none" /\ status[req[c].on] # "none"

InsertFails(c) ==
  /\ req[c].step = "open" /\ req[c].op \in {"save", "skip"}
  /\ TooLate(c)
  /\ Close(c)
  /\ UNCHANGED <<status, pointer, draft, versions, rows, drafts>>

SaveRecipe(c) ==
  LET t == req[c].on IN
  /\ At(c, "save") /\ t \in Dishes
  /\ ~TooLate(c) /\ ~Locked(t)
  /\ status' = [status EXCEPT ![t] = "draft"]
  /\ Write(c, req[c].lines, draft[t].parent)
  /\ Close(c)
  /\ UNCHANGED <<pointer, versions, rows, drafts>>

(* The modifiers row is written only to re-open a skipped one; a new draft *)
(* row shares it through its foreign key, an existing one does not.        *)
SaveModifier(c) ==
  LET t == req[c].on IN
  /\ At(c, "save") /\ t \in Modifiers
  /\ (req[c].seen = "skipped" \/ draft[t] = NoDraft) => ~Locked(t)
  /\ status' = IF req[c].seen = "skipped" THEN [status EXCEPT ![t] = "draft"] ELSE status
  /\ Write(c, req[c].lines, draft[t].parent)
  /\ Close(c)
  /\ UNCHANGED <<pointer, versions, rows, drafts>>

Skip(c) ==
  LET t == req[c].on IN
  /\ At(c, "skip")
  /\ ~TooLate(c) /\ ~Locked(t)
  /\ status' = [status EXCEPT ![t] = "skipped"]
  /\ Close(c)
  /\ UNCHANGED <<pointer, draft, versions, rows, drafts>>

-----------------------------------------------------------------------------
(* confirm. *)

Distinct(ls) == \A i, j \in ls : ItemOf[i] = ItemOf[j] => i = j

Confirmable(t) ==
  status[t] = "draft" /\ draft[t].lines # {} /\ Distinct(draft[t].lines)

Orders(ls) ==
  {q \in [1 .. Cardinality(ls) -> ls] : \A i, j \in DOMAIN q : q[i] = q[j] => i = j}

(* What the resolver inserts or finds, in its order: each line's unit and  *)
(* then its item.                                                          *)
RowsFor(q) ==
  [k \in 1 .. 2 * Len(q) |->
     IF k % 2 = 1 THEN UnitOf[q[(k + 1) \div 2]] ELSE ItemOf[q[k \div 2]]]

BeginConfirm(c) ==
  LET t == req[c].on IN
  /\ At(c, "confirm") /\ ~Locked(t)
  /\ Confirmable(t)
  /\ \E q \in Orders(draft[t].lines) :
       req' = [req EXCEPT ![c] =
         [req[c] EXCEPT !.step = "confirming", !.lines = draft[t].lines,
                        !.rev = draft[t].rev, !.todo = RowsFor(q)]]
  /\ UNCHANGED <<status, pointer, draft, versions, rows, drafts>>

RefuseConfirm(c) ==
  LET t == req[c].on IN
  /\ At(c, "confirm") /\ ~Locked(t)
  /\ ~Confirmable(t)
  /\ Close(c)
  /\ UNCHANGED <<status, pointer, draft, versions, rows, drafts>>

(* ON CONFLICT DO NOTHING waits for the transaction that has inserted the  *)
(* row and not committed.                                                  *)
MadeByOther(c, r) == \E d \in Requests \ {c} : r \in req[d].made
Needs(c, r)       == Confirming(c) /\ req[c].todo # <<>> /\ Head(req[c].todo) = r

Resolve(c) ==
  \E r \in Rows \ WrongUnits :
    /\ Needs(c, r) /\ ~MadeByOther(c, r)
    /\ req' = [req EXCEPT ![c] =
         [req[c] EXCEPT !.todo = Tail(req[c].todo),
                        !.made = req[c].made \cup ({r} \ rows)]]
    /\ UNCHANGED <<status, pointer, draft, versions, rows, drafts>>

(* Mutant: the unit is tried again for as long as it does not fit.         *)
UnitConflict_Retries(c) ==
  /\ \E r \in WrongUnits : Needs(c, r)
  /\ UNCHANGED recipesVars

UnitConflict(c) ==
  /\ \E r \in WrongUnits : Needs(c, r)
  /\ Close(c)
  /\ UNCHANGED <<status, pointer, draft, versions, rows, drafts>>

(* Mutant: the resolver's rows belong to a session nobody commits.         *)
Publish_RowsLost(c) ==
  LET t == req[c].on IN
  /\ versions' = [versions EXCEPT ![t] =
       Append(versions[t], [rev |-> req[c].rev, lines |-> req[c].lines])]
  /\ pointer' = [pointer EXCEPT ![t] = Len(versions[t]) + 1]
  /\ status' = [status EXCEPT ![t] = "confirmed"]
  /\ draft' = [draft EXCEPT ![t] = NoDraft]
  /\ rows' = rows

(* Mutant: the version's row conflicts with an older one and is not made.  *)
Publish_NoVersion(c) ==
  LET t == req[c].on IN
  /\ versions' = versions
  /\ pointer' = [pointer EXCEPT ![t] = Len(versions[t]) + 1]
  /\ status' = [status EXCEPT ![t] = "confirmed"]
  /\ draft' = [draft EXCEPT ![t] = NoDraft]
  /\ rows' = rows \cup req[c].made

(* Mutant: the confirm forgets the draft it has published.                 *)
Publish_KeepsDraft(c) ==
  LET t == req[c].on IN
  /\ versions' = [versions EXCEPT ![t] =
       Append(versions[t], [rev |-> req[c].rev, lines |-> req[c].lines])]
  /\ pointer' = [pointer EXCEPT ![t] = Len(versions[t]) + 1]
  /\ status' = [status EXCEPT ![t] = "confirmed"]
  /\ draft' = draft
  /\ rows' = rows \cup req[c].made

(* Steps 2 to 6 and the commit: version MAX + 1, the pointer, the status,  *)
(* and the draft row deleted, whatever it holds by now.                    *)
Publish(c) ==
  LET t == req[c].on IN
  /\ versions' = [versions EXCEPT ![t] =
       Append(versions[t], [rev |-> req[c].rev, lines |-> req[c].lines])]
  /\ pointer' = [pointer EXCEPT ![t] = Len(versions[t]) + 1]
  /\ status' = [status EXCEPT ![t] = "confirmed"]
  /\ draft' = [draft EXCEPT ![t] = NoDraft]
  /\ rows' = rows \cup req[c].made

FinishConfirm(c) ==
  /\ Confirming(c) /\ req[c].todo = <<>>
  /\ Publish(c)
  /\ Close(c)
  /\ UNCHANGED drafts

-----------------------------------------------------------------------------
(* unconfirm. *)

(* Mutant: every un-confirm trusts the pointer of its first read.          *)
Reopened_Early(c) == req[c].version

(* The version an un-confirm copies.  unconfirm_modifier reads the pointer *)
(* after the lock, unconfirm_recipe before it.                             *)
Reopened(c) == IF req[c].on \in Modifiers THEN pointer[req[c].on] ELSE req[c].version

LinesOf(t, v) == IF v = 0 THEN {} ELSE versions[t][v].lines

Unpublish(t) ==
  /\ status' = [status EXCEPT ![t] = "draft"]
  /\ pointer' = [pointer EXCEPT ![t] = 0]

Unconfirm(c) ==
  LET t == req[c].on
      v == Reopened(c) IN
  /\ At(c, "unconfirm") /\ ~Locked(t)
  /\ status[t] = "confirmed"
  /\ Write(c, LinesOf(t, v), v)
  /\ Unpublish(t)
  /\ Close(c)
  /\ UNCHANGED <<versions, rows, drafts>>

RefuseUnconfirm(c) ==
  /\ At(c, "unconfirm") /\ ~Locked(req[c].on)
  /\ status[req[c].on] # "confirmed"
  /\ Close(c)
  /\ UNCHANGED <<status, pointer, draft, versions, rows, drafts>>

-----------------------------------------------------------------------------
(* What ends a transaction from outside. *)

(* An exception, a lost connection or the process: everything rolls back.  *)
Abandon(c) ==
  /\ req[c] # Closed
  /\ Close(c)
  /\ UNCHANGED <<status, pointer, draft, versions, rows, drafts>>

WaitsFor(c, d) == d # c /\ \E r \in req[d].made : Needs(c, r)

(* PostgreSQL ends one request of a circle of waits.                       *)
BreakDeadlock(c) ==
  /\ \E S \in SUBSET Requests :
       c \in S /\ \A d \in S : \E e \in S : WaitsFor(d, e)
  /\ Close(c)
  /\ UNCHANGED <<status, pointer, draft, versions, rows, drafts>>

-----------------------------------------------------------------------------
Step(c) ==
  \/ InsertFails(c) \/ SaveRecipe(c) \/ SaveModifier(c) \/ Skip(c)
  \/ BeginConfirm(c) \/ RefuseConfirm(c)
  \/ Resolve(c) \/ UnitConflict(c) \/ FinishConfirm(c)
  \/ Unconfirm(c) \/ RefuseUnconfirm(c)
  \/ BreakDeadlock(c)

RecipesNext ==
  \/ \E m \in Modifiers : SyncModifier(m)
  \/ \E c \in Requests, t \in Things : \E ls \in Lists[t] : Save(c, t, ls)
  \/ \E c \in Requests, t \in Things, o \in Ops : Ask(c, o, t)
  \/ \E c \in Requests : Step(c) \/ Abandon(c)

RecipesSpec == RecipesInit /\ [][RecipesNext]_recipesVars

(* A request keeps running, and the queue for a row lock is served.        *)
RecipesFairness == \A c \in Requests : SF_recipesVars(Step(c))

RecipesFairSpec == RecipesSpec /\ RecipesFairness

-----------------------------------------------------------------------------
Versions == [rev : 1 .. MaxDrafts, lines : SUBSET Ingredients]

Transactions ==
  [step : {"closed", "open", "confirming"}, op : Ops \cup {"none"},
   on : Things \cup {NoThing}, lines : SUBSET Ingredients, rev : 0 .. MaxDrafts,
   seen : Statuses, version : Nat, todo : Seq(Rows), made : SUBSET Rows]

(* The type invariant; a pointer names a version that is there.            *)
RecipesTypeOK ==
  /\ status \in [Things -> Statuses]
  /\ pointer \in [Things -> Nat] /\ \A t \in Things : pointer[t] <= Len(versions[t])
  /\ draft \in [Things -> [rev : 0 .. MaxDrafts, lines : SUBSET Ingredients, parent : Nat]]
  /\ versions \in [Things -> Seq(Versions)]
  /\ rows \in SUBSET Rows
  /\ req \in [Requests -> Transactions]
  /\ drafts \in 0 .. MaxDrafts

(* A version is whole and made once: it has a line at least, one line per  *)
(* item, all its items and units are rows, whatever other confirms rolled  *)
(* back, and no two versions come of one saved list, after two clicks, a   *)
(* retry or an un-confirm in between (confirm_recipe, confirm_modifier,    *)
(* resolve_inventory_item).                                                *)
VersionsWhole ==
  \A t \in Things : \A v \in 1 .. Len(versions[t]) :
    /\ versions[t][v].lines # {} /\ Distinct(versions[t][v].lines)
    /\ \A i \in versions[t][v].lines : {ItemOf[i], UnitOf[i]} \subseteq rows
    /\ \A u \in 1 .. Len(versions[t]) : versions[t][v].rev = versions[t][u].rev => v = u

(* What is confirmed is sold from: its pointer is set, and a confirmed     *)
(* recipe has no draft beside it (save_draft, skip_recipe, confirm_recipe, *)
(* unconfirm_recipe).  A recipe in draft has its draft row.                *)
ConfirmedIsPublished ==
  /\ \A t \in Things : status[t] = "confirmed" => pointer[t] # 0
  /\ \A t \in Dishes : status[t] = "confirmed" => draft[t] = NoDraft
  /\ \A t \in Dishes : status[t] = "draft" => draft[t] # NoDraft

(* A saved recipe draft is never lost: it changes only under a later save, *)
(* or it goes as the version that holds exactly its lines.                 *)
RecipeEditsKept ==
  [][\A t \in Dishes :
       draft[t] # NoDraft /\ draft'[t] # draft[t] =>
         \/ /\ draft'[t] = NoDraft
            /\ versions'[t] = Append(versions[t], [rev |-> draft[t].rev,
                                                   lines |-> draft[t].lines])
         \/ \E c \in Requests : At(c, "save") /\ draft'[t].rev = req[c].rev]_recipesVars

(* Re-opening a modifier gives back the version that was live, and a       *)
(* version once written never changes (unconfirm_modifier).                *)
ReopenedFromLive ==
  [][\A t \in Things :
       /\ versions[t] = SubSeq(versions'[t], 1, Len(versions[t]))
       /\ t \in Modifiers /\ pointer[t] # 0 /\ pointer'[t] = 0 =>
            /\ draft'[t].parent = pointer[t]
            /\ draft'[t].lines = versions[t][pointer[t]].lines]_recipesVars

(* Every request is answered, also when two confirms want the same new     *)
(* items in opposite orders.                                               *)
RequestsEnd == \A c \in Requests : req[c] # Closed ~> req[c] = Closed
=============================================================================
