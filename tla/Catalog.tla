------------------------------ MODULE Catalog ------------------------------
(***************************************************************************)
(* The catalog syncs of one Clover connection.  A sync pulls the whole     *)
(* item list page by page and then the modifier groups; only a pull that   *)
(* came to its end is applied, in one transaction that activates what the  *)
(* pull holds and deactivates what it does not.                            *)
(*                                                                         *)
(* The callback and every call of sync-menu start a sync, so they overlap; *)
(* and the owner edits the catalog at Clover while it is read.  The        *)
(* modifiers an applied pull inserts are Recipes!SyncModifier.             *)
(***************************************************************************)
EXTENDS Integers, FiniteSets

CONSTANTS
  Items,          \* Clover items: numbers, in the order of the list
  Syncs,          \* syncs that may run at the same time
  ItemsPerPage,   \* BATCH_SIZE, 100 in the code
  MaxItemPages,   \* MAX_PAGES, 50 in the code
  MaxEdits        \* bound: changes to Clover's catalog

ASSUME CatalogAssumption ==
  /\ Items \subseteq Nat /\ IsFiniteSet(Items)
  /\ ItemsPerPage \in Nat \ {0} /\ MaxItemPages \in Nat \ {0} /\ MaxEdits \in Nat

VARIABLES
  catalog,  \* the items in Clover's catalog
  edits,    \* changes to it so far
  sync,     \* each sync's pull
  menu,     \* menu_items: absent, active or inactive
  steady    \* history: for each sync, the items its pull had to find

catalogVars == <<catalog, edits, sync, menu, steady>>

Pulls  == [step : {"idle", "items", "groups", "apply"}, got : SUBSET Items,
           offset : 0 .. ItemsPerPage * MaxItemPages]
NoPull == [step |-> "idle", got |-> {}, offset |-> 0]

CatalogInit ==
  /\ catalog \in SUBSET Items /\ edits = 0
  /\ sync = [s \in Syncs |-> NoPull]
  /\ menu = [i \in Items |-> "absent"]
  /\ steady = [s \in Syncs |-> {}]

Rank(list, i)        == Cardinality({j \in list : j < i})
Between(list, a, b)  == {i \in list : Rank(list, i) >= a /\ Rank(list, i) < b}

(* Items that an edit moves across the offset of a pull, ahead of what it  *)
(* asks for next; those behind it it has.                                  *)
Moved(s, list) ==
  Between(list, 0, sync[s].offset) \ Between(catalog, 0, sync[s].offset)

Edit(list) ==
  /\ edits < MaxEdits /\ edits' = edits + 1
  /\ catalog' = list
  /\ steady' = [s \in Syncs |->
       (steady[s] \cap list) \ (IF sync[s].step = "items" THEN Moved(s, list) ELSE {})]
  /\ UNCHANGED <<sync, menu>>

AddItem(i)    == i \notin catalog /\ Edit(catalog \cup {i})
RemoveItem(i) == i \in catalog /\ Edit(catalog \ {i})

-----------------------------------------------------------------------------
SyncBegins(s) ==
  /\ sync[s] = NoPull
  /\ sync' = [sync EXCEPT ![s].step = "items"]
  /\ steady' = [steady EXCEPT ![s] = catalog]
  /\ UNCHANGED <<catalog, edits, menu>>

(* Mutant: the last page the loop allows ends the pull.                    *)
AfterPage_Truncates(page, next) ==
  IF Cardinality(page) < ItemsPerPage \/ next = ItemsPerPage * MaxItemPages
  THEN "groups" ELSE "items"

(* A full page that is the last the loop allows raises: no list at all.    *)
AfterPage(page, next) ==
  IF Cardinality(page) < ItemsPerPage THEN "groups"
  ELSE IF next = ItemsPerPage * MaxItemPages THEN "idle" ELSE "items"

PullPage(s) ==
  LET next == sync[s].offset + ItemsPerPage
      page == Between(catalog, sync[s].offset, next)
      step == AfterPage(page, next)
  IN
  /\ sync[s].step = "items"
  /\ sync' = [sync EXCEPT ![s] =
       IF step = "idle" THEN NoPull
       ELSE [step |-> step, got |-> sync[s].got \cup page, offset |-> next]]
  /\ steady' = IF step = "idle" THEN [steady EXCEPT ![s] = {}] ELSE steady
  /\ UNCHANGED <<catalog, edits, menu>>

PullGroups(s) ==
  /\ sync[s].step = "groups"
  /\ sync' = [sync EXCEPT ![s].step = "apply"]
  /\ UNCHANGED <<catalog, edits, menu, steady>>

(* A page fails, or the process goes: nothing is written.                  *)
AbortSync(s) ==
  /\ sync[s] # NoPull
  /\ sync' = [sync EXCEPT ![s] = NoPull]
  /\ steady' = [steady EXCEPT ![s] = {}]
  /\ UNCHANGED <<catalog, edits, menu>>

(* Upsert what was pulled; deactivate the rest, unless nothing was pulled. *)
Apply(s) ==
  LET seen == sync[s].got IN
  /\ sync[s].step = "apply"
  /\ menu' = [i \in Items |->
       IF i \in seen THEN "active"
       ELSE IF seen # {} /\ menu[i] = "active" THEN "inactive" ELSE menu[i]]
  /\ sync' = [sync EXCEPT ![s] = NoPull]
  /\ steady' = [steady EXCEPT ![s] = {}]
  /\ UNCHANGED <<catalog, edits>>

-----------------------------------------------------------------------------
SyncStep(s) == PullPage(s) \/ PullGroups(s) \/ Apply(s)

CatalogNext ==
  \/ \E i \in Items : AddItem(i) \/ RemoveItem(i)
  \/ \E s \in Syncs : SyncBegins(s) \/ SyncStep(s) \/ AbortSync(s)

CatalogSpec == CatalogInit /\ [][CatalogNext]_catalogVars

-----------------------------------------------------------------------------
(* The type invariant. *)
CatalogTypeOK ==
  /\ catalog \subseteq Items /\ edits \in 0 .. MaxEdits
  /\ sync \in [Syncs -> Pulls]
  /\ menu \in [Items -> {"absent", "active", "inactive"}]
  /\ steady \in [Syncs -> SUBSET Items]

(* A sync never takes an item off the menu that has been in Clover's       *)
(* catalog since the sync began, unless an edit moved it past the pull's   *)
(* offset: not after a failed page, at the page limit, or with the list    *)
(* another sync has made stale (_fetch_all, sync_connection, _apply).      *)
MenuKept ==
  [][\A s \in Syncs : sync[s].step = "apply" /\ sync'[s] = NoPull =>
       \A i \in steady[s] : menu[i] = "active" => menu'[i] = "active"]_catalogVars
=============================================================================
