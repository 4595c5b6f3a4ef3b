---------------------------- MODULE ReceiptLife ----------------------------
(***************************************************************************)
(* What a photographed receipt promises whoever looks at it, with no       *)
(* workers, leases, quotas or locks: each reading that is asked for ends   *)
(* once, or is void as soon as somebody starts over; its line shows up     *)
(* with its end and not before; operators edit rows and start over in a    *)
(* draft only; and a commit takes into stock what the receipt shows at     *)
(* that moment.                                                            *)
(*                                                                         *)
(* It does not promise that a committed receipt stays as it is.  It can be *)
(* asked again, closed or deleted: the endpoints look at its state before  *)
(* they write and not as they do.  And a reading still owed shows its line *)
(* whatever has become of the receipt.                                     *)
(***************************************************************************)
CONSTANTS Jobs,   \* readings that may be asked for; each may find a line
          Typed   \* lines an operator may add

VARIABLES
  stage,    \* of the receipt itself
  view,     \* what the client is told of its reading
  ticket,   \* ticket[j]: what became of reading j
  row,      \* row[l]: absent, shown, or shown and linked to stock it moves
  stocked   \* the lines whose stock has been received

lifeVars == <<stage, view, ticket, row, stocked>>

Here   == stage \notin {"absent", "deleted"}
Moving == {l \in Jobs \cup Typed : row[l] = "moves"}

LifeInit ==
  /\ stage = "absent" /\ view = "none"
  /\ ticket = [j \in Jobs |-> "none"]
  /\ row = [l \in Jobs \cup Typed |-> "none"]
  /\ stocked = {}

Photograph ==
  /\ stage = "absent" /\ stage' = "draft"
  /\ UNCHANGED <<view, ticket, row, stocked>>

(* Another reading: what earlier ones found is taken off, and those that   *)
(* are still owed may yet add their line.                                  *)
Ask(j) ==
  /\ view' = "waiting"
  /\ Here /\ ticket[j] = "none"
  /\ ticket' = [ticket EXCEPT ![j] = "owed"]
  /\ row' = [l \in Jobs \cup Typed |-> IF l \in Jobs THEN "none" ELSE row[l]]
  /\ UNCHANGED <<stage, stocked>>

(* A reading from nothing: typed lines go too, and earlier ones are void.  *)
StartOver(j) ==
  /\ view' = "waiting"
  /\ stage = "draft" /\ ticket[j] = "none"
  /\ ticket' = [k \in Jobs |-> IF k = j THEN "owed"
                               ELSE IF ticket[k] = "owed" THEN "void" ELSE ticket[k]]
  /\ row' = [l \in Jobs \cup Typed |-> "none"]
  /\ UNCHANGED <<stage, stocked>>

(* A reading that is owed ends: it found a line or none, it failed, or the *)
(* operator had begun to review.                                           *)
Ends(j, as, told) ==
  /\ view' = told
  /\ ticket[j] = "owed"
  /\ ticket' = [ticket EXCEPT ![j] = as]
  /\ UNCHANGED <<stage, stocked>>

Found(j) ==
  /\ Ends(j, "complete", "complete")
  /\ row[j] = "none" /\ row' = [row EXCEPT ![j] = "shown"]

FoundNone(j) == Ends(j, "complete", "complete") /\ UNCHANGED row
Failed(j)    == Ends(j, "failed", "failed") /\ UNCHANGED row
Outrun(j)    == Ends(j, "void", "superseded") /\ UNCHANGED row

(* Out of quota: it stays owed. *)
Postponed(j) ==
  /\ ticket[j] = "owed" /\ view' = "waiting"
  /\ UNCHANGED <<stage, ticket, row, stocked>>

Edit(l) ==
  /\ stage = "draft"
  /\ row[l] # "none" \/ l \in Typed
  /\ \E as \in {"shown", "moves"} : row' = [row EXCEPT ![l] = as]
  /\ UNCHANGED <<stage, view, ticket, stocked>>

Commit ==
  /\ stage' = "committed" /\ stage # "committed" /\ Here /\ Moving # {}
  /\ stocked' = stocked \cup Moving
  /\ UNCHANGED <<view, ticket, row>>

Close ==
  /\ Here /\ stage' \in {"dismissed", "cancelled"}
  /\ UNCHANGED <<view, ticket, row, stocked>>

(* What was received into stock is not taken back.                         *)
Delete ==
  /\ stage' = "deleted" /\ Here /\ view' = "none"
  /\ ticket' = [j \in Jobs |-> "none"]
  /\ row' = [l \in Jobs \cup Typed |-> "none"]
  /\ UNCHANGED stocked

LifeNext ==
  \/ Photograph \/ Commit \/ Close \/ Delete
  \/ \E j \in Jobs : \/ Ask(j) \/ StartOver(j) \/ Postponed(j)
                     \/ Found(j) \/ FoundNone(j) \/ Failed(j) \/ Outrun(j)
  \/ \E l \in Jobs \cup Typed : Edit(l)

LifeSpec == LifeInit /\ [][LifeNext]_lifeVars
=============================================================================
