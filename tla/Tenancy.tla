------------------------------ MODULE Tenancy ------------------------------
(***************************************************************************)
(* Users, restaurants, memberships and invitations.                        *)
(*                                                                         *)
(* A request that accepts an invitation locks its row first and commits    *)
(* the acceptance, the user and the membership together.  A request that   *)
(* revokes one reads it without a lock and deletes it later by its id.     *)
(* Everything else is a single transaction.                                *)
(*                                                                         *)
(* A person's e-mail address is WorkOS's and may change; the users table   *)
(* follows at the person's next request.                                   *)
(***************************************************************************)
EXTENDS Integers, FiniteSets

CONSTANTS
  People,       \* WorkOS users
  Emails,       \* e-mail addresses
  Slugs,        \* restaurants, named by their slug
  Invites,      \* invitations that may be made
  MaxRenames,   \* bound: changes of address
  Nobody        \* no person, no address, no restaurant

ASSUME TenancyAssumption ==
  /\ Nobody \notin People \cup Emails \cup Slugs
  /\ MaxRenames \in Nat

VARIABLES
  address,     \* WorkOS: each person's verified address
  renames,     \* changes of address so far
  users,       \* users: the address in each person's row
  members,     \* user_tenants: each person's restaurants
  owners,      \* tenants that exist, and who registered them
  invites,     \* invitations
  accepting,   \* for each person, the invitation a request of theirs holds
  revoking     \* invitations a revoke has read and will delete

tenancyVars ==
  <<address, renames, users, members, owners, invites, accepting, revoking>>

InviteRows == [state : {"absent", "open", "accepted", "deleted"},
               slug : Slugs \cup {Nobody}, email : Emails \cup {Nobody}, late : BOOLEAN]
NoInvite   == [state |-> "absent", slug |-> Nobody, email |-> Nobody, late |-> FALSE]

TenancyInit ==
  /\ address \in {a \in [People -> Emails] : \A p, q \in People : a[p] = a[q] => p = q}
  /\ renames = 0
  /\ users = [p \in People |-> Nobody]
  /\ members = [p \in People |-> {}]
  /\ owners = [t \in Slugs |-> Nobody]
  /\ invites = [i \in Invites |-> NoInvite]
  /\ accepting = [p \in People |-> Nobody]
  /\ revoking = {}

(* upsert_user: by workos_id; a second row with the address breaks UNIQUE. *)
AddressFree(p, e) == \A q \in People \ {p} : users[q] # e
Upsert(p, e)      == AddressFree(p, e) /\ users' = [users EXCEPT ![p] = e]

(* A person may change to any address nobody has, and take over an old one.*)
Rename(p, e) ==
  /\ renames < MaxRenames /\ renames' = renames + 1
  /\ \A q \in People : address[q] # e
  /\ address' = [address EXCEPT ![p] = e]
  /\ UNCHANGED <<users, members, owners, invites, accepting, revoking>>

(* /auth/me. *)
Me(p) ==
  /\ Upsert(p, address[p])
  /\ UNCHANGED <<address, renames, members, owners, invites, accepting, revoking>>

(* A taken slug or address rolls all of it back.                           *)
RegisterTenant(p, t) ==
  /\ owners[t] = Nobody
  /\ Upsert(p, address[p])
  /\ owners' = [owners EXCEPT ![t] = p]
  /\ members' = [members EXCEPT ![p] = members[p] \cup {t}]
  /\ UNCHANGED <<address, renames, invites, accepting, revoking>>

(* Only an owner invites; any number of times, and members too.            *)
CreateInvite(i, t, e) ==
  /\ owners[t] # Nobody /\ invites[i].state = "absent"
  /\ invites' = [invites EXCEPT ![i] =
       [state |-> "open", slug |-> t, email |-> e, late |-> FALSE]]
  /\ UNCHANGED <<address, renames, users, members, owners, accepting, revoking>>

(* Seven days have gone. *)
InviteExpires(i) ==
  /\ invites[i].state = "open" /\ ~invites[i].late
  /\ invites' = [invites EXCEPT ![i].late = TRUE]
  /\ UNCHANGED <<address, renames, users, members, owners, accepting, revoking>>

-----------------------------------------------------------------------------
(* Mutant: the invitation is read without FOR UPDATE.                      *)
InviteLocked_Never(i) == FALSE

InviteLocked(i) == \E p \in People : accepting[p] = i

(* Found, addressed to the caller, not expired and not yet accepted.       *)
AcceptBegins(p, i) ==
  /\ accepting[p] = Nobody /\ ~InviteLocked(i)
  /\ invites[i].state = "open" /\ ~invites[i].late
  /\ invites[i].email = address[p]
  /\ accepting' = [accepting EXCEPT ![p] = i]
  /\ UNCHANGED <<address, renames, users, members, owners, invites, revoking>>

(* An UPDATE of a row that is gone finds nothing, and the rest goes on.    *)
AcceptCommits(p) ==
  LET i == accepting[p]
      e == invites[i].email
      t == invites[i].slug
  IN
  /\ i # Nobody /\ t \notin members[p]
  /\ Upsert(p, e)
  /\ members' = [members EXCEPT ![p] = members[p] \cup {t}]
  /\ invites' = IF invites[i].state = "deleted" THEN invites
                ELSE [invites EXCEPT ![i].state = "accepted"]
  /\ accepting' = [accepting EXCEPT ![p] = Nobody]
  /\ UNCHANGED <<address, renames, owners, revoking>>

(* Already a member, or the address is another row's: 409.                 *)
AcceptConflicts(p) ==
  LET i == accepting[p] IN
  /\ i # Nobody
  /\ invites[i].slug \in members[p] \/ ~AddressFree(p, invites[i].email)
  /\ accepting' = [accepting EXCEPT ![p] = Nobody]
  /\ UNCHANGED <<address, renames, users, members, owners, invites, revoking>>

AcceptDies(p) ==
  /\ accepting[p] # Nobody
  /\ accepting' = [accepting EXCEPT ![p] = Nobody]
  /\ UNCHANGED <<address, renames, users, members, owners, invites, revoking>>

(* accepted_at is looked at here, and not again.                           *)
RevokeReads(i) ==
  /\ invites[i].state = "open" /\ i \notin revoking
  /\ revoking' = revoking \cup {i}
  /\ UNCHANGED <<address, renames, users, members, owners, invites, accepting>>

(* The DELETE waits for an accept that holds the row, and takes the row    *)
(* whatever that accept has made of it.                                    *)
RevokeDeletes(i) ==
  /\ i \in revoking /\ ~InviteLocked(i)
  /\ invites' = [invites EXCEPT ![i].state = "deleted"]
  /\ revoking' = revoking \ {i}
  /\ UNCHANGED <<address, renames, users, members, owners, accepting>>

-----------------------------------------------------------------------------
TenancyNext ==
  \/ \E p \in People, e \in Emails : Rename(p, e)
  \/ \E p \in People : \/ Me(p) \/ AcceptCommits(p) \/ AcceptConflicts(p) \/ AcceptDies(p)
                       \/ \E t \in Slugs : RegisterTenant(p, t)
                       \/ \E i \in Invites : AcceptBegins(p, i)
  \/ \E i \in Invites : \/ InviteExpires(i) \/ RevokeReads(i) \/ RevokeDeletes(i)
                        \/ \E t \in Slugs, e \in Emails : CreateInvite(i, t, e)

TenancySpec == TenancyInit /\ [][TenancyNext]_tenancyVars

-----------------------------------------------------------------------------
(* The type invariant. *)
TenancyTypeOK ==
  /\ address \in [People -> Emails] /\ renames \in 0 .. MaxRenames
  /\ users \in [People -> Emails \cup {Nobody}]
  /\ members \in [People -> SUBSET Slugs]
  /\ owners \in [Slugs -> People \cup {Nobody}]
  /\ invites \in [Invites -> InviteRows]
  /\ accepting \in [People -> Invites \cup {Nobody}]
  /\ revoking \subseteq Invites

(* Whoever becomes a member registers the restaurant in that step, or      *)
(* turns an open invitation of it into an accepted one: never through one  *)
(* that somebody has used already, another holder of the same address or   *)
(* the same person twice, nor through one whose revoke has been answered   *)
(* (accept_invitation, revoke_invitation, register_tenant).                *)
MembersInvited ==
  [][\A p \in People, t \in Slugs :
       t \in members'[p] \ members[p] =>
         \/ owners[t] = Nobody /\ owners'[t] = p
         \/ \E i \in Invites :
              /\ invites[i].state = "open" /\ invites'[i].state = "accepted"
              /\ invites[i].slug = t /\ invites[i].email = users'[p]]_tenancyVars
=============================================================================
