---------------------------- MODULE Connections ----------------------------
(***************************************************************************)
(* The Clover connections of all tenants: the OAuth flow that writes one,  *)
(* the disconnect that revokes it, and the job that refreshes the tokens   *)
(* that are about to expire.                                               *)
(*                                                                         *)
(* The callback spends its state token, asks Clover for tokens and writes  *)
(* the row in three transactions.  The job locks every expiring row, calls *)
(* Clover for one after the other and commits them all at the end, so a    *)
(* crash loses every token it was given.                                   *)
(*                                                                         *)
(* Clover's side: a code gives a new refresh token; a refresh spends the   *)
(* token it was called with and gives the next one.                        *)
(***************************************************************************)
EXTENDS Integers, FiniteSets

CONSTANTS
  Restaurants,  \* tenants
  Merchants,    \* Clover merchant ids
  StateTokens,  \* rows of oauth_states
  Callbacks,    \* callback requests served at the same time
  Refreshers,   \* processes that run refresh_expiring_tokens
  MaxRows,      \* bound: connection rows
  MaxTokens,    \* bound: refresh tokens Clover issues
  MaxFails,     \* refresh failures that end a connection, 3 in the code
  MaxLost,      \* bound: crashes and lost answers of the job
  NoOne         \* no tenant, no merchant, no state token

Conns == 1 .. MaxRows

ASSUME ConnectionsAssumption ==
  /\ NoOne \notin Restaurants \cup Merchants \cup StateTokens
  /\ MaxRows \in Nat /\ MaxTokens \in Nat /\ MaxLost \in Nat
  /\ MaxFails \in Nat \ {0}

VARIABLES
  conn,       \* tenant_pos_connections
  oauth,      \* oauth_states: the tenant each token was made for
  callback,   \* each callback's place
  refresher,  \* each refresh transaction
  issued,     \* refresh tokens Clover has issued
  valid,      \* for each merchant, those Clover still accepts
  lost,       \* history: rows whose next token never arrived
  losses      \* crashes and lost answers so far

connectionsVars == <<conn, oauth, callback, refresher, issued, valid, lost, losses>>

Tokens == 1 .. MaxTokens

ConnRows == [state : {"absent", "active", "error", "revoked"},
             tenant : Restaurants \cup {NoOne}, merchant : Merchants \cup {NoOne},
             token : Tokens \cup {0}, fails : 0 .. MaxFails, due : BOOLEAN]
NoConn   == [state |-> "absent", tenant |-> NoOne, merchant |-> NoOne,
             token |-> 0, fails |-> 0, due |-> FALSE]

Callings == [step : {"idle", "exchange", "write"}, state : StateTokens \cup {NoOne},
             tenant : Restaurants \cup {NoOne}, merchant : Merchants \cup {NoOne},
             token : Tokens \cup {0}]
NoCall   == [step |-> "idle", state |-> NoOne, tenant |-> NoOne,
             merchant |-> NoOne, token |-> 0]

(* locked: the rows of the job's transaction; todo: those still to do;     *)
(* wrote: the rows as it has written them.                                 *)
Refreshes == [locked : SUBSET Conns, todo : SUBSET Conns, wrote : [Conns -> ConnRows]]
Resting   == [locked |-> {}, todo |-> {}, wrote |-> [r \in Conns |-> NoConn]]

ConnectionsInit ==
  /\ conn = [r \in Conns |-> NoConn]
  /\ oauth = [s \in StateTokens |-> NoOne]
  /\ callback = [c \in Callbacks |-> NoCall]
  /\ refresher = [p \in Refreshers |-> Resting]
  /\ issued = 0 /\ valid = [m \in Merchants |-> {}]
  /\ lost = {} /\ losses = 0

Active(r)  == conn[r].state = "active"
Claims(r)  == conn[r].state \in {"active", "error"}   \* tenant_pos_one_tenant_per_merchant

(* Mutant: the job reads its rows without locking them.                    *)
RowLocked_Unlocked(r) == FALSE

RowLocked(r) == \E p \in Refreshers : r \in refresher[p].locked

-----------------------------------------------------------------------------
(* The OAuth flow. *)

(* A new token is none that was ever made: a random UUID.                  *)
Connect(t, s) ==
  /\ oauth[s] = NoOne /\ \A c \in Callbacks : callback[c].state # s
  /\ oauth' = [oauth EXCEPT ![s] = t]
  /\ UNCHANGED <<conn, callback, refresher, issued, valid, lost, losses>>

(* Ten minutes have gone; the job's clean-up deletes it.                   *)
StateExpires(s) ==
  /\ oauth[s] # NoOne
  /\ oauth' = [oauth EXCEPT ![s] = NoOne]
  /\ UNCHANGED <<conn, callback, refresher, issued, valid, lost, losses>>

(* DELETE ... RETURNING.                                                   *)
ConsumeState(s) == oauth' = [oauth EXCEPT ![s] = NoOne]

(* A callback whose state token is not there answers 400.                  *)
CallbackArrives(c, s, m) ==
  /\ callback[c] = NoCall /\ oauth[s] # NoOne
  /\ ConsumeState(s)
  /\ callback' = [callback EXCEPT ![c] =
       [step |-> "exchange", state |-> s, tenant |-> oauth[s], merchant |-> m, token |-> 0]]
  /\ UNCHANGED <<conn, refresher, issued, valid, lost, losses>>

Exchange(c) ==
  LET m == callback[c].merchant IN
  /\ callback[c].step = "exchange" /\ issued < MaxTokens
  /\ issued' = issued + 1
  /\ valid' = [valid EXCEPT ![m] = valid[m] \cup {issued + 1}]
  /\ callback' = [callback EXCEPT ![c].step = "write", ![c].token = issued + 1]
  /\ UNCHANGED <<conn, oauth, refresher, lost, losses>>

(* Clover refuses the code, or the process goes.                           *)
CallbackDies(c) ==
  /\ callback[c] # NoCall
  /\ callback' = [callback EXCEPT ![c] = NoCall]
  /\ UNCHANGED <<conn, oauth, refresher, issued, valid, lost, losses>>

Mine(t)        == {r \in Conns : Active(r) /\ conn[r].tenant = t}
Taken(m, r)    == \E q \in Conns \ {r} : Claims(q) /\ conn[q].merchant = m
FirstFree(r)   == conn[r].state = "absent" /\ \A q \in Conns : q < r => conn[q].state # "absent"
Fresh(c)       == [state |-> "active", tenant |-> callback[c].tenant,
                   merchant |-> callback[c].merchant, token |-> callback[c].token,
                   fails |-> 0, due |-> FALSE]

(* ON CONFLICT (tenant_id, vendor) WHERE state = 'active': the tenant's    *)
(* active row is overwritten, whichever merchant it was for.               *)
Reconnect(c) ==
  \E r \in Mine(callback[c].tenant) :
    /\ callback[c].step = "write" /\ ~RowLocked(r)
    /\ ~Taken(callback[c].merchant, r)
    /\ conn' = [conn EXCEPT ![r] = Fresh(c)]
    /\ lost' = lost \ {r}
    /\ callback' = [callback EXCEPT ![c] = NoCall]
    /\ UNCHANGED <<oauth, refresher, issued, valid, losses>>

FirstConnect(c) ==
  \E r \in Conns :
    /\ callback[c].step = "write" /\ FirstFree(r)
    /\ Mine(callback[c].tenant) = {} /\ ~Taken(callback[c].merchant, r)
    /\ conn' = [conn EXCEPT ![r] = Fresh(c)]
    /\ callback' = [callback EXCEPT ![c] = NoCall]
    /\ UNCHANGED <<oauth, refresher, issued, valid, lost, losses>>

(* Another row claims the merchant, the tenant's own in error included:    *)
(* the unique index fails the statement, and the tokens are gone.          *)
MerchantTaken(c) ==
  /\ callback[c].step = "write"
  /\ IF Mine(callback[c].tenant) = {}
     THEN \E q \in Conns : Claims(q) /\ conn[q].merchant = callback[c].merchant
     ELSE \E r \in Mine(callback[c].tenant) :
            ~RowLocked(r) /\ Taken(callback[c].merchant, r)
  /\ callback' = [callback EXCEPT ![c] = NoCall]
  /\ UNCHANGED <<conn, oauth, refresher, issued, valid, lost, losses>>

-----------------------------------------------------------------------------
(* Waits for the job's lock, and then looks at the row again: a row that   *)
(* has gone to error is not revoked.                                       *)
Disconnect(t) ==
  /\ \A r \in Mine(t) : ~RowLocked(r)
  /\ conn' = [r \in Conns |-> IF r \in Mine(t) THEN [conn[r] EXCEPT !.state = "revoked"]
                              ELSE conn[r]]
  /\ UNCHANGED <<oauth, callback, refresher, issued, valid, lost, losses>>

-----------------------------------------------------------------------------
(* The refresh job. *)

(* The access token has less than ten minutes left.                        *)
Expiring(r) ==
  /\ Active(r) /\ ~conn[r].due
  /\ conn' = [conn EXCEPT ![r].due = TRUE]
  /\ UNCHANGED <<oauth, callback, refresher, issued, valid, lost, losses>>

DueRows == {r \in Conns : Active(r) /\ conn[r].due /\ ~RowLocked(r)}   \* SKIP LOCKED

RefreshBegins(p) ==
  /\ refresher[p] = Resting /\ DueRows # {}
  /\ refresher' = [refresher EXCEPT ![p] =
       [locked |-> DueRows, todo |-> DueRows,
        wrote |-> [r \in Conns |-> IF r \in DueRows THEN conn[r] ELSE NoConn]]]
  /\ UNCHANGED <<conn, oauth, callback, issued, valid, lost, losses>>

Rotate(m, old) ==
  /\ issued < MaxTokens
  /\ issued' = issued + 1
  /\ valid' = [valid EXCEPT ![m] = (valid[m] \ {old}) \cup {issued + 1}]

(* Mutant: a failure is reported and not counted.                          *)
Failed_Uncounted(row) == row

(* Mutant: the failures are counted, and the limit is not looked at.       *)
Failed_Unlimited(row) == [row EXCEPT !.fails = row.fails + 1]

Failed(row) ==
  [row EXCEPT !.fails = row.fails + 1,
              !.state = IF row.fails + 1 >= MaxFails THEN "error" ELSE "active"]

(* The job has written a row it holds.                                     *)
Wrote(p, r, row) ==
  refresher' = [refresher EXCEPT ![p] =
    [locked |-> refresher[p].locked, todo |-> refresher[p].todo \ {r},
     wrote |-> [refresher[p].wrote EXCEPT ![r] = row]]]

RefreshOk(p) ==
  \E r \in refresher[p].todo :
    LET row == refresher[p].wrote[r] IN
    /\ row.token \in valid[row.merchant]
    /\ Rotate(row.merchant, row.token)
    /\ Wrote(p, r, [row EXCEPT !.token = issued + 1, !.fails = 0, !.due = FALSE])
    /\ UNCHANGED <<conn, oauth, callback, lost, losses>>

(* Clover does not answer, or does not accept the token.                   *)
RefreshFails(p) ==
  \E r \in refresher[p].todo :
    /\ Wrote(p, r, Failed(refresher[p].wrote[r]))
    /\ UNCHANGED <<conn, oauth, callback, issued, valid, lost, losses>>

(* Clover rotates, and the answer is lost: for the job a failure.          *)
AnswerLost(p) ==
  \E r \in refresher[p].todo :
    LET row == refresher[p].wrote[r] IN
    /\ losses < MaxLost /\ losses' = losses + 1
    /\ row.token \in valid[row.merchant]
    /\ Rotate(row.merchant, row.token)
    /\ lost' = lost \cup {r}
    /\ Wrote(p, r, Failed(row))
    /\ UNCHANGED <<conn, oauth, callback>>

RefreshCommits(p) ==
  /\ refresher[p].locked # {} /\ refresher[p].todo = {}
  /\ conn' = [r \in Conns |-> IF r \in refresher[p].locked THEN refresher[p].wrote[r]
                              ELSE conn[r]]
  /\ refresher' = [refresher EXCEPT ![p] = Resting]
  /\ UNCHANGED <<oauth, callback, issued, valid, lost, losses>>

(* The process dies in the middle: all its rows keep the old tokens.       *)
RefreshCrashes(p) ==
  /\ refresher[p].locked # {} /\ losses < MaxLost
  /\ losses' = losses + 1
  /\ lost' = lost \cup {r \in refresher[p].locked : refresher[p].wrote[r].token # conn[r].token}
  /\ refresher' = [refresher EXCEPT ![p] = Resting]
  /\ UNCHANGED <<conn, oauth, callback, issued, valid>>

-----------------------------------------------------------------------------
JobStep(p) ==
  RefreshBegins(p) \/ RefreshOk(p) \/ RefreshFails(p) \/ RefreshCommits(p)

ConnectionsNext ==
  \/ \E t \in Restaurants, s \in StateTokens : Connect(t, s)
  \/ \E s \in StateTokens : StateExpires(s)
  \/ \E c \in Callbacks, s \in StateTokens, m \in Merchants : CallbackArrives(c, s, m)
  \/ \E c \in Callbacks : \/ Exchange(c) \/ CallbackDies(c)
                          \/ Reconnect(c) \/ FirstConnect(c) \/ MerchantTaken(c)
  \/ \E t \in Restaurants : Disconnect(t)
  \/ \E r \in Conns : Expiring(r)
  \/ \E p \in Refreshers : JobStep(p) \/ AnswerLost(p) \/ RefreshCrashes(p)

ConnectionsSpec == ConnectionsInit /\ [][ConnectionsNext]_connectionsVars

(* The job runs every fifteen minutes and goes on while it lives.          *)
ConnectionsFairness == \A p \in Refreshers : WF_connectionsVars(JobStep(p))

-----------------------------------------------------------------------------
(* The type invariant; a row under the job's lock is one the job started.  *)
ConnectionsTypeOK ==
  /\ conn \in [Conns -> ConnRows]
  /\ oauth \in [StateTokens -> Restaurants \cup {NoOne}]
  /\ callback \in [Callbacks -> Callings]
  /\ refresher \in [Refreshers -> Refreshes]
  /\ issued \in 0 .. MaxTokens /\ valid \in [Merchants -> SUBSET Tokens]
  /\ lost \in SUBSET Conns /\ losses \in 0 .. MaxLost

(* One authorization per state token: two callbacks never hold the same    *)
(* one, and one that is held can not be presented again                    *)
(* (OAuthStateManager.validate_and_consume).                               *)
StateSpentOnce ==
  \A c \in Callbacks : callback[c] # NoCall =>
    /\ oauth[callback[c].state] = NoOne
    /\ \A d \in Callbacks \ {c} : callback[d].state # callback[c].state

(* An active connection holds a refresh token that Clover accepts, of its  *)
(* own merchant, unless a crash or a lost answer took the last one: not a  *)
(* reconnect, a change of merchant or a second job in the middle of the    *)
(* refresh (refresh_expiring_tokens, callback).                            *)
TokenFits ==
  \A r \in Conns : Active(r) /\ ~RowLocked(r) /\ r \notin lost =>
    conn[r].token \in valid[conn[r].merchant]

(* A revoked connection stays revoked: the job, whose failure branch       *)
(* writes the state it computed, never revives one that the owner has      *)
(* disconnected meanwhile (disconnect, refresh_expiring_tokens).           *)
RevokedFinal ==
  [][\A r \in Conns : conn[r].state = "revoked" => conn'[r] = conn[r]]_connectionsVars

(* A connection about to expire gets new tokens, or ends in error after    *)
(* the last failure; it is never left expiring (refresh_expiring_tokens).  *)
ExpiringSettles ==
  \A r \in Conns : Active(r) /\ conn[r].due ~> ~(Active(r) /\ conn[r].due)
=============================================================================
