--------------------------- MODULE RefreshTokens ---------------------------
(***************************************************************************)
(* Refresh-token rotation with reuse detection, as the API service runs it *)
(* against PostgreSQL: services/api/src/auth/service.py, db/tokens.py and  *)
(* the routes of routes/auth.py.                                           *)
(*                                                                         *)
(* The rows of refresh_tokens are kept as the last committed version of    *)
(* each (status, family, parent).  Several requests run at once; each is a *)
(* process that executes one SQL statement per step.  The database runs    *)
(* READ COMMITTED, and three facts about that level are what the protocol  *)
(* depends on, so they are modelled:                                       *)
(*   - a statement selects its rows from a snapshot taken when it starts:  *)
(*     rows committed later are not among them;                            *)
(*   - an UPDATE locks the rows it selected one by one until its           *)
(*     transaction ends, waiting for a lock another transaction holds;     *)
(*   - having got the lock it evaluates its WHERE clause again on the      *)
(*     newest committed version, and keeps the lock even when the row no   *)
(*     longer qualifies.                                                   *)
(* A family is named by the token its login inserted.                      *)
(***************************************************************************)

CONSTANTS Token,    \* refresh-token rows the database may ever hold
          Request,  \* request handlers that can be running at once
          None      \* "no token" and "no request"

ASSUME NoneIsApart == None \notin Token /\ None \notin Request

VARIABLES
    status,      \* committed status of each row, "absent" before its insert
    family,      \* family_id of each row
    parent,      \* parent_id of each row
    expired,     \* rows whose expires_at has passed
    userActive,  \* is_active of the user the tokens belong to
    known,       \* raw tokens some client has received
    lock,        \* transaction holding the row lock
    pc,          \* next statement of each request
    tok,         \* row of the token the request presented
    child,       \* row a rotation has inserted
    snap,        \* rows the running revoke_family statement selected
    marked,      \* rows of snap it has locked and updated so far
    out          \* answer the request will give

rows == <<status, family, parent>>
ctx == <<pc, tok, child, snap, marked, out>>
vars == <<status, family, parent, expired, userActive, known, lock,
          pc, tok, child, snap, marked, out>>

Steps == {"idle", "lookup", "logoutLookup", "user", "claim", "claimRow",
          "insert", "commit", "burn", "burning", "reply"}
Answers == {"none", "pair", "invalid", "reuse", "loggedOut"}

TypeOK ==
    /\ status \in [Token -> {"absent", "active", "rotated", "revoked"}]
    /\ family \in [Token -> Token]
    /\ parent \in [Token -> Token \cup {None}]
    /\ expired \subseteq Token
    /\ userActive \in BOOLEAN
    /\ known \subseteq Token
    /\ lock \in [Token -> Request \cup {None}]
    /\ pc \in [Request -> Steps]
    /\ tok \in [Request -> Token \cup {None}]
    /\ child \in [Request -> Token \cup {None}]
    /\ snap \in [Request -> SUBSET Token]
    /\ marked \in [Request -> SUBSET Token]
    /\ out \in [Request -> Answers]

Init ==
    /\ status = [t \in Token |-> "absent"]
    /\ family = [t \in Token |-> t]
    /\ parent = [t \in Token |-> None]
    /\ expired = {}
    /\ userActive = TRUE
    /\ known = {}
    /\ lock = [t \in Token |-> None]
    /\ pc = [r \in Request |-> "idle"]
    /\ tok = [r \in Request |-> None]
    /\ child = [r \in Request |-> None]
    /\ snap = [r \in Request |-> {}]
    /\ marked = [r \in Request |-> {}]
    /\ out = [r \in Request |-> "none"]

-----------------------------------------------------------------------------
(* Helpers                                                                 *)

\* A row id no insert has used, committed or not: gen_random_uuid().
Fresh(t) == status[t] = "absent" /\ \A r \in Request : child[r] # t

\* Faulty form: revoke_family ... AND status = 'active' instead of status <> 'revoked'.
RevocableActiveOnly(f) == {t \in Token : family[t] = f /\ status[t] = "active"}

\* The rows the WHERE clause of revoke_family selects, in the committed state.
Revocable(f) == {t \in Token : family[t] = f /\ status[t] \notin {"absent", "revoked"}}

\* End of a transaction: every row lock it holds is released.
Release(r) == lock' = [t \in Token |-> IF lock[t] = r THEN None ELSE lock[t]]

Goto(r, step) == pc' = [pc EXCEPT ![r] = step]

\* Leave for the handler's answer, or for a statement that leads to it.
Answer(r, step, a) == Goto(r, step) /\ out' = [out EXCEPT ![r] = a]

\* Back to idle, the request's context forgotten.
Forget(r) ==
    /\ pc' = [pc EXCEPT ![r] = "idle"]
    /\ tok' = [tok EXCEPT ![r] = None]
    /\ child' = [child EXCEPT ![r] = None]
    /\ snap' = [snap EXCEPT ![r] = {}]
    /\ marked' = [marked EXCEPT ![r] = {}]
    /\ out' = [out EXCEPT ![r] = "none"]

-----------------------------------------------------------------------------
(* Faulty forms of the steps below, each the code with one slip in it: what *)
(* the properties at the end must be able to tell apart.                    *)

\* mark_rotated without its status = 'active' guard.
ClaimRowUnguarded(r) ==
    /\ pc[r] = "claimRow"
    /\ lock[tok[r]] = None
    /\ lock' = [lock EXCEPT ![tok[r]] = r]
    /\ Goto(r, "insert")
    /\ UNCHANGED <<rows, expired, userActive, known, tok, child, snap, marked, out>>

\* mark_rotated outside the transaction: committed, and unlocked, at once.
ClaimRowAutocommit(r) ==
    /\ pc[r] = "claimRow"
    /\ lock[tok[r]] = None
    /\ \/ /\ status[tok[r]] = "active"
          /\ status' = [status EXCEPT ![tok[r]] = "rotated"]
          /\ Goto(r, "insert")
          /\ UNCHANGED out
       \/ status[tok[r]] # "active" /\ Answer(r, "burn", "reuse") /\ UNCHANGED status
    /\ UNCHANGED <<family, parent, expired, userActive, known, lock, tok, child, snap, marked>>

\* The successor is inserted but the parent is not marked.
CommitRotationUnspent(r) ==
    /\ pc[r] = "commit"
    /\ status' = [status EXCEPT ![child[r]] = "active"]
    /\ family' = [family EXCEPT ![child[r]] = family[tok[r]]]
    /\ parent' = [parent EXCEPT ![child[r]] = tok[r]]
    /\ Release(r)
    /\ Answer(r, "reply", "pair")
    /\ UNCHANGED <<expired, userActive, known, tok, child, snap, marked>>

\* Logout that, like refresh, ignores a token that is no longer active.
LookupLogoutActiveOnly(r) ==
    /\ pc[r] = "logoutLookup"
    /\ Answer(r, IF tok[r] = None \/ status[tok[r]] # "active" THEN "reply" ELSE "burn",
              "loggedOut")
    /\ UNCHANGED <<rows, expired, userActive, known, lock, tok, child, snap, marked>>

\* revoke_family in a transaction that is never ended.
CommitBurnUnreleased(r) ==
    /\ pc[r] = "burning"
    /\ marked[r] = snap[r]
    /\ status' = [t \in Token |-> IF t \in marked[r] THEN "revoked" ELSE status[t]]
    /\ UNCHANGED lock
    /\ Goto(r, "reply")
    /\ marked' = [marked EXCEPT ![r] = {}]
    /\ UNCHANGED <<family, parent, expired, userActive, known, tok, child, snap, out>>

-----------------------------------------------------------------------------
(* Environment                                                             *)

\* A token's expires_at passes.  A child is issued later than its parent and
\* with the same lifetime, so it cannot expire first.
Expire(t) ==
    /\ status[t] # "absent"
    /\ t \notin expired
    /\ parent[t] = None \/ parent[t] \in expired
    /\ expired' = expired \cup {t}
    /\ UNCHANGED <<rows, userActive, known, lock, ctx>>

\* An administrator deactivates the user.
Deactivate ==
    /\ userActive
    /\ userActive' = FALSE
    /\ UNCHANGED <<rows, expired, known, lock, ctx>>

\* The API process or its connection dies: the transaction rolls back, nobody
\* gets an answer.
Crash(r) ==
    /\ pc[r] # "idle"
    /\ Release(r)
    /\ Forget(r)
    /\ UNCHANGED <<rows, expired, userActive, known>>

-----------------------------------------------------------------------------
(* Login: one transaction that only inserts a row nobody can name yet; the *)
(* response may be lost.                                                   *)

Login(t, delivered) ==
    /\ userActive
    /\ Fresh(t)
    /\ status' = [status EXCEPT ![t] = "active"]
    /\ known' = IF delivered THEN known \cup {t} ELSE known
    /\ UNCHANGED <<family, parent, expired, userActive, lock, ctx>>

-----------------------------------------------------------------------------
(* POST /auth/refresh                                                      *)

\* A client presents a token it holds, or (None) one no row has the hash of.
StartRefresh(r, t) ==
    /\ pc[r] = "idle"
    /\ t \in known \cup {None}
    /\ Goto(r, "lookup")
    /\ tok' = [tok EXCEPT ![r] = t]
    /\ UNCHANGED <<rows, expired, userActive, known, lock, child, snap, marked, out>>

\* The status the SELECT by token_hash finds, "absent" when it finds no row.
Found(t) == IF t = None THEN "absent" ELSE status[t]

\* get_refresh_token_by_hash and the checks on the record it returns.
Lookup(r) ==
    /\ pc[r] = "lookup"
    /\ \/ /\ Found(tok[r]) \in {"absent", "revoked"} \/ tok[r] \in expired
          /\ Answer(r, "reply", "invalid")
       \/ /\ tok[r] \notin expired
          /\ Found(tok[r]) = "rotated"
          /\ Answer(r, "burn", "reuse")
       \/ /\ tok[r] \notin expired
          /\ Found(tok[r]) = "active"
          /\ Goto(r, "user")
          /\ UNCHANGED out
    /\ UNCHANGED <<rows, expired, userActive, known, lock, tok, child, snap, marked>>

\* get_user_by_id: a token of a deactivated user burns its family.
CheckUser(r) ==
    /\ pc[r] = "user"
    /\ \/ userActive /\ Goto(r, "claim") /\ UNCHANGED out
       \/ ~userActive /\ Answer(r, "burn", "invalid")
    /\ UNCHANGED <<rows, expired, userActive, known, lock, tok, child, snap, marked>>

\* mark_rotated starts: its snapshot either selects the row or selects nothing.
Claim(r) ==
    /\ pc[r] = "claim"
    /\ \/ status[tok[r]] = "active" /\ Goto(r, "claimRow") /\ UNCHANGED out
       \/ status[tok[r]] # "active" /\ Answer(r, "burn", "reuse")
    /\ UNCHANGED <<rows, expired, userActive, known, lock, tok, child, snap, marked>>

\* mark_rotated gets the row lock and evaluates status = 'active' again.
ClaimRow(r) ==
    /\ pc[r] = "claimRow"
    /\ lock[tok[r]] = None
    /\ lock' = [lock EXCEPT ![tok[r]] = r]
    /\ \/ status[tok[r]] = "active" /\ Goto(r, "insert") /\ UNCHANGED out
       \/ status[tok[r]] # "active" /\ Answer(r, "burn", "reuse")
    /\ UNCHANGED <<rows, expired, userActive, known, tok, child, snap, marked>>

\* insert_refresh_token inside the same transaction; not visible yet.
InsertChild(r, c) ==
    /\ pc[r] = "insert"
    /\ Fresh(c)
    /\ child' = [child EXCEPT ![r] = c]
    /\ Goto(r, "commit")
    /\ UNCHANGED <<rows, expired, userActive, known, lock, tok, snap, marked, out>>

\* The rotation's transaction commits: parent spent and child active at once.
CommitRotation(r) ==
    /\ pc[r] = "commit"
    /\ status' = [status EXCEPT ![tok[r]] = "rotated", ![child[r]] = "active"]
    /\ family' = [family EXCEPT ![child[r]] = family[tok[r]]]
    /\ parent' = [parent EXCEPT ![child[r]] = tok[r]]
    /\ Release(r)
    /\ Answer(r, "reply", "pair")
    /\ UNCHANGED <<expired, userActive, known, tok, child, snap, marked>>

-----------------------------------------------------------------------------
(* revoke_family, the common tail of reuse detection, of a deactivated     *)
(* user's refresh and of logout                                            *)

\* The UPDATE starts: its snapshot fixes the rows it will visit.
StartBurn(r) ==
    /\ pc[r] = "burn"
    /\ Goto(r, "burning")
    /\ snap' = [snap EXCEPT ![r] = Revocable(family[tok[r]])]
    /\ UNCHANGED <<rows, expired, userActive, known, lock, tok, child, marked, out>>

\* It visits one more row, in the order the scan happens to produce.
BurnRow(r, t) ==
    /\ pc[r] = "burning"
    /\ t \in snap[r] \ marked[r]
    /\ lock[t] \in {None, r}
    /\ lock' = [lock EXCEPT ![t] = r]
    /\ marked' = [marked EXCEPT ![r] = @ \cup {t}]
    /\ UNCHANGED <<rows, expired, userActive, known, pc, tok, child, snap, out>>

\* Every selected row visited: the transaction commits.
CommitBurn(r) ==
    /\ pc[r] = "burning"
    /\ marked[r] = snap[r]
    /\ status' = [t \in Token |-> IF t \in marked[r] THEN "revoked" ELSE status[t]]
    /\ Release(r)
    /\ Goto(r, "reply")
    /\ marked' = [marked EXCEPT ![r] = {}]
    /\ UNCHANGED <<family, parent, expired, userActive, known, tok, child, snap, out>>

-----------------------------------------------------------------------------
(* POST /auth/logout                                                       *)

StartLogout(r, t) ==
    /\ pc[r] = "idle"
    /\ t \in known \cup {None}
    /\ Goto(r, "logoutLookup")
    /\ tok' = [tok EXCEPT ![r] = t]
    /\ UNCHANGED <<rows, expired, userActive, known, lock, child, snap, marked, out>>

\* revoke_refresh_token: any row, whatever its status, leads to a burn.
LookupLogout(r) ==
    /\ pc[r] = "logoutLookup"
    /\ Answer(r, IF tok[r] = None THEN "reply" ELSE "burn", "loggedOut")
    /\ UNCHANGED <<rows, expired, userActive, known, lock, tok, child, snap, marked>>

-----------------------------------------------------------------------------
(* The answer reaches the client, with the new token when there is one, or *)
(* is lost on the way.                                                     *)
Reply(r, delivered) ==
    /\ pc[r] = "reply"
    /\ known' = IF delivered /\ out[r] = "pair" THEN known \cup {child[r]} ELSE known
    /\ Forget(r)
    /\ UNCHANGED <<rows, expired, userActive, lock>>

\* Rows a request is still waiting for while another transaction holds them.
Awaited(r) ==
    CASE pc[r] = "claimRow" -> {tok[r]}
      [] pc[r] = "burning"  -> snap[r] \ marked[r]
      [] OTHER -> {}
Blocked(r) == Awaited(r) # {} /\ \A t \in Awaited(r) : lock[t] \notin {None, r}

\* Every member of S waits, and only for members of S.
Deadlocked(S) ==
    \A s \in S : Blocked(s) /\ \A t \in Awaited(s) : lock[t] \in S

\* PostgreSQL's deadlock detector aborts one transaction of a cycle; the
\* handler fails with a 500.
DeadlockVictim(r) ==
    /\ \E S \in SUBSET Request : r \in S /\ Deadlocked(S)
    /\ Release(r)
    /\ Forget(r)
    /\ UNCHANGED <<rows, expired, userActive, known>>

-----------------------------------------------------------------------------
Step(r) ==
    \/ Lookup(r) \/ CheckUser(r) \/ Claim(r) \/ ClaimRow(r)
    \/ \E c \in Token : InsertChild(r, c)
    \/ CommitRotation(r)
    \/ StartBurn(r) \/ (\E t \in Token : BurnRow(r, t)) \/ CommitBurn(r)
    \/ LookupLogout(r)
    \/ \E delivered \in BOOLEAN : Reply(r, delivered)

Client(r) ==
    \E t \in Token \cup {None} : StartRefresh(r, t) \/ StartLogout(r, t)

Next ==
    \/ \E r \in Request : Client(r) \/ Step(r) \/ DeadlockVictim(r) \/ Crash(r)
    \/ \E t \in Token : Expire(t) \/ \E delivered \in BOOLEAN : Login(t, delivered)
    \/ Deactivate

Spec == Init /\ [][Next]_vars

\* The server's statements keep being executed and PostgreSQL queues the waiters
\* of a row lock, so a statement that can run again and again finally runs.
\* Clients, administrators, the clock and crashes owe nothing.
Fairness ==
    \A r \in Request :
        /\ WF_vars(Lookup(r) \/ CheckUser(r) \/ Claim(r) \/ LookupLogout(r)
                     \/ StartBurn(r) \/ CommitRotation(r) \/ CommitBurn(r))
        /\ WF_vars(\E c \in Token : InsertChild(r, c))
        /\ WF_vars(\E delivered \in BOOLEAN : Reply(r, delivered))
        /\ SF_vars(ClaimRow(r) \/ \E t \in Token : BurnRow(r, t))
        /\ WF_vars(DeadlockVictim(r))

FairSpec == Spec /\ Fairness

-----------------------------------------------------------------------------
(* Properties                                                              *)

Present(t) == status[t] # "absent"

\* A family never has two usable tokens, whatever refreshes, replays, logouts and
\* crashes overlap: the rotation guarded by mark_rotated (db/tokens.py) spends the
\* parent in the transaction that inserts the child.
AtMostOneActive ==
    \A t, u \in Token :
        status[t] = "active" /\ status[u] = "active" /\ family[t] = family[u] => t = u

\* Of all the requests that present one token, at most one is ever given a
\* successor for it (service.py rotate_refresh_token).
SingleSuccessor ==
    \A t, u \in Token :
        Present(t) /\ Present(u) /\ parent[t] # None /\ parent[t] = parent[u] => t = u

\* A token is spent only together with the insert of its successor: no crash
\* between mark_rotated and insert_refresh_token strands the session.
SpentHasSuccessor ==
    \A t \in Token :
        status[t] = "rotated" => \E c \in Token : Present(c) /\ parent[c] = t

\* Revocation is never partial along a chain: when a token is revoked every token
\* it descends from is revoked, so no ancestor can be rotated or replayed into a
\* second reuse alarm (tokens.py revoke_family).
RevocationCoversAncestors ==
    \A t \in Token :
        status[t] = "revoked" /\ parent[t] # None => status[parent[t]] = "revoked"

\* By the time a client hears "logged out", or that its token was replayed, that
\* token and all its family's rows the UPDATE could see are revoked.
AnsweredBurnIsEffective ==
    \A r \in Request :
        pc[r] = "reply" /\ out[r] \in {"reuse", "loggedOut"} /\ tok[r] # None =>
            \A t \in snap[r] \cup {tok[r]} : status[t] = "revoked"

\* The committed rows seen as login sessions: a family's usable token.
UsableOf(f) == {t \in Token : family[t] = f /\ status[t] = "active"}
Used == {t \in Token : Present(t)}
Usable == [f \in Token |->
             IF UsableOf(f) = {} THEN None ELSE CHOOSE t \in UsableOf(f) : TRUE]
Session == INSTANCE LoginSession WITH used <- Used, usable <- Usable

\* The service keeps what a session promises: a family's usable token is replaced only
\* by a new one, one refresh at a time, and a family without one never has one again,
\* whatever rotations were in flight when it was closed.
ImplementsSession == Session!Spec

\* A revoked row is never rotated or made active again, and a spent one is never
\* made active: the only order is active, rotated, revoked.
StatusOnlyAdvances ==
    [][\A t \in Token :
         /\ status[t] = "revoked" => status'[t] = "revoked"
         /\ status[t] = "rotated" => status'[t] \in {"rotated", "revoked"}]_vars

\* An insert with no row id left in the model: the database never runs out of
\* UUIDs, the model does.
OutOfIds == (\E s \in Request : pc[s] = "insert") /\ ~\E c \in Token : Fresh(c)

\* No request waits for ever on row locks: two revocations of a family that lock its
\* rows in different orders do deadlock, and the detector ends it.
EveryRequestEnds ==
    \A r \in Request : pc[r] # "idle" ~> pc[r] = "idle" \/ OutOfIds

\* db/tokens.py:86 says revoke_family revokes every non-revoked token in a rotation
\* family, and service.py:7 that a replay burns the whole family.
BurnRevokesWholeFamily ==
    [][\A r \in Request :
         CommitBurn(r) =>
           \A t \in Token :
             Present(t) /\ family[t] = family[tok[r]] => status'[t] = "revoked"]_vars

=============================================================================
