---------------------------- MODULE SessionProofs ----------------------------
(***************************************************************************)
(* A login session, from the rows of the service to the tabs of a browser: *)
(* what RefreshTokens and WebSession promise, for every value of their     *)
(* constants.                                                              *)
(*                                                                         *)
(* RefreshTokens.  The inductive invariant adds to the safety properties   *)
(* what makes them inductive: what a rotation holds between mark_rotated   *)
(* and its commit (the parent's row lock, over a row that is still         *)
(* active), that an uncommitted child is nobody else's, and that the rows  *)
(* a revocation selected are closed under parents up to rows already       *)
(* revoked.                                                                *)
(*                                                                         *)
(* WebSession.  Why a session whose refreshes all arrived one at a time is *)
(* closed by a logout only, for every number of tabs, sessions and calls   *)
(* left behind.  A token that travels back in an answer is nowhere else    *)
(* (InTransit); so the cookie is spent only while the answer that will     *)
(* replace it is on its way to a tab (AwaitedInTab), and whoever asks in   *)
(* the meantime either waits for that very answer or is noted; hence no    *)
(* call that has yet to be served bears a spent token (Unspent).           *)
(***************************************************************************)
EXTENDS RefreshTokens, WebSession, FiniteSetTheorems, TLAPS

-----------------------------------------------------------------------------
(* The service's rows                                                      *)

\* Past its lookup, and until it answers, a request works on an existing row; from
\* its insert on, a rotation also has a child, and only it answers with a pair.
TokenInHand ==
    \A r \in Request :
        /\ pc[r] \notin {"idle", "lookup", "logoutLookup", "reply"} => tok[r] \in Token
        /\ pc[r] = "commit" => child[r] \in Token
        /\ out[r] = "pair" => pc[r] = "reply" /\ child[r] \in Token

\* A row that was never inserted has no lineage; a family is named by its first row.
FamilyRows ==
    \A t \in Token :
        /\ status[t] = "absent" => parent[t] = None /\ family[t] = t
        /\ Present(t) => Present(family[t])
        /\ family[family[t]] = family[t]

\* A parent is an inserted, spent row of the same family.
ParentRows ==
    \A t \in Token : parent[t] # None =>
        /\ status[parent[t]] \in {"rotated", "revoked"}
        /\ family[parent[t]] = family[t]

\* Tokens in clients' hands, and presented tokens, are inserted rows.
KnownRows ==
    /\ \A t \in known : Present(t)
    /\ \A r \in Request : tok[r] # None => Present(tok[r])

\* Between mark_rotated and commit the parent is locked and still active.
RotationHolds ==
    \A r \in Request : pc[r] \in {"insert", "commit"} =>
        lock[tok[r]] = r /\ status[tok[r]] = "active"

\* An inserted, uncommitted child is invisible and nobody else's.
ChildFresh ==
    /\ \A r \in Request : pc[r] \notin {"commit", "reply"} => child[r] = None
    /\ \A r \in Request : pc[r] = "commit" => child[r] # None /\ status[child[r]] = "absent"
    /\ \A r \in Request : pc[r] = "reply" /\ child[r] # None => Present(child[r])
    /\ \A r, s \in Request : pc[r] = "commit" /\ child[s] = child[r] => r = s

\* A revocation has locked the rows it marked.
BurnHolds ==
    \A r \in Request :
        /\ marked[r] \subseteq snap[r]
        /\ marked[r] # {} => pc[r] = "burning"
        /\ \A t \in marked[r] : lock[t] = r

\* What a revocation selected: rows of the family, closed under parents and
\* containing the presented token, up to rows already revoked.
SnapClosed ==
    \A r \in Request : pc[r] = "burning" =>
        /\ tok[r] \in snap[r] \/ status[tok[r]] = "revoked"
        /\ \A t \in snap[r] :
             /\ Present(t)
             /\ family[t] = family[tok[r]]
             /\ parent[t] # None => parent[t] \in snap[r] \/ status[parent[t]] = "revoked"

\* What the committed rows satisfy, and what the running requests satisfy.
RowInv ==
    /\ FamilyRows
    /\ ParentRows
    /\ AtMostOneActive
    /\ SingleSuccessor
    /\ SpentHasSuccessor
    /\ RevocationCoversAncestors

RequestInv ==
    /\ KnownRows
    /\ RotationHolds
    /\ ChildFresh
    /\ BurnHolds
    /\ SnapClosed
    /\ AnsweredBurnIsEffective

IInv == TypeOK /\ TokenInHand /\ RowInv /\ RequestInv

-----------------------------------------------------------------------------
(* Type correctness                                                        *)

LEMMA InitType == Init => TypeOK /\ TokenInHand
  BY DEF Init, TokenInHand, TypeOK, Steps, Answers

LEMMA NextType == TypeOK /\ TokenInHand /\ [Next]_vars => (TypeOK /\ TokenInHand)'
  <1> SUFFICES ASSUME TypeOK, TokenInHand, [Next]_vars PROVE (TypeOK /\ TokenInHand)'
    OBVIOUS
  <1> USE NoneIsApart DEF TypeOK, TokenInHand, rows, ctx, Steps, Answers, Goto, Answer
  <1>1. ASSUME NEW r \in Request, NEW t \in Token \cup {None},
               StartRefresh(r, t) \/ StartLogout(r, t)
        PROVE  (TypeOK /\ TokenInHand)'
    BY <1>1 DEF StartRefresh, StartLogout
  <1>2. ASSUME NEW r \in Request, Lookup(r) \/ CheckUser(r) \/ Claim(r) \/ LookupLogout(r)
        PROVE  (TypeOK /\ TokenInHand)'
    BY <1>2 DEF Lookup, Found, CheckUser, Claim, LookupLogout
  <1>3. ASSUME NEW r \in Request, ClaimRow(r)
        PROVE  (TypeOK /\ TokenInHand)'
    BY <1>3 DEF ClaimRow
  <1>4. ASSUME NEW r \in Request, NEW c \in Token, InsertChild(r, c)
        PROVE  (TypeOK /\ TokenInHand)'
    BY <1>4 DEF InsertChild
  <1>5. ASSUME NEW r \in Request, CommitRotation(r)
        PROVE  (TypeOK /\ TokenInHand)'
    BY <1>5 DEF CommitRotation, Release
  <1>6. ASSUME NEW r \in Request, StartBurn(r)
        PROVE  (TypeOK /\ TokenInHand)'
    BY <1>6 DEF StartBurn, Revocable
  <1>7. ASSUME NEW r \in Request, NEW t \in Token, BurnRow(r, t)
        PROVE  (TypeOK /\ TokenInHand)'
    BY <1>7 DEF BurnRow
  <1>8. ASSUME NEW r \in Request, CommitBurn(r)
        PROVE  (TypeOK /\ TokenInHand)'
    BY <1>8 DEF CommitBurn, Release
  <1>9. ASSUME NEW r \in Request, NEW delivered \in BOOLEAN, Reply(r, delivered)
        PROVE  (TypeOK /\ TokenInHand)'
    BY <1>9 DEF Reply, Forget
  <1>10. ASSUME NEW r \in Request, DeadlockVictim(r) \/ Crash(r)
         PROVE  (TypeOK /\ TokenInHand)'
    BY <1>10 DEF DeadlockVictim, Crash, Release, Forget
  <1>11. ASSUME NEW t \in Token, NEW delivered \in BOOLEAN, Login(t, delivered)
         PROVE  (TypeOK /\ TokenInHand)'
    BY <1>11 DEF Login
  <1>12. ASSUME NEW t \in Token, Expire(t)
         PROVE  (TypeOK /\ TokenInHand)'
    BY <1>12 DEF Expire
  <1>13. CASE Deactivate
    BY <1>13 DEF Deactivate
  <1>14. CASE UNCHANGED vars
    BY <1>14 DEF vars
  <1> QED
    BY <1>1, <1>2, <1>3, <1>4, <1>5, <1>6, <1>7, <1>8, <1>9, <1>10, <1>11, <1>12,
       <1>13, <1>14 DEF Next, Client, Step

\* Every variable of RefreshTokens keeps the type its code gives it.
THEOREM TypeCorrect == Spec => []TypeOK
  BY InitType, NextType, PTL DEF Spec

-----------------------------------------------------------------------------
(* The committed rows: only a login and the two commits write them         *)

LEMMA RowsUnchanged == RowInv /\ UNCHANGED rows => RowInv'
  BY DEF RowInv, rows, FamilyRows, ParentRows, AtMostOneActive, SingleSuccessor,
         SpentHasSuccessor, RevocationCoversAncestors, Present

LEMMA LoginRows ==
  ASSUME IInv, NEW t \in Token, NEW delivered \in BOOLEAN, Login(t, delivered)
  PROVE  RowInv'
  <1> USE DEF IInv, TypeOK, RowInv, Login, Fresh, Present
  <1>1. FamilyRows' /\ ParentRows'
    BY DEF FamilyRows, ParentRows
  <1>2. AtMostOneActive'
    BY DEF AtMostOneActive, FamilyRows, ParentRows
  <1>3. SingleSuccessor' /\ SpentHasSuccessor' /\ RevocationCoversAncestors'
    BY NoneIsApart DEF SingleSuccessor, SpentHasSuccessor, RevocationCoversAncestors,
                       FamilyRows, ParentRows
  <1> QED
    BY <1>1, <1>2, <1>3

LEMMA CommitRotationRows ==
  ASSUME IInv, NEW r \in Request, CommitRotation(r)
  PROVE  RowInv'
  <1> USE NoneIsApart DEF IInv, TypeOK, RowInv, RequestInv, CommitRotation, Present
  <1>1. /\ tok[r] \in Token /\ child[r] \in Token
        /\ status[tok[r]] = "active" /\ status[child[r]] = "absent"
    BY DEF TokenInHand, RotationHolds, ChildFresh
  <1>2. \A t \in Token : parent[t] \notin {tok[r], child[r]} /\ family[t] = child[r] => t = child[r]
    BY <1>1 DEF ParentRows, FamilyRows
  <1>3. FamilyRows'
    BY <1>1, <1>2 DEF FamilyRows
  <1>4. ParentRows'
    BY <1>1, <1>2 DEF ParentRows, FamilyRows
  <1>5. AtMostOneActive'
    BY <1>1, <1>2 DEF AtMostOneActive, FamilyRows
  <1>6. SingleSuccessor'
    BY <1>1, <1>2 DEF SingleSuccessor, ParentRows
  <1>7. SpentHasSuccessor'
    BY <1>1, <1>2 DEF SpentHasSuccessor, FamilyRows
  <1>8. RevocationCoversAncestors'
    BY <1>1, <1>2 DEF RevocationCoversAncestors, ParentRows, FamilyRows
  <1> QED
    BY <1>3, <1>4, <1>5, <1>6, <1>7, <1>8

LEMMA CommitBurnRows ==
  ASSUME IInv, NEW r \in Request, CommitBurn(r)
  PROVE  RowInv'
  <1> USE NoneIsApart DEF IInv, TypeOK, RowInv, RequestInv, CommitBurn, Present
  <1>1. /\ \A t \in marked[r] : t \in Token /\ status[t] # "absent"
        /\ \A t \in marked[r] : parent[t] # None =>
              parent[t] \in marked[r] \/ status[parent[t]] = "revoked"
    BY DEF SnapClosed
  <1>2. FamilyRows' /\ AtMostOneActive'
    BY <1>1 DEF FamilyRows, AtMostOneActive
  <1>3. ParentRows' /\ RevocationCoversAncestors'
    BY <1>1 DEF ParentRows, RevocationCoversAncestors
  <1>4. SingleSuccessor' /\ SpentHasSuccessor'
    BY <1>1 DEF SingleSuccessor, SpentHasSuccessor
  <1> QED
    BY <1>2, <1>3, <1>4

-----------------------------------------------------------------------------
(* The running requests                                                    *)

\* Steps that only move one request on, its locks and the rows untouched.
LEMMA LocalStep ==
  ASSUME IInv, NEW r \in Request,
         \/ Lookup(r) \/ CheckUser(r) \/ Claim(r) \/ LookupLogout(r)
         \/ \E t \in Token \cup {None} : StartRefresh(r, t) \/ StartLogout(r, t)
  PROVE  RequestInv'
  <1> USE NoneIsApart DEF IInv, TypeOK, TokenInHand, RequestInv, rows, Goto, Answer,
          Lookup, Found, CheckUser, Claim, LookupLogout, StartRefresh, StartLogout, Present
  <1>1. KnownRows'
    BY DEF KnownRows
  <1>2. RotationHolds' /\ ChildFresh'
    BY DEF RotationHolds, ChildFresh
  <1>3. BurnHolds' /\ SnapClosed'
    BY DEF BurnHolds, SnapClosed
  <1>4. AnsweredBurnIsEffective'
    BY DEF AnsweredBurnIsEffective
  <1> QED
    BY <1>1, <1>2, <1>3, <1>4

\* mark_rotated takes the row lock.
LEMMA ClaimRowStep ==
  ASSUME IInv, NEW r \in Request, ClaimRow(r)
  PROVE  RequestInv'
  <1> USE NoneIsApart DEF IInv, TypeOK, TokenInHand, RequestInv, rows, Goto, Answer,
          ClaimRow, Present
  <1>1. KnownRows' /\ ChildFresh' /\ AnsweredBurnIsEffective'
    BY DEF KnownRows, ChildFresh, AnsweredBurnIsEffective
  <1>2. RotationHolds'
    BY DEF RotationHolds
  <1>3. BurnHolds' /\ SnapClosed'
    BY DEF BurnHolds, SnapClosed
  <1> QED
    BY <1>1, <1>2, <1>3

\* The child is inserted, uncommitted.
LEMMA InsertStep ==
  ASSUME IInv, NEW r \in Request, NEW c \in Token, InsertChild(r, c)
  PROVE  RequestInv'
  <1> USE NoneIsApart DEF IInv, TypeOK, TokenInHand, RequestInv, rows, Goto,
          InsertChild, Fresh, Present
  <1>1. KnownRows' /\ RotationHolds' /\ AnsweredBurnIsEffective'
    BY DEF KnownRows, RotationHolds, AnsweredBurnIsEffective
  <1>2. ChildFresh'
    BY DEF ChildFresh
  <1>3. BurnHolds' /\ SnapClosed'
    BY DEF BurnHolds, SnapClosed
  <1> QED
    BY <1>1, <1>2, <1>3

\* The rotation commits: the locked parent is nobody else's to rotate or revoke.
LEMMA CommitRotationStep ==
  ASSUME IInv, NEW r \in Request, CommitRotation(r)
  PROVE  RequestInv'
  <1> USE NoneIsApart DEF IInv, TypeOK, TokenInHand, RequestInv, Goto, Answer,
          CommitRotation, Release, Present
  <1>1. /\ tok[r] \in Token /\ child[r] \in Token
        /\ status[tok[r]] = "active" /\ status[child[r]] = "absent"
        /\ lock[tok[r]] = r
    BY DEF RotationHolds, ChildFresh
  <1>2. \A t \in Token : status[t] = "revoked" => status'[t] = "revoked"
    BY <1>1
  <1>3. \A t \in Token : Present(t) => /\ Present(t)'
                                       /\ family'[t] = family[t]
                                       /\ parent'[t] = parent[t]
    BY <1>1
  <1>4. KnownRows'
    BY <1>3 DEF KnownRows
  <1>5. RotationHolds'
    BY <1>1 DEF RotationHolds
  <1>6. ChildFresh'
    BY <1>1 DEF ChildFresh
  <1>7. BurnHolds'
    BY <1>1 DEF BurnHolds
  <1>8. SnapClosed'
    <2> SUFFICES ASSUME NEW s \in Request, pc'[s] = "burning"
                 PROVE  /\ tok[s] \in snap[s] \/ status'[tok[s]] = "revoked"
                        /\ \A t \in snap[s] :
                             /\ Present(t)'
                             /\ family'[t] = family'[tok[s]]
                             /\ parent'[t] # None =>
                                  parent'[t] \in snap[s] \/ status'[parent'[t]] = "revoked"
      BY DEF SnapClosed
    <2>1. pc[s] = "burning" /\ tok[s] \in Token /\ Present(tok[s])
      BY DEF KnownRows
    <2>2. \A t \in snap[s] : t \in Token /\ Present(t)
      BY <2>1 DEF SnapClosed
    <2>3. \A t \in snap[s] : parent[t] \in Token \cup {None}
      BY <2>2
    <2> QED
      BY <1>2, <1>3, <2>1, <2>2, <2>3 DEF SnapClosed
  <1>9. AnsweredBurnIsEffective'
    BY <1>1, <1>2 DEF AnsweredBurnIsEffective
  <1> QED
    BY <1>4, <1>5, <1>6, <1>7, <1>8, <1>9

\* revoke_family fixes its rows: all the family's rows that are not revoked yet.
LEMMA StartBurnStep ==
  ASSUME IInv, NEW r \in Request, StartBurn(r)
  PROVE  RequestInv'
  <1> USE NoneIsApart DEF IInv, TypeOK, TokenInHand, RowInv, RequestInv, rows, Goto,
          StartBurn, Present
  <1>1. KnownRows' /\ RotationHolds' /\ ChildFresh' /\ AnsweredBurnIsEffective'
    BY DEF KnownRows, RotationHolds, ChildFresh, AnsweredBurnIsEffective
  <1>2. BurnHolds'
    BY DEF BurnHolds
  <1>3. tok[r] \in Token /\ Present(tok[r])
    BY DEF KnownRows
  <1>4. /\ tok[r] \in Revocable(family[tok[r]]) \/ status[tok[r]] = "revoked"
        /\ \A t \in Revocable(family[tok[r]]) :
             /\ Present(t)
             /\ family[t] = family[tok[r]]
             /\ parent[t] # None =>
                  parent[t] \in Revocable(family[tok[r]]) \/ status[parent[t]] = "revoked"
    BY <1>3 DEF Revocable, ParentRows
  <1>5. SnapClosed'
    BY <1>4 DEF SnapClosed
  <1> QED
    BY <1>1, <1>2, <1>5

\* revoke_family locks and updates one more row.
LEMMA BurnRowStep ==
  ASSUME IInv, NEW r \in Request, NEW t \in Token, BurnRow(r, t)
  PROVE  RequestInv'
  <1> USE NoneIsApart DEF IInv, TypeOK, TokenInHand, RequestInv, rows, BurnRow, Present
  <1>1. KnownRows' /\ ChildFresh' /\ AnsweredBurnIsEffective'
    BY DEF KnownRows, ChildFresh, AnsweredBurnIsEffective
  <1>2. RotationHolds'
    BY DEF RotationHolds
  <1>3. BurnHolds' /\ SnapClosed'
    BY DEF BurnHolds, SnapClosed
  <1> QED
    BY <1>1, <1>2, <1>3

\* The revocation commits: a row it marked is not one a rotation holds.
LEMMA CommitBurnStep ==
  ASSUME IInv, NEW r \in Request, CommitBurn(r)
  PROVE  RequestInv'
  <1> USE NoneIsApart DEF IInv, TypeOK, TokenInHand, RequestInv, Goto, CommitBurn,
          Release, Present
  <1>1. \A t \in marked[r] : t \in Token /\ Present(t) /\ lock[t] = r
    BY ZenonT(40) DEF SnapClosed, BurnHolds
  <1>2. KnownRows' /\ ChildFresh'
    BY <1>1 DEF KnownRows, ChildFresh
  <1>3. RotationHolds'
    BY <1>1 DEF RotationHolds
  <1>4. BurnHolds' /\ SnapClosed'
    BY <1>1 DEF BurnHolds, SnapClosed
  <1>5. AnsweredBurnIsEffective'
    <2>1. \A t \in snap[r] \cup {tok[r]} : status'[t] = "revoked"
      BY <1>1 DEF SnapClosed
    <2> QED
      BY ZenonT(40), <1>1, <2>1 DEF AnsweredBurnIsEffective
  <1> QED
    BY <1>2, <1>3, <1>4, <1>5

\* The answer leaves; or the transaction is rolled back.
LEMMA ReplyStep ==
  ASSUME IInv, NEW r \in Request, NEW delivered \in BOOLEAN, Reply(r, delivered)
  PROVE  RequestInv'
  <1> USE NoneIsApart DEF IInv, TypeOK, TokenInHand, RequestInv, rows, Reply, Forget, Present
  <1>1. KnownRows' /\ RotationHolds'
    BY DEF KnownRows, RotationHolds, ChildFresh
  <1>2. ChildFresh' /\ AnsweredBurnIsEffective'
    BY DEF ChildFresh, AnsweredBurnIsEffective
  <1>3. BurnHolds' /\ SnapClosed'
    BY DEF BurnHolds, SnapClosed
  <1> QED
    BY <1>1, <1>2, <1>3

LEMMA AbortStep ==
  ASSUME IInv, NEW r \in Request, DeadlockVictim(r) \/ Crash(r)
  PROVE  RequestInv'
  <1> USE NoneIsApart DEF IInv, TypeOK, TokenInHand, RequestInv, rows, DeadlockVictim,
          Crash, Release, Forget, Present
  <1>1. KnownRows' /\ RotationHolds'
    BY DEF KnownRows, RotationHolds
  <1>2. ChildFresh' /\ AnsweredBurnIsEffective'
    BY DEF ChildFresh, AnsweredBurnIsEffective
  <1>3. BurnHolds' /\ SnapClosed'
    BY SMTT(30) DEF BurnHolds, SnapClosed
  <1> QED
    BY <1>1, <1>2, <1>3

\* A login adds a row no running request knows of.
LEMMA LoginStep ==
  ASSUME IInv, NEW t \in Token, NEW delivered \in BOOLEAN, Login(t, delivered)
  PROVE  RequestInv'
  <1> USE NoneIsApart DEF IInv, TypeOK, TokenInHand, RequestInv, ctx, Login, Fresh, Present
  <1>1. KnownRows' /\ RotationHolds'
    BY DEF KnownRows, RotationHolds
  <1>2. ChildFresh' /\ AnsweredBurnIsEffective'
    BY DEF ChildFresh, AnsweredBurnIsEffective
  <1>3. BurnHolds' /\ SnapClosed'
    BY DEF BurnHolds, SnapClosed
  <1> QED
    BY <1>1, <1>2, <1>3

\* Neither rows nor requests change: expiry, deactivation, stuttering.
LEMMA RequestsUnchanged ==
  ASSUME RequestInv, UNCHANGED <<rows, known, lock, ctx>>
  PROVE  RequestInv'
  BY DEF RequestInv, rows, ctx, KnownRows, RotationHolds, ChildFresh, BurnHolds,
         SnapClosed, AnsweredBurnIsEffective, Present

-----------------------------------------------------------------------------
(* The invariant                                                           *)

LEMMA InitInv == Init => IInv
  <1> SUFFICES ASSUME Init PROVE IInv
    OBVIOUS
  <1>1. TypeOK /\ TokenInHand
    BY InitType
  <1>2. RowInv
    BY DEF Init, RowInv, FamilyRows, ParentRows, AtMostOneActive, SingleSuccessor,
           SpentHasSuccessor, RevocationCoversAncestors, Present
  <1>3. RequestInv
    BY DEF Init, RequestInv, KnownRows, RotationHolds, ChildFresh, BurnHolds, SnapClosed,
           AnsweredBurnIsEffective, Present
  <1> QED
    BY <1>1, <1>2, <1>3 DEF IInv

LEMMA NextInv == IInv /\ [Next]_vars => IInv'
  <1> SUFFICES ASSUME IInv, [Next]_vars PROVE IInv'
    OBVIOUS
  <1>1. TypeOK' /\ TokenInHand'
    BY NextType DEF IInv
  <1> SUFFICES RowInv' /\ RequestInv'
    BY <1>1 DEF IInv
  <1>2. ASSUME UNCHANGED rows PROVE RowInv'
    BY <1>2, RowsUnchanged DEF IInv
  <1>3. ASSUME NEW r \in Request, Client(r)
        PROVE  RowInv' /\ RequestInv'
    BY <1>2, <1>3, LocalStep DEF Client, StartRefresh, StartLogout
  <1>4. ASSUME NEW r \in Request, Lookup(r) \/ CheckUser(r) \/ Claim(r) \/ LookupLogout(r)
        PROVE  RowInv' /\ RequestInv'
    BY <1>2, <1>4, LocalStep DEF Lookup, CheckUser, Claim, LookupLogout
  <1>5. ASSUME NEW r \in Request, ClaimRow(r)
        PROVE  RowInv' /\ RequestInv'
    BY <1>2, <1>5, ClaimRowStep DEF ClaimRow
  <1>6. ASSUME NEW r \in Request, NEW c \in Token, InsertChild(r, c)
        PROVE  RowInv' /\ RequestInv'
    BY <1>2, <1>6, InsertStep DEF InsertChild
  <1>7. ASSUME NEW r \in Request, CommitRotation(r)
        PROVE  RowInv' /\ RequestInv'
    BY <1>7, CommitRotationRows, CommitRotationStep
  <1>8. ASSUME NEW r \in Request, StartBurn(r)
        PROVE  RowInv' /\ RequestInv'
    BY <1>2, <1>8, StartBurnStep DEF StartBurn
  <1>9. ASSUME NEW r \in Request, NEW t \in Token, BurnRow(r, t)
        PROVE  RowInv' /\ RequestInv'
    BY <1>2, <1>9, BurnRowStep DEF BurnRow
  <1>10. ASSUME NEW r \in Request, CommitBurn(r)
         PROVE  RowInv' /\ RequestInv'
    BY <1>10, CommitBurnRows, CommitBurnStep
  <1>11. ASSUME NEW r \in Request, NEW delivered \in BOOLEAN, Reply(r, delivered)
         PROVE  RowInv' /\ RequestInv'
    BY <1>2, <1>11, ReplyStep DEF Reply
  <1>12. ASSUME NEW r \in Request, DeadlockVictim(r) \/ Crash(r)
         PROVE  RowInv' /\ RequestInv'
    BY <1>2, <1>12, AbortStep DEF DeadlockVictim, Crash
  <1>13. ASSUME NEW t \in Token, NEW delivered \in BOOLEAN, Login(t, delivered)
         PROVE  RowInv' /\ RequestInv'
    BY <1>13, LoginRows, LoginStep
  <1>14. ASSUME UNCHANGED <<rows, known, lock, ctx>>
         PROVE  RowInv' /\ RequestInv'
    BY <1>2, <1>14, RequestsUnchanged DEF IInv
  <1>15. ASSUME NEW t \in Token, Expire(t)
         PROVE  RowInv' /\ RequestInv'
    BY <1>14, <1>15 DEF Expire
  <1>16. CASE Deactivate
    BY <1>14, <1>16 DEF Deactivate
  <1>17. CASE UNCHANGED vars
    BY <1>14, <1>17 DEF vars, rows, ctx
  <1> QED
    BY <1>3, <1>4, <1>5, <1>6, <1>7, <1>8, <1>9, <1>10, <1>11, <1>12, <1>13, <1>15,
       <1>16, <1>17 DEF Next, Step

THEOREM Invariance == Spec => []IInv
  BY InitInv, NextInv, PTL DEF Spec

\* However refreshes, replays, logouts and crashes interleave, a family has at most
\* one usable token.
THEOREM OneActive == Spec => []AtMostOneActive
  <1>1. IInv => AtMostOneActive
    BY DEF IInv, RowInv
  <1> QED
    BY <1>1, Invariance, PTL

\* At most one of the requests that present a token gets a successor for it.
THEOREM OneSuccessor == Spec => []SingleSuccessor
  <1>1. IInv => SingleSuccessor
    BY DEF IInv, RowInv
  <1> QED
    BY <1>1, Invariance, PTL

\* A token is spent in the same transaction that inserts its successor.
THEOREM SpentAndReplaced == Spec => []SpentHasSuccessor
  <1>1. IInv => SpentHasSuccessor
    BY DEF IInv, RowInv
  <1> QED
    BY <1>1, Invariance, PTL

\* A revoked token has only revoked ancestors.
THEOREM AncestorsRevoked == Spec => []RevocationCoversAncestors
  <1>1. IInv => RevocationCoversAncestors
    BY DEF IInv, RowInv
  <1> QED
    BY <1>1, Invariance, PTL

\* When the client hears of the revocation, the rows it selected are revoked.
THEOREM BurnEffective == Spec => []AnsweredBurnIsEffective
  <1>1. IInv => AnsweredBurnIsEffective
    BY DEF IInv, RequestInv
  <1> QED
    BY <1>1, Invariance, PTL

-----------------------------------------------------------------------------
(* How rows may change                                                     *)

\* A row goes from active to rotated to revoked, never back, from any state and
\* under any interleaving.
THEOREM Advances == Spec => StatusOnlyAdvances
  <1> DEFINE Forward(t) ==
               /\ status[t] = "revoked" => status'[t] = "revoked"
               /\ status[t] = "rotated" => status'[t] \in {"rotated", "revoked"}
  <1>1. ASSUME IInv, [Next]_vars, NEW t \in Token
        PROVE  Forward(t)
    <2> USE <1>1 DEF IInv, TypeOK
    <2>1. CASE UNCHANGED rows
      BY <2>1 DEF rows
    <2>2. ASSUME NEW u \in Token, NEW delivered \in BOOLEAN, Login(u, delivered)
          PROVE  Forward(t)
      BY <2>2 DEF Login, Fresh
    <2>3. ASSUME NEW r \in Request, CommitRotation(r)
          PROVE  Forward(t)
      BY <2>3 DEF CommitRotation, TokenInHand, RequestInv, RotationHolds, ChildFresh
    <2>4. ASSUME NEW r \in Request, CommitBurn(r)
          PROVE  Forward(t)
      BY <2>4 DEF CommitBurn
    <2> QED
      BY <2>1, <2>2, <2>3, <2>4
         DEF Next, Client, Step, vars, rows, StartRefresh, StartLogout, Lookup, CheckUser,
             Claim, ClaimRow, InsertChild, StartBurn, BurnRow, LookupLogout, Reply,
             DeadlockVictim, Crash, Expire, Deactivate
  <1>2. IInv /\ [Next]_vars => [\A t \in Token : Forward(t)]_vars
    BY <1>1
  <1> QED
    BY <1>2, Invariance, PTL DEF Spec, StatusOnlyAdvances

-----------------------------------------------------------------------------
(* The rows implement login sessions                                       *)

\* With one active token per family the choice in Usable is that token.
LEMMA UsableIsActive ==
  ASSUME TypeOK, AtMostOneActive, NEW f \in Token
  PROVE  /\ \A t \in Token : family[t] = f /\ status[t] = "active" => Usable[f] = t
         /\ (~\E t \in Token : family[t] = f /\ status[t] = "active") => Usable[f] = None
         /\ Usable[f] \in Token \cup {None}
  <1>1. ASSUME NEW t \in Token, family[t] = f, status[t] = "active"
        PROVE  Usable[f] = t
    <2>1. UsableOf(f) = {t}
      BY <1>1 DEF UsableOf, AtMostOneActive
    <2> QED
      BY <2>1 DEF Usable
  <1>2. ASSUME ~\E t \in Token : family[t] = f /\ status[t] = "active"
        PROVE  Usable[f] = None
    <2>1. UsableOf(f) = {}
      BY <1>2 DEF UsableOf
    <2> QED
      BY <2>1 DEF Usable
  <1> QED
    BY <1>1, <1>2

\* A function that differs from another at one point only.
LEMMA OnePointChange ==
  ASSUME NEW S, NEW F, NEW G, NEW g \in S, NEW v,
         F = [x \in S |-> F[x]], G = [x \in S |-> G[x]],
         G[g] = v, \A x \in S : x # g => G[x] = F[x]
  PROVE  G = [F EXCEPT ![g] = v]
  OBVIOUS

LEMMA UsableIsMapping ==
  /\ Usable = [f \in Token |-> Usable[f]]
  /\ Usable' = [f \in Token |-> Usable'[f]]
  BY DEF Usable

LEMMA SameUsable ==
  ASSUME NEW f \in Token, UsableOf(f)' = UsableOf(f)
  PROVE  Usable'[f] = Usable[f]
  BY DEF Usable

LEMMA SameRowsSameSession == UNCHANGED rows => UNCHANGED <<Used, Usable>>
  BY DEF rows, Used, Usable, UsableOf, Present

LEMMA LoginOpens ==
  ASSUME IInv, IInv', NEW t \in Token, NEW delivered \in BOOLEAN, Login(t, delivered)
  PROVE  Session!Open(t)
  <1> USE NoneIsApart DEF IInv, TypeOK, RowInv
  <1>1. /\ status' = [status EXCEPT ![t] = "active"] /\ family' = family
        /\ status[t] = "absent" /\ family[t] = t
    BY DEF Login, Fresh, FamilyRows
  <1>2. t \notin Used /\ Used' = Used \cup {t}
    BY <1>1 DEF Used, Present
  <1>3. ASSUME NEW f \in Token, f # t
        PROVE  Usable'[f] = Usable[f]
    <2>1. UsableOf(f)' = UsableOf(f)
      BY <1>1, <1>3 DEF UsableOf
    <2> QED
      BY <2>1, SameUsable
  <1>4. Usable'[t] = t
    BY <1>1, UsableIsActive DEF Usable, UsableOf, AtMostOneActive
  <1>5. Usable' = [Usable EXCEPT ![t] = t]
    BY <1>3, <1>4, UsableIsMapping, OnePointChange
  <1> QED
    BY <1>2, <1>5 DEF Session!Open

LEMMA RotationRenews ==
  ASSUME IInv, IInv', NEW r \in Request, CommitRotation(r)
  PROVE  Session!Renew(family[tok[r]], child[r]) /\ family[tok[r]] \in Token
  <1> USE NoneIsApart DEF IInv, TypeOK, RowInv
  <1> SUFFICES ASSUME NEW p, NEW c, NEW g, p = tok[r], c = child[r], g = family[p]
               PROVE  Session!Renew(g, c) /\ g \in Token
    OBVIOUS
  <1>1. /\ p \in Token /\ c \in Token /\ p # c /\ g \in Token /\ c # g
        /\ status[p] = "active" /\ status[c] = "absent" /\ family[c] = c
        /\ status' = [status EXCEPT ![p] = "rotated", ![c] = "active"]
        /\ family' = [family EXCEPT ![c] = g]
    BY DEF CommitRotation, TokenInHand, RequestInv, RotationHolds, ChildFresh, FamilyRows,
           Present
  <1>2. c \notin Used /\ Used' = Used \cup {c}
    BY <1>1 DEF Used, Present
  <1>3. Usable[g] # None
    BY <1>1, UsableIsActive
  <1>4. ASSUME NEW f \in Token, f # g
        PROVE  Usable'[f] = Usable[f]
    <2>1. UsableOf(f)' = UsableOf(f)
      <3>1. UsableOf(f)' \subseteq UsableOf(f)
        BY <1>1, <1>4 DEF UsableOf
      <3>2. UsableOf(f) \subseteq UsableOf(f)'
        BY <1>1, <1>4 DEF UsableOf
      <3> QED
        BY <3>1, <3>2
    <2> QED
      BY <2>1, SameUsable
  <1>5. Usable'[g] = c
    <2>1. UsableOf(g)' = {c}
      <3>1. c \in UsableOf(g)'
        <4>1. family'[c] = g /\ status'[c] = "active"
          BY <1>1
        <4> QED
          BY <1>1, <4>1 DEF UsableOf
      <3>2. ASSUME NEW u \in UsableOf(g)' PROVE u = c
        BY <3>1, <3>2 DEF UsableOf, AtMostOneActive
      <3> QED
        BY <3>1, <3>2
    <2> QED
      BY <1>1, <2>1 DEF Usable
  <1>6. Usable' = [Usable EXCEPT ![g] = c]
    <2>1. g \in Token
      BY <1>1
    <2> QED
      BY <2>1, <1>4, <1>5, UsableIsMapping, OnePointChange
  <1>7. Session!Renew(g, c)
    BY <1>2, <1>3, <1>6 DEF Session!Renew
  <1> QED
    BY <1>1, <1>7

LEMMA BurnCloses ==
  ASSUME IInv, IInv', NEW r \in Request, CommitBurn(r)
  PROVE  Session!Close(family[tok[r]]) \/ UNCHANGED <<Used, Usable>>
  <1> USE NoneIsApart DEF IInv, TypeOK, RowInv
  <1> SUFFICES ASSUME NEW g, g = family[tok[r]]
               PROVE  Session!Close(g) \/ UNCHANGED <<Used, Usable>>
    OBVIOUS
  <1>1. /\ g \in Token
        /\ family' = family
        /\ \A t \in marked[r] : t \in Token /\ status[t] # "absent" /\ family[t] = g
        /\ status' = [t \in Token |-> IF t \in marked[r] THEN "revoked" ELSE status[t]]
    <2>1. pc[r] = "burning" /\ marked[r] = snap[r] /\ snap[r] \subseteq Token
      BY DEF CommitBurn
    <2>2. tok[r] \in Token
      BY <2>1 DEF TokenInHand
    <2>3. \A t \in snap[r] : status[t] # "absent" /\ family[t] = g
      BY <2>1 DEF RequestInv, SnapClosed, Present
    <2> QED
      BY <2>1, <2>2, <2>3 DEF CommitBurn
  <1>2. Used' = Used
    BY <1>1 DEF Used, Present
  <1>3. ASSUME NEW f \in Token, f # g
        PROVE  Usable'[f] = Usable[f]
    <2>1. UsableOf(f)' = UsableOf(f)
      BY <1>1, <1>3 DEF UsableOf
    <2> QED
      BY <2>1, SameUsable
  <1>4. CASE UsableOf(g) \cap marked[r] = {}
    <2>1. UsableOf(g)' = UsableOf(g)
      <3>1. \A t \in Token : t \in UsableOf(g)' <=> t \in UsableOf(g)
        BY <1>1, <1>4 DEF UsableOf
      <3> QED
        BY <3>1 DEF UsableOf
    <2>2. \A f \in Token : Usable'[f] = Usable[f]
      <3>1. Usable'[g] = Usable[g]
        BY <1>1, <2>1, SameUsable
      <3> QED
        BY <1>3, <3>1
    <2>3. Usable' = Usable
      BY <2>2, UsableIsMapping
    <2> QED
      BY <1>2, <2>3
  <1>5. CASE UsableOf(g) \cap marked[r] # {}
    <2>1. PICK t \in UsableOf(g) : t \in marked[r]
      BY <1>5
    <2>2. UsableOf(g) = {t}
      BY <2>1 DEF UsableOf, AtMostOneActive
    <2>3. UsableOf(g)' = {}
      <3>1. \A u \in Token : status'[u] = "active" /\ family[u] = g => u = t /\ u \notin marked[r]
        BY <1>1, <2>2 DEF UsableOf
      <3> QED
        BY <1>1, <2>1, <3>1 DEF UsableOf
    <2>4. Usable[g] = t /\ t \in Token /\ Usable'[g] = None
      BY <1>1, <2>1, <2>2, <2>3 DEF Usable, UsableOf
    <2>5. Usable' = [Usable EXCEPT ![g] = None]
      BY <1>1, <1>3, <2>4, UsableIsMapping, OnePointChange
    <2> QED
      BY <1>2, <2>4, <2>5 DEF Session!Close
  <1> QED
    BY <1>4, <1>5

\* The committed rows of every run of the service behave as login sessions do.
THEOREM Refinement == Spec => ImplementsSession
  <1>1. Init => Session!Init
    <2> SUFFICES ASSUME Init PROVE Session!Init
      OBVIOUS
    <2>1. Used = {}
      BY DEF Init, Used, Present
    <2>2. \A f \in Token : UsableOf(f) = {}
      BY DEF Init, UsableOf
    <2> QED
      BY <2>1, <2>2 DEF Session!Init, Usable
  <1>2. IInv /\ IInv' /\ [Next]_vars => [Session!Next]_(Session!session)
    <2> SUFFICES ASSUME IInv, IInv', [Next]_vars
                 PROVE  Session!Next \/ UNCHANGED <<Used, Usable>>
      BY DEF Session!session
    <2>1. CASE UNCHANGED rows
      BY <2>1, SameRowsSameSession
    <2>2. ASSUME NEW t \in Token, NEW delivered \in BOOLEAN, Login(t, delivered)
          PROVE  Session!Next
      BY <2>2, LoginOpens DEF Session!Next
    <2>3. ASSUME NEW r \in Request, CommitRotation(r)
          PROVE  Session!Next
      <3>1. child[r] \in Token
        BY <2>3 DEF IInv, TokenInHand, CommitRotation
      <3> QED
        BY <2>3, <3>1, RotationRenews DEF Session!Next
    <2>4. ASSUME NEW r \in Request, CommitBurn(r)
          PROVE  Session!Next \/ UNCHANGED <<Used, Usable>>
      <3>1. family[tok[r]] \in Token
        BY <2>4 DEF IInv, TypeOK, TokenInHand, CommitBurn
      <3> QED
        BY <2>4, <3>1, BurnCloses DEF Session!Next
    <2> QED
      BY <2>1, <2>2, <2>3, <2>4
         DEF Next, Client, Step, vars, rows, StartRefresh, StartLogout, Lookup, CheckUser,
             Claim, ClaimRow, InsertChild, StartBurn, BurnRow, LookupLogout, Reply,
             DeadlockVictim, Crash, Expire, Deactivate
  <1> QED
    BY <1>1, <1>2, Invariance, PTL DEF Spec, ImplementsSession, Session!Spec

-----------------------------------------------------------------------------
(* The browser's tabs                                                       *)

\* Answers clear the cookie, leave it or bring a token that is not spent.
AnswersSound ==
    \A c \in calls :
        /\ c.stage = "sent" => c.brings = Keep
        /\ \A s \in SessionId : c.brings # Spent(s)

InTransit ==
    \A s \in SessionId, c \in calls : c.brings = Current(s) =>
        /\ cookie # Current(s)
        /\ \A d \in calls : d.bears # Current(s) /\ (d.brings = Current(s) => d = c)

\* The refresh of session s has been served, and its answer is on its way to a tab.
Renewing(s, c) == /\ c.kind = "refresh" /\ c.stage = "answered" /\ c.tab \in Tab
                  /\ c.bears = Spent(s) /\ c.brings = Current(s)

AwaitedInTab ==
    \A s \in live \ excused : cookie = Spent(s) => \E c \in calls : Renewing(s, c)

\* A refresh that has yet to be served.
Pending(c) == c.kind = "refresh" /\ c.stage = "sent"

Unspent ==
    \A s \in live \ excused, c \in calls : Pending(c) => c.bears # Spent(s)

\* Two refreshes of a session are not under way at once, unless noted.
Alone ==
    \A s \in SessionId \ excused, c, d \in calls :
        Pending(c) /\ Pending(d) /\ c.bears = Current(s) /\ d.bears = Current(s) => c = d

\* The refreshes of pages that are gone are noted.
Noted ==
    \A c \in calls : c.tab = Nil => Bearing(c) \subseteq excused

Inv == AnswersSound /\ InTransit /\ AwaitedInTab /\ Unspent /\ Alone /\ Noted
WebIInv == WebTypeOK /\ Inv

-----------------------------------------------------------------------------
(* Tokens and calls                                                        *)

LEMMA Tokens ==
    /\ \A s \in SessionId :
         /\ Current(s) \in Cookie /\ Current(s) # Nil /\ Current(s) # Keep
         /\ Spent(s) \in Cookie /\ Spent(s) # Nil /\ Spent(s) # Keep
    /\ \A s, r \in SessionId :
         /\ Current(s) # Spent(r)
         /\ Current(s) = Current(r) => s = r
         /\ Spent(s) = Spent(r) => s = r
<1>1. \A s \in SessionId : Current(s) \in Cookie /\ Spent(s) \in Cookie
  BY DEF Current, Spent, Cookie
<1>2. Nil \notin Cookie /\ Keep \notin Cookie
  BY SessionAssumption DEF Cookie
<1>3. \A s, r \in SessionId : Current(s) # Spent(r) /\ (Current(s) = Current(r) => s = r)
                            /\ (Spent(s) = Spent(r) => s = r)
  BY DEF Current, Spent
<1> QED
  BY <1>1, <1>2, <1>3

LEMMA Others == Nil # Keep /\ Nil \notin Tab /\ Nil \notin Cookie /\ Keep \notin Cookie
BY SessionAssumption DEF Cookie

\* What a token becomes when the usable one of session s is spent.
LEMMA SpendToken ==
    ASSUME NEW s \in SessionId, NEW k
    PROVE  /\ \A r \in SessionId : Spend(s, k) = Current(r) <=> (k = Current(r) /\ r # s)
           /\ \A r \in SessionId : Spend(s, k) = Spent(r) <=> (k = Spent(r) \/ (k = Current(s) /\ r = s))
           /\ k \notin Cookie => Spend(s, k) = k
           /\ k \in Cookie => Spend(s, k) \in Cookie
BY Tokens DEF Spend

Joined(c, waiter) == [c EXCEPT !.waiters = @ \cup {waiter}]
Orphan(c) == [c EXCEPT !.tab = Nil, !.waiters = {}]
Spending(s, c) == [c EXCEPT !.bears = Spend(s, @), !.brings = Spend(s, @)]

LEMMA JoinedCall ==
    ASSUME NEW c \in Call, NEW waiter \in Waiters
    PROVE  LET d == Joined(c, waiter)
           IN  d \in Call /\ d.tab = c.tab /\ d.kind = c.kind /\ d.bears = c.bears
               /\ d.stage = c.stage /\ d.brings = c.brings
BY DEF Call, Joined

LEMMA OrphanCall ==
    ASSUME NEW c \in Call
    PROVE  LET d == Orphan(c)
           IN  d \in Call /\ d.tab = Nil /\ d.kind = c.kind /\ d.bears = c.bears
               /\ d.stage = c.stage /\ d.brings = c.brings
BY DEF Call, Orphan

LEMMA SpendingCall ==
    ASSUME NEW s \in SessionId, NEW c \in Call
    PROVE  LET d == Spending(s, c)
           IN  d \in Call /\ d.tab = c.tab /\ d.kind = c.kind /\ d.bears = Spend(s, c.bears)
               /\ d.stage = c.stage /\ d.brings = Spend(s, c.brings)
<1>1. Spend(s, c.bears) \in Cookie \cup {Nil} /\ Spend(s, c.brings) \in Cookie \cup {Nil, Keep}
  BY SpendToken, Others DEF Call
<1> QED
  BY <1>1 DEF Call, Spending

LEMMA AnsweredCall ==
    ASSUME NEW c \in Call, NEW ok \in BOOLEAN, NEW brings \in Cookie \cup {Nil, Keep}
    PROVE  LET d == Answered(c, ok, brings)
           IN  d \in Call /\ d.tab = c.tab /\ d.kind = c.kind /\ d.bears = c.bears
               /\ d.stage = "answered" /\ d.brings = brings
BY DEF Call, Answered

LEMMA SentCall ==
    ASSUME NEW t \in Tab, NEW kind \in Kind, NEW waiters \in SUBSET Waiters, cookie \in Cookie \cup {Nil}
    PROVE  LET d == Sent(t, kind, waiters)
           IN  d \in Call /\ d.tab = t /\ d.kind = kind /\ d.bears \in {Nil, cookie}
               /\ d.stage = "sent" /\ d.brings = Keep
BY DEF Call, Sent

\* What a call bears decides whose refresh it is.
LEMMA BearingIs ==
    ASSUME NEW c
    PROVE  \A s \in SessionId :
             s \in Bearing(c) <=> c.kind = "refresh" /\ (c.bears = Current(s) \/ c.bears = Spent(s))
BY DEF Bearing

-----------------------------------------------------------------------------
(* What can happen to the calls                                            *)

\* The calls in K become what j makes of them and the others go.  They stay what they are
\* but may lose the tab they came from; of a refresh that does, or goes, the session is noted.
Carries(K, j) ==
    /\ K \subseteq calls
    /\ calls' = {j[c] : c \in K}
    /\ cookie' = cookie /\ live' = live /\ excused \subseteq excused'
    /\ \A c \in K : /\ j[c].kind = c.kind /\ j[c].bears = c.bears
                    /\ j[c].stage = c.stage /\ j[c].brings = c.brings
                    /\ j[c].tab = c.tab \/ (j[c].tab = Nil /\ Bearing(c) \subseteq excused')
    /\ \A c \in calls \ K : Bearing(c) \subseteq excused' \/ c.tab = Nil

LEMMA CarriedOn ==
    ASSUME WebTypeOK, Inv, NEW K, NEW j, Carries(K, j)
    PROVE  Inv'
<1> USE DEF Carries
<1>1. AnswersSound'
  BY DEF Inv, AnswersSound
<1>2. InTransit'
  <2> SUFFICES ASSUME NEW s \in SessionId, NEW c \in K, j[c].brings = Current(s)
               PROVE  /\ cookie # Current(s)
                      /\ \A d \in K : j[d].bears # Current(s) /\ (j[d].brings = Current(s) => d = c)
    BY DEF InTransit
  <2> QED
    BY DEF Inv, InTransit
<1>3. AwaitedInTab'
  <2> SUFFICES ASSUME NEW s \in live \ excused', cookie = Spent(s)
               PROVE  \E c \in K : Renewing(s, j[c])
    BY DEF AwaitedInTab, Renewing
  <2>1. PICK c \in calls : Renewing(s, c)
    BY DEF Inv, AwaitedInTab
  <2>2. s \in Bearing(c) /\ c.tab # Nil
    BY <2>1, BearingIs, Others DEF Renewing, WebTypeOK
  <2> QED
    BY <2>1, <2>2 DEF Renewing
<1>4. Unspent'
  BY DEF Inv, Unspent, Pending
<1>5. Alone'
  <2> SUFFICES ASSUME NEW s \in SessionId \ excused', NEW c \in K, NEW d \in K,
                      Pending(j[c]), Pending(j[d]), j[c].bears = Current(s), j[d].bears = Current(s)
               PROVE  c = d
    BY DEF Alone, Pending
  <2> QED
    BY DEF Inv, Alone, Pending
<1>6. Noted'
  <2> SUFFICES ASSUME NEW c \in K, j[c].tab = Nil PROVE Bearing(j[c]) \subseteq excused'
    BY DEF Noted, Bearing
  <2>1. Bearing(j[c]) = Bearing(c)
    BY DEF Bearing
  <2> QED
    BY <2>1 DEF Inv, Noted
<1> QED
  BY <1>1, <1>2, <1>3, <1>4, <1>5, <1>6 DEF Inv

\* A tab sends a call with the cookie of the moment; of a refresh it has none under way,
\* and one of the same session from elsewhere is noted.
LEMMA SentOff ==
    ASSUME WebTypeOK, Inv, NEW n \in Call,
           calls' = calls \cup {n}, cookie' = cookie, live' = live,
           excused \subseteq excused',
           n.stage = "sent", n.brings = Keep, n.tab \in Tab, n.bears \in {Nil, cookie},
           n.kind = "refresh" =>
             /\ \A c \in calls : c.tab = n.tab => c.kind # "refresh"
             /\ \A c \in calls : c.tab # n.tab => Bearing(c) \cap Bearing(n) \subseteq excused'
    PROVE  Inv'
<1>1. AnswersSound'
  BY Tokens DEF Inv, AnswersSound
<1>2. InTransit'
  <2> SUFFICES ASSUME NEW s \in SessionId, NEW c \in calls, c.brings = Current(s)
               PROVE  /\ cookie # Current(s)
                      /\ \A d \in calls : d.bears # Current(s) /\ (d.brings = Current(s) => d = c)
                      /\ n.bears # Current(s) /\ n.brings # Current(s)
    BY Tokens DEF InTransit
  <2> QED
    BY Tokens DEF Inv, InTransit
<1>3. AwaitedInTab'
  BY DEF Inv, AwaitedInTab, Renewing
<1>4. Unspent'
  <2> SUFFICES ASSUME NEW s \in live \ excused', Pending(n), n.bears = Spent(s) PROVE FALSE
    BY DEF Inv, Unspent, Pending
  <2>1. s \in SessionId
    BY DEF WebTypeOK
  <2>2. PICK c \in calls : Renewing(s, c)
    BY <2>1, Tokens DEF Inv, AwaitedInTab
  <2>3. s \in Bearing(c) /\ s \in Bearing(n) /\ c.kind = "refresh" /\ n.kind = "refresh"
    BY <2>1, <2>2, BearingIs DEF Renewing, Pending
  <2> QED
    BY <2>3
<1>5. Alone'
  <2> SUFFICES ASSUME NEW s \in SessionId \ excused', NEW c \in calls, Pending(c), Pending(n),
                      c.bears = Current(s), n.bears = Current(s)
               PROVE  FALSE
    BY DEF Inv, Alone, Pending
  <2>1. s \in Bearing(c) /\ s \in Bearing(n) /\ c.kind = "refresh" /\ n.kind = "refresh"
    BY BearingIs DEF Pending
  <2> QED
    BY <2>1
<1>6. Noted'
  BY Others DEF Inv, Noted, Bearing
<1> QED
  BY <1>1, <1>2, <1>3, <1>4, <1>5, <1>6 DEF Inv

\* The service answers without giving out a token, or there is nobody to answer.
LEMMA AnsweredWithout ==
    ASSUME WebTypeOK, Inv, NEW c \in calls, NEW ok \in BOOLEAN, NEW brings \in {Nil, Keep},
           c.stage = "sent", Replies(c, calls \ {c}, ok, brings),
           cookie' = cookie, live' \subseteq live, excused' = excused
    PROVE  Inv'
<1> DEFINE a == Answered(c, ok, brings)
<1>1. /\ a.tab = c.tab /\ a.kind = c.kind /\ a.bears = c.bears
      /\ a.stage = "answered" /\ a.brings = brings
  BY AnsweredCall DEF WebTypeOK
<1>2. \A s \in SessionId : a.brings # Current(s) /\ a.brings # Spent(s)
  BY <1>1, Tokens
<1>3. calls' \subseteq (calls \ {c}) \cup {a} /\ calls \ {c} \subseteq calls'
      /\ (a \in calls' \ calls => c.tab # Nil)
  BY DEF Replies
<1> HIDE DEF a
<1>4. AnswersSound'
  BY <1>1, <1>2, <1>3 DEF Inv, AnswersSound
<1>5. InTransit'
  <2> SUFFICES ASSUME NEW s \in SessionId, NEW d \in calls', d.brings = Current(s)
               PROVE  /\ cookie # Current(s)
                      /\ \A e \in calls' : e.bears # Current(s) /\ (e.brings = Current(s) => e = d)
    BY DEF InTransit
  <2>1. d \in calls
    BY <1>2, <1>3
  <2>2. ASSUME NEW e \in calls' PROVE e.bears # Current(s) /\ (e.brings = Current(s) => e = d)
    BY <1>1, <1>2, <1>3, <2>1, <2>2 DEF Inv, InTransit
  <2> QED
    BY <2>1, <2>2 DEF Inv, InTransit
<1>6. AwaitedInTab'
  <2> SUFFICES ASSUME NEW s \in live \ excused, cookie = Spent(s)
               PROVE  \E d \in calls' : Renewing(s, d)
    BY DEF AwaitedInTab, Renewing
  <2>1. PICK d \in calls : Renewing(s, d)
    BY DEF Inv, AwaitedInTab
  <2>2. d # c
    BY <2>1 DEF Renewing
  <2> QED
    BY <1>3, <2>1, <2>2
<1>7. Unspent' /\ Alone'
  <2>1. \A d \in calls' : Pending(d) => d \in calls
    BY <1>1, <1>3 DEF Pending
  <2> QED
    BY <2>1 DEF Inv, Unspent, Alone, Pending
<1>8. Noted'
  BY <1>1, <1>3 DEF Inv, Noted, Bearing
<1> QED
  BY <1>4, <1>5, <1>6, <1>7, <1>8 DEF Inv

\* A refresh spends its token wherever that is, and brings the next one.
LEMMA Rotated ==
    ASSUME WebTypeOK, Inv, NEW c \in calls, c.stage = "sent", ServeRefresh(c)
    PROVE  Inv'
<1>1. PICK s \in live : ServeRefresh(c)!(s)
  BY DEF ServeRefresh
<1>2. s \in SessionId /\ c.kind = "refresh" /\ c.bears = Current(s) /\ cookie' = Spend(s, cookie)
      /\ live' = live /\ excused' = excused /\ c \in Call
  BY <1>1 DEF WebTypeOK
<1> DEFINE b == [c EXCEPT !.bears = Spent(s)]
           a == Answered(b, TRUE, Current(s))
           f(d) == Spending(s, d)
<1>3. b \in Call /\ b.tab = c.tab /\ b.kind = "refresh" /\ b.bears = Spent(s)
  BY <1>2, Tokens DEF Call
<1>4. calls' = {f(d) : d \in calls \ {c}} \cup (IF b.tab = Nil THEN {} ELSE {a})
  BY <1>1 DEF Replies, SpendAll, Spending
<1>5. /\ a.tab = c.tab /\ a.kind = "refresh" /\ a.bears = Spent(s)
      /\ a.stage = "answered" /\ a.brings = Current(s)
  <2> HIDE DEF b
  <2>1. Current(s) \in Cookie \cup {Nil, Keep} /\ TRUE \in BOOLEAN
    BY <1>2, Tokens
  <2> QED
    BY <1>3, <2>1, AnsweredCall
<1>6. \A d \in calls : /\ f(d).tab = d.tab /\ f(d).kind = d.kind /\ f(d).bears = Spend(s, d.bears)
                       /\ f(d).stage = d.stage /\ f(d).brings = Spend(s, d.brings)
  BY <1>2, SpendingCall DEF WebTypeOK
<1>7. calls' = {f(d) : d \in calls \ {c}} \cup (IF c.tab = Nil THEN {} ELSE {a})
  BY <1>3, <1>4
<1> HIDE DEF a, b, f
<1>8. \A d \in calls : d.brings # Current(s)
  BY <1>2 DEF Inv, InTransit
<1>9. \A k : /\ \A r \in SessionId : Spend(s, k) = Current(r) <=> (k = Current(r) /\ r # s)
             /\ \A r \in SessionId : Spend(s, k) = Spent(r) <=> (k = Spent(r) \/ (k = Current(s) /\ r = s))
  BY <1>2, SpendToken
<1>10. \A k : k \notin Cookie => Spend(s, k) = k
  BY <1>2, SpendToken
<1>11. AnswersSound'
  <2> SUFFICES ASSUME NEW x \in calls'
               PROVE  /\ x.stage = "sent" => x.brings = Keep
                      /\ \A r \in SessionId : x.brings # Spent(r)
    BY DEF AnswersSound
  <2>1. CASE x = a
    BY <2>1, <1>2, <1>5, Tokens
  <2>2. CASE \E d \in calls \ {c} : x = f(d)
    <3>1. PICK d \in calls \ {c} : x = f(d)
      BY <2>2
    <3>2. d.stage = "sent" => x.brings = Keep
      BY <3>1, <1>6, <1>10, Others DEF Inv, AnswersSound
    <3>3. ASSUME NEW r \in SessionId PROVE x.brings # Spent(r)
      BY <3>1, <3>3, <1>6, <1>8, <1>9 DEF Inv, AnswersSound
    <3> QED
      BY <3>1, <3>2, <3>3, <1>6
  <2> QED
    BY <2>1, <2>2, <1>7
<1>12. InTransit'
  <2> SUFFICES ASSUME NEW r \in SessionId, NEW x \in calls', x.brings = Current(r)
               PROVE  /\ cookie' # Current(r)
                      /\ \A y \in calls' : y.bears # Current(r) /\ (y.brings = Current(r) => y = x)
    BY DEF InTransit
  <2>1. CASE x = a
    <3>1. r = s
      BY <2>1, <1>2, <1>5, Tokens
    <3>2. ASSUME NEW d \in calls PROVE f(d).bears # Current(s) /\ f(d).brings # Current(s)
      BY <1>2, <1>6, <1>9
    <3>3. cookie' # Current(s) /\ a.bears # Current(s)
      BY <1>2, <1>5, <1>9, Tokens
    <3> QED
      BY <2>1, <3>1, <3>2, <3>3, <1>7
  <2>2. CASE \E d \in calls \ {c} : x = f(d)
    <3>1. PICK d \in calls \ {c} : x = f(d)
      BY <2>2
    <3>2. d.brings = Current(r) /\ r # s
      BY <3>1, <1>6, <1>9
    <3>3. cookie' # Current(r)
      BY <3>2, <1>2, <1>9 DEF Inv, InTransit
    <3>4. ASSUME NEW e \in calls \ {c}
          PROVE  f(e).bears # Current(r) /\ (f(e).brings = Current(r) => f(e) = x)
      <4>1. e.bears # Current(r) /\ (e.brings = Current(r) => e = d)
        BY <3>2 DEF Inv, InTransit
      <4> QED
        BY <4>1, <3>1, <1>6, <1>9
    <3>5. a.bears # Current(r) /\ a.brings # Current(r)
      BY <3>2, <1>2, <1>5, Tokens
    <3> QED
      BY <3>3, <3>4, <3>5, <1>7
  <2> QED
    BY <2>1, <2>2, <1>7
<1>13. AwaitedInTab'
  <2> SUFFICES ASSUME NEW r \in live \ excused, cookie' = Spent(r)
               PROVE  \E x \in calls' : Renewing(r, x)
    BY <1>2 DEF AwaitedInTab, Renewing
  <2>1. r \in SessionId
    BY DEF WebTypeOK
  <2>2. cookie = Spent(r) \/ r = s
    BY <2>1, <1>2, <1>9
  <2>3. CASE cookie = Spent(r) /\ r # s
    <3>1. PICK d \in calls : Renewing(r, d)
      BY <2>3 DEF Inv, AwaitedInTab
    <3>2. d # c
      BY <3>1 DEF Renewing
    <3>3. f(d).bears = Spent(r) /\ f(d).brings = Current(r)
      BY <3>1, <1>6, <1>9, <2>1, <2>3 DEF Renewing
    <3>4. Renewing(r, f(d))
      BY <3>1, <3>3, <1>6 DEF Renewing
    <3> QED
      BY <3>2, <3>4, <1>7
  <2>4. CASE r = s
    <3>1. c.tab # Nil
      BY <2>1, <2>4, <1>2, BearingIs DEF Inv, Noted
    <3>2. c.tab \in Tab
      BY <3>1, <1>2 DEF Call
    <3>3. Renewing(s, a)
      BY <3>2, <1>5 DEF Renewing
    <3> QED
      BY <2>4, <3>1, <3>3, <1>7
  <2> QED
    BY <2>2, <2>3, <2>4
<1>14. \A x \in calls' : Pending(x) => \E d \in calls \ {c} : x = f(d) /\ Pending(d)
  BY <1>5, <1>6, <1>7 DEF Pending
<1>15. Unspent'
  <2> SUFFICES ASSUME NEW r \in live \ excused, NEW x \in calls', Pending(x), x.bears = Spent(r)
               PROVE  FALSE
    BY <1>2 DEF Unspent, Pending
  <2>1. PICK d \in calls \ {c} : x = f(d) /\ Pending(d)
    BY <1>14
  <2>2. r \in SessionId
    BY DEF WebTypeOK
  <2>3. d.bears = Spent(r) \/ (d.bears = Current(s) /\ r = s)
    BY <2>1, <2>2, <1>6, <1>9
  <2>4. d.bears # Spent(r)
    BY <2>1 DEF Inv, Unspent
  <2>5. Pending(c)
    BY <1>2 DEF Pending
  <2> QED
    BY <2>1, <2>2, <2>3, <2>4, <2>5, <1>2 DEF Inv, Alone
<1>16. Alone'
  <2> SUFFICES ASSUME NEW r \in SessionId \ excused, NEW x \in calls', NEW y \in calls',
                      Pending(x), Pending(y), x.bears = Current(r), y.bears = Current(r)
               PROVE  x = y
    BY <1>2 DEF Alone, Pending
  <2>1. PICK d \in calls \ {c} : x = f(d) /\ Pending(d)
    BY <1>14
  <2>2. PICK e \in calls \ {c} : y = f(e) /\ Pending(e)
    BY <1>14
  <2>3. d.bears = Current(r) /\ e.bears = Current(r)
    BY <2>1, <2>2, <1>6, <1>9
  <2> QED
    BY <2>1, <2>2, <2>3 DEF Inv, Alone
<1>17. Noted'
  <2> SUFFICES ASSUME NEW x \in calls', x.tab = Nil, NEW r \in SessionId,
                      x.kind = "refresh", x.bears = Current(r) \/ x.bears = Spent(r)
               PROVE  r \in excused
    BY <1>2 DEF Noted, Bearing
  <2>1. PICK d \in calls \ {c} : x = f(d)
    BY <1>5, <1>7
  <2>2. d.tab = Nil /\ d.kind = "refresh"
    BY <2>1, <1>6
  <2>3. d.bears = Current(r) \/ d.bears = Spent(r)
    BY <2>1, <1>6, <1>9
  <2> QED
    BY <2>1, <2>2, <2>3, BearingIs DEF Inv, Noted
<1> QED
  BY <1>11, <1>12, <1>13, <1>15, <1>16, <1>17 DEF Inv

\* A login answers with the token of a session that nothing refers to.
LEMMA SignedIn ==
    ASSUME WebTypeOK, Inv, NEW c \in calls, c.stage = "sent", ServeLogin(c)
    PROVE  Inv'
<1> DEFINE referred == {cookie} \cup UNION {{d.bears, d.brings} : d \in calls}
           free == {r \in SessionId : referred \cap {Current(r), Spent(r)} = {}}
           s == CHOOSE r \in free : TRUE
           a == Answered(c, TRUE, Current(s))
<1>1. /\ free # {} /\ live' = live \cup {s} /\ excused' = excused \ {s} /\ cookie' = cookie
      /\ calls' = (calls \ {c}) \cup (IF c.tab = Nil THEN {} ELSE {a})
  BY DEF ServeLogin, Replies
<1>2. s \in free
  BY <1>1
<1>3. /\ s \in SessionId /\ cookie # Current(s) /\ cookie # Spent(s)
      /\ \A d \in calls : d.bears \notin {Current(s), Spent(s)} /\ d.brings \notin {Current(s), Spent(s)}
  <2>1. s \in SessionId /\ referred \cap {Current(s), Spent(s)} = {}
    BY <1>2
  <2> HIDE DEF s
  <2>2. \A d \in calls : d.bears \in referred /\ d.brings \in referred
    OBVIOUS
  <2>3. cookie \in referred
    OBVIOUS
  <2> QED
    BY <2>1, <2>2, <2>3
<1> HIDE DEF s
<1>4. /\ a.tab = c.tab /\ a.kind = c.kind /\ a.bears = c.bears
      /\ a.stage = "answered" /\ a.brings = Current(s)
  <2>1. Current(s) \in Cookie \cup {Nil, Keep} /\ TRUE \in BOOLEAN /\ c \in Call
    BY <1>3, Tokens DEF WebTypeOK
  <2> QED
    BY <2>1, AnsweredCall
<1> HIDE DEF a, free
<1>5. AnswersSound'
  BY <1>1, <1>3, <1>4, Tokens DEF Inv, AnswersSound
<1>6. InTransit'
  <2> SUFFICES ASSUME NEW r \in SessionId, NEW x \in calls', x.brings = Current(r)
               PROVE  /\ cookie # Current(r)
                      /\ \A y \in calls' : y.bears # Current(r) /\ (y.brings = Current(r) => y = x)
    BY <1>1 DEF InTransit
  <2>1. CASE x = a
    <3>1. r = s
      BY <2>1, <1>3, <1>4, Tokens
    <3> QED
      BY <2>1, <3>1, <1>1, <1>3, <1>4
  <2>2. CASE x \in calls
    <3>1. a.brings # Current(r)
      BY <2>2, <1>3, <1>4, Tokens
    <3>2. /\ cookie # Current(r)
          /\ \A y \in calls : y.bears # Current(r) /\ (y.brings = Current(r) => y = x)
      BY <2>2 DEF Inv, InTransit
    <3> QED
      BY <3>1, <3>2, <1>1, <1>4
  <2> QED
    BY <2>1, <2>2, <1>1
<1>7. AwaitedInTab'
  <2> SUFFICES ASSUME NEW r \in live' \ excused', cookie = Spent(r)
               PROVE  \E x \in calls' : Renewing(r, x)
    BY <1>1 DEF AwaitedInTab, Renewing
  <2>1. r \in live \ excused
    BY <1>1, <1>3
  <2>2. PICK d \in calls : Renewing(r, d)
    BY <2>1 DEF Inv, AwaitedInTab
  <2> QED
    BY <2>2, <1>1 DEF Renewing
<1>8. \A x \in calls' : Pending(x) => x \in calls
  BY <1>1, <1>4 DEF Pending
<1>9. Unspent'
  <2> SUFFICES ASSUME NEW r \in live' \ excused', NEW x \in calls', Pending(x), x.bears = Spent(r)
               PROVE  FALSE
    BY DEF Unspent, Pending
  <2>1. x \in calls /\ r \in live \ excused
    BY <1>1, <1>3, <1>8
  <2> QED
    BY <2>1 DEF Inv, Unspent
<1>10. Alone'
  <2> SUFFICES ASSUME NEW r \in SessionId \ excused', NEW x \in calls', NEW y \in calls',
                      Pending(x), Pending(y), x.bears = Current(r), y.bears = Current(r)
               PROVE  x = y
    BY DEF Alone, Pending
  <2>1. x \in calls /\ y \in calls /\ r \in SessionId \ excused
    BY <1>1, <1>3, <1>8
  <2> QED
    BY <2>1 DEF Inv, Alone
<1>11. Noted'
  <2> SUFFICES ASSUME NEW x \in calls', x.tab = Nil, NEW r \in Bearing(x)
               PROVE  r \in excused'
    BY DEF Noted, Bearing
  <2>1. x \in calls /\ r # s
    BY <1>1, <1>3, <1>4, BearingIs
  <2> QED
    BY <2>1, <1>1 DEF Inv, Noted
<1> QED
  BY <1>5, <1>6, <1>7, <1>9, <1>10, <1>11 DEF Inv

\* An answer arrives and sets the cookie.
LEMMA Arrived ==
    ASSUME WebTypeOK, Inv, NEW c \in calls, Deliver(c)
    PROVE  Inv'
<1>1. /\ calls' = calls \ {c} /\ live' = live /\ excused' = excused
      /\ cookie' = IF c.brings = Keep THEN cookie ELSE c.brings
  BY DEF Deliver, Continue
<1>2. AnswersSound'
  BY <1>1 DEF Inv, AnswersSound
<1>3. InTransit'
  <2> SUFFICES ASSUME NEW r \in SessionId, NEW x \in calls \ {c}, x.brings = Current(r)
               PROVE  /\ cookie' # Current(r)
                      /\ \A y \in calls : y.bears # Current(r) /\ (y.brings = Current(r) => y = x)
    BY <1>1 DEF InTransit
  <2>1. /\ cookie # Current(r)
        /\ \A y \in calls : y.bears # Current(r) /\ (y.brings = Current(r) => y = x)
    BY DEF Inv, InTransit
  <2> QED
    BY <2>1, <1>1
<1>4. AwaitedInTab'
  <2> SUFFICES ASSUME NEW r \in live \ excused, cookie' = Spent(r)
               PROVE  \E x \in calls \ {c} : Renewing(r, x)
    BY <1>1 DEF AwaitedInTab, Renewing
  <2>1. r \in SessionId
    BY DEF WebTypeOK
  <2>2. c.brings = Keep /\ cookie = Spent(r)
    BY <2>1, <1>1 DEF Inv, AnswersSound
  <2>3. PICK d \in calls : Renewing(r, d)
    BY <2>2 DEF Inv, AwaitedInTab
  <2>4. d # c
    BY <2>1, <2>2, <2>3, Tokens DEF Renewing
  <2> QED
    BY <2>3, <2>4
<1>5. Unspent' /\ Alone'
  BY <1>1 DEF Inv, Unspent, Alone, Pending
<1>6. Noted'
  BY <1>1 DEF Inv, Noted, Bearing
<1> QED
  BY <1>2, <1>3, <1>4, <1>5, <1>6 DEF Inv

-----------------------------------------------------------------------------
(* The steps                                                               *)

\* The calls, the cookie and the sessions that a step leaves.
CallsOK == /\ cookie \in Cookie \cup {Nil}
           /\ live \subseteq SessionId
           /\ calls \subseteq Call
           /\ excused \subseteq SessionId

TabsOK == /\ open \in [Tab -> BOOLEAN]
          /\ authStatus \in [Tab -> {"loading", "authenticated", "unauthenticated"}]
          /\ token \in [Tab -> BOOLEAN]
          /\ timer \in [Tab -> BOOLEAN]
          /\ query \in [Tab -> {"idle", "good", "bad"}]

LEMMA Asked ==
    ASSUME WebTypeOK, Inv, NEW t \in Tab, NEW waiter \in Waiters, Asks(t, waiter),
           cookie' = cookie, live' = live
    PROVE  Inv' /\ CallsOK'
<1> DEFINE n == Sent(t, "refresh", {waiter})
           m == Sent(t, "refresh", {})
           mine == Of(t, "refresh")
           j == [c \in calls |-> IF c \in mine THEN Joined(c, waiter) ELSE c]
<1>1. /\ calls' = Refresh(t, waiter)
      /\ excused' = excused \cup UNION {Bearing(c) \cap Bearing(m) : c \in {c \in calls : c.tab # t}}
  BY DEF Asks
<1>2. excused \subseteq excused' /\ excused' \subseteq SessionId
  BY <1>1 DEF WebTypeOK, Bearing
<1>3. CASE mine = {}
  <2>1. calls' = calls \cup {n}
    BY <1>1, <1>3 DEF Refresh
  <2>2. /\ n \in Call /\ n.tab = t /\ n.kind = "refresh" /\ n.bears = cookie
        /\ n.stage = "sent" /\ n.brings = Keep
    <3>1. "refresh" \in Kind /\ {waiter} \in SUBSET Waiters /\ cookie \in Cookie \cup {Nil}
      BY DEF Kind, WebTypeOK
    <3>2. n.bears = cookie
      BY DEF Sent
    <3> QED
      BY <3>1, <3>2, SentCall
  <2>3. m.kind = "refresh" /\ m.bears = cookie
    BY DEF Sent
  <2>4. Bearing(n) = Bearing(m)
    BY <2>2, <2>3 DEF Bearing
  <2>5. \A c \in calls : c.tab = t => c.kind # "refresh"
    BY <1>3 DEF Of
  <2> HIDE DEF n, m
  <2>6. \A c \in calls : c.tab # t => Bearing(c) \cap Bearing(n) \subseteq excused'
    BY <1>1, <2>4
  <2>7. Inv'
    BY <1>2, <2>1, <2>2, <2>5, <2>6, SentOff
  <2> QED
    BY <1>2, <2>1, <2>2, <2>7 DEF WebTypeOK, CallsOK
<1>4. CASE mine # {}
  <2>1. calls' = {j[c] : c \in calls}
    BY <1>1, <1>4 DEF Refresh, Joined
  <2>2. \A c \in calls : /\ j[c] \in Call /\ j[c].tab = c.tab /\ j[c].kind = c.kind /\ j[c].bears = c.bears
                         /\ j[c].stage = c.stage /\ j[c].brings = c.brings
    BY JoinedCall DEF WebTypeOK
  <2> HIDE DEF j
  <2>3. Carries(calls, j)
    BY <1>2, <2>1, <2>2 DEF Carries
  <2>4. Inv'
    BY <2>3, CarriedOn
  <2> QED
    BY <1>2, <2>1, <2>2, <2>4 DEF WebTypeOK, CallsOK
<1> QED
  BY <1>3, <1>4

LEMMA Dropped ==
    ASSUME WebTypeOK, Inv, NEW S \in SUBSET calls, calls' \in Abandoned(S),
           cookie' = cookie, live' = live, excused \subseteq excused', excused' \subseteq SessionId,
           \A c \in S : Bearing(c) \subseteq excused'
    PROVE  Inv' /\ CallsOK'
<1>1. PICK left \in SUBSET S : calls' = (calls \ S) \cup {Orphan(c) : c \in left}
  BY DEF Abandoned, Orphan
<1> DEFINE K == (calls \ S) \cup left
           j == [c \in K |-> IF c \in left THEN Orphan(c) ELSE c]
<1>2. K \in SUBSET calls /\ calls' = {j[c] : c \in K}
  BY <1>1
<1>3. \A c \in K : /\ j[c] \in Call /\ j[c].kind = c.kind /\ j[c].bears = c.bears
                   /\ j[c].stage = c.stage /\ j[c].brings = c.brings
                   /\ j[c].tab = c.tab \/ (j[c].tab = Nil /\ Bearing(c) \subseteq excused')
  BY OrphanCall DEF WebTypeOK
<1>4. \A c \in calls \ K : Bearing(c) \subseteq excused'
  OBVIOUS
<1> HIDE DEF j, K
<1>5. Carries(K, j)
  BY <1>2, <1>3, <1>4 DEF Carries
<1>6. Inv'
  BY <1>5, CarriedOn
<1> QED
  BY <1>2, <1>3, <1>6 DEF WebTypeOK, CallsOK

LEMMA Unheard ==
    ASSUME WebTypeOK, Inv, NEW c \in calls, LoseOrphan(c)
    PROVE  Inv' /\ CallsOK'
<1> DEFINE K == calls \ {c}
           j == [d \in K |-> d]
<1>1. /\ calls' = {j[d] : d \in K} /\ K \in SUBSET calls /\ c.tab = Nil
      /\ cookie' = cookie /\ live' = live /\ excused' = excused
  BY DEF LoseOrphan
<1>2. \A d \in K : j[d] = d
  OBVIOUS
<1>3. \A d \in calls \ K : d.tab = Nil
  BY <1>1
<1> HIDE DEF j, K
<1>4. Carries(K, j)
  BY <1>1, <1>2, <1>3 DEF Carries
<1>5. Inv'
  BY <1>4, CarriedOn
<1> QED
  BY <1>1, <1>2, <1>5 DEF WebTypeOK, CallsOK

\* A login or a logout.
LEMMA Submitted ==
    ASSUME WebTypeOK, Inv, NEW t \in Tab, NEW kind \in {"login", "logout"},
           calls' = calls \cup {Sent(t, kind, {})}, cookie' = cookie, live' = live, excused' = excused
    PROVE  Inv' /\ CallsOK'
<1> DEFINE n == Sent(t, kind, {})
<1>1. /\ n \in Call /\ n.tab = t /\ n.kind # "refresh" /\ n.bears \in {Nil, cookie}
      /\ n.stage = "sent" /\ n.brings = Keep
  BY SentCall DEF WebTypeOK, Kind
<1>2. calls' = calls \cup {n}
  OBVIOUS
<1> HIDE DEF n
<1>3. Inv'
  BY <1>1, <1>2, SentOff
<1> QED
  BY <1>1, <1>2, <1>3 DEF WebTypeOK, CallsOK

LEMMA RepliesType ==
    ASSUME NEW c \in Call, NEW others \in SUBSET Call, NEW ok \in BOOLEAN,
           NEW brings \in Cookie \cup {Nil, Keep}, Replies(c, others, ok, brings)
    PROVE  calls' \subseteq Call
BY AnsweredCall DEF Replies

LEMMA Served ==
    ASSUME WebTypeOK, Inv, NEW c \in calls, Serve(c)
    PROVE  Inv' /\ CallsOK'
<1>1. c.stage = "sent" /\ c \in Call /\ calls \ {c} \in SUBSET Call
  BY DEF Serve, WebTypeOK
<1>2. CASE ServeRefresh(c)
  <2>1. Inv'
    BY <1>1, <1>2, Rotated
  <2>2. PICK s \in live : ServeRefresh(c)!(s)
    BY <1>2 DEF ServeRefresh
  <2>3. s \in SessionId /\ Spend(s, cookie) \in Cookie \cup {Nil}
    BY SpendToken, Others DEF WebTypeOK
  <2>4. [c EXCEPT !.bears = Spent(s)] \in Call
    BY <1>1, <2>3, Tokens DEF Call
  <2>5. SpendAll(s, calls \ {c}) \in SUBSET Call
    BY <1>1, <2>3, SpendingCall DEF SpendAll, Spending
  <2>6. Current(s) \in Cookie \cup {Nil, Keep} /\ TRUE \in BOOLEAN
    BY <2>3, Tokens
  <2>7. calls' \subseteq Call
    BY <2>2, <2>4, <2>5, <2>6, RepliesType
  <2> QED
    BY <2>1, <2>2, <2>3, <2>7 DEF WebTypeOK, CallsOK
<1>3. CASE ServeReplay(c)
  <2> DEFINE brings == IF c.bears = Nil THEN Keep ELSE Nil
  <2>1. /\ Replies(c, calls \ {c}, FALSE, brings) /\ brings \in {Nil, Keep} /\ FALSE \in BOOLEAN
        /\ cookie' = cookie /\ live' \subseteq live /\ excused' = excused
    BY <1>3 DEF ServeReplay
  <2> HIDE DEF brings
  <2>2. Inv'
    BY <1>1, <2>1, AnsweredWithout
  <2>3. calls' \subseteq Call
    BY <1>1, <2>1, RepliesType
  <2> QED
    BY <2>1, <2>2, <2>3 DEF WebTypeOK, CallsOK
<1>4. CASE ServeLogin(c)
  <2>1. Inv'
    BY <1>1, <1>4, SignedIn
  <2> DEFINE referred == {cookie} \cup UNION {{d.bears, d.brings} : d \in calls}
             free == {r \in SessionId : referred \cap {Current(r), Spent(r)} = {}}
             s == CHOOSE r \in free : TRUE
  <2>2. /\ free # {} /\ live' = live \cup {s} /\ excused' = excused \ {s} /\ cookie' = cookie
        /\ Replies(c, calls \ {c}, TRUE, Current(s))
    BY <1>4 DEF ServeLogin
  <2>3. s \in SessionId
    BY <2>2
  <2> HIDE DEF s
  <2>4. Current(s) \in Cookie \cup {Nil, Keep} /\ TRUE \in BOOLEAN
    BY <2>3, Tokens
  <2>5. calls' \subseteq Call
    BY <1>1, <2>2, <2>4, RepliesType
  <2> QED
    BY <2>1, <2>2, <2>3, <2>5 DEF WebTypeOK, CallsOK
<1>5. CASE ServeLogout(c)
  <2>1. /\ Replies(c, calls \ {c}, TRUE, Nil) /\ TRUE \in BOOLEAN
        /\ cookie' = cookie /\ live' \subseteq live /\ excused' = excused
    BY <1>5 DEF ServeLogout
  <2>2. Inv'
    BY <1>1, <2>1, AnsweredWithout
  <2>3. calls' \subseteq Call
    BY <1>1, <2>1, RepliesType
  <2> QED
    BY <2>1, <2>2, <2>3 DEF WebTypeOK, CallsOK
<1>6. CASE Refuse(c)
  <2>1. /\ Replies(c, calls \ {c}, FALSE, Keep) /\ FALSE \in BOOLEAN
        /\ cookie' = cookie /\ live' \subseteq live /\ excused' = excused
    BY <1>6 DEF Refuse
  <2>2. Inv'
    BY <1>1, <2>1, AnsweredWithout
  <2>3. calls' \subseteq Call
    BY <1>1, <2>1, RepliesType
  <2> QED
    BY <2>1, <2>2, <2>3 DEF WebTypeOK, CallsOK
<1> QED
  BY <1>2, <1>3, <1>4, <1>5, <1>6 DEF Serve

\* What a tab makes of an answer, or of having none.
LEMMA Continued ==
    ASSUME WebTypeOK, NEW c \in Call, c.tab \in Tab, NEW ok \in BOOLEAN, NEW lost \in BOOLEAN,
           Continue(c, ok, lost)
    PROVE  TabsOK'
<1>1. TokenAfter(c, ok, lost) \in BOOLEAN
  BY DEF TokenAfter
<1>2. TimerAfter(c, ok) \in BOOLEAN
  BY DEF TimerAfter
<1>3. StatusAfter(c, ok) \in {"loading", "authenticated", "unauthenticated"}
  BY DEF StatusAfter, WebTypeOK
<1>4. /\ token' = [token EXCEPT ![c.tab] = TokenAfter(c, ok, lost)]
      /\ authStatus' = [authStatus EXCEPT ![c.tab] = StatusAfter(c, ok)]
      /\ timer' = [timer EXCEPT ![c.tab] = TimerAfter(c, ok)]
      /\ open' = open /\ query' = query
  BY DEF Continue
<1>5. token' \in [Tab -> BOOLEAN]
  BY <1>1, <1>4 DEF WebTypeOK
<1>6. timer' \in [Tab -> BOOLEAN]
  BY <1>2, <1>4 DEF WebTypeOK
<1>7. authStatus' \in [Tab -> {"loading", "authenticated", "unauthenticated"}]
  BY <1>3, <1>4 DEF WebTypeOK
<1> QED
  BY <1>4, <1>5, <1>6, <1>7 DEF WebTypeOK, TabsOK

LEMMA WebInitInv == WebInit => WebIInv
<1> SUFFICES ASSUME WebInit PROVE WebIInv
  OBVIOUS
<1> USE DEF WebInit
<1>1. WebTypeOK
  BY DEF WebTypeOK
<1>2. Inv
  BY DEF Inv, AnswersSound, InTransit, AwaitedInTab, Unspent, Alone, Noted
<1> QED
  BY <1>1, <1>2 DEF WebIInv

LEMMA Together == WebIInv' <=> Inv' /\ CallsOK' /\ TabsOK'
BY DEF WebIInv, WebTypeOK, CallsOK, TabsOK

LEMMA MountStep ==
    ASSUME WebIInv, NEW t \in Tab, Mount(t)
    PROVE  WebIInv'
<1>1. WebTypeOK /\ Inv /\ "mount" \in Waiters
  BY DEF WebIInv, Waiters
<1>2. Inv' /\ CallsOK'
  BY <1>1, Asked DEF Mount
<1>3. TabsOK'
  BY <1>1 DEF Mount, WebTypeOK, TabsOK
<1> QED
  BY <1>2, <1>3, Together

LEMMA CloseStep ==
    ASSUME WebIInv, NEW t \in Tab, Close(t)
    PROVE  WebIInv'
<1> DEFINE mine == {c \in calls : c.tab = t}
<1>1. WebTypeOK /\ Inv
  BY DEF WebIInv
<1>2. /\ calls' \in Abandoned(mine) /\ excused' = excused \cup UNION {Bearing(c) : c \in mine}
      /\ cookie' = cookie /\ live' = live /\ mine \in SUBSET calls
  BY DEF Close
<1>3. \A c \in mine : Bearing(c) \subseteq excused'
  BY <1>2
<1>4. excused \subseteq excused' /\ excused' \subseteq SessionId
  BY <1>1, <1>2 DEF WebTypeOK, Bearing
<1> HIDE DEF mine
<1>5. Inv' /\ CallsOK'
  BY <1>1, <1>2, <1>3, <1>4, Dropped
<1>6. TabsOK'
  BY <1>1 DEF Close, WebTypeOK, TabsOK
<1> QED
  BY <1>5, <1>6, Together

LEMMA TimerStep ==
    ASSUME WebIInv, NEW t \in Tab, TimerFire(t)
    PROVE  WebIInv'
<1>1. WebTypeOK /\ Inv /\ "timer" \in Waiters
  BY DEF WebIInv, Waiters
<1>2. Inv' /\ CallsOK'
  BY <1>1, Asked DEF TimerFire
<1>3. TabsOK'
  BY <1>1 DEF TimerFire, WebTypeOK, TabsOK
<1> QED
  BY <1>2, <1>3, Together

LEMMA SubmitStep ==
    ASSUME WebIInv, NEW t \in Tab, SubmitLogin(t) \/ ClickLogout(t)
    PROVE  WebIInv'
<1>1. WebTypeOK /\ Inv
  BY DEF WebIInv
<1>2. PICK kind \in {"login", "logout"} :
        calls' = calls \cup {Sent(t, kind, {})} /\ cookie' = cookie /\ live' = live /\ excused' = excused
  BY DEF SubmitLogin, ClickLogout
<1>3. Inv' /\ CallsOK'
  BY <1>1, <1>2, Submitted
<1>4. TabsOK'
  BY <1>1 DEF SubmitLogin, ClickLogout, WebTypeOK, TabsOK
<1> QED
  BY <1>3, <1>4, Together

LEMMA QueryStep ==
    ASSUME WebIInv, NEW t \in Tab, SendQuery(t) \/ QueryAnswered(t) \/ TokenExpires(t)
    PROVE  WebIInv'
<1>1. WebTypeOK /\ Inv /\ "query" \in Waiters
  BY DEF WebIInv, Waiters
<1>2. Inv' /\ CallsOK'
  <2>1. CASE UNCHANGED <<cookie, live, calls, excused>>
    BY <1>1, <2>1 DEF Inv, AnswersSound, InTransit, AwaitedInTab, Unspent, Alone, Noted, Renewing, Pending, Bearing,
                      WebTypeOK, CallsOK
  <2>2. CASE Asks(t, "query") /\ cookie' = cookie /\ live' = live
    BY <1>1, <2>2, Asked
  <2> QED
    BY <2>1, <2>2 DEF SendQuery, QueryAnswered, TokenExpires
<1>3. TabsOK'
  <2>1. CASE SendQuery(t)
    BY <1>1, <2>1 DEF SendQuery, WebTypeOK, TabsOK
  <2>2. CASE QueryAnswered(t)
    BY <1>1, <2>2 DEF QueryAnswered, WebTypeOK, TabsOK
  <2>3. CASE TokenExpires(t)
    BY <1>1, <2>3 DEF TokenExpires, WebTypeOK, TabsOK
  <2> QED
    BY <2>1, <2>2, <2>3
<1> QED
  BY <1>2, <1>3, Together

LEMMA ServeStep ==
    ASSUME WebIInv, NEW c \in calls, Serve(c)
    PROVE  WebIInv'
<1>1. WebTypeOK /\ Inv
  BY DEF WebIInv
<1>2. Inv' /\ CallsOK'
  BY <1>1, Served
<1>3. TabsOK'
  BY <1>1 DEF Serve, WebTypeOK, TabsOK
<1> QED
  BY <1>2, <1>3, Together

LEMMA DeliverStep ==
    ASSUME WebIInv, NEW c \in calls, c.tab \in Tab, Deliver(c)
    PROVE  WebIInv'
<1>1. WebTypeOK /\ Inv /\ c \in Call
  BY DEF WebIInv, WebTypeOK
<1>2. Inv'
  BY <1>1, Arrived
<1>3. /\ cookie' = (IF c.brings = Keep THEN cookie ELSE c.brings)
      /\ calls' = calls \ {c} /\ live' = live /\ excused' = excused
  BY DEF Deliver, Continue
<1>4. CallsOK'
  BY <1>1, <1>3 DEF CallsOK, WebTypeOK, Call
<1>5. c.ok \in BOOLEAN /\ FALSE \in BOOLEAN
  BY <1>1 DEF Call
<1>6. Continue(c, c.ok, FALSE)
  BY DEF Deliver
<1>7. TabsOK'
  BY <1>1, <1>5, <1>6, Continued
<1> QED
  BY <1>2, <1>4, <1>7, Together

LEMMA LoseStep ==
    ASSUME WebIInv, NEW c \in calls, Lose(c)
    PROVE  WebIInv'
<1>1. WebTypeOK /\ Inv /\ c \in Call
  BY DEF WebIInv, WebTypeOK
<1>2. /\ calls' \in Abandoned({c}) /\ excused' = excused \cup Bearing(c)
      /\ cookie' = cookie /\ live' = live /\ {c} \in SUBSET calls
  BY DEF Lose, Continue
<1>3. /\ \A d \in {c} : Bearing(d) \subseteq excused'
      /\ excused \subseteq excused' /\ excused' \subseteq SessionId
  BY <1>1, <1>2 DEF WebTypeOK, Bearing
<1>4. Inv' /\ CallsOK'
  BY <1>1, <1>2, <1>3, Dropped
<1>5. TabsOK'
  BY <1>1, Continued DEF Lose
<1> QED
  BY <1>4, <1>5, Together

LEMMA OrphanStep ==
    ASSUME WebIInv, NEW c \in calls, LoseOrphan(c)
    PROVE  WebIInv'
<1>1. WebTypeOK /\ Inv
  BY DEF WebIInv
<1>2. Inv' /\ CallsOK'
  BY <1>1, Unheard
<1>3. TabsOK'
  BY <1>1 DEF LoseOrphan, WebTypeOK, TabsOK
<1> QED
  BY <1>2, <1>3, Together

LEMMA StepInv == WebIInv /\ [WebNext]_webVars => WebIInv'
<1> SUFFICES ASSUME WebIInv, [WebNext]_webVars PROVE WebIInv'
  OBVIOUS
<1>1. CASE Visit
  BY <1>1, MountStep, CloseStep DEF Visit
<1>2. CASE Use
  BY <1>2, SubmitStep, QueryStep DEF Use
<1>3. CASE \E t \in Tab : TimerFire(t)
  BY <1>3, TimerStep
<1>4. CASE \E t \in Tab, kind \in Kind : Proceed(t, kind)
  <2>1. PICK t \in Tab, c \in calls : c.tab = t /\ (Serve(c) \/ Deliver(c) \/ Lose(c))
    BY <1>4 DEF Proceed, Of
  <2> QED
    BY <2>1, ServeStep, DeliverStep, LoseStep
<1>5. CASE Orphaned
  BY <1>5, ServeStep, OrphanStep DEF Orphaned
<1>6. CASE UNCHANGED webVars
  BY <1>6 DEF webVars, WebIInv, Inv, AnswersSound, InTransit, AwaitedInTab, Unspent, Alone, Noted, Renewing, Pending,
              Bearing, WebTypeOK
<1> QED
  BY <1>1, <1>2, <1>3, <1>4, <1>5, <1>6 DEF WebNext

\* Every state of the browser, the calls and the service that can be reached satisfies WebIInv.
THEOREM Reachable == WebSpec => []WebIInv
<1>1. WebInit => WebIInv
  BY WebInitInv
<1>2. WebIInv /\ [WebNext]_webVars => WebIInv'
  BY StepInv
<1> QED
  BY <1>1, <1>2, PTL DEF WebSpec

\* The provider's authStatus, its timer and its token, the cookie and every call under way have
\* their type, whatever the tabs do and whatever is lost.
THEOREM WebTypeCorrect == WebSpec => []WebTypeOK
<1>1. WebIInv => WebTypeOK
  BY DEF WebIInv
<1> QED
  BY <1>1, Reachable, PTL

-----------------------------------------------------------------------------
(* What ends a session                                                     *)

\* The condition of OnlyLogoutEnds on a step.
Justified == \A s \in live \ live' : s \in excused \/ \E c \in calls : c.kind = "logout" /\ c \notin calls'

\* The service closes a session for a logout, or for a refresh that bears a spent token; and a
\* refresh that has yet to be served bears none of a session that nothing excuses.
LEMMA ServedJustified ==
    ASSUME WebIInv, NEW c \in calls, Serve(c)
    PROVE  Justified
<1>1. WebTypeOK /\ Inv /\ c \in Call /\ c.stage = "sent"
  BY DEF WebIInv, WebTypeOK, Serve
<1>2. CASE live \subseteq live'
  BY <1>2 DEF Justified
<1>3. CASE ServeReplay(c)
  <2> SUFFICES ASSUME NEW s \in live \ live' PROVE s \in excused
    BY DEF Justified
  <2>1. c.bears = Spent(s) /\ Pending(c)
    BY <1>1, <1>3 DEF ServeReplay, Pending
  <2> QED
    BY <1>1, <2>1 DEF Inv, Unspent
<1>4. CASE ServeLogout(c)
  <2>1. Answered(c, TRUE, Nil).stage = "answered"
    <3>1. TRUE \in BOOLEAN /\ Nil \in Cookie \cup {Nil, Keep}
      OBVIOUS
    <3> QED
      BY <1>1, <3>1, AnsweredCall
  <2>2. c.kind = "logout" /\ c \notin calls'
    BY <1>1, <1>4, <2>1 DEF ServeLogout, Replies
  <2> QED
    BY <2>2 DEF Justified
<1>5. CASE ServeRefresh(c) \/ ServeLogin(c) \/ Refuse(c)
  BY <1>2, <1>5 DEF ServeRefresh, ServeLogin, Refuse
<1> QED
  BY <1>3, <1>4, <1>5 DEF Serve

LEMMA StepJustified == WebIInv /\ [WebNext]_webVars => Justified
<1> SUFFICES ASSUME WebIInv, [WebNext]_webVars PROVE Justified
  OBVIOUS
<1>1. CASE live' = live
  BY <1>1 DEF Justified
<1>2. CASE \E c \in calls : Serve(c)
  BY <1>2, ServedJustified
<1>3. CASE Visit \/ Use \/ \E t \in Tab : TimerFire(t)
  <2>1. live' = live
    BY <1>3 DEF Visit, Use, Mount, Close, SubmitLogin, ClickLogout, SendQuery, QueryAnswered, TokenExpires, TimerFire
  <2> QED
    BY <1>1, <2>1
<1>4. CASE \E t \in Tab, kind \in Kind : Proceed(t, kind)
  <2>1. PICK c \in calls : Serve(c) \/ Deliver(c) \/ Lose(c)
    BY <1>4 DEF Proceed, Of
  <2>2. Deliver(c) \/ Lose(c) => live' = live
    BY DEF Deliver, Lose, Continue
  <2> QED
    BY <1>1, <1>2, <2>1, <2>2
<1>5. CASE Orphaned
  <2>1. PICK c \in calls : Serve(c) \/ LoseOrphan(c)
    BY <1>5 DEF Orphaned
  <2>2. LoseOrphan(c) => live' = live
    BY DEF LoseOrphan
  <2> QED
    BY <1>1, <1>2, <2>1, <2>2
<1>6. CASE UNCHANGED webVars
  BY <1>1, <1>6 DEF webVars
<1> QED
  BY <1>3, <1>4, <1>5, <1>6 DEF WebNext

\* However the tabs' mounts, timers and requests ask for refreshes, a session none of whose
\* refreshes was lost or ran beside another is closed by a logout only.
THEOREM OnlyByLogout == WebSpec => OnlyLogoutEnds
<1> DEFINE A == \A s \in live \ live' : s \in excused \/ \E c \in calls : c.kind = "logout" /\ c \notin calls'
<1>1. WebIInv /\ [WebNext]_webVars => [A]_webVars
  BY StepJustified DEF Justified
<1>2. OnlyLogoutEnds <=> [][A]_webVars
  BY DEF OnlyLogoutEnds
<1> HIDE DEF A
<1> QED
  BY <1>1, <1>2, Reachable, PTL DEF WebSpec
=============================================================================
