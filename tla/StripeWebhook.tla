--------------------------- MODULE StripeWebhook ---------------------------
(***************************************************************************)
(* POST /billing/webhook: the sync of Stripe subscriptions into the        *)
(* subscriptions table (services/api/src/routes/billing.py, db/            *)
(* subscriptions.py, billing/events.py, migrations 011 and 012).           *)
(*                                                                         *)
(* Stripe emits events, numbered in the order it emitted them and stamped  *)
(* with the second; it delivers each at least once, in any order, and      *)
(* again until it hears a 2xx.  Deliveries run concurrently, each in one   *)
(* transaction: claim the event id, resolve the tenant, upsert the row.    *)
(* An INSERT ... ON CONFLICT waits for the uncommitted insert of the same  *)
(* key by another transaction, and a DO UPDATE keeps the row locked even   *)
(* when its WHERE clause rejects the row.                                  *)
(*                                                                         *)
(* An event is "plain" when it carries a price sold here and the tenant's  *)
(* metadata, "anonymous" when the metadata is missing, and "inert" when    *)
(* nothing is to be written: a price not sold here, or a failed invoice.   *)
(* A row is named by the event its columns were taken from.                *)
(***************************************************************************)
EXTENDS Naturals

CONSTANTS Sub,        \* Stripe subscriptions
          Customer,   \* Stripe customers, one per tenant: checkout reuses it
          CustomerOf, \* the customer of each subscription
          Worker,     \* deliveries that can be running at once
          MaxEvents,  \* bound of the model: events Stripe emits
          MaxSecond   \* bound of the model: the last second of the stream

ASSUME WebhookAssumption ==
    /\ CustomerOf \in [Sub -> Customer]
    /\ MaxEvents \in Nat
    /\ MaxSecond \in Nat

Event == 1..MaxEvents
Kinds == {"plain", "anonymous", "inert"}

VARIABLES
    event,   \* what Stripe emits: [sub, kind, at] for each event; never changes
    acked,   \* events Stripe has heard a 2xx for
    ledger,  \* processed_stripe_events
    row,     \* event each row of subscriptions was last written from, 0 without a row
    stage,      \* next step of each delivery
    ev,      \* event it delivers
    touched, \* its transaction holds the lock of the subscription's row
    wrote    \* and has written it

tables == <<ledger, row>>
webhookVars == <<event, acked, ledger, row, stage, ev, touched, wrote>>

Stage == {"idle", "claim", "apply", "upsert", "commit", "answer"}

WebhookTypeOK ==
    /\ event \in [Event -> [sub : Sub, kind : Kinds, at : 0..MaxSecond]]
    /\ acked \subseteq Event
    /\ ledger \subseteq Event
    /\ row \in [Sub -> 0..MaxEvents]
    /\ stage \in [Worker -> Stage]
    /\ ev \in [Worker -> 0..MaxEvents]
    /\ \A w \in Worker : stage[w] # "idle" => ev[w] \in Event
    /\ touched \in [Worker -> BOOLEAN]
    /\ wrote \in [Worker -> BOOLEAN]
    /\ \A w \in Worker : touched[w] => stage[w] = "commit"

WebhookInit ==
    /\ event \in [Event -> [sub : Sub, kind : Kinds, at : 0..MaxSecond]]
    /\ \A d, e \in Event : d < e => event[d].at <= event[e].at
    /\ acked = {}
    /\ ledger = {}
    /\ row = [s \in Sub |-> 0]
    /\ stage = [w \in Worker |-> "idle"]
    /\ ev = [w \in Worker |-> 0]
    /\ touched = [w \in Worker |-> FALSE]
    /\ wrote = [w \in Worker |-> FALSE]

-----------------------------------------------------------------------------
(* Helpers                                                                 *)

SubOf(w) == event[ev[w]].sub

MoveTo(w, step) == stage' = [stage EXCEPT ![w] = step]

\* w's transaction holds an uncommitted row of processed_stripe_events.
Claiming(w) == stage[w] \in {"apply", "upsert", "commit"}

\* The delivery is over and its context forgotten.
Forget(w) ==
    /\ stage' = [stage EXCEPT ![w] = "idle"]
    /\ ev' = [ev EXCEPT ![w] = 0]
    /\ touched' = [touched EXCEPT ![w] = FALSE]
    /\ wrote' = [wrote EXCEPT ![w] = FALSE]

\* resolve_tenant_for_stripe_ids, for an event without metadata: some row of the
\* subscription, or of its customer, tells the tenant.
Resolvable(s) == \E t \in Sub : CustomerOf[t] = CustomerOf[s] /\ row[t] # 0

\* The upsert inserts, or the WHERE of its DO UPDATE accepts the stored row.
Supersedes(e, s) == row[s] = 0 \/ event[e].at >= event[row[s]].at

-----------------------------------------------------------------------------
(* One delivery                                                            *)

\* Stripe delivers an event, for the first time or again.
Deliver(w, e) ==
    /\ stage[w] = "idle"
    /\ MoveTo(w, "claim")
    /\ ev' = [ev EXCEPT ![w] = e]
    /\ UNCHANGED <<event, acked, tables, touched, wrote>>

\* Faulty form: the claim is committed by itself, before the handler runs.
ClaimCommitted(w) ==
    /\ stage[w] = "claim"
    /\ \A v \in Worker : Claiming(v) => ev[v] # ev[w]
    /\ MoveTo(w, IF ev[w] \in ledger THEN "answer" ELSE "apply")
    /\ ledger' = ledger \cup {ev[w]}
    /\ UNCHANGED <<event, acked, row, ev, touched, wrote>>

\* claim_stripe_event: waits for another transaction's claim of the same id, and
\* skips the handler when the id is already there.
Claim(w) ==
    /\ stage[w] = "claim"
    /\ \A v \in Worker : Claiming(v) => ev[v] # ev[w]
    /\ MoveTo(w, IF ev[w] \in ledger THEN "answer" ELSE "apply")
    /\ UNCHANGED <<event, acked, tables, ev, touched, wrote>>

\* _apply_event decides whether there is anything to write, and for which tenant.
Apply(w) ==
    /\ stage[w] = "apply"
    /\ MoveTo(w, CASE event[ev[w]].kind = "plain"     -> "upsert"
                 [] event[ev[w]].kind = "anonymous" -> IF Resolvable(SubOf(w))
                                                       THEN "upsert" ELSE "commit"
                 [] event[ev[w]].kind = "inert"     -> "commit")
    /\ UNCHANGED <<event, acked, tables, ev, touched, wrote>>

\* Faulty form: the guard is read before the row lock is had.
UpsertUnlocked(w) ==
    /\ stage[w] = "upsert"
    /\ MoveTo(w, "commit")
    /\ touched' = [touched EXCEPT ![w] = TRUE]
    /\ wrote' = [wrote EXCEPT ![w] = Supersedes(ev[w], SubOf(w))]
    /\ UNCHANGED <<event, acked, tables, ev>>

\* upsert_stripe_subscription gets the row, or its place in the unique index, and
\* decides on the newest committed version.
Upsert(w) ==
    /\ stage[w] = "upsert"
    /\ \A v \in Worker : touched[v] => SubOf(v) # SubOf(w)
    /\ MoveTo(w, "commit")
    /\ touched' = [touched EXCEPT ![w] = TRUE]
    /\ wrote' = [wrote EXCEPT ![w] = Supersedes(ev[w], SubOf(w))]
    /\ UNCHANGED <<event, acked, tables, ev>>

\* The transaction commits: the claim and the row at once.
Commit(w) ==
    /\ stage[w] = "commit"
    /\ ledger' = ledger \cup {ev[w]}
    /\ row' = IF wrote[w] THEN [row EXCEPT ![SubOf(w)] = ev[w]] ELSE row
    /\ MoveTo(w, "answer")
    /\ touched' = [touched EXCEPT ![w] = FALSE]
    /\ wrote' = [wrote EXCEPT ![w] = FALSE]
    /\ UNCHANGED <<event, acked, ev>>

\* The handler raises, the pool or the database fails, or the process dies: the
\* transaction rolls back with the claim in it, and Stripe hears no 2xx.
RollBack(w) ==
    /\ stage[w] \in {"claim", "apply", "upsert", "commit"}
    /\ Forget(w)
    /\ UNCHANGED <<event, acked, tables>>

\* {"received": true} reaches Stripe, or is lost on the way.
Answer(w, delivered) ==
    /\ stage[w] = "answer"
    /\ acked' = IF delivered THEN acked \cup {ev[w]} ELSE acked
    /\ Forget(w)
    /\ UNCHANGED <<event, tables>>

-----------------------------------------------------------------------------
Step(w) == Claim(w) \/ Apply(w) \/ Upsert(w) \/ Commit(w)

WebhookNext ==
    \E w \in Worker :
        \/ \E e \in Event : Deliver(w, e)
        \/ Step(w)
        \/ RollBack(w)
        \/ \E delivered \in BOOLEAN : Answer(w, delivered)

WebhookSpec == WebhookInit /\ [][WebhookNext]_webhookVars

\* Stripe delivers an event again until it hears a 2xx.  Failures are transient: a step
\* that deliveries of an event reach again and again is once completed, and so is a
\* wait for another transaction, which ends when that transaction does.
Fairness ==
    \A e \in Event :
        /\ SF_webhookVars(e \notin acked /\ \E w \in Worker : Deliver(w, e))
        /\ SF_webhookVars(\E w \in Worker : ev[w] = e /\ Claim(w))
        /\ SF_webhookVars(\E w \in Worker : ev[w] = e /\ Apply(w))
        /\ SF_webhookVars(\E w \in Worker : ev[w] = e /\ Upsert(w))
        /\ SF_webhookVars(\E w \in Worker : ev[w] = e /\ Commit(w))
        /\ WF_webhookVars(\E w \in Worker, delivered \in BOOLEAN : ev[w] = e /\ Answer(w, delivered))

FairSpec == WebhookSpec /\ Fairness

-----------------------------------------------------------------------------
(* Properties                                                              *)

\* Nothing Stripe believes delivered is lost: an acknowledged event is in the ledger,
\* and when it named its tenant the row holds its columns or those of an event of the
\* same or a later second (routes/billing.py:231-238).
AcknowledgedIsApplied ==
    \A e \in acked :
        /\ e \in ledger
        /\ event[e].kind = "plain" =>
             LET s == event[e].sub IN row[s] # 0 /\ event[row[s]].at >= event[e].at

\* No tenant is ever guessed: a customer gets its first row from an event that names
\* the tenant.
TenantIsKnown ==
    \A s \in Sub : row[s] # 0 =>
        \E e \in ledger : /\ event[e].kind = "plain"
                          /\ CustomerOf[event[e].sub] = CustomerOf[s]

\* A row takes an event's columns only in the commit that records the event, so no
\* retry or duplicate delivery applies it twice, and never from an earlier second than
\* the one it holds, whatever deliveries overlap (db/subscriptions.py:200-209): the part of
\* ImplementsLedger that is said of one row.
AppliedOnceInOrder ==
    [][\A s \in Sub : row'[s] # row[s] =>
         /\ row'[s] \notin ledger /\ row'[s] \in ledger'
         /\ row[s] # 0 => event[row'[s]].at >= event[row[s]].at]_webhookVars

\* Concurrent, failed and repeated deliveries amount to recording the events one at a
\* time.
Promise == INSTANCE EventLedger
ImplementsLedger == Promise!Spec

\* Every event Stripe emits about a plan and a tenant it names ends up in the table,
\* or is superseded there: no failure leaves a claim behind that turns the retry away.
EveryEventLands ==
    \A e \in Event : event[e].kind = "plain" =>
        <>(\E s \in Sub : /\ s = event[e].sub
                          /\ row[s] # 0
                          /\ event[row[s]].at >= event[e].at)
=============================================================================
