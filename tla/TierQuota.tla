----------------------------- MODULE TierQuota -----------------------------
(***************************************************************************)
(* The monthly allowance of one tenant on POST /query: enforce_tier_limit  *)
(* (services/api/src/auth/tier_limit.py) over the subscription rows        *)
(* (db/subscriptions.py, billing/entitlements.py) and the query log        *)
(* (db/query_logs.py, routes/query.py).                                    *)
(*                                                                         *)
(* A query reads the clock, the subscription rows and the count in         *)
(* separate statements, runs, and only then writes its log row, which is   *)
(* best effort; meanwhile other queries run, the clock passes and the      *)
(* webhook rewrites rows.  Rows are kept oldest first.  A row's status is  *)
(* derived from Stripe's by the webhook's table.                           *)
(***************************************************************************)
EXTENDS Integers, Sequences, FiniteSets

CONSTANTS Query,       \* requests the tenant makes
          Slots,       \* bound of the environment: requests handled at once
          Limit,       \* query_limit_monthly of a self-serve row
          LapsedLimit, \* LAPSED_QUERY_LIMIT_MONTHLY
          FetchLimit,  \* rows get_tenant_subscriptions returns
          Grace,       \* past_due_grace_days
          Month,       \* days of a calendar month
          MaxDay,      \* bound of the model: the clock stops here
          MaxRows,     \* bound of the model: rows of the tenant
          StripeStatus, \* Stripe statuses that occur
          None         \* NULL

ASSUME QuotaAssumption ==
    /\ IsFiniteSet(Query)
    /\ Slots \in Nat \ {0} /\ FetchLimit \in Nat \ {0} /\ Month \in Nat \ {0}
    /\ Limit \in Nat /\ LapsedLimit \in Nat /\ Grace \in Nat
    /\ MaxDay \in Nat /\ MaxRows \in Nat
    /\ None \notin Int

Day == 0..MaxDay
\* Rows the webhook writes, and rows provisioned by hand, without a billing period.
Row == [stripe : StripeStatus, start : Day, limit : {Limit}]
         \cup [stripe : {"active"}, start : {None}, limit : {Limit, None}]

VARIABLES
    now,     \* the day
    subs,    \* the tenant's rows of subscriptions, oldest first
    pc,      \* next step of each query; how it ended
    seen,    \* clock reading the dependency took first: the day it was asked
    since,   \* start of the window it counts
    limit,   \* allowance it may use
    lapsed,  \* whether that is the allowance of a lapsed tenant
    at       \* created_at of its log row

vars == <<now, subs, pc, seen, since, limit, lapsed, at>>

Steps == {"new", "subs", "count", "run", "logged", "lost", "refused", "failed"}

TypeOK ==
    /\ now \in Day
    /\ subs \in Seq(Row) /\ Len(subs) <= MaxRows
    /\ pc \in [Query -> Steps]
    /\ seen \in [Query -> Day]
    /\ since \in [Query -> Day]
    /\ limit \in [Query -> Nat \cup {None}]
    /\ lapsed \in [Query -> BOOLEAN]
    /\ at \in [Query -> Day]
    /\ \A q \in Query : pc[q] \in {"new", "failed"} => limit[q] = None

Init ==
    /\ now = 0
    /\ subs = <<>>
    /\ pc = [q \in Query |-> "new"]
    /\ seen = [q \in Query |-> 0]
    /\ since = [q \in Query |-> 0]
    /\ limit = [q \in Query |-> None]
    /\ lapsed = [q \in Query |-> FALSE]
    /\ at = [q \in Query |-> 0]

-----------------------------------------------------------------------------
(* The rows and what they entitle to                                       *)

\* map_stripe_status
Status(r) == CASE r.stripe \in {"active", "trialing", "past_due"} -> r.stripe
               [] r.stripe = "unpaid" -> "past_due"
               [] OTHER -> "cancelled"

\* _within_dunning_grace
WithinGrace(r, day) ==
    /\ r.stripe # "unpaid"
    /\ r.start = None \/ day <= r.start + Grace

\* The row is not lapsed: resolve_entitlement.
Entitled(r, day) ==
    \/ Status(r) \in {"active", "trialing"}
    \/ Status(r) = "past_due" /\ WithinGrace(r, day)

Candidate(r) == Status(r) \in {"active", "trialing", "past_due"}

\* Faulty form: ORDER BY created_at DESC alone.
BeforeNewest(i, j) == i > j

\* Row i comes before row j in the ORDER BY of get_tenant_subscriptions.
Before(i, j) ==
    \/ Candidate(subs[i]) /\ ~Candidate(subs[j])
    \/ (Candidate(subs[i]) <=> Candidate(subs[j])) /\ i > j

\* The rows its LIMIT lets through.
Fetched ==
    {i \in DOMAIN subs : Cardinality({j \in DOMAIN subs : Before(j, i)}) < FetchLimit}

\* The first of the rows I.
FirstOf(I) == CHOOSE i \in I : \A j \in I \ {i} : Before(i, j)

\* select_effective_subscription: the first entitled row, or else the first.
Effective(day) ==
    LET paid == {i \in Fetched : Entitled(subs[i], day)}
    IN  FirstOf(IF paid # {} THEN paid ELSE Fetched)

\* No row is a tenant from before billing: unlimited.
Lapsed(day) == subs # <<>> /\ ~Entitled(subs[Effective(day)], day)

\* query_limit_monthly of the entitlement.
Allowance(day) ==
    CASE subs = <<>>  -> None
      [] Lapsed(day)  -> LapsedLimit
      [] OTHER        -> subs[Effective(day)].limit

MonthStart == now - (now % Month)

\* The window enforce_tier_limit counts: the calendar month, read from the clock again,
\* or the billing period of the row that is being paid for.
Window(day) ==
    IF subs # <<>> /\ ~Lapsed(day) /\ subs[Effective(day)].start # None
    THEN subs[Effective(day)].start ELSE MonthStart

\* Faulty form: every log row of the tenant, however old.
CountSinceEver(d) == Cardinality({q \in Query : pc[q] = "logged"})

\* count_queries_since
CountSince(d) == Cardinality({q \in Query : pc[q] = "logged" /\ at[q] >= d})

-----------------------------------------------------------------------------
(* Environment: the clock and the webhook                                  *)

NextDay ==
    /\ now < MaxDay
    /\ now' = now + 1
    /\ UNCHANGED <<subs, pc, seen, since, limit, lapsed, at>>

\* A row appears: the first event about a subscription, or an operator's insert.
Subscribe(r) ==
    /\ Len(subs) < MaxRows
    /\ r.start \in {now, None}
    /\ subs' = Append(subs, r)
    /\ UNCHANGED <<now, pc, seen, since, limit, lapsed, at>>

\* A later event: another status, or a renewal that starts a period today.
Update(i, stripe, start) ==
    /\ subs[i].start # None
    /\ start \in {now, subs[i].start}
    /\ subs' = [subs EXCEPT ![i].stripe = stripe, ![i].start = start]
    /\ UNCHANGED <<now, pc, seen, since, limit, lapsed, at>>

-----------------------------------------------------------------------------
(* One query                                                               *)

InFlight == {q \in Query : pc[q] \in {"subs", "count", "run"}}

Goto(q, step) == pc' = [pc EXCEPT ![q] = step]

\* enforce_tier_limit starts and reads the clock.
Start(q) ==
    /\ pc[q] = "new"
    /\ Cardinality(InFlight) < Slots
    /\ Goto(q, "subs")
    /\ seen' = [seen EXCEPT ![q] = now]
    /\ UNCHANGED <<now, subs, since, limit, lapsed, at>>

\* get_tenant_subscriptions, and what follows from its rows up to the next statement.
ReadSubs(q) ==
    LET day == seen[q]
    IN  /\ pc[q] = "subs"
        /\ Goto(q, IF Allowance(day) = None THEN "run" ELSE "count")
        /\ limit' = [limit EXCEPT ![q] = Allowance(day)]
        /\ since' = [since EXCEPT ![q] = IF Allowance(day) = None THEN @ ELSE Window(day)]
        /\ lapsed' = [lapsed EXCEPT ![q] = Lapsed(day)]
        /\ UNCHANGED <<now, subs, seen, at>>

\* Faulty form: <= instead of <.
CountInclusive(q) ==
    /\ pc[q] = "count"
    /\ Goto(q, IF CountSince(since[q]) <= limit[q] THEN "run" ELSE "refused")
    /\ UNCHANGED <<now, subs, seen, since, limit, lapsed, at>>

\* count_queries_since and the verdict: the handler runs, or 402 or 429.
Count(q) ==
    /\ pc[q] = "count"
    /\ Goto(q, IF CountSince(since[q]) < limit[q] THEN "run" ELSE "refused")
    /\ UNCHANGED <<now, subs, seen, since, limit, lapsed, at>>

\* The answer is generated and its log row written; it is then returned.
Log(q) ==
    /\ pc[q] = "run"
    /\ Goto(q, "logged")
    /\ at' = [at EXCEPT ![q] = now]
    /\ UNCHANGED <<now, subs, seen, since, limit, lapsed>>

\* The log write fails and is swallowed: the answer is returned all the same.
Lose(q) ==
    /\ pc[q] = "run"
    /\ Goto(q, "lost")
    /\ UNCHANGED <<now, subs, seen, since, limit, lapsed, at>>

\* The database, the pool or the pipeline fails: a 5xx, and no log row.
Fail(q) ==
    /\ q \in InFlight
    /\ Goto(q, "failed")
    /\ seen' = [seen EXCEPT ![q] = 0]
    /\ since' = [since EXCEPT ![q] = 0]
    /\ limit' = [limit EXCEPT ![q] = None]
    /\ lapsed' = [lapsed EXCEPT ![q] = FALSE]
    /\ UNCHANGED <<now, subs, at>>

-----------------------------------------------------------------------------
Ask(q) == Start(q) \/ ReadSubs(q) \/ Count(q) \/ Log(q) \/ Lose(q) \/ Fail(q)

Next ==
    \/ NextDay
    \/ \E r \in Row : Subscribe(r)
    \/ \E i \in DOMAIN subs, stripe \in StripeStatus, start \in Day : Update(i, stripe, start)
    \/ \E q \in Query : Ask(q)

Spec == Init /\ [][Next]_vars

-----------------------------------------------------------------------------
(* Properties                                                              *)

\* Queries let through on an allowance of l for the period that starts on day d.
Admitted(d, l) ==
    {q \in Query : pc[q] \in {"run", "logged", "lost"} /\ limit[q] = l /\ since[q] = d}
Lost(d, l) == {q \in Admitted(d, l) : pc[q] = "lost"}

\* Check, run, then log lets concurrent queries overshoot an allowance, but by less
\* than the number handled at once, plus the answers whose log row was lost; whatever
\* renewals, lapses and midnights fall between the statements (tier_limit.py:54-72).  The
\* "exactly" of tier_limit.py:51 is what a tenant with one query at a time gets.
OvershootBounded ==
    \A d \in Day, l \in {Limit, LapsedLimit} :
        Cardinality(Admitted(d, l)) <= l + Slots - 1 + Cardinality(Lost(d, l))

\* Answered queries that were asked on day d or later, whenever they were answered.
AskedSince(d) == {q \in Query : pc[q] = "logged" /\ seen[q] >= d}

\* The allowance of one period is not held against the queries of another, although the
\* clock, the rows and the log are read one after the other and a query counts on the
\* day it is answered (tier_limit.py:54-69).  Whoever is refused has asked for the whole
\* allowance since the period began and got it, all but the queries still being answered
\* at that moment, of which there are no more than are handled at once; and the period
\* of a lapsed tenant (402) began less than a month before the query was asked.
FullAllowance ==
    \A q \in Query : pc[q] = "refused" =>
        /\ Cardinality(AskedSince(since[q])) >= limit[q] - Slots
        /\ lapsed[q] => since[q] > seen[q] - Month

\* A tenant that is paying for any subscription is not treated as lapsed, however many
\* dead rows are newer (subscriptions.py:74-79), as long as the rows that might be
\* entitled fit in one fetch.
PayingIsServed ==
    /\ \E i \in DOMAIN subs : Entitled(subs[i], now)
    /\ Cardinality({i \in DOMAIN subs : Candidate(subs[i])}) <= FetchLimit
    => ~Lapsed(now)
=============================================================================
