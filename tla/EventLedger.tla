---------------------------- MODULE EventLedger ----------------------------
(***************************************************************************)
(* What the Stripe webhook promises about a stream of subscription events: *)
(* each event takes effect at most once, in one indivisible step, and a    *)
(* subscription's row never goes back to an earlier second.                *)
(***************************************************************************)
EXTENDS Naturals

CONSTANTS Sub,    \* Stripe subscriptions
          Event   \* event numbers

VARIABLES event,  \* the events Stripe emits: [sub, kind, at]
          ledger, \* events that have been recorded
          row     \* event each subscription row was last written from, 0 without a row

vars == <<event, ledger, row>>

\* Events an instance may be asked to record; fixed from the start.
Init == ledger = {} /\ row = [s \in Sub |-> 0]

\* e changes nothing: it is not about a plan sold here, or its tenant is unknown.
Skip(e) ==
    /\ e \in Event \ ledger
    /\ event[e].kind # "plain"
    /\ ledger' = ledger \cup {e}
    /\ UNCHANGED <<event, row>>

\* e brings its subscription's row up to date, unless the row is from a later second.
Record(e) ==
    /\ e \in Event \ ledger
    /\ event[e].kind # "inert"
    /\ ledger' = ledger \cup {e}
    /\ LET s == event[e].sub
       IN  row' = IF row[s] # 0 /\ event[e].at < event[row[s]].at THEN row
                  ELSE [row EXCEPT ![s] = e]
    /\ UNCHANGED event

Next == \E e \in Event : Skip(e) \/ Record(e)

Spec == Init /\ [][Next]_vars
=============================================================================
