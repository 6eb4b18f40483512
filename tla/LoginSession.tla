---------------------------- MODULE LoginSession ----------------------------
(***************************************************************************)
(* What a refresh-token family promises (the module comment of             *)
(* services/api/src/auth/service.py): a login opens a session that has one *)
(* usable token; a refresh replaces it by a token never used before; a     *)
(* replay or a logout closes the session, and a closed session never has a *)
(* usable token again.  Nothing is said of requests, statements or locks.  *)
(***************************************************************************)
CONSTANTS Token, None

VARIABLES used,    \* tokens ever inserted
          usable   \* usable[f]: the usable token of the session f opened, or None

session == <<used, usable>>

Init == used = {} /\ usable = [f \in Token |-> None]

\* A login opens the session named by its first token.
Open(f) ==
    /\ f \notin used
    /\ used' = used \cup {f}
    /\ usable' = [usable EXCEPT ![f] = f]

\* A refresh trades the usable token for one never used before.
Renew(f, c) ==
    /\ usable[f] # None
    /\ c \notin used
    /\ used' = used \cup {c}
    /\ usable' = [usable EXCEPT ![f] = c]

\* A replay or a logout closes the session.
Close(f) ==
    /\ usable[f] # None
    /\ usable' = [usable EXCEPT ![f] = None]
    /\ UNCHANGED used

Next == \E f \in Token : Open(f) \/ Close(f) \/ \E c \in Token : Renew(f, c)

Spec == Init /\ [][Next]_session
=============================================================================
