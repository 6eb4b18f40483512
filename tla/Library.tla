------------------------------ MODULE Library -------------------------------
(***************************************************************************)
(* What storing and purging promise to those who search: of a file they    *)
(* find nothing or one content in full, it changes only while a run is on  *)
(* the file, and never from one content to another but through nothing;    *)
(* and a run that has told its success has left what it told.  Nothing is  *)
(* promised of files whose runs have overlapped.                           *)
(***************************************************************************)
CONSTANTS Name,    \* files
          Version, \* contents
          Text     \* chunks of each content

VARIABLES found,   \* chunks a search can find of each file
          told,    \* what the last run on each file has told: its content, "absent", or nothing yet
          shared   \* files whose runs have overlapped

vars == <<found, told, shared>>

Init ==
    /\ found = [n \in Name |-> {}]
    /\ told = [n \in Name |-> "absent"]
    /\ shared = {}

Tell(N, result) == told' = [n \in Name |-> IF n \in N THEN result ELSE told[n]]

\* A run on the files N starts; on those in M it is not alone.
Begin(N, M) ==
    /\ Tell(N, "cut short")
    /\ shared' = shared \cup M
    /\ UNCHANGED found

UnderWay(n) == n \notin shared /\ told[n] = "cut short"

Vanish(n) ==
    /\ UnderWay(n)
    /\ found' = [found EXCEPT ![n] = {}]
    /\ UNCHANGED <<told, shared>>

Appear(n, v) ==
    /\ UnderWay(n) /\ found[n] = {}
    /\ found' = [found EXCEPT ![n] = Text[v]]
    /\ UNCHANGED <<told, shared>>

\* Runs that overlap do as they like with a file.
Disturb(n) ==
    /\ n \in shared
    /\ DOMAIN found' = Name /\ \A m \in Name \ {n} : found'[m] = found[m]
    /\ UNCHANGED <<told, shared>>

\* A run ends, and tells the truth; of a content without chunks it says nothing.
End(N, result) ==
    /\ \A n \in N \ shared :
         /\ result = "absent" => found[n] = {}
         /\ result \in Version /\ Text[result] # {} => found[n] = Text[result]
    /\ Tell(N, result)
    /\ UNCHANGED <<found, shared>>

Next ==
    \/ \E N \in SUBSET Name : \E M \in SUBSET N : Begin(N, M)
    \/ \E n \in Name : Vanish(n) \/ Disturb(n) \/ \E v \in Version : Appear(n, v)
    \/ \E N \in SUBSET Name, result \in Version \cup {"absent", "cut short"} : End(N, result)

Spec == Init /\ [][Next]_vars
=============================================================================
