--------------------------- MODULE RecordLifecycle ---------------------------
(***************************************************************************)
(* What the record of a forwarded request promises to its readers,         *)
(* whatever the DAG does to store it: it appears once and pending, it      *)
(* settles at most once and keeps what it settled on, and the store may    *)
(* forget it at any time, for good.  A request is over only when its       *)
(* record has settled or is forgotten (contract CDAG-9).                   *)
(***************************************************************************)
CONSTANTS
    Requests,
    Outcomes        \* what a record may settle on: none of "absent", "pending", "forgotten"

VARIABLES record, over

record_vars == <<record, over>>

Init ==
    /\ record = [r \in Requests |-> "absent"]
    /\ over = {}

\* The request is recorded, and may push out a record of an older one.
Open(r) ==
    /\ record[r] = "absent"
    /\ record' = [record EXCEPT ![r] = "pending"]
    /\ UNCHANGED over

Settle(r) ==
    /\ record[r] = "pending"
    /\ \E outcome \in Outcomes : record' = [record EXCEPT ![r] = outcome]
    /\ over' \in {over, over \cup {r}}

Forget ==
    /\ \E S \in SUBSET {r \in Requests : record[r] # "absent"} :
         record' = [r \in Requests |-> IF r \in S THEN "forgotten" ELSE record[r]]
    /\ UNCHANGED over

Finish(r) ==
    /\ record[r] \in Outcomes \cup {"forgotten"}
    /\ over' = over \cup {r}
    /\ UNCHANGED record

Next == Forget \/ \E r \in Requests : Open(r) \/ Settle(r) \/ Finish(r)

Spec == Init /\ [][Next]_record_vars
=============================================================================
