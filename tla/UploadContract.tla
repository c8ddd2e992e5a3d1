---------------------------- MODULE UploadContract ----------------------------
(***************************************************************************)
(* What the entity service promises the parties of a project about their   *)
(* uploads, whatever the interleaving of requests, tasks, failures, deaths *)
(* and redelivered messages:                                               *)
(*   - the encodings of a party come from one request; once stored they    *)
(*     stay as they are until the project is removed;                      *)
(*   - at most one request of a party is accepted, and then the encodings  *)
(*     of the party are those of that request and of no other;             *)
(*   - a request that is refused stores nothing, before or after the       *)
(*     answer;                                                             *)
(*   - runs are scheduled in a state in which every party's encodings are  *)
(*     stored.  This one promise is given up once a refused request has    *)
(*     left its uploads row behind.                                        *)
(* Uploads implements this specification.                                  *)
(***************************************************************************)
CONSTANTS Party, Request, Owner

VARIABLES
    stored,      \* requests whose encodings are in the database
    answer,      \* what the client was told: nothing yet, 201, or an error
    scheduled,   \* whether the runs of the project may be queued
    removed,     \* whether the data of the project was deleted
    leftover     \* whether the row of a refused request is there

contractVars == <<stored, answer, scheduled, removed, leftover>>

Answer == {"open", "accepted", "refused"}

Same(r) == {s \in Request : Owner[s] = Owner[r]}

ContractInit ==
    /\ stored = {}
    /\ answer = [r \in Request |-> "open"]
    /\ scheduled = FALSE
    /\ removed = FALSE
    /\ leftover = FALSE

Store(r) ==
    /\ stored \intersect Same(r) = {}
    /\ answer[r] # "refused"
    /\ \A s \in Same(r) : answer[s] = "accepted" => s = r
    /\ stored' = stored \union {r}
    /\ UNCHANGED <<answer, scheduled, removed, leftover>>

Accept(r) ==
    /\ answer[r] = "open"
    /\ \A s \in Same(r) : answer[s] = "accepted" \/ s \in stored => s = r
    /\ answer' = [answer EXCEPT ![r] = "accepted"]
    /\ UNCHANGED <<stored, scheduled, removed, leftover>>

Refuse(r) ==
    /\ answer[r] = "open"
    /\ r \notin stored
    /\ answer' = [answer EXCEPT ![r] = "refused"]
    /\ leftover' \in {leftover, TRUE}
    /\ UNCHANGED <<stored, scheduled, removed>>

Schedule ==
    /\ leftover \/ \A p \in Party : \E r \in stored : Owner[r] = p
    /\ scheduled' = TRUE
    /\ UNCHANGED <<stored, answer, removed, leftover>>

Remove ==
    /\ ~removed
    /\ removed' = TRUE
    /\ stored' \in SUBSET stored
    /\ leftover' \in {leftover, FALSE}
    /\ UNCHANGED <<answer, scheduled>>

ContractNext ==
    \/ \E r \in Request : Store(r) \/ Accept(r) \/ Refuse(r)
    \/ Schedule
    \/ Remove

ContractSpec == ContractInit /\ [][ContractNext]_contractVars
===============================================================================
