---------------------------- MODULE JobLifecycle ----------------------------
(***************************************************************************)
(* What the job queue promises its callers, without saying how: a row of   *)
(* the jobs table is queued once, handed to at most one worker, settled    *)
(* only by the worker it was handed to, and never moves backwards.         *)
(* The promise does not include that a handed-out job is settled: a worker *)
(* may let go of it, and then the row keeps the status "processing".       *)
(***************************************************************************)
CONSTANTS
  Jobs,      \* rows of the jobs table, used or still unused
  Workers,   \* worker processes
  NoJob      \* a worker that has no job

VARIABLES
  status,    \* [Jobs -> Status]
  holder     \* the job a worker was handed, or NoJob

vars == <<status, holder>>

Init ==
  /\ status = [j \in Jobs |-> "absent"]
  /\ holder = [w \in Workers |-> NoJob]

Submit(j) ==
  /\ status[j] = "absent"
  /\ status' = [status EXCEPT ![j] = "queued"]
  /\ UNCHANGED holder

HandOut(w, j) ==
  /\ holder[w] = NoJob
  /\ status[j] = "queued"
  /\ \A v \in Workers : holder[v] # j
  /\ status' = [status EXCEPT ![j] = "processing"]
  /\ holder' = [holder EXCEPT ![w] = j]

\* The queue gives a job away but the worker never learns that it has it.
HandOutLost(j) ==
  /\ status[j] = "queued"
  /\ \A v \in Workers : holder[v] # j
  /\ status' = [status EXCEPT ![j] = "processing"]
  /\ UNCHANGED holder

Settle(w, j, outcome) ==
  /\ holder[w] = j
  /\ status[j] = "processing"
  /\ \A v \in Workers : holder[v] = j => v = w
  /\ status' = [status EXCEPT ![j] = outcome]
  /\ holder' = [holder EXCEPT ![w] = NoJob]

LetGo(w) ==
  /\ holder[w] # NoJob
  /\ holder' = [holder EXCEPT ![w] = NoJob]
  /\ UNCHANGED status

Next ==
  \/ \E j \in Jobs : Submit(j) \/ HandOutLost(j)
  \/ \E w \in Workers, j \in Jobs :
       \/ HandOut(w, j)
       \/ \E outcome \in {"done", "failed"} : Settle(w, j, outcome)
  \/ \E w \in Workers : LetGo(w)

Spec == Init /\ [][Next]_vars
=============================================================================
