---------------------------- MODULE JobLifecycle ----------------------------
(***************************************************************************)
(* What the pipeline promises of an apply job, whatever the worker, the    *)
(* API and the failures do: jobs are inserted in order, claimed oldest     *)
(* first, advance along the transition table, may return to the queue      *)
(* while unfinished, and never leave a final status.                       *)
(***************************************************************************)
EXTENDS Naturals

CONSTANT MaxJobs

VARIABLE status

Jobs == 1..MaxJobs
Claimed == {"validating", "applying"}
Unfinished == {"queued"} \cup Claimed
Terminal == {"applied", "failed", "rolled-back"}

Init == status = [j \in Jobs |-> "absent"]

(* Job j is inserted; an import may fail unfinished jobs S in the same step. *)
Create(j, S) ==
    /\ status[j] = "absent"
    /\ \A i \in Jobs : i < j => status[i] # "absent"
    /\ \A i \in S : status[i] \in Unfinished
    /\ status' = [i \in Jobs |-> IF i = j THEN "queued"
                                 ELSE IF i \in S THEN "failed" ELSE status[i]]

(* A repair is inserted as claimed, and only when nothing else is unfinished. *)
CreateRepair(j) ==
    /\ status[j] = "absent"
    /\ \A i \in Jobs : i < j => status[i] # "absent"
    /\ \A i \in Jobs : status[i] \notin Unfinished
    /\ status' = [status EXCEPT ![j] = "validating"]

Claim(j) ==
    /\ status[j] = "queued"
    /\ \A i \in Jobs : i < j => status[i] # "queued"
    /\ status' = [status EXCEPT ![j] = "validating"]

Begin(j) ==
    /\ status[j] = "validating"
    /\ status' = [status EXCEPT ![j] = "applying"]

Finish(j, s) ==
    /\ \/ status[j] = "validating" /\ s = "failed"
       \/ status[j] = "applying" /\ s \in Terminal
    /\ status' = [status EXCEPT ![j] = s]

(* Claims that outlived their lease return to the queue. *)
Requeue(S) ==
    /\ \A j \in S : status[j] \in Claimed
    /\ status' = [j \in Jobs |-> IF j \in S THEN "queued" ELSE status[j]]

Next ==
    \/ \E S \in SUBSET Jobs : Requeue(S) \/ \E j \in Jobs : Create(j, S)
    \/ \E j \in Jobs : CreateRepair(j) \/ Claim(j) \/ Begin(j) \/ \E s \in Terminal : Finish(j, s)

Spec == Init /\ [][Next]_status
=============================================================================
