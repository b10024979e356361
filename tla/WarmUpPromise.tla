--------------------------- MODULE WarmUpPromise ---------------------------
(* What a WarmUp promises to the user who created it: the verdict on a run    *)
(* that is to happen once is final, and it is Complete only after a job has   *)
(* read the data into the cache.  A scheduled WarmUp has no verdict of its    *)
(* own.  WarmUp implements this.                                              *)

VARIABLES
  phase,      \* Status.Phase, or "Gone" once the object is deleted
  scheduled,  \* Spec.Policy.Type is Cron
  warmed      \* a job has ended well, and no block failed in one of its logs

vars == <<phase, scheduled, warmed>>

Finished == {"Complete", "Failed"}

TypeOK ==
  /\ phase \in {"", "Running", "Gone"} \cup Finished
  /\ scheduled \in BOOLEAN
  /\ warmed \in BOOLEAN

Init ==
  /\ phase = ""
  /\ scheduled \in BOOLEAN
  /\ warmed = FALSE

Start ==
  /\ phase \in IF scheduled THEN {""} \cup Finished ELSE {""}
  /\ phase' = "Running"
  /\ UNCHANGED <<scheduled, warmed>>

Warm ==
  /\ warmed' = TRUE
  /\ UNCHANGED <<phase, scheduled>>

Complete ==
  /\ ~scheduled
  /\ phase \in {"", "Running"}
  /\ warmed
  /\ phase' = "Complete"
  /\ UNCHANGED <<scheduled, warmed>>

Fail ==
  /\ ~scheduled
  /\ phase \in {"", "Running"}
  /\ phase' = "Failed"
  /\ UNCHANGED <<scheduled, warmed>>

\* The user edits the spec.
Edit ==
  /\ phase # "Gone"
  /\ scheduled' \in BOOLEAN
  /\ UNCHANGED <<phase, warmed>>

\* The user, or the end of TTLSecondsAfterFinished.
Delete ==
  /\ phase # "Gone"
  /\ phase' = "Gone"
  /\ UNCHANGED <<scheduled, warmed>>

Next == Start \/ Warm \/ Complete \/ Fail \/ Edit \/ Delete

Spec == Init /\ [][Next]_vars

\* The verdict on a WarmUp that runs once stays as long as the object, and only
\* one that a job has carried out is Complete.
VerdictIsFinal ==
  [][(phase \in Finished /\ ~scheduled) => (phase' \in {phase, "Gone"})]_vars
CompleteIsWarmed == phase = "Complete" => warmed
=============================================================================
