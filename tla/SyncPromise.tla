---------------------------- MODULE SyncPromise ----------------------------
(* What a Sync promises to whoever created it: a user, or a CronSync that     *)
(* counts its running and finished Syncs.  The phase only moves forward, a    *)
(* finished Sync keeps its verdict, and it is completed only after the        *)
(* manager has copied everything.  SyncJob implements this.                   *)

VARIABLES
  phase,   \* Status.Phase, or "Gone" once the object is deleted
  copied   \* the manager of this Sync has ended and has lost nothing

vars == <<phase, copied>>

Unfinished == {"Pending", "Preparing", "Progressing"}
Finished == {"Completed", "Failed"}

TypeOK ==
  /\ phase \in Unfinished \cup Finished \cup {"Gone"}
  /\ copied \in BOOLEAN

Init ==
  /\ phase = "Pending"
  /\ copied = FALSE

Prepare ==
  /\ phase = "Pending"
  /\ phase' = "Preparing"
  /\ UNCHANGED copied

Progress ==
  /\ phase = "Preparing"
  /\ phase' = "Progressing"
  /\ UNCHANGED copied

\* The manager ends well: it has started, so the Sync was being prepared.
Copy ==
  /\ phase # "Pending"
  /\ copied' = TRUE
  /\ UNCHANGED phase

Complete ==
  /\ phase = "Progressing"
  /\ copied
  /\ phase' = "Completed"
  /\ UNCHANGED copied

Fail ==
  /\ phase \in Unfinished
  /\ phase' = "Failed"
  /\ UNCHANGED copied

Delete ==
  /\ phase # "Gone"
  /\ phase' = "Gone"
  /\ UNCHANGED copied

Next == Prepare \/ Progress \/ Copy \/ Complete \/ Fail \/ Delete

Spec == Init /\ [][Next]_vars

\* A completed Sync has been copied, and the phase of a finished Sync is its
\* last: the two reasons for which the creator reads the phase.
CompletedIsCopied == phase = "Completed" => copied
FinishedIsFinal == [][(phase \in Finished) => (phase' \in {phase, "Gone"})]_vars
=============================================================================
