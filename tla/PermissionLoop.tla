---------------------------- MODULE PermissionLoop ----------------------------
(***************************************************************************)
(* What a tool call promises about consent, without files, Landlock or     *)
(* ways to detect a denial.                                                *)
(*                                                                         *)
(* A call runs its tool at most MaxRuns times.  Each run is confined to    *)
(* the rights granted when it was started.  Rights are only ever added, by *)
(* the user, while a finished run is being judged.  A run may be surfaced  *)
(* to the caller only if judging it added nothing, hence only if it had    *)
(* every right there is; otherwise the tool is run again, or given up.     *)
(***************************************************************************)
EXTENDS Integers

CONSTANTS
  Right,     \* the rights that can be granted
  MaxRuns    \* a positive number

VARIABLES
  rights,    \* granted so far, in this and in earlier calls
  phase,     \* idle, due (to run), running, judging, done
  runs,      \* runs of this call that have been started
  inForce,   \* the rights the current run was started with
  consented  \* judging has added to the rights

vars == <<rights, phase, runs, inForce, consented>>

Init ==
  /\ rights = {}
  /\ phase = "idle"
  /\ runs = 0
  /\ inForce = {}
  /\ consented = FALSE

Begin ==
  /\ phase = "idle"
  /\ phase' = "due"
  /\ UNCHANGED <<rights, runs, inForce, consented>>

StartRun ==
  /\ phase = "due" /\ runs < MaxRuns
  /\ phase' = "running"
  /\ runs' = runs + 1
  /\ inForce' = rights
  /\ UNCHANGED <<rights, consented>>

EndRun ==
  /\ phase = "running"
  /\ phase' = "judging"
  /\ UNCHANGED <<rights, runs, inForce, consented>>

Consent ==
  /\ phase = "judging"
  /\ \E given \in SUBSET Right : rights' = rights \cup given
  /\ consented' = TRUE
  /\ UNCHANGED <<phase, runs, inForce>>

RunAgain ==
  /\ phase = "judging" /\ consented
  /\ phase' = "due"
  /\ consented' = FALSE
  /\ UNCHANGED <<rights, runs, inForce>>

Stop ==
  /\ phase' = "done"
  /\ runs' = 0
  /\ UNCHANGED <<rights, inForce, consented>>

\* The outcome of the last run becomes the call's outcome.
Surface == phase = "judging" /\ ~ consented /\ inForce = rights /\ Stop

\* The call fails without an outcome: the tool is not known or its process
\* is lost.
Fail == phase \in {"idle", "due", "running"} /\ Stop

GiveUp == phase = "due" /\ runs = MaxRuns /\ Stop

End ==
  /\ phase = "done"
  /\ phase' = "idle"
  /\ inForce' = {}
  /\ UNCHANGED <<rights, runs, consented>>

Next == \/ Begin \/ StartRun \/ EndRun \/ Consent \/ RunAgain \/ Surface
        \/ Fail \/ GiveUp \/ End

Spec == Init /\ [][Next]_vars
=============================================================================
