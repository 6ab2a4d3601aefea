-------------------------------- MODULE Loops ---------------------------------
(***************************************************************************)
(* Two loops of the code, iteration by iteration, against the operators of *)
(* Detection that say what they compute:                                   *)
(*   aggregate   runShellPtrace's walk over ptrace.Result.Failures, then   *)
(*               denialsFromError and canonical, against PtraceDenials;    *)
(*   climb       resolveGrantTarget's walk towards "/", against the        *)
(*               operator of that name.                                    *)
(***************************************************************************)
EXTENDS Detection, FiniteSets

CONSTANTS
  Steps,         \* system calls the tracer may report as failed
  MaxFailures    \* bound on the failures of one command

\* The tracer reports calls of its table only, and a path other than "/" has a parent
\* directory.
ASSUME LoopsAssumption ==
  /\ \A s \in Steps : s \in Step /\ s.sys \in fsSyscalls /\ s.paths # <<>>
  /\ \A p \in Path \ {Root} :
       \E a \in Above[p] : \A b \in Above[p] \ {a} : b \in Above[a]
  /\ MaxFailures \in Nat

VARIABLES
  loop,          \* which of the two loops runs
  failures,      \* Result.Failures up to the one just handled
  errs,          \* runShellPtrace's errs
  tree, asked,   \* the file tree and resolveGrantTarget's argument
  cur,           \* the path it looks at
  returned

aggregateVars == <<failures, errs>>
climbVars == <<tree, asked, cur, returned>>
vars == <<loop, aggregateVars, climbVars>>

Trees == {t \in [Path -> Kind] : IsTree(t)}
Dir(p) == IF p = Root THEN Root
          ELSE CHOOSE a \in Above[p] : \A b \in Above[p] \ {a} : b \in Above[a]

Init ==
  /\ loop \in {"aggregate", "climb"}
  /\ failures = <<>> /\ errs = <<>>
  /\ IF loop = "climb" THEN tree \in Trees /\ asked \in Path
     ELSE tree = [p \in Path |-> "dir"] /\ asked = Root
  /\ cur = asked
  /\ returned = FALSE

\* Mutant of Aggregate: the first failure of a path settles its intent.
AggregateFirstWins(step, raw, errno) ==
  LET path == Reported(step, raw)
      op == IF IntentOf(step.sys) = "write" THEN "write" ELSE "stat"
  IN /\ loop = "aggregate" /\ Len(failures) < MaxFailures
     /\ failures' = Append(failures, [step |-> step, raw |-> raw,
                                      errno |-> errno])
     /\ errs' = IF \/ errno \notin {"EACCES", "EPERM"}
                   \/ \E i \in DOMAIN errs : errs[i].path = path
                THEN errs ELSE Append(errs, [path |-> path, op |-> op])
     /\ UNCHANGED <<loop, climbVars>>

\* One iteration of the loop over res.Failures.
Aggregate(step, raw, errno) ==
  LET path == Reported(step, raw)
      op == IF IntentOf(step.sys) = "write" THEN "write" ELSE "stat"
      known == {i \in DOMAIN errs : errs[i].path = path}
  IN /\ loop = "aggregate" /\ Len(failures) < MaxFailures
     /\ failures' = Append(failures, [step |-> step, raw |-> raw,
                                      errno |-> errno])
     /\ errs' = IF errno \notin {"EACCES", "EPERM"} THEN errs
                ELSE IF known = {}
                THEN Append(errs, [path |-> path, op |-> op])
                ELSE [i \in DOMAIN errs |->
                        IF i \in known /\ op = "write"
                        THEN [errs[i] EXCEPT !.op = "write"] ELSE errs[i]]
     /\ UNCHANGED <<loop, climbVars>>

\* Mutant of Climb: the parent of a missing path is returned without an os.Stat.
ClimbOneLevel ==
  /\ loop = "climb" /\ ~ returned
  /\ cur' = IF Present(tree, cur) THEN cur ELSE Dir(cur)
  /\ returned' = TRUE
  /\ UNCHANGED <<loop, aggregateVars, tree, asked>>

\* One os.Stat of resolveGrantTarget, and the step to the parent if it fails.
Climb ==
  /\ loop = "climb" /\ ~ returned
  /\ IF Present(tree, cur) \/ (cur = Root /\ asked # Root)
     THEN returned' = TRUE /\ UNCHANGED cur
     ELSE cur' = Dir(cur) /\ UNCHANGED returned
  /\ UNCHANGED <<loop, aggregateVars, tree, asked>>

Next ==
  \/ \E step \in Steps, raw \in BOOLEAN, errno \in {"EACCES", "EPERM", "ENOENT"} :
       Aggregate(step, raw, errno)
  \/ Climb

Spec == Init /\ [][Next]_vars

-----------------------------------------------------------------------------
\* A command whose script makes the observed calls.
Script == [tool |-> "run_shell", args |-> "ok", target |-> Root,
           script |-> [i \in DOMAIN failures |-> failures[i].step],
           mention |-> NoPath]

\* The denials that leave the child are PtraceDenials of the refusals, in the
\* order of first occurrence, after every failure the walk has handled: each
\* distinct reported path once, with the stronger intent whichever came first.
AggregationAgrees ==
  LET refusals == {i \in DOMAIN failures : failures[i].errno # "ENOENT"}
      raw == {i \in refusals : failures[i].raw}
      denials == PtraceDenials(Script, refusals, raw)
      rank(i) == Cardinality({j \in DOMAIN denials : j <= i})
  IN /\ Len(errs) = Cardinality(DOMAIN denials)
     /\ \A i \in DOMAIN denials :
          /\ denials[i].path = errs[rank(i)].path.path
          /\ denials[i].mode = modeFromPathError(errs[rank(i)].op, "ro")

\* The walk ends at the one path the operator names: never below a missing
\* directory, never above the nearest existing one, on any file tree.
ClimbAgrees ==
  returned => resolveGrantTarget(tree, asked) = {cur}
=============================================================================
