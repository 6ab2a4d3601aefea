------------------------------ MODULE Detection -------------------------------
(***************************************************************************)
(* What one tool run inside the sandboxed child does, and how the child    *)
(* decides which access denials to report: internal/tools, the intent      *)
(* table of internal/ptrace and the second half of sandbox.runChild.       *)
(*                                                                         *)
(* A tool call is abstracted to the accesses it makes.  For run_shell      *)
(* these are the steps of call.script, in order: the system call, the      *)
(* paths it names, the access it needs on them, the path that canonical()  *)
(* makes of the spelling the command uses (`said', which differs from the  *)
(* real path once the command has changed directory), whether its error    *)
(* message is suppressed (`quiet'), and whether the command goes on after  *)
(* a refusal (`tolerated').  A step "echo" accesses nothing and prints a   *)
(* line of the form "<said>: Permission denied".                           *)
(*                                                                         *)
(* Lists of errors and denials are kept as functions from positions        *)
(* (natural numbers) to entries; the list is read in the order of the      *)
(* positions, which need not be consecutive.                               *)
(***************************************************************************)
EXTENDS Filesystem, Sequences

CONSTANTS
  Calls,    \* the tool calls the model (the LLM) may ask for
  NoPath    \* "the output mentions no denied path"

Tools == {"read_file", "write_file", "list_dir", "run_shell"}
DetectMode == {"default", "ptrace"}
Denial == [path : Path, mode : Mode]

Step == [sys : STRING, paths : Seq(Path), need : Mode, said : Path,
         quiet : BOOLEAN, tolerated : BOOLEAN]

\* args:    "ok", "mistyped" (JSON, but not what the handler expects) or
\*          "malformed" (not JSON: the envelope cannot be encoded)
\* target:  the path argument of the file tools
\* mention: the path the regex finds in a file tool's successful output
Call == [tool : STRING, args : {"ok", "mistyped", "malformed"}, target : Path,
         script : Seq(Step), mention : Path \cup {NoPath}]

ASSUME CallAssumption == NoPath \notin Path /\ Calls \subseteq Call

NoDenials == [i \in {} |-> 0]
\* The least position of S, as a set with at most one element.
First(S) == {i \in S : \A j \in S : i <= j}

-----------------------------------------------------------------------------
(* Classifying a system call or an error's Op string.                      *)

opening == {"open", "openat", "openat2", "creat"}
making == {"mkdir", "mkdirat"}
removing == {"rmdir", "unlink", "unlinkat"}
moving == {"rename", "renameat", "renameat2"}

\* The system calls the tracer records.
fsSyscalls ==
  opening \cup making \cup removing \cup moving \cup
  {"stat", "lstat", "newfstatat", "statx", "access", "faccessat",
   "faccessat2", "chdir", "readlink", "readlinkat", "chmod", "fchmodat",
   "chown", "lchown", "fchownat", "truncate", "statfs", "execve", "execveat",
   "utimensat", "mknod", "mknodat", "link", "linkat", "symlink", "symlinkat"}

\* The ones it takes for writes; the open family is not among them.
writeSyscalls ==
  {"creat", "link", "linkat", "symlink", "symlinkat", "chmod", "fchmodat",
   "chown", "lchown", "fchownat", "truncate", "mknod", "mknodat",
   "utimensat"} \cup making \cup removing \cup moving

IntentOf(sys) == IF sys \in writeSyscalls THEN "write" ELSE "read"

modeFromPathError(op, fallback) ==
  IF op \in {"stat", "lstat", "readdir", "readlink"} THEN "ro"
  ELSE IF op \in {"write", "mkdir", "create", "remove", "rename", "chmod",
                  "chown", "truncate"} THEN "rw"
  ELSE fallback

-----------------------------------------------------------------------------
(* The file tools: read_file, list_dir and write_file.                     *)

\* The topmost missing ancestor of p, the first directory MkdirAll makes.
FirstMkdir(fs, p) ==
  {a \in Above[p] : ~ Present(fs, a) /\ \A b \in Above[a] : Present(fs, b)}

MkdirAll(fs, p) ==
  [q \in Path |-> IF q \in Above[p] /\ ~ Present(fs, q) THEN "dir" ELSE fs[q]]

UnderFile(fs, p) == \E a \in Above[p] : fs[a] = "file"

\* The *fs.PathError a file tool fails with because it was denied: at most
\* one, since the handler returns at the first error.  os.ReadFile, os.ReadDir
\* and os.WriteFile all report the operation "open".
PathErrors(c, fs, rules) ==
  LET opens(tree, m) == IF Blocked(tree, rules, c.target, m, FALSE)
                        THEN {[op |-> "open", path |-> c.target]}
                        ELSE {}
      denied == {a \in FirstMkdir(fs, c.target) :
                   Blocked(fs, rules, a, "rw", FALSE)}
  IN IF c.args = "mistyped" THEN {}
     ELSE IF c.tool # "write_file"
     THEN IF Present(fs, c.target) THEN opens(fs, "ro") ELSE {}
     ELSE IF denied # {} THEN {[op |-> "mkdir", path |-> a] : a \in denied}
     ELSE IF IsDir(fs, c.target) THEN {}   \* EISDIR comes first
     ELSE opens(MkdirAll(fs, c.target), "rw")

\* The handler fails for a reason that is not a permission.
OtherError(c, fs) ==
  \/ c.args = "mistyped"
  \/ c.tool = "read_file" /\ fs[c.target] # "file"
  \/ c.tool = "list_dir" /\ ~ IsDir(fs, c.target)
  \/ c.tool = "write_file" /\ (IsDir(fs, c.target) \/ UnderFile(fs, c.target))

\* The tree after the handler: write_file leaves the directories it made even
\* when it is then refused the file.
AfterFileTool(c, fs, rules) ==
  LET errs == PathErrors(c, fs, rules) IN
  IF \/ c.tool # "write_file" \/ c.args = "mistyped" \/ UnderFile(fs, c.target)
     \/ \E e \in errs : e.op = "mkdir"
  THEN fs
  ELSE [q \in Path |->
          IF q = c.target /\ errs = {} /\ ~ IsDir(fs, q)
          THEN "file" ELSE MkdirAll(fs, c.target)[q]]

\* The paths the handler gets to write: what AfterFileTool makes or overwrites.
FileToolWrites(c, fs, rules) ==
  LET errs == PathErrors(c, fs, rules) IN
  IF \/ c.tool # "write_file" \/ c.args = "mistyped" \/ UnderFile(fs, c.target)
     \/ \E e \in errs : e.op = "mkdir"
  THEN {}
  ELSE {a \in Above[c.target] : ~ Present(fs, a)} \cup
       {q \in {c.target} : errs = {} /\ ~ IsDir(fs, q)}

\* The path whose contents the handler returns.
FileToolReads(c, fs, rules) ==
  IF \/ c.tool \notin {"read_file", "list_dir"}
     \/ PathErrors(c, fs, rules) # {} \/ OtherError(c, fs)
  THEN {} ELSE {c.target}

-----------------------------------------------------------------------------
(* One step of a run_shell command.                                        *)

\* The system call gets as far as the permission check.
LookedUp(s, fs) ==
  /\ s.paths # <<>>
  /\ \/ s.sys \in opening /\ s.need = "rw"
     \/ s.sys \in making /\ ~ Present(fs, s.paths[1])
     \/ s.sys \notin making /\ Present(fs, s.paths[1])

Refused(s, fs, rules) ==
  /\ LookedUp(s, fs)
  /\ \E k \in DOMAIN s.paths :
       Blocked(fs, rules, s.paths[k], s.need, s.sys \in removing \cup moving)

\* The step does what it says; otherwise it fails or finds nothing to do.
\* Commands remove and rename files and empty directories only, and "/" never.
TakesEffect(s, fs, rules) ==
  /\ LookedUp(s, fs)
  /\ ~ Refused(s, fs, rules)
  /\ \A k \in DOMAIN s.paths : CanHold(fs, s.paths[k])
  /\ s.sys \in removing \cup moving =>
       /\ s.paths[1] # Root
       /\ Empty(fs, s.paths[1])
       /\ \A k \in DOMAIN s.paths : s.paths[1] \notin Above[s.paths[k]]

Creates(s, fs) ==
  {s.paths[k] : k \in {j \in DOMAIN s.paths :
     /\ ~ Present(fs, s.paths[j])
     /\ s.sys \in opening \cup making \/ (s.sys \in moving /\ j = 2)}}

Removes(s) ==
  {s.paths[k] : k \in {j \in DOMAIN s.paths :
     j = 1 /\ s.sys \in removing \cup moving}}

AfterStep(s, fs) ==
  [q \in Path |->
     IF q \in Removes(s) THEN "absent"
     ELSE IF q \in Creates(s, fs)
     THEN IF s.sys \in making THEN "dir"
          ELSE IF s.sys \in moving THEN fs[s.paths[1]] ELSE "file"
     ELSE fs[q]]

-----------------------------------------------------------------------------
(* From errors and output to denials.                                      *)

\* pathFromText: the first "Permission denied" line of the output, whoever
\* printed it; the denial is always reported as read-only.  `done' are the
\* steps the command reached, `refusals' the ones that were refused.
TextDenials(c, done, refusals) ==
  LET printed == {i \in done : \/ c.script[i].sys = "echo"
                               \/ i \in refusals /\ ~ c.script[i].quiet}
  IN [i \in First(printed) |-> [path |-> c.script[i].said, mode |-> "ro"]]

\* How the tracer reports the path of step s: absolute, or as the command
\* spelled it (relative to its directory) when the /proc lookup fails.  Only the
\* first operand counts (firstNonEmpty).
Reported(s, raw) ==
  IF raw THEN [form |-> "raw", path |-> s.said]
         ELSE [form |-> "abs", path |-> s.paths[1]]

Traced(c, refusals) == {i \in refusals : c.script[i].sys \in fsSyscalls}

\* Mutant of PtraceDenials: one denial for each failed call.
PtraceDenialsUnmerged(c, refusals, raw) ==
  [i \in Traced(c, refusals) |->
     [path |-> Reported(c.script[i], i \in raw).path,
      mode |-> IF IntentOf(c.script[i].sys) = "write" THEN "rw" ELSE "ro"]]

\* runShellPtrace, denialsFromError and canonical in a row: one entry for each
\* distinct reported string, at its first occurrence, read-write if any of its
\* occurrences has write intent.  `raw' are the steps whose /proc lookup failed.
PtraceDenials(c, refusals, raw) ==
  LET seen == Traced(c, refusals)
      key(i) == Reported(c.script[i], i \in raw)
      first == {i \in seen : \A j \in seen : j < i => key(j) # key(i)}
      op(i) == IF \E j \in seen : /\ key(j) = key(i)
                                  /\ IntentOf(c.script[j].sys) = "write"
               THEN "write" ELSE "stat"
  IN [i \in first |-> [path |-> key(i).path,
                       mode |-> modeFromPathError(op(i), "ro")]]

\* What runChild makes of a file tool's return values.
FileToolResult(c, fs, rules) ==
  LET errs == PathErrors(c, fs, rules)
      denied(e) == [path |-> e.path, mode |-> modeFromPathError(e.op, "ro")]
  IN IF errs # {}
     THEN [failed |-> TRUE,
           denials |-> [i \in {1} |-> denied(CHOOSE e \in errs : TRUE)]]
     ELSE IF OtherError(c, fs)
     THEN [failed |-> TRUE, denials |-> NoDenials]
     ELSE [failed |-> FALSE,
           denials |-> [i \in IF c.mention = NoPath THEN {} ELSE {1} |->
                          [path |-> c.mention, mode |-> "ro"]]]

\* runShellDefault never returns an error: only the output speaks.
ShellDefaultResult(c, done, refusals) ==
  [failed |-> FALSE, denials |-> TextDenials(c, done, refusals)]

\* runShellPtrace returns its denials as an error if the command failed;
\* otherwise its output goes through pathFromText like any other.
ShellPtraceResult(c, done, refusals, nonzero, raw) ==
  IF nonzero /\ Traced(c, refusals) # {}
  THEN [failed |-> TRUE, denials |-> PtraceDenials(c, refusals, raw)]
  ELSE [failed |-> FALSE, denials |-> TextDenials(c, done, refusals)]

\* What the agent decodes: whether Error is set, and the Denials.
IsResult(r) ==
  /\ r.failed \in BOOLEAN
  /\ r.denials \in [DOMAIN r.denials -> Denial]
  /\ DOMAIN r.denials \subseteq Nat

-----------------------------------------------------------------------------
(* From a denial to the path the user is asked to grant.                   *)

\* p itself or its nearest existing ancestor, as a set with one element.
resolveGrantTarget(fs, p) ==
  IF Present(fs, p) THEN {p}
  ELSE {a \in Above[p] : /\ Present(fs, a)
                         /\ \A b \in Above[p] :
                              Present(fs, b) => b = a \/ b \in Above[a]}
=============================================================================
