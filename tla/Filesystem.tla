------------------------------ MODULE Filesystem ------------------------------
(***************************************************************************)
(* The file tree as minai sees it, and what Landlock makes of a rule set.  *)
(* Neither is minai's own code: the kernel and go-landlock are modelled    *)
(* from how internal/sandbox and internal/agent use them.  The one         *)
(* definition translated from the repository is SplitDirsFiles.            *)
(*                                                                         *)
(* A path is an element of Path; its text is abstracted to its place in    *)
(* the tree, Above[p] being the proper ancestors of p up to Root ("/").    *)
(***************************************************************************)
EXTENDS Integers

CONSTANTS
  Path,             \* the paths that tool calls and prompts speak of
  Root,             \* "/"
  Above,            \* Above[p]: the proper ancestors of p
  BaselineRO,       \* directories every child may read (sandbox.BaselineRO)
  BaselineRWFiles,  \* files every child may write (sandbox.BaselineRWFiles)
  Locked            \* paths whose own permission bits deny the user

ASSUME PathAssumption ==
  /\ Root \in Path
  /\ Above \in [Path -> SUBSET Path]
  /\ Above[Root] = {}
  /\ \A p \in Path \ {Root} : Root \in Above[p]
  /\ \A p \in Path : /\ p \notin Above[p]
                     /\ \A a \in Above[p] : Above[a] \subseteq Above[p]
                     /\ \A S \in SUBSET Above[p] : S # {} =>
                          \E top \in S : \A a \in S \ {top} : top \in Above[a]
  /\ BaselineRO \subseteq Path
  /\ BaselineRWFiles \subseteq Path
  /\ Locked \subseteq Path

Kind == {"absent", "file", "dir"}
Mode == {"ro", "rw"}
Right == Mode \cup {"none"}
Rule == [path : Path, kind : {"file", "dir"}, mode : Mode]

\* What os.Stat reports: err == nil, and fi.IsDir().
Present(fs, p) == fs[p] # "absent"
IsDir(fs, p) == fs[p] = "dir"

IsTree(fs) ==
  /\ fs \in [Path -> Kind]
  /\ IsDir(fs, Root)
  /\ \A p \in Path : Present(fs, p) => \A a \in Above[p] : fs[a] = "dir"

Suffices(have, want) == have = "rw" \/ have = want

-----------------------------------------------------------------------------
(* Changes to the tree.                                                    *)

CanHold(fs, p) == \A a \in Above[p] : IsDir(fs, a)
Empty(fs, p) == \A q \in Path : p \in Above[q] => ~ Present(fs, q)

RemoveTree(fs, p) ==
  [q \in Path |-> IF q = p \/ p \in Above[q] THEN "absent" ELSE fs[q]]

-----------------------------------------------------------------------------
(* Landlock rule sets.                                                     *)

\* A rule covers an access to p if it is on p itself or on a directory above
\* it.  Removing and renaming an entry are accesses to the directory that
\* holds it, so a rule on p itself does not cover them.
Covers(r, p, entry) ==
  \/ r.path = p /\ ~ entry
  \/ r.kind = "dir" /\ r.path \in Above[p]

Permitted(rules, p, m, entry) ==
  /\ p \notin Locked
  /\ \E r \in rules : Covers(r, p, entry) /\ Suffices(r.mode, m)

\* An access to p fails with EACCES; if a directory on the way is missing it
\* fails with ENOENT or ENOTDIR before any permission is looked at.
Blocked(fs, rules, p, m, entry) ==
  /\ CanHold(fs, p)
  /\ ~ Permitted(rules, p, m, entry)

\* A rule is tied to the object that had the path when the rule was added: it
\* goes with the object, and a later object of the same path is not covered.
RulesLeft(fs, rules) == {r \in rules : Present(fs, r.path)}

\* The rules every child gets; IgnoreIfMissing drops the ones not installed.
BaselineRules(fs) ==
  [path : {p \in BaselineRO : IsDir(fs, p)}, kind : {"dir"}, mode : {"ro"}]
    \cup
  [path : {p \in BaselineRWFiles : Present(fs, p)}, kind : {"file"}, mode : {"rw"}]

\* Mutant of SplitDirsFiles: every approved path is passed on as read-write.
SplitAllReadWrite(fs, rights) ==
  {[path |-> p, kind |-> fs[p], mode |-> "rw"] :
     p \in {q \in Path : rights[q] # "none" /\ Present(fs, q)}}

\* The approved paths that exist right now, as directory rules or file rules.
\* A path that is gone is dropped without a word.
SplitDirsFiles(fs, rights) ==
  {[path |-> p, kind |-> fs[p], mode |-> rights[p]] :
     p \in {q \in Path : rights[q] # "none" /\ Present(fs, q)}}

\* go-landlock opens every path it is given (these rules are added without
\* IgnoreIfMissing) and a directory rule must land on a directory.
RestrictFails(fs, rules) ==
  \E r \in rules : \/ ~ Present(fs, r.path)
                   \/ r.kind = "dir" /\ ~ IsDir(fs, r.path)
=============================================================================
