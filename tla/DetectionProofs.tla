--------------------------- MODULE DetectionProofs ----------------------------
(***************************************************************************)
(* Facts about the operators of Filesystem and Detection, for every tree   *)
(* of paths, every rule set and every tool call.                           *)
(***************************************************************************)
EXTENDS Detection, TLAPS

\* MkdirAll turns a tree into a tree in which every ancestor of p is a
\* directory, unless a file is in the way.
LEMMA MkdirAllTree ==
  ASSUME NEW fs, IsTree(fs), NEW p \in Path, ~ UnderFile(fs, p)
  PROVE  IsTree(MkdirAll(fs, p)) /\ CanHold(MkdirAll(fs, p), p)
<1> DEFINE new == MkdirAll(fs, p)
<1>1. new \in [Path -> Kind]
  BY DEF MkdirAll, IsTree, Kind
<1>2. \A a \in Above[p] : a \in Path /\ new[a] = "dir"
  BY PathAssumption DEF MkdirAll, IsTree, UnderFile, Present, Kind
<1>3. \A q \in Path : Present(new, q) => \A a \in Above[q] : new[a] = "dir"
  <2> SUFFICES ASSUME NEW q \in Path, Present(new, q), NEW a \in Above[q]
               PROVE  new[a] = "dir"
    OBVIOUS
  <2>1. CASE q \in Above[p]
    <3>1. a \in Above[p]
      BY <2>1, PathAssumption
    <3> QED  BY <3>1, <1>2
  <2>2. CASE q \notin Above[p]
    <3>1. a \in Path /\ Present(fs, q)
      BY <2>2, PathAssumption DEF MkdirAll, Present
    <3>2. fs[a] = "dir"
      BY <3>1 DEF IsTree
    <3> QED  BY <3>1, <3>2 DEF MkdirAll, Present
  <2> QED  BY <2>1, <2>2
<1>4. IsDir(new, Root)
  BY PathAssumption DEF MkdirAll, IsTree, IsDir, Present
<1> QED  BY <1>1, <1>2, <1>3, <1>4 DEF IsTree, CanHold, IsDir

\* The file tools leave a tree behind, also when they fail half-way.
LEMMA AfterFileToolTree ==
  ASSUME NEW fs, IsTree(fs), NEW c \in Call, NEW rules
  PROVE  IsTree(AfterFileTool(c, fs, rules))
<1> DEFINE made == MkdirAll(fs, c.target)
           new == AfterFileTool(c, fs, rules)
<1>0. c.target \in Path
  BY DEF Call
<1>1. CASE new = fs
  BY <1>1
<1>2. CASE new # fs
  <2>1. ~ UnderFile(fs, c.target)
    BY <1>2 DEF AfterFileTool
  <2>2. IsTree(made) /\ CanHold(made, c.target)
    BY <2>1, <1>0, MkdirAllTree
  <2>3. CASE new = made
    BY <2>2, <2>3
  <2>4. CASE /\ ~ IsDir(fs, c.target)
             /\ new = [q \in Path |-> IF q = c.target THEN "file" ELSE made[q]]
    <3>1. new \in [Path -> Kind]
      BY <2>2, <2>4 DEF IsTree, Kind
    <3>2. made[c.target] # "dir"
      BY <1>0, <2>4, PathAssumption DEF MkdirAll, IsDir, Present
    <3>3. \A q \in Path : Present(new, q) => \A a \in Above[q] : new[a] = "dir"
      <4> SUFFICES ASSUME NEW q \in Path, Present(new, q), NEW a \in Above[q]
                   PROVE  new[a] = "dir"
        OBVIOUS
      <4>1. a \in Path
        BY PathAssumption
      <4>2. made[a] = "dir"
        BY <2>2, <2>4, <4>1 DEF IsTree, CanHold, IsDir, Present
      <4> QED  BY <2>4, <3>2, <4>1, <4>2
    <3>4. IsDir(new, Root)
      BY <2>2, <2>4, <3>2, PathAssumption DEF IsTree, IsDir
    <3> QED  BY <3>1, <3>3, <3>4 DEF IsTree
  <2>5. \/ new = [q \in Path |-> made[q]]
        \/ /\ ~ IsDir(fs, c.target)
           /\ new = [q \in Path |-> IF q = c.target THEN "file" ELSE made[q]]
    <3>1. new = [q \in Path |->
                   IF q = c.target /\ PathErrors(c, fs, rules) = {}
                        /\ ~ IsDir(fs, q)
                   THEN "file" ELSE made[q]]
      BY <1>2 DEF AfterFileTool
    <3>2. CASE PathErrors(c, fs, rules) = {} /\ ~ IsDir(fs, c.target)
      BY <3>1, <3>2
    <3>3. CASE ~ (PathErrors(c, fs, rules) = {} /\ ~ IsDir(fs, c.target))
      BY <3>1, <3>3
    <3> QED  BY <3>2, <3>3
  <2>6. made = [q \in Path |-> made[q]]
    BY DEF MkdirAll
  <2> QED  BY <2>3, <2>4, <2>5, <2>6
<1> QED  BY <1>1, <1>2

\* A step of a shell command that takes effect leaves a tree behind.
LEMMA AfterStepTree ==
  ASSUME NEW fs, IsTree(fs), NEW s \in Step, NEW rules,
         TakesEffect(s, fs, rules)
  PROVE  IsTree(AfterStep(s, fs))
<1> DEFINE new == AfterStep(s, fs)
<1>1. s.paths \in Seq(Path) /\ s.paths # <<>>
  BY DEF Step, TakesEffect, LookedUp
<1>2. s.paths[1] \in Path /\ \A k \in DOMAIN s.paths : s.paths[k] \in Path
  BY <1>1
<1>3. s.sys \in moving => fs[s.paths[1]] \in {"file", "dir"}
  BY <1>2 DEF TakesEffect, LookedUp, IsTree, Kind, Present, moving, opening,
             making
<1>4. new \in [Path -> Kind]
  BY <1>3 DEF AfterStep, IsTree, Kind
<1>5. \A a \in Path : fs[a] = "dir" /\ a \notin Removes(s) => new[a] = "dir"
  BY DEF AfterStep, Creates, Present
<1>6. \A q \in Path : Present(new, q) => \A a \in Above[q] : new[a] = "dir"
  <2> SUFFICES ASSUME NEW q \in Path, Present(new, q), NEW a \in Above[q]
               PROVE  new[a] = "dir"
    OBVIOUS
  <2>1. a \in Path
    BY PathAssumption
  <2>2. fs[a] = "dir" /\ a \notin Removes(s)
    <3>1. CASE q \in Creates(s, fs)
      <4> PICK k \in DOMAIN s.paths : q = s.paths[k]
        BY <3>1 DEF Creates
      <4> QED  BY DEF TakesEffect, CanHold, IsDir, Removes
    <3>2. CASE q \notin Creates(s, fs)
      <4>1. Present(fs, q)
        BY <3>2 DEF AfterStep, Present
      <4>2. fs[a] = "dir"
        BY <4>1 DEF IsTree
      <4>3. a \notin Removes(s)
        BY <4>1 DEF Removes, TakesEffect, Empty
      <4> QED  BY <4>2, <4>3
    <3> QED  BY <3>1, <3>2
  <2> QED  BY <2>1, <2>2, <1>5
<1>7. IsDir(new, Root)
  BY <1>5, PathAssumption DEF IsTree, IsDir, Removes, TakesEffect
<1> QED  BY <1>4, <1>6, <1>7 DEF IsTree

\* So do the other processes of the machine.
LEMMA RemoveTreeTree ==
  ASSUME NEW fs, IsTree(fs), NEW p \in Path \ {Root}
  PROVE  IsTree(RemoveTree(fs, p))
<1> DEFINE new == RemoveTree(fs, p)
<1>1. new \in [Path -> Kind]
  BY DEF RemoveTree, IsTree, Kind
<1>2. IsDir(new, Root)
  BY PathAssumption DEF RemoveTree, IsTree, IsDir
<1>3. \A q \in Path : Present(new, q) => \A a \in Above[q] : new[a] = "dir"
  BY PathAssumption DEF RemoveTree, IsTree, Present
<1> QED  BY <1>1, <1>2, <1>3 DEF IsTree

LEMMA MakeTree ==
  ASSUME NEW fs, IsTree(fs), NEW p \in Path, ~ Present(fs, p), CanHold(fs, p),
         NEW k \in {"file", "dir"}
  PROVE  IsTree([fs EXCEPT ![p] = k])
<1> DEFINE new == [fs EXCEPT ![p] = k]
<1>1. new \in [Path -> Kind]
  BY DEF IsTree, Kind
<1>2. \A a \in Path : fs[a] = "dir" => new[a] = "dir"
  BY DEF IsTree, Present
<1>3. \A q \in Path : Present(new, q) => \A a \in Above[q] : new[a] = "dir"
  BY <1>2, PathAssumption DEF IsTree, Present, CanHold, IsDir
<1> QED
  BY <1>1, <1>2, <1>3, PathAssumption DEF IsTree, IsDir

-----------------------------------------------------------------------------
(* What the child reports.                                                 *)

LEMMA ModeType ==
  ASSUME NEW op, NEW fallback \in Mode
  PROVE  modeFromPathError(op, fallback) \in Mode
BY DEF modeFromPathError, Mode

LEMMA NoDenialsType == IsResult([failed |-> TRUE, denials |-> NoDenials])
BY DEF IsResult, NoDenials

LEMMA FileToolResultType ==
  ASSUME NEW fs, NEW c \in Call, NEW rules
  PROVE  IsResult(FileToolResult(c, fs, rules))
<1> DEFINE errs == PathErrors(c, fs, rules)
           e0 == CHOOSE e \in errs : TRUE
<1>1. c.target \in Path /\ c.mention \in Path \cup {NoPath}
  BY DEF Call
<1>2. \A e \in errs : e.path \in Path
  <2> SUFFICES ASSUME NEW e \in errs
               PROVE  e.path \in Path
    OBVIOUS
  <2>1. \/ e = [op |-> "open", path |-> c.target]
        \/ \E a \in FirstMkdir(fs, c.target) : e = [op |-> "mkdir", path |-> a]
    BY ZenonT(30) DEF PathErrors
  <2>2. FirstMkdir(fs, c.target) \subseteq Path
    BY <1>1, PathAssumption DEF FirstMkdir
  <2> HIDE DEF errs
  <2> QED  BY <1>1, <2>1, <2>2
<1>3. CASE errs # {}
  <2>1. [path |-> e0.path, mode |-> modeFromPathError(e0.op, "ro")] \in Denial
    BY <1>2, <1>3, ModeType DEF Denial, Mode
  <2> QED  BY <1>3, <2>1 DEF FileToolResult, IsResult
<1>4. CASE errs = {} /\ OtherError(c, fs)
  BY <1>4, NoDenialsType DEF FileToolResult
<1>5. CASE errs = {} /\ ~ OtherError(c, fs)
  <2>1. CASE c.mention = NoPath
    BY <1>5, <2>1 DEF FileToolResult, IsResult
  <2>2. CASE c.mention # NoPath
    BY <1>1, <1>5, <2>2 DEF FileToolResult, IsResult, Denial, Mode
  <2> QED  BY <2>1, <2>2
<1> QED  BY <1>3, <1>4, <1>5

LEMMA TextDenialsType ==
  ASSUME NEW c \in Call, NEW n \in Nat, n <= Len(c.script), NEW refusals,
         NEW failed \in BOOLEAN
  PROVE  IsResult([failed |-> failed,
                   denials |-> TextDenials(c, 1 .. n, refusals)])
<1> DEFINE ds == TextDenials(c, 1 .. n, refusals)
<1>1. DOMAIN ds \subseteq 1 .. n
  BY DEF TextDenials, First
<1>2. \A i \in 1 .. n : c.script[i].said \in Path
  <2>1. c.script \in Seq(Step)
    BY DEF Call
  <2>2. \A i \in 1 .. n : c.script[i] \in Step
    BY <2>1
  <2> QED  BY <2>2 DEF Step
<1>3. \A i \in DOMAIN ds : ds[i] = [path |-> c.script[i].said, mode |-> "ro"]
  BY DEF TextDenials
<1>4. \A i \in DOMAIN ds : ds[i] \in Denial
  <2> SUFFICES ASSUME NEW i \in DOMAIN ds
               PROVE  ds[i] \in Denial
    OBVIOUS
  <2>1. c.script[i].said \in Path /\ "ro" \in Mode
    BY <1>1, <1>2 DEF Mode
  <2>2. ds[i] = [path |-> c.script[i].said, mode |-> "ro"]
    BY <1>3
  <2> HIDE DEF ds
  <2> QED  BY <2>1, <2>2 DEF Denial
<1>5. ds \in [DOMAIN ds -> Denial]
  BY <1>4 DEF TextDenials
<1> QED  BY <1>1, <1>5 DEF IsResult

LEMMA PtraceDenialsType ==
  ASSUME NEW c \in Call, NEW refusals \in SUBSET DOMAIN c.script,
         \A i \in refusals : c.script[i].paths # <<>>,
         NEW raw
  PROVE  IsResult([failed |-> TRUE,
                   denials |-> PtraceDenials(c, refusals, raw)])
<1> DEFINE ds == PtraceDenials(c, refusals, raw)
<1>1. c.script \in Seq(Step)
  BY DEF Call
<1>2. DOMAIN ds \subseteq refusals
  BY DEF PtraceDenials, Traced
<1>3. \A i \in refusals : Reported(c.script[i], i \in raw).path \in Path
  <2> SUFFICES ASSUME NEW i \in refusals
               PROVE  Reported(c.script[i], i \in raw).path \in Path
    OBVIOUS
  <2>1. c.script[i] \in Step
    BY <1>1
  <2>2. c.script[i].said \in Path /\ c.script[i].paths[1] \in Path
    BY <2>1 DEF Step
  <2> QED  BY <2>2 DEF Reported
<1>4. \A i \in DOMAIN ds : ds[i] \in Denial
  <2> SUFFICES ASSUME NEW i \in DOMAIN ds
               PROVE  ds[i] \in Denial
    OBVIOUS
  <2>1. PICK op : ds[i] = [path |-> Reported(c.script[i], i \in raw).path,
                           mode |-> modeFromPathError(op, "ro")]
    BY DEF PtraceDenials
  <2> QED  BY <1>2, <1>3, <2>1, ModeType DEF Denial, Mode
<1>5. ds \in [DOMAIN ds -> Denial]
  BY <1>4 DEF PtraceDenials
<1>6. refusals \subseteq Nat
  BY <1>1
<1> QED  BY <1>2, <1>5, <1>6 DEF IsResult

\* With every /proc lookup answered, no path is reported twice.
Distinct(ds) ==
  \A i, j \in DOMAIN ds : ds[i].path = ds[j].path => i = j

LEMMA PtraceDenialsDistinct ==
  ASSUME NEW c \in Call, NEW refusals \in SUBSET DOMAIN c.script
  PROVE  Distinct(PtraceDenials(c, refusals, {}))
<1> DEFINE ds == PtraceDenials(c, refusals, {})
<1>1. \A i \in DOMAIN ds : i \in Nat /\ ds[i].path = c.script[i].paths[1]
  BY DEF PtraceDenials, Reported, Traced, Call
<1>2. \A i, j \in DOMAIN ds :
        j < i => Reported(c.script[j], j \in {}) # Reported(c.script[i], i \in {})
  BY DEF PtraceDenials
<1>3. \A i, j \in DOMAIN ds : j < i => ds[i].path # ds[j].path
  <2> HIDE DEF ds
  <2> QED  BY <1>1, <1>2 DEF Reported
<1> QED  BY <1>1, <1>3 DEF Distinct

LEMMA OneDenialDistinct ==
  /\ \A c \in Call : \A fs, rules :
       Distinct(FileToolResult(c, fs, rules).denials)
  /\ \A c, done, refusals : done \subseteq Nat =>
       Distinct(TextDenials(c, done, refusals))
<1>1. ASSUME NEW c \in Call, NEW fs, NEW rules
      PROVE  Distinct(FileToolResult(c, fs, rules).denials)
  BY DEF FileToolResult, Distinct, NoDenials
<1>2. ASSUME NEW c, NEW done, NEW refusals, done \subseteq Nat
      PROVE  Distinct(TextDenials(c, done, refusals))
  BY <1>2 DEF TextDenials, Distinct, First
<1> QED  BY <1>1, <1>2
=============================================================================
