------------------------------ MODULE LoopsProofs -----------------------------
(***************************************************************************)
(* The two loops compute what Detection's operators say, for every file    *)
(* tree and every sequence of failed system calls.                         *)
(***************************************************************************)
EXTENDS Loops, FiniteSetTheorems, TLAPS

-----------------------------------------------------------------------------
(* resolveGrantTarget's walk.                                              *)

\* The walk has passed nothing that exists, and what it stops at exists.
Climbing ==
  /\ loop \in {"aggregate", "climb"}
  /\ loop = "aggregate" => ~ returned
  /\ loop = "climb" =>
       /\ IsTree(tree) /\ asked \in Path /\ cur \in {asked} \cup Above[asked]
       /\ \A b \in {asked} \cup Above[asked] :
            Present(tree, b) => b = cur \/ b \in Above[cur]
       /\ returned => Present(tree, cur)

LEMMA Parent ==
  ASSUME NEW p \in Path, p # Root
  PROVE  /\ Dir(p) \in Above[p] /\ Dir(p) \in Path
         /\ \A b \in Above[p] : b = Dir(p) \/ b \in Above[Dir(p)]
<1>1. \E a \in Above[p] : \A b \in Above[p] \ {a} : b \in Above[a]
  BY LoopsAssumption
<1>2. Dir(p) \in Above[p] /\ \A b \in Above[p] \ {Dir(p)} : b \in Above[Dir(p)]
  BY <1>1 DEF Dir
<1> QED  BY <1>2, PathAssumption

LEMMA ClimbingNext == Climbing /\ [Next]_vars => Climbing'
<1> SUFFICES ASSUME Climbing, [Next]_vars PROVE Climbing'
  OBVIOUS
<1>1. ASSUME NEW step \in Steps, NEW raw \in BOOLEAN, NEW errno,
             Aggregate(step, raw, errno)
      PROVE  Climbing'
  BY <1>1 DEF Aggregate, Climbing, climbVars
<1>2. CASE Climb
  <2>1. /\ IsTree(tree) /\ asked \in Path /\ cur \in {asked} \cup Above[asked]
        /\ \A b \in {asked} \cup Above[asked] :
             Present(tree, b) => b = cur \/ b \in Above[cur]
        /\ loop = "climb" /\ loop' = loop /\ tree' = tree /\ asked' = asked
        /\ cur \in Path
    BY <1>2, PathAssumption DEF Climb, Climbing
  <2>2. Present(tree, Root)
    BY <2>1 DEF IsTree, IsDir, Present
  <2>3. CASE Present(tree, cur) \/ (cur = Root /\ asked # Root)
    <3>1. returned' /\ cur' = cur /\ Present(tree, cur)
      BY <1>2, <2>2, <2>3 DEF Climb
    <3> QED  BY <2>1, <3>1 DEF Climbing
  <2>4. CASE ~ (Present(tree, cur) \/ (cur = Root /\ asked # Root))
    <3>1. ~ returned' /\ cur' = Dir(cur)
      BY <1>2, <2>4 DEF Climb
    <3>2. cur # Root /\ ~ Present(tree, cur)
      BY <2>2, <2>4
    <3>3. /\ Dir(cur) \in Above[cur]
          /\ \A b \in Above[cur] : b = Dir(cur) \/ b \in Above[Dir(cur)]
      BY <2>1, <3>2, Parent
    <3>4. Dir(cur) \in Above[asked]
      BY <2>1, <3>3, PathAssumption
    <3>5. \A b \in {asked} \cup Above[asked] :
            Present(tree, b) => b = Dir(cur) \/ b \in Above[Dir(cur)]
      BY <2>1, <3>2, <3>3
    <3> QED  BY <2>1, <3>1, <3>4, <3>5 DEF Climbing
  <2> QED  BY <2>3, <2>4
<1>3. CASE UNCHANGED vars
  BY <1>3 DEF vars, climbVars, Climbing
<1> QED  BY <1>1, <1>2, <1>3 DEF Next

\* On any file tree the walk comes to the path that the operator names, and to no
\* other: the nearest of the path and its ancestors that exists.
THEOREM ClimbIsResolve == Spec => []ClimbAgrees
<1>1. Init => Climbing
  BY DEF Init, Climbing, Trees
<1>2. Climbing => ClimbAgrees
  <2> SUFFICES ASSUME Climbing, returned
               PROVE  resolveGrantTarget(tree, asked) = {cur}
    BY DEF ClimbAgrees
  <2>1. /\ asked \in Path /\ cur \in {asked} \cup Above[asked] /\ Present(tree, cur)
        /\ \A b \in {asked} \cup Above[asked] :
             Present(tree, b) => b = cur \/ b \in Above[cur]
    BY DEF Climbing
  <2>2. Above[asked] \subseteq Path /\ asked \notin Above[asked]
    BY <2>1, PathAssumption
  <2>3. CASE Present(tree, asked)
    <3>1. asked = cur \/ asked \in Above[cur]
      BY <2>1, <2>3
    <3>2. cur \in Above[asked] => Above[cur] \subseteq Above[asked]
      BY <2>1, PathAssumption
    <3>3. cur = asked
      BY <2>1, <2>2, <3>1, <3>2
    <3> QED  BY <2>3, <3>3 DEF resolveGrantTarget
  <2>4. CASE ~ Present(tree, asked)
    <3>1. cur \in Above[asked]
      BY <2>1, <2>4
    <3>2. ASSUME NEW a \in Above[asked], Present(tree, a),
                 \A b \in Above[asked] : Present(tree, b) => b = a \/ b \in Above[a]
          PROVE  a = cur
      <4>1. a = cur \/ a \in Above[cur]
        BY <2>1, <3>2
      <4>2. cur = a \/ cur \in Above[a]
        BY <2>1, <3>1, <3>2
      <4>3. cur \in Above[a] => Above[cur] \subseteq Above[a]
        BY <2>2, <3>2, PathAssumption
      <4>4. a \notin Above[a]
        BY <2>2, <3>2, PathAssumption
      <4> QED  BY <4>1, <4>2, <4>3, <4>4
    <3> QED  BY <2>1, <2>4, <3>1, <3>2 DEF resolveGrantTarget
  <2> QED  BY <2>3, <2>4
<1> QED  BY <1>1, <1>2, ClimbingNext, PTL DEF Spec

-----------------------------------------------------------------------------
(* runShellPtrace's walk.                                                  *)

Failure == [step : Steps, raw : BOOLEAN, errno : {"EACCES", "EPERM", "ENOENT"}]
Reports == {Reported(s, r) : s \in Steps, r \in BOOLEAN}
PathError == [path : Reports, op : {"write", "stat"}]

\* The parts of PtraceDenials, for the failures F.
Refusals(F) == {i \in DOMAIN F : F[i].errno # "ENOENT"}
Key(f) == Reported(f.step, f.raw)
Writes(f) == IntentOf(f.step.sys) = "write"
Firsts(F) == {i \in Refusals(F) : \A j \in Refusals(F) : j < i => Key(F[j]) # Key(F[i])}
Op(F, i) == IF \E j \in Refusals(F) : Key(F[j]) = Key(F[i]) /\ Writes(F[j])
            THEN "write" ELSE "stat"
UpTo(F, i) == {j \in Firsts(F) : j <= i}
Rank(F, i) == Cardinality(UpTo(F, i))

\* E lists the distinct paths of F in the order of their first occurrence, each with
\* the stronger intent.
Walked(F, E) ==
  /\ Len(E) = Cardinality(Firsts(F))
  /\ \A j \in Refusals(F) : \E i \in Firsts(F) : Key(F[i]) = Key(F[j])
  /\ \A k \in DOMAIN E : \E i \in Firsts(F) : Rank(F, i) = k
  /\ \A i \in Firsts(F) :
       Rank(F, i) \in DOMAIN E /\ E[Rank(F, i)] = [path |-> Key(F[i]), op |-> Op(F, i)]

\* What one iteration makes of the errors E.
After(E, f) ==
  LET op == IF Writes(f) THEN "write" ELSE "stat"
      known == {i \in DOMAIN E : E[i].path = Key(f)}
  IN IF f.errno = "ENOENT" THEN E
     ELSE IF known = {} THEN Append(E, [path |-> Key(f), op |-> op])
     ELSE [i \in DOMAIN E |-> IF i \in known /\ op = "write"
                              THEN [E[i] EXCEPT !.op = "write"] ELSE E[i]]

LEMMA Appended ==
  ASSUME NEW S, NEW seq \in Seq(S), NEW e \in S
  PROVE  /\ Append(seq, e) \in Seq(S)
         /\ Len(seq) \in Nat /\ Len(Append(seq, e)) = Len(seq) + 1
         /\ DOMAIN seq = 1 .. Len(seq) /\ DOMAIN Append(seq, e) = 1 .. Len(seq) + 1
         /\ Append(seq, e)[Len(seq) + 1] = e
         /\ \A i \in DOMAIN seq : Append(seq, e)[i] = seq[i]
OBVIOUS

\* A failure joins the refusals, and the first occurrences if its path is new.
Joins(F, f, G, n) ==
  /\ DOMAIN F = 1 .. n /\ n + 1 \notin Firsts(F)
  /\ Refusals(F) \subseteq 1 .. n /\ Firsts(F) \subseteq Refusals(F)
  /\ \A i \in 1 .. n : G[i] = F[i]
  /\ G[n + 1] = f
  /\ Refusals(G) = IF f.errno = "ENOENT" THEN Refusals(F) ELSE Refusals(F) \cup {n + 1}
  /\ Firsts(G) = IF f.errno # "ENOENT" /\ \A j \in Refusals(F) : Key(F[j]) # Key(f)
                 THEN Firsts(F) \cup {n + 1} ELSE Firsts(F)

LEMMA OneMoreFailure ==
  ASSUME NEW F \in Seq(Failure), NEW f \in Failure, NEW G, G = Append(F, f),
         NEW n \in Nat, n = Len(F)
  PROVE  Joins(F, f, G, n)
<1>1. /\ DOMAIN F = 1 .. n /\ DOMAIN G = 1 .. n + 1
      /\ \A i \in 1 .. n : G[i] = F[i]
      /\ G[n + 1] = f
  BY Appended
<1>2. Refusals(G) = IF f.errno = "ENOENT" THEN Refusals(F) ELSE Refusals(F) \cup {n + 1}
  BY <1>1 DEF Refusals
<1>3. /\ Refusals(F) \subseteq 1 .. n /\ Firsts(F) \subseteq Refusals(F)
      /\ Firsts(F) \subseteq 1 .. n /\ n + 1 \notin Firsts(F)
  BY <1>1 DEF Refusals, Firsts
<1>4. ASSUME NEW i \in 1 .. n
      PROVE  i \in Firsts(G) <=> i \in Firsts(F)
  <2>1. i \in Refusals(G) <=> i \in Refusals(F)
    BY <1>2
  <2>2. \A j \in 1 .. n : j \in Refusals(G) <=> j \in Refusals(F)
    BY <1>2
  <2>3. \A j \in Refusals(G) : j < i => j \in 1 .. n
    BY <1>2, <1>3
  <2> QED  BY <1>1, <1>3, <2>1, <2>2, <2>3 DEF Firsts
<1>5. n + 1 \in Firsts(G) <=>
        f.errno # "ENOENT" /\ \A j \in Refusals(F) : Key(F[j]) # Key(f)
  <2>1. n + 1 \in Refusals(G) <=> f.errno # "ENOENT"
    BY <1>2, <1>3
  <2>2. n + 1 \in Refusals(G) =>
          ((\A j \in Refusals(G) : j < n + 1 => Key(G[j]) # Key(G[n + 1]))
             <=> \A j \in Refusals(F) : Key(F[j]) # Key(f))
    BY <1>1, <1>2, <1>3
  <2> QED  BY <2>1, <2>2 DEF Firsts
<1>6. Firsts(G) \subseteq 1 .. n + 1
  BY <1>1 DEF Firsts, Refusals
<1>7. \A i \in 1 .. n + 1 : i \in 1 .. n \/ i = n + 1
  OBVIOUS
<1>8. CASE f.errno # "ENOENT" /\ \A j \in Refusals(F) : Key(F[j]) # Key(f)
  <2>1. Firsts(G) = Firsts(F) \cup {n + 1}
    BY <1>3, <1>4, <1>5, <1>6, <1>7, <1>8
  <2> QED  BY <1>1, <1>2, <1>3, <1>8, <2>1 DEF Joins
<1>9. CASE ~ (f.errno # "ENOENT" /\ \A j \in Refusals(F) : Key(F[j]) # Key(f))
  <2>1. Firsts(G) = Firsts(F)
    BY <1>3, <1>4, <1>5, <1>6, <1>7, <1>9
  <2> QED  BY <1>1, <1>2, <1>3, <1>9, <2>1 DEF Joins
<1> QED  BY <1>8, <1>9

LEMMA RanksFinite ==
  ASSUME NEW F \in Seq(Failure)
  PROVE  /\ IsFiniteSet(Firsts(F)) /\ Cardinality(Firsts(F)) \in Nat
         /\ \A i \in Firsts(F) : Rank(F, i) \in Nat
<1>1. IsFiniteSet(DOMAIN F)
  <2>1. DOMAIN F = 1 .. Len(F) /\ Len(F) \in Nat
    OBVIOUS
  <2> QED  BY <2>1, FS_Interval
<1>2. IsFiniteSet(Firsts(F))
  BY <1>1, FS_Subset DEF Firsts, Refusals
<1>3. \A i \in Firsts(F) : IsFiniteSet(UpTo(F, i))
  BY <1>2, FS_Subset DEF UpTo
<1> QED  BY <1>2, <1>3, FS_CardinalityType DEF Rank

\* The position of a first occurrence stays; a new one comes last.
LEMMA RanksStay ==
  ASSUME NEW F \in Seq(Failure), NEW f \in Failure, NEW G, G = Append(F, f),
         NEW n \in Nat, n = Len(F)
  PROVE  /\ \A i \in Firsts(F) : Rank(G, i) = Rank(F, i)
         /\ n + 1 \in Firsts(G) =>
              /\ Cardinality(Firsts(G)) = Cardinality(Firsts(F)) + 1
              /\ Rank(G, n + 1) = Cardinality(Firsts(F)) + 1
<1>1. /\ Firsts(F) \subseteq 1 .. n /\ n + 1 \notin Firsts(F)
      /\ Firsts(G) = Firsts(F) \cup {n + 1} \/ Firsts(G) = Firsts(F)
  <2>1. Joins(F, f, G, n)
    BY OneMoreFailure
  <2> QED  BY <2>1 DEF Joins
<1>2. ASSUME NEW i \in Firsts(F) PROVE Rank(G, i) = Rank(F, i)
  <2>1. UpTo(G, i) = UpTo(F, i)
    BY <1>1 DEF UpTo
  <2> QED  BY <2>1 DEF Rank
<1>3. ASSUME n + 1 \in Firsts(G)
      PROVE  /\ Cardinality(Firsts(G)) = Cardinality(Firsts(F)) + 1
             /\ Rank(G, n + 1) = Cardinality(Firsts(F)) + 1
  <2>1. Firsts(G) = Firsts(F) \cup {n + 1} /\ UpTo(G, n + 1) = Firsts(G)
    BY <1>1, <1>3 DEF UpTo
  <2>2. Cardinality(Firsts(F) \cup {n + 1}) = Cardinality(Firsts(F)) + 1
    BY <1>1, RanksFinite, FS_AddElement
  <2> QED  BY <2>1, <2>2 DEF Rank
<1> QED  BY <1>2, <1>3

\* An iteration over a failure whose errno is not about permissions.
LEMMA WalkSkips ==
  ASSUME NEW F \in Seq(Failure), NEW f \in Failure, NEW E \in Seq(PathError),
         Walked(F, E), f.errno = "ENOENT"
  PROVE  Walked(Append(F, f), E)
<1> DEFINE G == Append(F, f)
<1>0. Len(F) \in Nat
  OBVIOUS
<1>1. /\ Refusals(G) = Refusals(F) /\ Firsts(G) = Firsts(F)
      /\ \A i \in Refusals(F) : G[i] = F[i]
      /\ \A i \in Firsts(F) : i \in Refusals(F) /\ Rank(G, i) = Rank(F, i)
  <2>1. Joins(F, f, G, Len(F))
    BY <1>0, OneMoreFailure
  <2>2. \A i \in Firsts(F) : Rank(G, i) = Rank(F, i)
    BY <1>0, RanksStay
  <2> QED  BY <2>1, <2>2 DEF Joins
<1> HIDE DEF G
<1>2. \A i \in Firsts(F) : Op(G, i) = Op(F, i)
  BY <1>1 DEF Op
<1>3. Walked(G, E)
  BY <1>1, <1>2 DEF Walked
<1> QED  BY <1>3 DEF G

\* An iteration over a refusal whose path is new.
LEMMA WalkAdds ==
  ASSUME NEW F \in Seq(Failure), NEW f \in Failure, NEW E \in Seq(PathError),
         Walked(F, E), f.errno # "ENOENT",
         \A i \in DOMAIN E : E[i].path # Key(f)
  PROVE  Walked(Append(F, f), After(E, f))
<1> DEFINE G == Append(F, f)
           e == [path |-> Key(f), op |-> IF Writes(f) THEN "write" ELSE "stat"]
<1>0. PICK n \in Nat : n = Len(F)
  OBVIOUS
<1>1. \A j \in Refusals(F) : Key(F[j]) # Key(f)
  <2> SUFFICES ASSUME NEW j \in Refusals(F) PROVE Key(F[j]) # Key(f)
    OBVIOUS
  <2>1. PICK i \in Firsts(F) : Key(F[i]) = Key(F[j])
    BY DEF Walked
  <2>2. Rank(F, i) \in DOMAIN E /\ E[Rank(F, i)] = [path |-> Key(F[i]), op |-> Op(F, i)]
    BY DEF Walked
  <2> QED  BY <2>1, <2>2
<1>2. /\ Refusals(G) = Refusals(F) \cup {n + 1} /\ Firsts(G) = Firsts(F) \cup {n + 1}
      /\ G[n + 1] = f /\ \A i \in Refusals(F) : G[i] = F[i]
      /\ Firsts(F) \subseteq Refusals(F)
      /\ \A i \in Firsts(F) : Rank(G, i) = Rank(F, i)
      /\ Cardinality(Firsts(G)) = Cardinality(Firsts(F)) + 1
      /\ Rank(G, n + 1) = Cardinality(Firsts(F)) + 1
  <2>1. Joins(F, f, G, n)
    BY <1>0, OneMoreFailure
  <2>2. /\ Refusals(G) = Refusals(F) \cup {n + 1} /\ n + 1 \notin Firsts(F)
        /\ G[n + 1] = f /\ \A i \in Refusals(F) : G[i] = F[i]
        /\ Firsts(F) \subseteq Refusals(F)
    BY <2>1 DEF Joins
  <2>3. Firsts(G) = Firsts(F) \cup {n + 1}
    BY <1>1, <2>1 DEF Joins
  <2> QED  BY <1>0, <2>2, <2>3, RanksStay
<1>3. e \in PathError
  BY DEF PathError, Reports, Key, Failure
<1>4. After(E, f) = Append(E, e)
  BY DEF After
<1> HIDE DEF G
<1>5. Op(G, n + 1) = e.op
  BY <1>1, <1>2 DEF Op
<1>6. \A i \in Firsts(F) : Op(G, i) = Op(F, i)
  BY <1>1, <1>2 DEF Op
<1>7. /\ Len(E) \in Nat /\ Len(After(E, f)) = Len(E) + 1 /\ DOMAIN E = 1 .. Len(E)
      /\ DOMAIN After(E, f) = 1 .. Len(E) + 1 /\ After(E, f)[Len(E) + 1] = e
      /\ \A i \in DOMAIN E : After(E, f)[i] = E[i]
  BY <1>3, <1>4, Appended
<1>8. Len(E) = Cardinality(Firsts(F))
  BY DEF Walked
<1>9. ASSUME NEW i \in Firsts(G)
      PROVE  /\ Rank(G, i) \in DOMAIN After(E, f)
             /\ After(E, f)[Rank(G, i)] = [path |-> Key(G[i]), op |-> Op(G, i)]
  <2>1. CASE i \in Firsts(F)
    <3>1. Rank(F, i) \in DOMAIN E /\ E[Rank(F, i)] = [path |-> Key(F[i]), op |-> Op(F, i)]
      BY <2>1 DEF Walked
    <3> QED  BY <1>2, <1>6, <1>7, <2>1, <3>1
  <2>2. CASE i = n + 1
    BY <1>2, <1>5, <1>7, <1>8, <2>2
  <2> QED  BY <1>2, <2>1, <2>2
<1>10. ASSUME NEW k \in DOMAIN After(E, f) PROVE \E i \in Firsts(G) : Rank(G, i) = k
  <2>1. CASE k \in DOMAIN E
    BY <1>2, <2>1 DEF Walked
  <2>2. CASE k = Len(E) + 1
    BY <1>2, <1>8, <2>2
  <2> QED  BY <1>7, <2>1, <2>2
<1>11. ASSUME NEW j \in Refusals(G) PROVE \E i \in Firsts(G) : Key(G[i]) = Key(G[j])
  <2>1. CASE j \in Refusals(F)
    <3>1. PICK i \in Firsts(F) : Key(F[i]) = Key(F[j])
      BY <2>1 DEF Walked
    <3> QED  BY <1>2, <2>1, <3>1
  <2>2. CASE j = n + 1
    BY <1>2, <2>2
  <2> QED  BY <1>2, <2>1, <2>2
<1>12. Len(After(E, f)) = Cardinality(Firsts(G))
  BY <1>2, <1>7, <1>8
<1>13. Walked(G, After(E, f))
  BY <1>9, <1>10, <1>11, <1>12 DEF Walked
<1> QED  BY <1>13 DEF G

\* An iteration over a refusal whose path is known.
LEMMA WalkMerges ==
  ASSUME NEW F \in Seq(Failure), NEW f \in Failure, NEW E \in Seq(PathError),
         Walked(F, E), f.errno # "ENOENT",
         NEW k0 \in DOMAIN E, E[k0].path = Key(f)
  PROVE  Walked(Append(F, f), After(E, f))
<1> DEFINE G == Append(F, f)
<1>0. PICK n \in Nat : n = Len(F)
  OBVIOUS
<1>1. PICK i0 \in Firsts(F) : Key(F[i0]) = Key(f)
  <2>1. PICK i \in Firsts(F) : Rank(F, i) = k0
    BY DEF Walked
  <2>2. E[Rank(F, i)] = [path |-> Key(F[i]), op |-> Op(F, i)]
    BY DEF Walked
  <2> QED  BY <2>1, <2>2
<1>2. /\ Refusals(G) = Refusals(F) \cup {n + 1} /\ Firsts(G) = Firsts(F)
      /\ G[n + 1] = f /\ \A i \in Refusals(F) : G[i] = F[i]
      /\ Firsts(F) \subseteq Refusals(F)
      /\ \A i \in Firsts(F) : Rank(G, i) = Rank(F, i)
  <2>1. Joins(F, f, G, n)
    BY <1>0, OneMoreFailure
  <2>2. /\ Refusals(G) = Refusals(F) \cup {n + 1} /\ n + 1 \notin Firsts(F)
        /\ G[n + 1] = f /\ \A i \in Refusals(F) : G[i] = F[i]
        /\ Firsts(F) \subseteq Refusals(F)
    BY <2>1 DEF Joins
  <2>3. Firsts(G) = Firsts(F)
    BY <1>1, <2>1 DEF Joins
  <2>4. \A i \in Firsts(F) : Rank(G, i) = Rank(F, i)
    BY <1>0, RanksStay
  <2> QED  BY <2>2, <2>3, <2>4
<1> HIDE DEF G
<1>3. /\ Len(After(E, f)) = Len(E) /\ DOMAIN After(E, f) = DOMAIN E
      /\ \A k \in DOMAIN E :
           After(E, f)[k] = IF E[k].path = Key(f) /\ Writes(f)
                            THEN [E[k] EXCEPT !.op = "write"] ELSE E[k]
  BY DEF After
<1>4. ASSUME NEW i \in Firsts(F)
      PROVE  Op(G, i) = IF Key(F[i]) = Key(f) /\ Writes(f) THEN "write" ELSE Op(F, i)
  BY <1>2 DEF Op
<1>5. ASSUME NEW i \in Firsts(F)
      PROVE  /\ Rank(G, i) \in DOMAIN After(E, f)
             /\ After(E, f)[Rank(G, i)] = [path |-> Key(G[i]), op |-> Op(G, i)]
  <2>1. Rank(F, i) \in DOMAIN E /\ E[Rank(F, i)] = [path |-> Key(F[i]), op |-> Op(F, i)]
    BY DEF Walked
  <2> QED  BY <1>2, <1>3, <1>4, <2>1
<1>6. ASSUME NEW j \in Refusals(G) PROVE \E i \in Firsts(G) : Key(G[i]) = Key(G[j])
  <2>1. CASE j \in Refusals(F)
    <3>1. PICK i \in Firsts(F) : Key(F[i]) = Key(F[j])
      BY <2>1 DEF Walked
    <3> QED  BY <1>2, <2>1, <3>1
  <2>2. CASE j = n + 1
    BY <1>1, <1>2, <2>2
  <2> QED  BY <1>2, <2>1, <2>2
<1>7. \A k \in DOMAIN After(E, f) : \E i \in Firsts(G) : Rank(G, i) = k
  BY <1>2, <1>3 DEF Walked
<1>8. Walked(G, After(E, f))
  BY <1>2, <1>3, <1>5, <1>6, <1>7 DEF Walked
<1> QED  BY <1>8 DEF G

\* One iteration keeps the errors a walk over the failures so far.
LEMMA WalkGoesOn ==
  ASSUME NEW F \in Seq(Failure), NEW f \in Failure, NEW E \in Seq(PathError),
         Walked(F, E)
  PROVE  Walked(Append(F, f), After(E, f)) /\ After(E, f) \in Seq(PathError)
<1>1. CASE f.errno = "ENOENT"
  <2>1. After(E, f) = E
    BY <1>1 DEF After
  <2> QED  BY <1>1, <2>1, WalkSkips
<1>2. CASE f.errno # "ENOENT" /\ \A i \in DOMAIN E : E[i].path # Key(f)
  <2> DEFINE e == [path |-> Key(f), op |-> IF Writes(f) THEN "write" ELSE "stat"]
  <2>1. e \in PathError
    BY DEF PathError, Reports, Key, Failure
  <2>2. After(E, f) = Append(E, e)
    BY <1>2 DEF After
  <2> HIDE DEF e
  <2>3. After(E, f) \in Seq(PathError)
    BY <2>1, <2>2, Appended
  <2> QED  BY <1>2, <2>3, WalkAdds
<1>3. ASSUME f.errno # "ENOENT", NEW k \in DOMAIN E, E[k].path = Key(f)
      PROVE  Walked(Append(F, f), After(E, f)) /\ After(E, f) \in Seq(PathError)
  <2>1. /\ After(E, f) = [i \in DOMAIN E |-> After(E, f)[i]]
        /\ \A i \in DOMAIN E : After(E, f)[i] = E[i]
                               \/ After(E, f)[i] = [E[i] EXCEPT !.op = "write"]
    BY <1>3 DEF After
  <2>2. \A i \in DOMAIN E : After(E, f)[i] \in PathError
    <3>1. \A i \in DOMAIN E : E[i] \in PathError
      OBVIOUS
    <3>2. \A x \in PathError : [x EXCEPT !.op = "write"] \in PathError
      BY DEF PathError
    <3> QED  BY <2>1, <3>1, <3>2
  <2>3. After(E, f) \in Seq(PathError)
    <3>1. DOMAIN E = 1 .. Len(E) /\ Len(E) \in Nat
      OBVIOUS
    <3>2. After(E, f) \in [1 .. Len(E) -> PathError]
      BY <2>1, <2>2, <3>1
    <3> QED  BY <3>1, <3>2
  <2> QED  BY <1>3, <2>3, WalkMerges
<1> QED  BY <1>1, <1>2, <1>3

\* The walk's variables, at the head of an iteration.
Walking ==
  /\ failures \in Seq(Failure) /\ errs \in Seq(PathError)
  /\ Walked(failures, errs)

LEMMA WalkingInit == Init => Walking
<1> SUFFICES ASSUME Init PROVE Walking
  OBVIOUS
<1>1. failures = <<>> /\ errs = <<>>
  BY DEF Init
<1>2. Refusals(<<>>) = {} /\ Firsts(<<>>) = {} /\ Len(<<>>) = 0
  BY DEF Refusals, Firsts
<1>3. Walked(<<>>, <<>>)
  BY <1>2, FS_EmptySet DEF Walked
<1> QED  BY <1>1, <1>3 DEF Walking

LEMMA WalkingNext == Walking /\ [Next]_vars => Walking'
<1> SUFFICES ASSUME Walking, [Next]_vars PROVE Walking'
  OBVIOUS
<1>1. ASSUME NEW step \in Steps, NEW raw \in BOOLEAN,
             NEW errno \in {"EACCES", "EPERM", "ENOENT"}, Aggregate(step, raw, errno)
      PROVE  Walking'
  <2> DEFINE f == [step |-> step, raw |-> raw, errno |-> errno]
  <2>1. f \in Failure /\ failures' = Append(failures, f)
    BY <1>1 DEF Aggregate, Failure
  <2>2. errs' = After(errs, f)
    BY <1>1 DEF Aggregate, After, Key, Writes
  <2> HIDE DEF f
  <2>3. failures \in Seq(Failure) /\ errs \in Seq(PathError) /\ Walked(failures, errs)
    BY DEF Walking
  <2>4. failures' \in Seq(Failure)
    BY <2>1, <2>3
  <2>5. Walked(failures', errs') /\ errs' \in Seq(PathError)
    BY <2>1, <2>2, <2>3, WalkGoesOn
  <2> QED  BY <2>4, <2>5 DEF Walking
<1>2. CASE Climb \/ UNCHANGED vars
  BY <1>2 DEF Climb, vars, aggregateVars, Walking
<1> QED  BY <1>1, <1>2 DEF Next

\* PtraceDenials, in the words of this module.
LEMMA DenialsAre ==
  ASSUME NEW F \in Seq(Failure), NEW c, c.script = [i \in DOMAIN F |-> F[i].step],
         NEW raw, raw = {i \in Refusals(F) : F[i].raw}
  PROVE  LET denials == PtraceDenials(c, Refusals(F), raw) IN
         /\ DOMAIN denials = Firsts(F)
         /\ \A i \in Firsts(F) :
              denials[i] = [path |-> Key(F[i]).path,
                            mode |-> modeFromPathError(Op(F, i), "ro")]
<1>1. \A i \in Refusals(F) : /\ c.script[i] = F[i].step /\ F[i].step \in Steps
                             /\ (i \in raw) = F[i].raw
  <2>1. \A i \in Refusals(F) : i \in DOMAIN F /\ F[i] \in Failure
    BY DEF Refusals
  <2>2. \A x \in Failure : x.step \in Steps /\ x.raw \in BOOLEAN
    BY DEF Failure
  <2>3. \A i \in Refusals(F) : i \in raw <=> F[i].raw
    OBVIOUS
  <2> QED  BY <2>1, <2>2, <2>3
<1>2. Traced(c, Refusals(F)) = Refusals(F)
  BY <1>1, LoopsAssumption DEF Traced
<1>3. \A i \in Refusals(F) : Reported(c.script[i], i \in raw) = Key(F[i])
  BY <1>1 DEF Key
<1>4. {i \in Refusals(F) : \A j \in Refusals(F) :
         j < i => Reported(c.script[j], j \in raw) # Reported(c.script[i], i \in raw)}
        = Firsts(F)
  BY <1>3 DEF Firsts
<1>5. \A i \in Refusals(F) :
        Op(F, i) = IF \E j \in Refusals(F) :
                         /\ Reported(c.script[j], j \in raw)
                              = Reported(c.script[i], i \in raw)
                         /\ IntentOf(c.script[j].sys) = "write"
                   THEN "write" ELSE "stat"
  <2> SUFFICES ASSUME NEW i \in Refusals(F)
               PROVE  (\E j \in Refusals(F) : Key(F[j]) = Key(F[i]) /\ Writes(F[j]))
                        <=> \E j \in Refusals(F) :
                              /\ Reported(c.script[j], j \in raw)
                                   = Reported(c.script[i], i \in raw)
                              /\ IntentOf(c.script[j].sys) = "write"
    BY Zenon DEF Op
  <2>1. \A j \in Refusals(F) : Writes(F[j]) <=> IntentOf(c.script[j].sys) = "write"
    BY <1>1 DEF Writes
  <2> QED  BY <1>3, <2>1
<1>6. Firsts(F) \subseteq Refusals(F)
  BY DEF Firsts
<1> QED  BY <1>2, <1>3, <1>4, <1>5, <1>6 DEF PtraceDenials

\* However many calls fail, in whatever order and however often on the same path, the
\* denials that leave the child are the distinct paths in the order in which they
\* were first refused, each read-write if any of its refusals was for writing.
THEOREM AggregationIsPtraceDenials == Spec => []AggregationAgrees
<1>1. ASSUME Walking PROVE AggregationAgrees
  <2> DEFINE refusals == {i \in DOMAIN failures : failures[i].errno # "ENOENT"}
             raw == {i \in refusals : failures[i].raw}
             denials == PtraceDenials(Script, refusals, raw)
             rank(i) == Cardinality({j \in DOMAIN denials : j <= i})
  <2>1. failures \in Seq(Failure) /\ Walked(failures, errs)
    BY <1>1 DEF Walking
  <2>2. refusals = Refusals(failures)
    BY DEF Refusals
  <2>3. Script.script = [i \in DOMAIN failures |-> failures[i].step]
    BY DEF Script
  <2>4. /\ DOMAIN denials = Firsts(failures)
        /\ \A i \in Firsts(failures) :
             denials[i] = [path |-> Key(failures[i]).path,
                           mode |-> modeFromPathError(Op(failures, i), "ro")]
    <3> HIDE DEF denials
    <3>1. raw = {i \in Refusals(failures) : failures[i].raw}
      BY <2>2
    <3>2. denials = PtraceDenials(Script, Refusals(failures), raw)
      BY <2>2 DEF denials
    <3> HIDE DEF raw, refusals
    <3> QED  BY <2>1, <2>3, <3>1, <3>2, DenialsAre
  <2> HIDE DEF denials
  <2>5. \A i \in DOMAIN denials : rank(i) = Rank(failures, i)
    BY <2>4 DEF Rank, UpTo
  <2> HIDE DEF rank
  <2>6. Len(errs) = Cardinality(DOMAIN denials)
    BY <2>1, <2>4 DEF Walked
  <2>7. \A i \in DOMAIN denials : /\ denials[i].path = errs[rank(i)].path.path
                                  /\ denials[i].mode = modeFromPathError(errs[rank(i)].op, "ro")
    <3> SUFFICES ASSUME NEW i \in DOMAIN denials
                 PROVE  /\ denials[i].path = errs[rank(i)].path.path
                        /\ denials[i].mode = modeFromPathError(errs[rank(i)].op, "ro")
      OBVIOUS
    <3>1. errs[rank(i)] = [path |-> Key(failures[i]), op |-> Op(failures, i)]
      BY <2>1, <2>4, <2>5 DEF Walked
    <3> QED  BY <2>4, <3>1
  <2> QED  BY <2>6, <2>7 DEF AggregationAgrees, denials, rank
<1> QED  BY <1>1, WalkingInit, WalkingNext, PTL DEF Spec
=============================================================================
