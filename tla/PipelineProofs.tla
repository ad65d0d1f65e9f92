------------------------- MODULE PipelineProofs -------------------------
(***************************************************************************)
(* Theorems about a project that is checked and measured.                  *)
(*                                                                         *)
(* First the pass over the classes, for every sequence of files.  The      *)
(* depths the recursion remembers are the lengths of the longest chains of *)
(* bases, no name is resolved inside its own resolution, and every name    *)
(* has its depth in the end (IInv).  Every reference from class to class   *)
(* is counted at both of them (Counted), for which sums are told to be the *)
(* numbers of pairs they count.  The walks over a syntax tree count what   *)
(* is nested once, since what is above a node is a line.                   *)
(*                                                                         *)
(* Then the check before it: each rule speaks once of a place, and what is *)
(* known of a file that was scanned is what its rules say of it (LintInv). *)
(* From this the two commands agree about nesting and broad handlers, and  *)
(* acknowledgements only take findings away.                               *)
(*                                                                         *)
(* Last, the cohesion of a class: what its union-find forests count is     *)
(* what its links, taken as a graph, say (CohesionAlwaysAgrees).           *)
(***************************************************************************)
EXTENDS Pipeline, FoldProofs, TLAPS

\* Values each of which a step leads to from the one before.
Climbs(f, start, step, n) ==
  /\ f[0] = start
  /\ \A k \in 1..n : f[k] = step[f[k - 1]]

LEMMA CanClimb ==
  ASSUME NEW n \in Nat, NEW start, NEW step
  PROVE  \E f : Climbs(f, start, step, n)
<1> DEFINE S == {m \in Nat : \E f : Climbs(f, start, step, m)}
<1>1. 0 \in S
  <2> DEFINE f == [k \in {0} |-> start]
  <2>1. Climbs(f, start, step, 0)
    BY DEF Climbs
  <2>2. QED
    BY <2>1
<1>2. ASSUME NEW m \in 1..n, m - 1 \in S PROVE m \in S
  <2>1. PICK f : Climbs(f, start, step, m - 1)
    BY <1>2
  <2> DEFINE g == [k \in 0..m |-> IF k = m THEN step[f[m - 1]] ELSE f[k]]
  <2>2. g[0] = start
    BY <2>1 DEF Climbs
  <2>3. ASSUME NEW k \in 1..m PROVE g[k] = step[g[k - 1]]
    <3>1. g[k - 1] = f[k - 1]
      OBVIOUS
    <3>2. k # m => f[k] = step[f[k - 1]]
      <4>1. k # m => k \in 1..(m - 1)
        BY <1>2
      <4>2. QED
        BY <2>1, <4>1 DEF Climbs
    <3>3. QED
      BY <3>1, <3>2
  <2>4. Climbs(g, start, step, m)
    BY <2>2, <2>3 DEF Climbs
  <2>5. QED
    BY <2>4
<1>3. 0..n \subseteq S
  <2> HIDE DEF S
  <2>1. QED
    BY <1>1, <1>2, Upward
<1>4. QED
  BY <1>3

-----------------------------------------------------------------------------
(* The levels of inheritance. *)

Levels == Cardinality(DOMAIN basesOf)

\* A base of the name is in the set.
Leads(name, set) == \E p \in DOMAIN basesOf[name] : basesOf[name][p] \in set

LEMMA MeetsIsLeads ==
  ASSUME NEW name, NEW set
  PROVE  (Range(basesOf[name]) \cap set # {}) <=> Leads(name, set)
BY DEF Range, Leads

LEMMA DeepUnfolds ==
  ASSUME IsFiniteSet(DOMAIN basesOf)
  PROVE  /\ Levels \in Nat
         /\ Deep[0] = DOMAIN basesOf
         /\ \A k \in 1..Levels :
              \A name : name \in Deep[k] <=> name \in DOMAIN basesOf /\ Leads(name, Deep[k - 1])
<1> DEFINE D == DOMAIN basesOf
           n == Levels
           step == [S \in SUBSET D |-> {name \in D : Range(basesOf[name]) \cap S # {}}]
<1>1. n \in Nat
  BY FS_CardinalityType DEF Levels
<1>2. PICK h : Climbs(h, D, step, n)
  <2> HIDE DEF D, n, step
  <2>1. QED
    BY <1>1, CanClimb
<1>3. \A k \in 0..n : h[k] \in SUBSET D
  <2> DEFINE S == {k \in 0..n : h[k] \in SUBSET D}
  <2>1. 0 \in S
    BY <1>1, <1>2 DEF Climbs
  <2>2. ASSUME NEW k \in 1..n, k - 1 \in S PROVE k \in S
    <3>1. h[k] = step[h[k - 1]] /\ h[k - 1] \in SUBSET D
      BY <1>2, <2>2 DEF Climbs
    <3>2. step[h[k - 1]] \in SUBSET D
      BY <3>1
    <3>3. QED
      BY <1>1, <3>1, <3>2
  <2>3. 0..n \subseteq S
    <3> HIDE DEF S, n
    <3>1. QED
      BY <1>1, <2>1, <2>2, Upward
  <2>4. QED
    BY <2>3
<1> DEFINE f == [k \in 0..n |-> h[k]]
<1>4. ASSUME NEW k \in 0..n
      PROVE  f[k] = IF k = 0 THEN D ELSE {name \in D : Range(basesOf[name]) \cap f[k - 1] # {}}
  <2>1. CASE k = 0
    BY <1>2, <2>1 DEF Climbs
  <2>2. CASE k # 0
    <3>1. k \in 1..n /\ k - 1 \in 0..n
      BY <1>1, <2>2
    <3>2. f[k] = h[k] /\ f[k - 1] = h[k - 1] /\ h[k] = step[h[k - 1]] /\ h[k - 1] \in SUBSET D
      BY <1>2, <1>3, <3>1 DEF Climbs
    <3> HIDE DEF f, D, n
    <3>3. QED
      BY <2>2, <3>2, Zenon
  <2>3. QED
    BY <2>1, <2>2
<1>5. f = [k \in 0..n |->
             IF k = 0 THEN D ELSE {name \in D : Range(basesOf[name]) \cap f[k - 1] # {}}]
  <2>1. f = [k \in 0..n |-> f[k]]
    OBVIOUS
  <2> HIDE DEF f, D, n
  <2>2. QED
    BY <1>4, <2>1, Zenon
<1>6. Deep = [k \in 0..n |->
                IF k = 0 THEN D ELSE {name \in D : Range(basesOf[name]) \cap Deep[k - 1] # {}}]
  <2> HIDE DEF f
  <2>1. QED
    BY <1>5, Zenon DEF Deep, Levels
<1>7. Deep[0] = D
  <2>1. 0 \in 0..n
    BY <1>1
  <2> HIDE DEF D, n
  <2>2. QED
    BY <1>6, <2>1, Zenon
<1>8. ASSUME NEW k \in 1..n
      PROVE  Deep[k] = {name \in D : Range(basesOf[name]) \cap Deep[k - 1] # {}}
  <2>1. k \in 0..n /\ k # 0
    BY <1>1
  <2> HIDE DEF D, n
  <2>2. QED
    BY <1>6, <2>1, Zenon
<1>9. ASSUME NEW k \in 1..n, NEW name
      PROVE  name \in Deep[k] <=> name \in D /\ Leads(name, Deep[k - 1])
  <2>1. name \in Deep[k] <=> name \in D /\ Range(basesOf[name]) \cap Deep[k - 1] # {}
    <3> HIDE DEF D, n
    <3>1. QED
      BY <1>8, Zenon
  <2>2. QED
    BY <2>1, MeetsIsLeads
<1>10. QED
  BY <1>1, <1>7, <1>9

\* The levels lie in each other, a name above which the bases lead into a cycle
\* makes those endless that have it as a base, and a set of names each of which
\* has a base in the set is endless.
LEMMA DeepFacts ==
  ASSUME IsFiniteSet(DOMAIN basesOf)
  PROVE  /\ \A k \in 0..Levels : Deep[k] \subseteq DOMAIN basesOf
         /\ \A name \in DOMAIN basesOf : \A p \in DOMAIN basesOf[name] :
              Endless(basesOf[name][p]) => Endless(name)
         /\ \A set \in SUBSET DOMAIN basesOf :
              (\A name \in set : Leads(name, set)) => \A name \in set : Endless(name)
<1> DEFINE D == DOMAIN basesOf
<1>1. /\ Levels \in Nat /\ Deep[0] = D
      /\ \A k \in 1..Levels : \A name : name \in Deep[k] <=> name \in D /\ Leads(name, Deep[k - 1])
  BY DeepUnfolds
<1>2. ASSUME NEW k \in 0..Levels PROVE Deep[k] \subseteq D
  <2>1. k = 0 \/ k \in 1..Levels
    BY <1>1
  <2>2. QED
    BY <1>1, <2>1
<1>3. \A k \in 1..Levels : Deep[k] \subseteq Deep[k - 1]
  <2> DEFINE S == {k \in 0..Levels : k > 0 => Deep[k] \subseteq Deep[k - 1]}
  <2>1. 0 \in S
    BY <1>1
  <2>2. ASSUME NEW k \in 1..Levels, k - 1 \in S PROVE k \in S
    <3>1. CASE k = 1
      <4>1. Deep[1] \subseteq Deep[0]
        BY <1>1, <1>2, <3>1
      <4>2. QED
        BY <1>1, <3>1, <4>1
    <3>2. CASE k > 1
      <4>1. k - 1 \in 1..Levels /\ Deep[k - 1] \subseteq Deep[k - 1 - 1]
        BY <1>1, <2>2, <3>2
      <4>2. \A name : Leads(name, Deep[k - 1]) => Leads(name, Deep[k - 1 - 1])
        BY <4>1 DEF Leads
      <4>3. Deep[k] \subseteq Deep[k - 1]
        BY <1>1, <4>1, <4>2
      <4>4. QED
        BY <1>1, <4>3
    <3>3. QED
      BY <1>1, <3>1, <3>2
  <2>3. 0..Levels \subseteq S
    <3> HIDE DEF S
    <3>1. QED
      BY <1>1, <2>1, <2>2, Upward
  <2>4. QED
    BY <1>1, <2>3
<1>4. ASSUME NEW name \in D, NEW p \in DOMAIN basesOf[name], Endless(basesOf[name][p])
      PROVE  Endless(name)
  <2>1. basesOf[name][p] \in Deep[Levels]
    BY <1>4 DEF Endless, Levels
  <2>2. CASE Levels = 0
    BY <1>1, <2>2 DEF Endless, Levels
  <2>3. CASE Levels # 0
    <3>1. Levels \in 1..Levels
      BY <1>1, <2>3
    <3>2. basesOf[name][p] \in Deep[Levels - 1]
      BY <1>3, <2>1, <3>1
    <3>3. Leads(name, Deep[Levels - 1])
      BY <3>2 DEF Leads
    <3>4. name \in Deep[Levels]
      BY <1>1, <3>1, <3>3
    <3>5. QED
      BY <3>4 DEF Endless, Levels
  <2>4. QED
    BY <2>2, <2>3
<1>5. ASSUME NEW set \in SUBSET D, \A name \in set : Leads(name, set), NEW name \in set
      PROVE  Endless(name)
  <2> DEFINE S == {k \in 0..Levels : set \subseteq Deep[k]}
  <2>1. 0 \in S
    BY <1>1
  <2>2. ASSUME NEW k \in 1..Levels, k - 1 \in S PROVE k \in S
    <3>1. \A n \in set : Leads(n, Deep[k - 1])
      BY <1>5, <2>2 DEF Leads
    <3>2. set \subseteq Deep[k]
      BY <1>1, <3>1
    <3>3. QED
      BY <1>1, <3>2
  <2>3. 0..Levels \subseteq S
    <3> HIDE DEF S
    <3>1. QED
      BY <1>1, <2>1, <2>2, Upward
  <2>4. Levels \in S
    BY <1>1, <2>3
  <2>5. QED
    BY <2>4 DEF Endless, Levels
<1>6. QED
  BY <1>2, <1>4, <1>5

\* The number of levels above the name.
Exact(name, depth) ==
  /\ depth \in 0..Levels
  /\ name \in Deep[depth]
  /\ \A k \in 0..Levels : name \in Deep[k] => k <= depth

LEMMA ExactIsLongest ==
  ASSUME NEW name, NEW depth, Exact(name, depth)
  PROVE  depth = LongestChain(name)
<1> DEFINE S == {k \in 0..Levels : name \in Deep[k]}
<1>1. depth \in S /\ \A k \in S : depth >= k
  BY DEF Exact
<1>2. \A k \in S : k \in Int
  OBVIOUS
<1>3. LongestChain(name) = Max(S)
  BY DEF LongestChain, Levels
<1> HIDE DEF S
<1>4. \A k \in S : (\A m \in S : k >= m) => k = depth
  BY <1>1, <1>2
<1>5. Max(S) = depth
  BY <1>1, <1>4 DEF Max
<1>6. QED
  BY <1>3, <1>5

-----------------------------------------------------------------------------
(* The inductive invariant. *)

Places == UNION {DOMAIN basesOf[name] : name \in DOMAIN basesOf}
Frames == [name : DOMAIN basesOf, todo : SUBSET Places, best : Nat]

\* A call holds no more levels than there are above its name.
Sound(frame) ==
  ~Endless(frame.name) => frame.best \in 0..Levels /\ frame.name \in Deep[frame.best]

\* A call holds the levels of the bases it is done with, all but the one it
\* awaits the answer of.
Complete(frame, awaited) ==
  ~Endless(frame.name) =>
    \A p \in DOMAIN basesOf[frame.name] \ frame.todo :
      basesOf[frame.name][p] \notin awaited =>
        \A k \in 1..Levels : basesOf[frame.name][p] \in Deep[k - 1] => k <= frame.best

Awaited(frames, j) == {frames[i].name : i \in {i \in DOMAIN frames : i = j + 1}}

\* The calls under way: each is made for a base of the one before.
CallsOK(frames) ==
  /\ frames \in Seq(Frames)
  /\ \A j \in DOMAIN frames : frames[j].todo \subseteq DOMAIN basesOf[frames[j].name]
  /\ \A j \in DOMAIN frames : Awaited(frames, j) # {} => Leads(frames[j].name, Awaited(frames, j))
  /\ \A i, k \in DOMAIN frames : frames[i].name = frames[k].name => i = k
  /\ \A j \in DOMAIN frames : Sound(frames[j]) /\ Complete(frames[j], Awaited(frames, j))

\* The depths that are remembered are right.
CacheOK ==
  \A name \in DOMAIN cache :
    /\ name \in DOMAIN basesOf
    /\ cache[name] \in Nat
    /\ ~Endless(name) => Exact(name, cache[name])

\* No name is forgotten.
Tracked ==
  \A name \in DOMAIN basesOf :
    name \in DOMAIN cache \/ OnPath(name) \/ \E i \in queue : NameOrder[i] = name

\* What is still to be asked for is a name of a class.
QueueOK == \A i \in queue : NameOrder[i] \in DOMAIN basesOf

Untouched ==
  /\ files \in Projects
  /\ metrics = [i \in DOMAIN files |-> FileMetrics(files[i])]
  /\ basesOf = <<>> /\ queue = {} /\ cache = <<>>

IInv ==
  /\ pc \in {"index", "depth", "count", "done"}
  /\ pc = "index" => Untouched
  /\ pc = "depth" => Tracked
  /\ pc \in {"count", "done"} => DOMAIN cache = DOMAIN basesOf
  /\ pc # "depth" => path = <<>>
  /\ IsFiniteSet(DOMAIN basesOf)
  /\ QueueOK
  /\ CallsOK(path)
  /\ CacheOK

-----------------------------------------------------------------------------
(* What the steps make of the calls under way. *)

LEMMA ExceptAt ==
  ASSUME NEW S, NEW s, s \in Seq(S), s # <<>>, NEW e \in S
  PROVE  LET t == [s EXCEPT ![Len(s)] = e]
         IN  /\ t \in Seq(S)
             /\ Len(s) \in Nat /\ Len(s) \in DOMAIN s /\ s[Len(s)] \in S
             /\ DOMAIN t = DOMAIN s /\ Len(t) = Len(s)
             /\ \A j \in DOMAIN s : j # Len(s) => t[j] = s[j]
             /\ t[Len(s)] = e
OBVIOUS

LEMMA TakenFacts ==
  ASSUME path \in Seq(Frames), path # <<>>, NEW p
  PROVE  /\ Taken(p) \in Seq(Frames)
         /\ Len(path) \in Nat /\ Len(path) \in DOMAIN path
         /\ DOMAIN Taken(p) = DOMAIN path /\ Len(Taken(p)) = Len(path)
         /\ \A j \in DOMAIN path : j # Len(path) => Taken(p)[j] = path[j]
         /\ Top \in Frames /\ Taken(p)[Len(path)] \in Frames
         /\ Taken(p)[Len(path)].name = Top.name
         /\ Taken(p)[Len(path)].todo = Top.todo \ {p}
         /\ Taken(p)[Len(path)].best = Top.best
<1> DEFINE e == [Top EXCEPT !.todo = @ \ {p}]
<1>1. Top \in Frames
  BY ExceptAt DEF Top
<1>2. e \in Frames /\ e.name = Top.name /\ e.todo = Top.todo \ {p} /\ e.best = Top.best
  BY <1>1 DEF Frames
<1>3. Taken(p) = [path EXCEPT ![Len(path)] = e]
  BY DEF Taken, Top
<1> HIDE DEF e
<1>4. QED
  BY <1>1, <1>2, <1>3, ExceptAt

LEMMA DeeperFacts ==
  ASSUME NEW frames, frames \in Seq(Frames), frames # <<>>, NEW depth \in Nat
  PROVE  \E best \in Nat :
           /\ Deeper(frames, depth) \in Seq(Frames)
           /\ Len(frames) \in Nat /\ Len(frames) \in DOMAIN frames
           /\ DOMAIN Deeper(frames, depth) = DOMAIN frames /\ Len(Deeper(frames, depth)) = Len(frames)
           /\ \A j \in DOMAIN frames : j # Len(frames) => Deeper(frames, depth)[j] = frames[j]
           /\ Deeper(frames, depth)[Len(frames)].name = frames[Len(frames)].name
           /\ Deeper(frames, depth)[Len(frames)].todo = frames[Len(frames)].todo
           /\ Deeper(frames, depth)[Len(frames)].best = best
           /\ best >= frames[Len(frames)].best
           /\ best >= 1 + depth
           /\ best \in {frames[Len(frames)].best, 1 + depth}
<1> DEFINE f == frames[Len(frames)]
           best == IF f.best >= 1 + depth THEN f.best ELSE 1 + depth
           e == [f EXCEPT !.best = best]
<1>1. f \in Frames
  BY ExceptAt
<1>2. f.best \in Nat /\ best \in Nat /\ best >= f.best /\ best >= 1 + depth /\ best \in {f.best, 1 + depth}
  <2>1. f.best \in Nat
    BY <1>1 DEF Frames
  <2> HIDE DEF f
  <2>2. QED
    BY <2>1
<1>3. e \in Frames /\ e.name = f.name /\ e.todo = f.todo /\ e.best = best
  <2> HIDE DEF f, best
  <2>1. QED
    BY <1>1, <1>2 DEF Frames
<1>4. Deeper(frames, depth) = [frames EXCEPT ![Len(frames)] = e]
  BY Zenon DEF Deeper
<1> HIDE DEF best
<1> HIDE DEF e
<1>6. LET t == [frames EXCEPT ![Len(frames)] = e]
      IN  /\ t \in Seq(Frames)
          /\ Len(frames) \in Nat /\ Len(frames) \in DOMAIN frames
          /\ DOMAIN t = DOMAIN frames /\ Len(t) = Len(frames)
          /\ \A j \in DOMAIN frames : j # Len(frames) => t[j] = frames[j]
          /\ t[Len(frames)] = e
  BY <1>3, ExceptAt
<1>7. QED
  <2> USE <1>2
  <2> WITNESS best \in Nat
  <2>1. QED
    BY <1>1, <1>2, <1>3, <1>4, <1>6

\* The levels as a function of the bases.
DeepOver(bases) ==
  CHOOSE deep :
    deep = [k \in 0..Cardinality(DOMAIN bases) |->
              IF k = 0 THEN DOMAIN bases
              ELSE {name \in DOMAIN bases : Range(bases[name]) \cap deep[k - 1] # {}}]

\* What is said of calls stays true while the bases do.
LEMMA SameBases ==
  ASSUME UNCHANGED basesOf
  PROVE  /\ Levels' = Levels
         /\ \A frames : CallsOK(frames)' <=> CallsOK(frames)
         /\ \A name : Endless(name)' <=> Endless(name)
         /\ \A name, depth : Exact(name, depth)' <=> Exact(name, depth)
<1>1. Levels' = Levels
  BY DEF Levels
<1>2. Deep' = Deep
  <2>1. Deep = DeepOver(basesOf)
    BY Zenon DEF Deep, DeepOver
  <2>2. Deep' = DeepOver(basesOf')
    BY Zenon DEF Deep, DeepOver
  <2>3. QED
    BY <2>1, <2>2
<1>3. \A name : Endless(name)' <=> Endless(name)
  BY <1>2 DEF Endless
<1>4. \A name, depth : Exact(name, depth)' <=> Exact(name, depth)
  BY <1>1, <1>2 DEF Exact
<1>5. Frames' = Frames
  BY DEF Frames, Places
<1>6. \A frame : Sound(frame)' <=> Sound(frame)
  BY <1>1, <1>2, <1>3, Zenon DEF Sound
<1>7. \A frame, awaited : Complete(frame, awaited)' <=> Complete(frame, awaited)
  BY <1>1, <1>2, <1>3, Zenon DEF Complete
<1>8. \A name, set : Leads(name, set)' <=> Leads(name, set)
  BY DEF Leads
<1>9. \A frames : CallsOK(frames)' <=> CallsOK(frames)
  BY <1>5, <1>6, <1>7, <1>8, Zenon DEF CallsOK
<1>10. QED
  BY <1>1, <1>3, <1>4, <1>9

\* A call that goes on keeps the calls before it as they are.
LEMMA TopMoves ==
  ASSUME CallsOK(path), path # <<>>,
         NEW frames, frames \in Seq(Frames),
         DOMAIN frames = DOMAIN path, Len(frames) = Len(path),
         \A j \in DOMAIN path : j # Len(path) => frames[j] = path[j],
         frames[Len(path)].name = Top.name,
         frames[Len(path)].todo \subseteq Top.todo,
         Sound(frames[Len(path)]), Complete(frames[Len(path)], {})
  PROVE  CallsOK(frames)
<1>1. path \in Seq(Frames) /\ Len(path) \in Nat /\ DOMAIN path = 1..Len(path)
  BY DEF CallsOK
<1>2. \A j \in DOMAIN path : frames[j].name = path[j].name /\ frames[j].todo \subseteq path[j].todo
  BY DEF Top
<1>3. \A j : Awaited(frames, j) = Awaited(path, j)
  BY <1>2 DEF Awaited
<1>4. Awaited(frames, Len(path)) = {}
  BY <1>1 DEF Awaited
<1>5. ASSUME NEW j \in DOMAIN frames
      PROVE  Sound(frames[j]) /\ Complete(frames[j], Awaited(frames, j))
  <2>1. CASE j = Len(path)
    BY <1>4, <2>1
  <2>2. CASE j # Len(path)
    BY <1>3, <2>2 DEF CallsOK
  <2>3. QED
    BY <2>1, <2>2
<1>6. QED
  BY <1>2, <1>3, <1>5 DEF CallsOK

\* A call awaits the answer of the base it has taken.
LEMMA AwaitTaken ==
  ASSUME NEW frame \in Frames, Sound(frame), Complete(frame, {}), NEW p,
         NEW taken, taken.name = frame.name, taken.todo = frame.todo \ {p}, taken.best = frame.best
  PROVE  Sound(taken) /\ Complete(taken, {basesOf[frame.name][p]})
BY DEF Sound, Complete

\* With the depth of the base it awaits, it has all of the levels there are.
LEMMA Credit ==
  ASSUME IsFiniteSet(DOMAIN basesOf),
         NEW frame \in Frames, NEW p \in DOMAIN basesOf[frame.name],
         Sound(frame), Complete(frame, {basesOf[frame.name][p]}),
         NEW depth \in Nat,
         ~Endless(basesOf[frame.name][p]) => Exact(basesOf[frame.name][p], depth),
         NEW best \in Nat, best >= frame.best, best >= 1 + depth, best \in {frame.best, 1 + depth},
         NEW more, more.name = frame.name, more.todo = frame.todo, more.best = best
  PROVE  Sound(more) /\ Complete(more, {})
<1> DEFINE name == frame.name
           base == basesOf[frame.name][p]
<1>2. name \in DOMAIN basesOf /\ frame.best \in Nat
  BY DEF Frames
<1>3. SUFFICES ASSUME ~Endless(name)
               PROVE  /\ best \in 0..Levels /\ name \in Deep[best]
                      /\ \A q \in DOMAIN basesOf[name] \ frame.todo : \A k \in 1..Levels :
                           basesOf[name][q] \in Deep[k - 1] => k <= best
  BY DEF Sound, Complete
<1>4. Exact(base, depth)
  BY <1>2, <1>3, DeepFacts
<1>5. Levels \in Nat /\ depth \in 0..(Levels - 1)
  <2>1. base \notin Deep[Levels]
    BY <1>2, <1>3, DeepFacts DEF Endless, Levels
  <2>2. depth # Levels
    BY <1>4, <2>1 DEF Exact
  <2>3. QED
    BY <1>4, <2>2, DeepUnfolds DEF Exact
<1>6. name \in Deep[1 + depth]
  <2>1. 1 + depth \in 1..Levels /\ (1 + depth) - 1 = depth
    BY <1>5
  <2>2. Leads(name, Deep[depth])
    BY <1>4 DEF Exact, Leads
  <2>3. QED
    BY <1>2, <2>1, <2>2, DeepUnfolds
<1>7. best \in 0..Levels /\ name \in Deep[best]
  <2>1. frame.best \in 0..Levels /\ name \in Deep[frame.best]
    BY <1>3 DEF Sound
  <2>2. QED
    BY <1>5, <1>6, <2>1
<1>8. ASSUME NEW q \in DOMAIN basesOf[name] \ frame.todo, NEW k \in 1..Levels,
             basesOf[name][q] \in Deep[k - 1]
      PROVE  k <= best
  <2>1. CASE basesOf[name][q] = base
    <3>1. k - 1 \in 0..Levels /\ k - 1 <= depth
      BY <1>4, <1>5, <1>8, <2>1 DEF Exact
    <3>2. QED
      BY <3>1
  <2>2. CASE basesOf[name][q] # base
    <3>1. k <= frame.best
      BY <1>3, <1>8, <2>2 DEF Complete
    <3>2. QED
      BY <1>2, <1>5, <3>1
  <2>3. QED
    BY <2>1, <2>2
<1>9. QED
  BY <1>7, <1>8

LEMMA PathFacts ==
  ASSUME CallsOK(path), path # <<>>
  PROVE  /\ path \in Seq(Frames) /\ Len(path) \in Nat /\ Len(path) \in DOMAIN path
         /\ DOMAIN path = 1..Len(path) /\ Top \in Frames
         /\ \A j \in DOMAIN path : path[j] \in Frames
<1>1. path \in Seq(Frames)
  BY DEF CallsOK
<1>2. QED
  BY <1>1 DEF Top

LEMMA TopFacts ==
  ASSUME CallsOK(path), path # <<>>
  PROVE  /\ Top \in Frames /\ Top.name \in DOMAIN basesOf
         /\ Top.todo \subseteq DOMAIN basesOf[Top.name]
         /\ Sound(Top) /\ Complete(Top, {})
<1>1. /\ path \in Seq(Frames) /\ Len(path) \in Nat /\ Len(path) \in DOMAIN path
      /\ DOMAIN path = 1..Len(path) /\ Top \in Frames
  BY PathFacts
<1>2. Awaited(path, Len(path)) = {}
  BY <1>1 DEF Awaited
<1>3. QED
  BY <1>1, <1>2 DEF CallsOK, Top, Frames

\* The call under way with the base at p taken, and then with its depth.
LEMMA TakenCalls ==
  ASSUME IsFiniteSet(DOMAIN basesOf), CallsOK(path), path # <<>>, NEW p \in Top.todo
  PROVE  /\ Taken(p) \in Seq(Frames) /\ Taken(p) # <<>>
         /\ Taken(p)[Len(path)] \in Frames
         /\ Taken(p)[Len(path)].name = Top.name
         /\ Taken(p)[Len(path)].todo = Top.todo \ {p}
         /\ Sound(Taken(p)[Len(path)])
         /\ Complete(Taken(p)[Len(path)], {basesOf[Top.name][p]})
<1>1. Top \in Frames /\ Sound(Top) /\ Complete(Top, {})
  BY TopFacts
<1>2. /\ Taken(p) \in Seq(Frames) /\ Len(Taken(p)) = Len(path) /\ Len(path) \in DOMAIN path
      /\ DOMAIN Taken(p) = DOMAIN path
      /\ Taken(p)[Len(path)] \in Frames
      /\ Taken(p)[Len(path)].name = Top.name /\ Taken(p)[Len(path)].todo = Top.todo \ {p}
      /\ Taken(p)[Len(path)].best = Top.best
  BY TakenFacts DEF CallsOK
<1>3. Taken(p) # <<>>
  BY <1>2, PathFacts
<1>4. QED
  BY <1>1, <1>2, <1>3, AwaitTaken

LEMMA ExternalCalls ==
  ASSUME IsFiniteSet(DOMAIN basesOf), CallsOK(path), path # <<>>, NEW p \in Top.todo,
         basesOf[Top.name][p] \notin DOMAIN basesOf
  PROVE  CallsOK(Taken(p))
<1> DEFINE taken == Taken(p)[Len(path)]
<1>1. /\ Sound(taken) /\ Complete(taken, {basesOf[Top.name][p]})
      /\ taken.name = Top.name /\ taken.todo = Top.todo \ {p}
  BY TakenCalls
<1>2. \A k \in 1..Levels : basesOf[Top.name][p] \notin Deep[k - 1]
  BY DeepFacts, DeepUnfolds
<1>3. Complete(taken, {})
  <2> HIDE DEF taken
  <2>1. QED
    BY <1>1, <1>2 DEF Complete
<1>4. QED
  <2>1. /\ Taken(p) \in Seq(Frames)
        /\ DOMAIN Taken(p) = DOMAIN path /\ Len(Taken(p)) = Len(path)
        /\ \A j \in DOMAIN path : j # Len(path) => Taken(p)[j] = path[j]
    BY TakenFacts DEF CallsOK
  <2>2. QED
    BY <1>1, <1>3, <2>1, TopMoves

LEMMA DeeperCalls ==
  ASSUME IsFiniteSet(DOMAIN basesOf), CallsOK(path), path # <<>>, NEW p \in Top.todo,
         NEW depth \in Nat,
         ~Endless(Top.name) /\ ~Endless(basesOf[Top.name][p]) => Exact(basesOf[Top.name][p], depth)
  PROVE  CallsOK(Deeper(Taken(p), depth))
<1> DEFINE n == Len(path)
           taken == Taken(p)[n]
           frames == Deeper(Taken(p), depth)
<1>1. /\ Taken(p) \in Seq(Frames) /\ Taken(p) # <<>>
      /\ taken \in Frames /\ taken.name = Top.name /\ taken.todo = Top.todo \ {p}
      /\ Sound(taken) /\ Complete(taken, {basesOf[Top.name][p]})
  BY TakenCalls
<1>2. /\ DOMAIN Taken(p) = DOMAIN path /\ Len(Taken(p)) = n
      /\ \A j \in DOMAIN path : j # n => Taken(p)[j] = path[j]
  BY TakenFacts DEF CallsOK
<1>3. PICK best \in Nat :
        /\ Deeper(Taken(p), depth) \in Seq(Frames)
        /\ DOMAIN Deeper(Taken(p), depth) = DOMAIN Taken(p)
        /\ Len(Deeper(Taken(p), depth)) = Len(Taken(p))
        /\ \A j \in DOMAIN Taken(p) :
             j # Len(Taken(p)) => Deeper(Taken(p), depth)[j] = Taken(p)[j]
        /\ Deeper(Taken(p), depth)[Len(Taken(p))].name = Taken(p)[Len(Taken(p))].name
        /\ Deeper(Taken(p), depth)[Len(Taken(p))].todo = Taken(p)[Len(Taken(p))].todo
        /\ Deeper(Taken(p), depth)[Len(Taken(p))].best = best
        /\ best >= Taken(p)[Len(Taken(p))].best /\ best >= 1 + depth
        /\ best \in {Taken(p)[Len(Taken(p))].best, 1 + depth}
  BY <1>1, DeeperFacts
<1>4. /\ frames \in Seq(Frames)
      /\ DOMAIN frames = DOMAIN path /\ Len(frames) = n
      /\ \A j \in DOMAIN path : j # n => frames[j] = Taken(p)[j]
      /\ frames[n].name = Top.name /\ frames[n].todo = Top.todo \ {p} /\ frames[n].best = best
      /\ best >= taken.best /\ best >= 1 + depth /\ best \in {taken.best, 1 + depth}
  BY <1>1, <1>2, <1>3
<1>5. p \in DOMAIN basesOf[taken.name]
  BY <1>1, TopFacts
<1>6. /\ frames[n].name = Top.name /\ frames[n].todo = Top.todo \ {p}
      /\ Sound(frames[n]) /\ Complete(frames[n], {})
  <2>1. frames[n].name = Top.name /\ frames[n].todo = Top.todo \ {p}
    BY <1>4
  <2>2. CASE Endless(Top.name)
    BY <2>1, <2>2 DEF Sound, Complete
  <2>3. CASE ~Endless(Top.name)
    <3> HIDE DEF frames, taken
    <3>1. QED
      BY <1>1, <1>4, <1>5, <2>1, <2>3, Credit
  <2>4. QED
    BY <2>2, <2>3
<1>7. QED
  <2>1. \A j \in DOMAIN path : j # n => frames[j] = path[j]
    BY <1>2, <1>4
  <2>2. QED
    BY <1>4, <1>6, <2>1, TopMoves

LEMMA NextPlace ==
  ASSUME NEW n \in Nat, NEW i \in 1..n, NEW j \in i..n, j # n
  PROVE  j \in 1..n /\ j + 1 \in 1..n /\ j + 1 \in i..n
OBVIOUS

\* A base that is on the path closes a circle of bases.
LEMMA OnPathIsEndless ==
  ASSUME IsFiniteSet(DOMAIN basesOf), CallsOK(path), path # <<>>, NEW p \in Top.todo,
         OnPath(basesOf[Top.name][p])
  PROVE  Endless(Top.name)
<1>1. PICK i \in DOMAIN path : path[i].name = basesOf[Top.name][p]
  BY DEF OnPath
<1> DEFINE set == {path[j].name : j \in i..Len(path)}
<1>2. /\ Len(path) \in Nat /\ DOMAIN path = 1..Len(path)
      /\ Len(path) \in DOMAIN path /\ i \in 1..Len(path)
  BY PathFacts
<1>3. set \in SUBSET DOMAIN basesOf
  <2>1. \A j \in i..Len(path) : path[j].name \in DOMAIN basesOf
    BY <1>2, PathFacts DEF Frames
  <2>2. QED
    BY <2>1
<1>4. ASSUME NEW j \in i..Len(path) PROVE Leads(path[j].name, set)
  <2>1. CASE j = Len(path)
    <3>1. path[i].name \in set
      BY <1>2
    <3>2. p \in DOMAIN basesOf[Top.name]
      BY TopFacts
    <3> HIDE DEF set
    <3>3. QED
      BY <1>1, <2>1, <3>1, <3>2 DEF Leads, Top
  <2>2. CASE j # Len(path)
    <3>1. j \in DOMAIN path /\ j + 1 \in DOMAIN path /\ j + 1 \in i..Len(path)
      BY <1>2, <2>2, NextPlace, Zenon
    <3>2. Awaited(path, j) = {path[j + 1].name}
      BY <3>1 DEF Awaited
    <3>3. Leads(path[j].name, {path[j + 1].name})
      BY <3>1, <3>2 DEF CallsOK
    <3>4. path[j + 1].name \in set
      BY <3>1
    <3> HIDE DEF set
    <3>5. QED
      BY <3>3, <3>4 DEF Leads
  <2>3. QED
    BY <2>1, <2>2
<1>5. \A name \in set : Leads(name, set)
  <2>1. \A name \in set : \E j \in i..Len(path) : name = path[j].name
    OBVIOUS
  <2> HIDE DEF set
  <2>2. QED
    BY <1>4, <2>1
<1>6. Top.name \in set
  BY <1>2 DEF Top
<1> HIDE DEF set
<1>7. QED
  BY <1>3, <1>5, <1>6, DeepFacts

LEMMA FrameFacts ==
  ASSUME IsFiniteSet(DOMAIN basesOf), NEW name \in DOMAIN basesOf
  PROVE  /\ Frame(name) \in Frames
         /\ Frame(name).name = name /\ Frame(name).todo = DOMAIN basesOf[name]
         /\ Sound(Frame(name)) /\ Complete(Frame(name), {})
<1>1. /\ Frame(name).name = name /\ Frame(name).todo = DOMAIN basesOf[name]
      /\ Frame(name).best = 0 /\ Frame(name) \in Frames
  BY DEF Frame, Frames, Places
<1>2. Levels \in Nat /\ Deep[0] = DOMAIN basesOf
  BY DeepUnfolds
<1> HIDE DEF Frame
<1>3. Sound(Frame(name))
  BY <1>1, <1>2 DEF Sound
<1>4. Complete(Frame(name), {})
  BY <1>1 DEF Complete
<1>5. QED
  BY <1>1, <1>3, <1>4

LEMMA NoCalls == CallsOK(<<>>)
BY DEF CallsOK

LEMMA FirstCall ==
  ASSUME IsFiniteSet(DOMAIN basesOf), NEW name \in DOMAIN basesOf
  PROVE  CallsOK(<<Frame(name)>>)
<1> DEFINE f == Frame(name)
<1>1. /\ f \in Frames /\ f.name = name /\ f.todo = DOMAIN basesOf[name]
      /\ Sound(f) /\ Complete(f, {})
  BY FrameFacts
<1> HIDE DEF f
<1>2. <<f>> \in Seq(Frames) /\ DOMAIN <<f>> = {1} /\ <<f>>[1] = f
  BY <1>1
<1>3. Awaited(<<f>>, 1) = {}
  BY <1>2 DEF Awaited
<1>4. CallsOK(<<f>>)
  BY <1>1, <1>2, <1>3 DEF CallsOK
<1>5. QED
  BY <1>4 DEF f

LEMMA AppendFacts ==
  ASSUME NEW S, NEW s, s \in Seq(S), NEW e \in S
  PROVE  /\ Append(s, e) \in Seq(S) /\ Len(s) \in Nat
         /\ DOMAIN s = 1..Len(s) /\ DOMAIN Append(s, e) = 1..(Len(s) + 1)
         /\ \A j \in DOMAIN s : Append(s, e)[j] = s[j]
         /\ Append(s, e)[Len(s) + 1] = e
OBVIOUS

LEMMA DescendCalls ==
  ASSUME IsFiniteSet(DOMAIN basesOf), CallsOK(path), path # <<>>, NEW p \in Top.todo,
         NEW base \in DOMAIN basesOf, base = basesOf[Top.name][p], ~OnPath(base)
  PROVE  CallsOK(Append(Taken(p), Frame(base)))
<1> DEFINE n == Len(path)
           taken == Taken(p)
           f == Frame(base)
           frames == Append(taken, f)
<1>1. /\ taken \in Seq(Frames)
      /\ taken[n].name = Top.name /\ taken[n].todo = Top.todo \ {p}
      /\ Sound(taken[n]) /\ Complete(taken[n], {base})
  BY TakenCalls
<1>2. /\ n \in Nat /\ n \in DOMAIN path /\ DOMAIN path = 1..n
      /\ DOMAIN taken = DOMAIN path /\ Len(taken) = n
      /\ \A j \in DOMAIN path : j # n => taken[j] = path[j]
  BY TakenFacts, PathFacts DEF CallsOK
<1>3. /\ f \in Frames /\ f.name = base /\ f.todo = DOMAIN basesOf[base]
      /\ Sound(f) /\ Complete(f, {})
  BY FrameFacts
<1> HIDE DEF f
<1>4. /\ frames \in Seq(Frames) /\ DOMAIN frames = 1..(n + 1)
      /\ \A j \in 1..n : frames[j] = taken[j]
      /\ frames[n + 1] = f
  <2> HIDE DEF taken, n
  <2>1. QED
    BY <1>1, <1>2, <1>3, AppendFacts
<1> HIDE DEF taken, frames
<1>5. /\ \A j \in 1..n : frames[j].name = path[j].name /\ frames[j].todo \subseteq path[j].todo
      /\ \A j \in 1..(n - 1) : frames[j] = path[j]
  <2>1. \A j \in 1..n : frames[j] = taken[j] /\ (j # n => taken[j] = path[j])
    BY <1>2, <1>4
  <2>2. path[n] = Top
    BY DEF Top
  <2> HIDE DEF n
  <2>3. \A j \in 1..n : j = n \/ j # n
    OBVIOUS
  <2>4. \A j \in 1..(n - 1) : j \in 1..n /\ j # n
    BY <1>2
  <2>5. QED
    BY <1>1, <2>1, <2>2, <2>3, <2>4
<1>6. \A j \in 1..(n - 1) : Awaited(frames, j) = Awaited(path, j)
  <2> HIDE DEF n
  <2>1. ASSUME NEW j \in 1..(n - 1)
        PROVE  Awaited(frames, j) = {frames[j + 1].name} /\ Awaited(path, j) = {path[j + 1].name}
    <3>1. j + 1 \in 1..n /\ j + 1 \in 1..(n + 1)
      BY <1>2
    <3>2. QED
      BY <1>2, <1>4, <3>1 DEF Awaited
  <2>2. \A j \in 1..(n - 1) : j + 1 \in 1..n
    BY <1>2
  <2>3. QED
    BY <1>5, <2>1, <2>2
<1>7. Awaited(frames, n) = {base} /\ Awaited(frames, n + 1) = {}
  <2> HIDE DEF n
  <2>1. n + 1 \in 1..(n + 1) /\ n + 1 + 1 \notin 1..(n + 1)
    BY <1>2
  <2>2. QED
    BY <1>3, <1>4, <2>1 DEF Awaited
<1>8. \A j \in DOMAIN frames : j \in 1..(n - 1) \/ j = n \/ j = n + 1
  <2> HIDE DEF n
  <2>1. QED
    BY <1>2, <1>4
<1>9. n \in 1..n /\ Top.name = frames[n].name /\ frames[n] = taken[n]
  <2> HIDE DEF n
  <2>1. QED
    BY <1>1, <1>2, <1>4
<1>10. ASSUME NEW j \in DOMAIN frames
       PROVE  /\ frames[j].todo \subseteq DOMAIN basesOf[frames[j].name]
              /\ Awaited(frames, j) # {} => Leads(frames[j].name, Awaited(frames, j))
              /\ Sound(frames[j]) /\ Complete(frames[j], Awaited(frames, j))
  <2>1. CASE j \in 1..(n - 1)
    <3>1. frames[j] = path[j] /\ Awaited(frames, j) = Awaited(path, j) /\ j \in DOMAIN path
      <4> HIDE DEF n
      <4>1. QED
        BY <1>2, <1>5, <1>6, <2>1
    <3>2. QED
      BY <3>1 DEF CallsOK
  <2>2. CASE j = n
    <3>1. Leads(Top.name, {base})
      BY TopFacts DEF Leads
    <3>2. frames[n].todo \subseteq DOMAIN basesOf[Top.name]
      BY <1>1, <1>9, TopFacts
    <3> HIDE DEF n
    <3>3. QED
      BY <1>1, <1>7, <1>9, <2>2, <3>1, <3>2
  <2>3. CASE j = n + 1
    <3> HIDE DEF n
    <3>1. QED
      BY <1>3, <1>4, <1>7, <2>3
  <2>4. QED
    BY <1>8, <2>1, <2>2, <2>3
<1>11. ASSUME NEW i \in DOMAIN frames, NEW k \in DOMAIN frames, frames[i].name = frames[k].name
       PROVE  i = k
  <2>1. \A j \in 1..n : frames[j].name = path[j].name /\ path[j].name # base
    BY <1>2, <1>5 DEF OnPath
  <2>2. \A j \in DOMAIN frames : j \in 1..n \/ j = n + 1
    <3> HIDE DEF n
    <3>1. QED
      BY <1>2, <1>4
  <2>3. \A a, b \in 1..n : path[a].name = path[b].name => a = b
    BY <1>2 DEF CallsOK
  <2> HIDE DEF n
  <2>4. QED
    BY <1>3, <1>4, <1>11, <2>1, <2>2, <2>3
<1>12. CallsOK(frames)
  BY <1>4, <1>10, <1>11 DEF CallsOK
<1>13. QED
  BY <1>12 DEF frames, taken, f

\* A call that is done has the depth of its name.
LEMMA DoneIsExact ==
  ASSUME IsFiniteSet(DOMAIN basesOf), CallsOK(path), path # <<>>, Top.todo = {}, ~Endless(Top.name)
  PROVE  Exact(Top.name, Top.best)
<1>1. Top.name \in DOMAIN basesOf /\ Sound(Top) /\ Complete(Top, {})
  BY TopFacts
<1>2. Top.best \in 0..Levels /\ Top.name \in Deep[Top.best]
  BY <1>1 DEF Sound
<1>3. ASSUME NEW k \in 0..Levels, Top.name \in Deep[k] PROVE k <= Top.best
  <2>1. CASE k = 0
    BY <1>2, <2>1
  <2>2. CASE k # 0
    <3>1. k \in 1..Levels
      BY <2>2, DeepUnfolds
    <3>2. Leads(Top.name, Deep[k - 1])
      BY <1>3, <3>1, DeepUnfolds
    <3>3. PICK p \in DOMAIN basesOf[Top.name] : basesOf[Top.name][p] \in Deep[k - 1]
      BY <3>2 DEF Leads
    <3>4. QED
      BY <1>1, <3>1, <3>3 DEF Complete
  <2>3. QED
    BY <2>1, <2>2
<1>4. QED
  BY <1>2, <1>3 DEF Exact

LEMMA CallersFacts ==
  ASSUME NEW S, NEW s, s \in Seq(S), s # <<>>, SubSeq(s, 1, Len(s) - 1) # <<>>
  PROVE  /\ Len(s) \in Nat /\ Len(s) - 1 \in 1..Len(s) /\ DOMAIN s = 1..Len(s)
         /\ SubSeq(s, 1, Len(s) - 1) \in Seq(S)
         /\ DOMAIN SubSeq(s, 1, Len(s) - 1) = 1..(Len(s) - 1)
         /\ Len(SubSeq(s, 1, Len(s) - 1)) = Len(s) - 1
         /\ \A j \in 1..(Len(s) - 1) : SubSeq(s, 1, Len(s) - 1)[j] = s[j]
OBVIOUS

LEMMA AnswerCalls ==
  ASSUME IsFiniteSet(DOMAIN basesOf), CallsOK(path), path # <<>>, Top.todo = {},
         SubSeq(path, 1, Len(path) - 1) # <<>>
  PROVE  CallsOK(Deeper(SubSeq(path, 1, Len(path) - 1), Top.best))
<1> DEFINE m == Len(path) - 1
           callers == SubSeq(path, 1, m)
           frames == Deeper(callers, Top.best)
<1>1. /\ path \in Seq(Frames) /\ Len(path) \in Nat /\ DOMAIN path = 1..Len(path)
      /\ Top = path[Len(path)] /\ Top.best \in Nat
      /\ \A j \in DOMAIN path : path[j] \in Frames
  <2>1. Top \in Frames
    BY PathFacts
  <2>2. QED
    BY <2>1, PathFacts DEF Top, Frames
<1>2. /\ m \in 1..Len(path) /\ callers \in Seq(Frames) /\ callers # <<>>
      /\ DOMAIN callers = 1..m /\ Len(callers) = m
      /\ \A j \in 1..m : callers[j] = path[j]
  BY <1>1, CallersFacts
<1>3. m \in Nat /\ m + 1 = Len(path) /\ m \in 1..m /\ \A j \in 1..m : j \in DOMAIN path
  <2>1. Len(path) \in Nat /\ Len(path) - 1 \in 1..Len(path)
    BY <1>1, <1>2
  <2>2. QED
    BY <1>1, <2>1
<1> HIDE DEF m
<1>4. PICK best \in Nat :
        /\ Deeper(callers, Top.best) \in Seq(Frames)
        /\ DOMAIN Deeper(callers, Top.best) = DOMAIN callers
        /\ \A j \in DOMAIN callers : j # Len(callers) => Deeper(callers, Top.best)[j] = callers[j]
        /\ Deeper(callers, Top.best)[Len(callers)].name = callers[Len(callers)].name
        /\ Deeper(callers, Top.best)[Len(callers)].todo = callers[Len(callers)].todo
        /\ Deeper(callers, Top.best)[Len(callers)].best = best
        /\ best >= callers[Len(callers)].best /\ best >= 1 + Top.best
        /\ best \in {callers[Len(callers)].best, 1 + Top.best}
  <2> HIDE DEF callers
  <2>1. QED
    BY <1>1, <1>2, DeeperFacts
<1>5. /\ frames \in Seq(Frames) /\ DOMAIN frames = 1..m
      /\ \A j \in 1..m : j # m => frames[j] = path[j]
      /\ frames[m].name = path[m].name /\ frames[m].todo = path[m].todo /\ frames[m].best = best
      /\ best >= path[m].best /\ best >= 1 + Top.best /\ best \in {path[m].best, 1 + Top.best}
  <2> HIDE DEF callers
  <2>1. QED
    BY <1>2, <1>3, <1>4
<1> HIDE DEF callers, frames
<1>6. Awaited(path, m) = {Top.name}
  BY <1>1, <1>3 DEF Awaited
<1>7. Sound(frames[m]) /\ Complete(frames[m], {})
  <2>1. path[m] \in Frames /\ Sound(path[m]) /\ Complete(path[m], {Top.name})
    BY <1>1, <1>3, <1>6 DEF CallsOK
  <2>2. PICK p \in DOMAIN basesOf[path[m].name] : basesOf[path[m].name][p] = Top.name
    <3>1. Leads(path[m].name, {Top.name})
      BY <1>3, <1>6 DEF CallsOK
    <3>2. QED
      BY <3>1 DEF Leads
  <2>3. ~Endless(Top.name) => Exact(Top.name, Top.best)
    BY DoneIsExact
  <2>4. QED
    BY <1>1, <1>5, <2>1, <2>2, <2>3, Credit
<1>8. /\ \A j \in 1..m : frames[j].name = path[j].name /\ frames[j].todo = path[j].todo
  BY <1>5
<1>9. ASSUME NEW j \in 1..m, j # m PROVE Awaited(frames, j) = Awaited(path, j)
  <2>1. j + 1 \in 1..m
    BY <1>3, <1>9
  <2>2. Awaited(frames, j) = {frames[j + 1].name} /\ Awaited(path, j) = {path[j + 1].name}
    BY <1>3, <1>5, <2>1 DEF Awaited
  <2>3. QED
    BY <1>8, <2>1, <2>2
<1>10. Awaited(frames, m) = {}
  <2>1. m + 1 \notin 1..m
    BY <1>3
  <2>2. QED
    BY <1>5, <2>1 DEF Awaited
<1>11. ASSUME NEW j \in DOMAIN frames
       PROVE  /\ frames[j].todo \subseteq DOMAIN basesOf[frames[j].name]
              /\ Awaited(frames, j) # {} => Leads(frames[j].name, Awaited(frames, j))
              /\ Sound(frames[j]) /\ Complete(frames[j], Awaited(frames, j))
  <2>1. j \in 1..m /\ j \in DOMAIN path
    BY <1>3, <1>5
  <2>2. frames[j].todo \subseteq DOMAIN basesOf[frames[j].name]
    BY <1>8, <2>1 DEF CallsOK
  <2>3. CASE j = m
    BY <1>7, <1>10, <2>2, <2>3
  <2>4. CASE j # m
    BY <1>5, <1>9, <2>1, <2>2, <2>4 DEF CallsOK
  <2>5. QED
    BY <2>3, <2>4
<1>12. \A i, k \in DOMAIN frames : frames[i].name = frames[k].name => i = k
  BY <1>3, <1>5, <1>8 DEF CallsOK
<1>13. CallsOK(frames)
  BY <1>5, <1>11, <1>12 DEF CallsOK
<1>14. QED
  BY <1>13 DEF frames, callers, m

-----------------------------------------------------------------------------
(* The steps keep the invariant. *)

LEMMA InitHolds == Init => IInv
<1> SUFFICES ASSUME Init PROVE IInv
  OBVIOUS
<1>1. Untouched /\ pc = "index" /\ path = <<>> /\ basesOf = <<>> /\ cache = <<>>
  BY DEF Init, Untouched
<1>2. DOMAIN basesOf = {} /\ DOMAIN cache = {}
  BY <1>1
<1>3. CallsOK(path)
  BY <1>1, NoCalls
<1>4. IsFiniteSet(DOMAIN basesOf)
  BY <1>2, FS_EmptySet
<1>5. QED
  BY <1>1, <1>2, <1>3, <1>4 DEF IInv, CacheOK, QueueOK, Untouched

\* The class names are finitely many.
LEMMA FiniteNames == IsFiniteSet(ToSet(NameOrder))
<1>1. Len(NameOrder) \in Nat /\ DOMAIN NameOrder = 1..Len(NameOrder)
  BY NamesAreOrdered
<1>2. IsFiniteSet(1..Len(NameOrder))
  BY <1>1, FS_Interval
<1>3. NameOrder \in Surjection(1..Len(NameOrder), ToSet(NameOrder))
  <2>1. NameOrder \in [1..Len(NameOrder) -> ToSet(NameOrder)]
    BY NamesAreOrdered
  <2>2. \A name \in ToSet(NameOrder) : \E i \in 1..Len(NameOrder) : NameOrder[i] = name
    BY <1>1 DEF ToSet
  <2>3. QED
    BY <2>1, <2>2 DEF Surjection
<1>4. QED
  BY <1>2, <1>3, FS_Surjection

LEMMA IndexKeeps == IInv /\ Index => IInv'
<1> SUFFICES ASSUME IInv, Index PROVE IInv'
  OBVIOUS
<1> DEFINE named == ClassNames(metrics)
<1>1. Untouched /\ path = <<>>
  BY DEF IInv, Index
<1>2. /\ pc' = "depth" /\ path' = <<>> /\ cache' = <<>>
      /\ DOMAIN basesOf' = named
      /\ queue' = {i \in DOMAIN NameOrder : NameOrder[i] \in named}
  BY <1>1 DEF Index, Untouched
<1>3. named \subseteq ToSet(NameOrder)
  <2>1. metrics = [i \in DOMAIN files |-> FileMetrics(files[i])] /\ files \in Projects
    BY <1>1 DEF Untouched
  <2>2. ClassNames([i \in DOMAIN files |-> FileMetrics(files[i])]) \subseteq ToSet(NameOrder)
    BY <2>1, NamesAreOrdered, Zenon
  <2>3. QED
    BY <2>1, <2>2, Zenon
<1> HIDE DEF named
<1>4. IsFiniteSet(named)
  BY <1>3, FiniteNames, FS_Subset
<1>5. ASSUME NEW name \in named PROVE \E i \in queue' : NameOrder[i] = name
  <2>1. PICK i \in DOMAIN NameOrder : NameOrder[i] = name
    BY <1>3 DEF ToSet
  <2>2. QED
    BY <1>2, <2>1
<1>6. Tracked'
  BY <1>2, <1>5 DEF Tracked
<1>7. CallsOK(path)'
  BY <1>2 DEF CallsOK
<1>8. CacheOK'
  BY <1>2 DEF CacheOK
<1>9. QueueOK'
  BY <1>2 DEF QueueOK
<1>10. QED
  BY <1>2, <1>4, <1>6, <1>7, <1>8, <1>9 DEF IInv

\* A step among the calls, of which it makes others.
LEMMA CallsMove ==
  ASSUME IInv, pc = "depth", UNCHANGED <<files, metrics, pc, basesOf, cache>>,
         queue' \subseteq queue, CallsOK(path'), Tracked'
  PROVE  IInv'
<1>1. CallsOK(path)'
  BY SameBases DEF CallsOK
<1>2. CacheOK'
  BY SameBases DEF CacheOK, IInv
<1>3. QueueOK'
  BY DEF QueueOK, IInv
<1>4. QED
  BY <1>1, <1>2, <1>3 DEF IInv

\* Names stay on the path while no call returns.
LEMMA StillTracked ==
  ASSUME IInv, pc = "depth", UNCHANGED <<basesOf, queue, cache>>,
         \A j \in DOMAIN path : j \in DOMAIN path' /\ path'[j].name = path[j].name
  PROVE  Tracked'
<1>1. Tracked
  BY DEF IInv
<1>2. \A name : OnPath(name) => OnPath(name)'
  BY DEF OnPath
<1>3. QED
  BY <1>1, <1>2 DEF Tracked

LEMMA AskKeeps == ASSUME NEW i \in queue PROVE IInv /\ Ask(i) => IInv'
<1> SUFFICES ASSUME IInv, Ask(i) PROVE IInv'
  OBVIOUS
<1>1. /\ pc = "depth" /\ path = <<>>
      /\ UNCHANGED <<files, metrics, pc, basesOf, cache>>
      /\ path' = IF NameOrder[i] \in DOMAIN cache THEN <<>> ELSE <<Frame(NameOrder[i])>>
      /\ queue' = queue \ {i}
  BY DEF Ask
<1>2. IsFiniteSet(DOMAIN basesOf) /\ CacheOK /\ Tracked /\ QueueOK
  BY <1>1 DEF IInv
<1>3. NameOrder[i] \in DOMAIN basesOf
  BY <1>1, <1>2 DEF QueueOK
<1>4. CallsOK(path')
  BY <1>1, <1>2, <1>3, NoCalls, FirstCall
<1>5. NameOrder[i] \in DOMAIN cache' \/ OnPath(NameOrder[i])'
  <2>1. Frame(NameOrder[i]).name = NameOrder[i]
    BY DEF Frame
  <2> HIDE DEF Frame
  <2>2. QED
    BY <1>1, <2>1 DEF OnPath
<1>6. ~ \E name : OnPath(name)
  BY <1>1 DEF OnPath
<1>7. Tracked'
  BY <1>1, <1>2, <1>5, <1>6 DEF Tracked
<1>8. QED
  BY <1>1, <1>2, <1>4, <1>7, CallsMove

LEMMA TakeBaseKeeps == IInv /\ TakeBase => IInv'
<1> SUFFICES ASSUME IInv, TakeBase PROVE IInv'
  OBVIOUS
<1>1. PICK p \in Top.todo : External(p) \/ Known(p) \/ Cut(p) \/ Descend(p)
  BY DEF TakeBase
<1>2. path # <<>> /\ pc = "depth" /\ IsFiniteSet(DOMAIN basesOf) /\ CallsOK(path) /\ CacheOK
  BY DEF TakeBase, IInv
<1>3. /\ Taken(p) \in Seq(Frames) /\ Taken(p) # <<>>
      /\ DOMAIN Taken(p) = DOMAIN path
      /\ \A j \in DOMAIN path : Taken(p)[j].name = path[j].name
  <2>1. \A j \in DOMAIN path : j # Len(path) => Taken(p)[j] = path[j]
    BY <1>2, TakenFacts DEF CallsOK
  <2>2. path[Len(path)] = Top
    BY DEF Top
  <2>3. QED
    BY <1>2, <2>1, <2>2, TakenFacts DEF CallsOK
<1>4. ASSUME NEW depth \in Nat, path' = Deeper(Taken(p), depth)
      PROVE  \A j \in DOMAIN path : j \in DOMAIN path' /\ path'[j].name = path[j].name
  <2>1. /\ DOMAIN Deeper(Taken(p), depth) = DOMAIN Taken(p)
        /\ \A j \in DOMAIN Taken(p) : Deeper(Taken(p), depth)[j].name = Taken(p)[j].name
    BY <1>3, DeeperFacts
  <2>2. QED
    BY <1>3, <1>4, <2>1
<1>5. CASE External(p)
  <2>1. /\ basesOf[Top.name][p] \notin DOMAIN basesOf /\ path' = Taken(p)
        /\ UNCHANGED <<files, metrics, pc, basesOf, queue, cache>>
    BY <1>5 DEF External
  <2>2. CallsOK(path')
    BY <1>2, <2>1, ExternalCalls
  <2>3. Tracked'
    BY <1>2, <1>3, <2>1, StillTracked
  <2>4. QED
    BY <1>2, <2>1, <2>2, <2>3, CallsMove
<1>6. CASE Known(p)
  <2>1. PICK base \in DOMAIN cache :
          /\ base = basesOf[Top.name][p] /\ path' = Deeper(Taken(p), cache[base])
          /\ UNCHANGED <<files, metrics, pc, basesOf, queue, cache>>
    BY <1>6 DEF Known, Taking
  <2>2. cache[base] \in Nat /\ (~Endless(base) => Exact(base, cache[base]))
    BY <1>2, <2>1 DEF CacheOK
  <2>3. CallsOK(path')
    BY <1>2, <2>1, <2>2, DeeperCalls
  <2>4. Tracked'
    BY <1>2, <1>4, <2>1, <2>2, StillTracked
  <2>5. QED
    BY <1>2, <2>1, <2>3, <2>4, CallsMove
<1>7. CASE Cut(p)
  <2>1. PICK base \in DOMAIN basesOf \ DOMAIN cache :
          /\ base = basesOf[Top.name][p] /\ OnPath(base) /\ path' = Deeper(Taken(p), 0)
          /\ UNCHANGED <<files, metrics, pc, basesOf, queue, cache>>
    BY <1>7 DEF Cut, Taking
  <2>2. Endless(Top.name)
    BY <1>2, <2>1, OnPathIsEndless
  <2>3. CallsOK(path')
    BY <1>2, <2>1, <2>2, DeeperCalls
  <2>4. Tracked'
    BY <1>2, <1>4, <2>1, StillTracked
  <2>5. QED
    BY <1>2, <2>1, <2>3, <2>4, CallsMove
<1>8. CASE Descend(p)
  <2>1. PICK base \in DOMAIN basesOf \ DOMAIN cache :
          /\ base = basesOf[Top.name][p] /\ ~OnPath(base) /\ path' = Append(Taken(p), Frame(base))
          /\ UNCHANGED <<files, metrics, pc, basesOf, queue, cache>>
    BY <1>8 DEF Descend, Taking
  <2>2. CallsOK(path')
    BY <1>2, <2>1, DescendCalls
  <2>3. \A j \in DOMAIN path : j \in DOMAIN path' /\ path'[j].name = path[j].name
    <3>1. Frame(base) \in Frames
      BY <1>2, FrameFacts
    <3> HIDE DEF Frame
    <3>2. /\ DOMAIN Taken(p) = 1..Len(Taken(p)) /\ Len(Taken(p)) \in Nat
          /\ DOMAIN path' = 1..(Len(Taken(p)) + 1)
          /\ \A j \in DOMAIN Taken(p) : path'[j] = Taken(p)[j]
      BY <1>3, <2>1, <3>1, AppendFacts
    <3>3. DOMAIN Taken(p) \subseteq DOMAIN path'
      BY <3>2
    <3>4. QED
      BY <1>3, <3>2, <3>3
  <2>4. Tracked'
    BY <1>2, <2>1, <2>3, StillTracked
  <2>5. QED
    BY <1>2, <2>1, <2>2, <2>4, CallsMove
<1>9. QED
  BY <1>1, <1>5, <1>6, <1>7, <1>8

LEMMA AnswerKeeps == IInv /\ Answer => IInv'
<1> SUFFICES ASSUME IInv, Answer PROVE IInv'
  OBVIOUS
<1> DEFINE callers == SubSeq(path, 1, Len(path) - 1)
<1>1. /\ path # <<>> /\ pc = "depth" /\ IsFiniteSet(DOMAIN basesOf) /\ CallsOK(path) /\ CacheOK
      /\ Tracked /\ QueueOK /\ Top.todo = {}
  BY DEF Answer, IInv
<1>2. /\ cache' = [n \in DOMAIN cache \cup {Top.name} |-> IF n = Top.name THEN Top.best ELSE cache[n]]
      /\ path' = IF callers = <<>> THEN <<>> ELSE Deeper(callers, Top.best)
      /\ UNCHANGED <<files, metrics, pc, basesOf, queue>>
  BY DEF Answer
<1>3. Top.name \in DOMAIN basesOf /\ Top.best \in Nat
  BY <1>1, TopFacts DEF Frames
<1>4. CacheOK'
  <2>1. ~Endless(Top.name) => Exact(Top.name, Top.best)
    BY <1>1, DoneIsExact
  <2>2. ASSUME NEW name \in DOMAIN cache'
        PROVE  name \in DOMAIN basesOf /\ cache'[name] \in Nat /\ (~Endless(name) => Exact(name, cache'[name]))
    <3>1. CASE name = Top.name
      BY <1>2, <1>3, <2>1, <3>1
    <3>2. CASE name # Top.name
      BY <1>1, <1>2, <3>2 DEF CacheOK
    <3>3. QED
      BY <3>1, <3>2
  <2>3. QED
    BY <1>2, <2>2, SameBases DEF CacheOK
<1>5. CallsOK(path')
  BY <1>1, <1>2, NoCalls, AnswerCalls
<1>6. CallsOK(path)'
  BY <1>2, <1>5, SameBases DEF CallsOK
<1>7. ASSUME NEW name, OnPath(name), name # Top.name
      PROVE  OnPath(name)'
  <2>1. PICK j \in DOMAIN path : path[j].name = name
    BY <1>7 DEF OnPath
  <2>2. /\ path \in Seq(Frames) /\ Len(path) \in Nat /\ DOMAIN path = 1..Len(path)
    BY <1>1, PathFacts
  <2>3. j # Len(path)
    BY <1>7, <2>1 DEF Top
  <2>4. callers # <<>>
    BY <2>2, <2>3
  <2>5. /\ callers \in Seq(Frames) /\ DOMAIN callers = 1..(Len(path) - 1)
        /\ \A k \in 1..(Len(path) - 1) : callers[k] = path[k]
    BY <1>1, <2>2, <2>4, CallersFacts
  <2> HIDE DEF callers
  <2>6. j \in DOMAIN callers /\ callers[j] = path[j]
    BY <2>2, <2>3, <2>5
  <2>7. /\ DOMAIN Deeper(callers, Top.best) = DOMAIN callers
        /\ \A k \in DOMAIN callers : Deeper(callers, Top.best)[k].name = callers[k].name
    BY <1>3, <2>4, <2>5, DeeperFacts
  <2>8. j \in DOMAIN path' /\ path'[j].name = name
    BY <1>2, <2>1, <2>4, <2>6, <2>7
  <2>9. QED
    BY <2>8 DEF OnPath
<1>8. DOMAIN cache' = DOMAIN cache \cup {Top.name}
  BY <1>2
<1> HIDE DEF callers
<1>9. Tracked'
  <2>1. UNCHANGED <<basesOf, queue>>
    BY <1>2
  <2>2. QED
    BY <1>1, <1>7, <1>8, <2>1 DEF Tracked
<1>10. QueueOK'
  BY <1>1, <1>2 DEF QueueOK
<1>11. UNCHANGED <<pc, basesOf>>
  BY <1>2
<1>12. QED
  BY <1>1, <1>4, <1>6, <1>9, <1>10, <1>11 DEF IInv

LEMMA ResolvedKeeps == IInv /\ Resolved => IInv'
<1> SUFFICES ASSUME IInv, Resolved PROVE IInv'
  OBVIOUS
<1>1. /\ pc = "depth" /\ path = <<>> /\ queue = {} /\ pc' = "count"
      /\ UNCHANGED <<files, metrics, basesOf, queue, cache, path>>
  BY DEF Resolved
<1>2. ~ \E name : OnPath(name)
  BY <1>1 DEF OnPath
<1>3. DOMAIN cache = DOMAIN basesOf
  BY <1>1, <1>2 DEF IInv, Tracked, CacheOK
<1>4. CallsOK(path)'
  BY <1>1, NoCalls DEF CallsOK
<1>5. CacheOK'
  BY <1>1, SameBases DEF CacheOK, IInv
<1>6. QueueOK'
  BY <1>1 DEF QueueOK
<1>7. QED
  BY <1>1, <1>3, <1>4, <1>5, <1>6 DEF IInv

\* Steps after the depths are found leave them alone.
LEMMA LaterKeeps ==
  ASSUME IInv, pc \in {"count", "done"}, pc' \in {"count", "done"},
         UNCHANGED <<basesOf, queue, cache, path>>
  PROVE  IInv'
<1>1. path = <<>> /\ DOMAIN cache = DOMAIN basesOf
  BY DEF IInv
<1>2. CallsOK(path)'
  BY SameBases DEF CallsOK, IInv
<1>3. CacheOK'
  BY SameBases DEF CacheOK, IInv
<1>4. QueueOK'
  BY DEF QueueOK, IInv
<1>5. QED
  BY <1>1, <1>2, <1>3, <1>4 DEF IInv

LEMMA StutterKeeps == IInv /\ UNCHANGED vars => IInv'
<1> SUFFICES ASSUME IInv, UNCHANGED vars PROVE IInv'
  OBVIOUS
<1>1. UNCHANGED <<files, metrics, pc, basesOf, queue, cache, path>>
  BY DEF vars
<1>2. CallsOK(path)' /\ CacheOK'
  BY <1>1, SameBases DEF IInv, CallsOK, CacheOK
<1>3. Tracked' <=> Tracked
  BY <1>1 DEF Tracked, OnPath
<1>4. Untouched' <=> Untouched
  BY <1>1 DEF Untouched
<1>5. QueueOK' <=> QueueOK
  BY <1>1 DEF QueueOK
<1>6. QED
  BY <1>1, <1>2, <1>3, <1>4, <1>5 DEF IInv

\* The invariant holds of every state the pass over the classes reaches.
THEOREM Invariance == Spec => []IInv
<1>1. ASSUME IInv, [Next]_vars PROVE IInv'
  <2>1. CASE Index
    BY <1>1, <2>1, IndexKeeps
  <2>2. ASSUME NEW i \in queue, Ask(i) PROVE IInv'
    BY <1>1, <2>2, AskKeeps
  <2>3. CASE TakeBase
    BY <1>1, <2>3, TakeBaseKeeps
  <2>4. CASE Answer
    BY <1>1, <2>4, AnswerKeeps
  <2>5. CASE Resolved
    BY <1>1, <2>5, ResolvedKeeps
  <2>6. CASE WriteBack
    BY <1>1, <2>6, LaterKeeps DEF WriteBack
  <2>7. CASE Finished
    BY <1>1, <2>7, StutterKeeps DEF Finished
  <2>8. CASE UNCHANGED vars
    BY <1>1, <2>8, StutterKeeps
  <2>9. QED
    BY <1>1, <2>1, <2>2, <2>3, <2>4, <2>5, <2>6, <2>7, <2>8 DEF Next
<1>2. QED
  BY <1>1, InitHolds, PTL DEF Spec

-----------------------------------------------------------------------------
\* For every project: a name whose bases lead into no cycle has the depth of
\* its longest chain of bases however the cycles among the others were cut, a
\* name is never resolved inside its own resolution, and in the end every name
\* has its depth (dit_of of inheritance.rs).
THEOREM DepthsAreAlwaysChains == Spec => []DepthsAreChains
<1>1. ASSUME IInv PROVE DepthsAreChains
  <2>1. ASSUME NEW name \in DOMAIN cache, ~Endless(name) PROVE cache[name] = LongestChain(name)
    <3>1. Exact(name, cache[name])
      BY <1>1, <2>1 DEF IInv, CacheOK
    <3>2. QED
      BY <3>1, ExactIsLongest
  <2>2. \A i, k \in DOMAIN path : path[i].name = path[k].name => i = k
    BY <1>1 DEF IInv, CallsOK
  <2>3. pc = "done" => DOMAIN cache = DOMAIN basesOf
    BY <1>1 DEF IInv
  <2>4. QED
    BY <2>1, <2>2, <2>3 DEF DepthsAreChains
<1>2. QED
  BY <1>1, Invariance, PTL

-----------------------------------------------------------------------------
(* The figures of the classes. *)

FigureNames == {"dit", "noc", "fanOut", "fanIn", "cboModified", "nosi"}

\* What is measured of a class has a place for every figure.
HasFigures(class) == FigureNames \cup {"name", "coupled"} \subseteq DOMAIN class

LEMMA MeasuredClasses ==
  ASSUME NEW file
  PROVE  /\ "classes" \in DOMAIN FileMetrics(file)
         /\ \A k \in DOMAIN FileMetrics(file).classes : HasFigures(FileMetrics(file).classes[k])
<1> DEFINE classes == InOrder(CollectClasses(file.tree, 0))
<1>1. ASSUME NEW class PROVE HasFigures(ClassMetrics(file.tree, class))
  BY DEF ClassMetrics, HasFigures, FigureNames
<1>2. /\ "classes" \in DOMAIN FileMetrics(file)
      /\ FileMetrics(file).classes = [i \in DOMAIN classes |-> ClassMetrics(file.tree, classes[i])]
  BY DEF FileMetrics
<1> HIDE DEF classes
<1>3. QED
  BY <1>1, <1>2

LEMMA Updated ==
  ASSUME NEW r, NEW a \in DOMAIN r, NEW v
  PROVE  LET t == [r EXCEPT ![a] = v]
         IN  DOMAIN t = DOMAIN r /\ t[a] = v /\ \A b \in DOMAIN r : b # a => t[b] = r[b]
OBVIOUS

\* Writing the figures keeps the name and what the class refers to.
LEMMA FiguresWritten ==
  ASSUME NEW class, HasFigures(class)
  PROVE  /\ HasFigures(WithFigures(class))
         /\ WithFigures(class).name = class.name /\ WithFigures(class).coupled = class.coupled
         /\ WithFigures(class).fanOut = Cardinality(OutNames(class))
         /\ WithFigures(class).fanIn = Cardinality(Referencers(class.name))
         /\ WithFigures(class).cboModified = Cardinality(OutNames(class) \cup Referencers(class.name))
<1> DEFINE out == Cardinality(OutNames(class))
           in == Cardinality(Referencers(class.name))
           both == Cardinality(OutNames(class) \cup Referencers(class.name))
           dit == cache[class.name]
           noc == Children(class.name)
           nosi == Cardinality({c \in DOMAIN class.calls : class.calls[c] \in DOMAIN basesOf})
           c1 == [class EXCEPT !.dit = dit]
           c2 == [c1 EXCEPT !.noc = noc]
           c3 == [c2 EXCEPT !.fanOut = out]
           c4 == [c3 EXCEPT !.fanIn = in]
           c5 == [c4 EXCEPT !.cboModified = both]
           c6 == [c5 EXCEPT !.nosi = nosi]
<1>1. WithFigures(class) = c6
  BY Zenon DEF WithFigures
<1> HIDE DEF out, in, both, dit, noc, nosi
<1>2. /\ DOMAIN c1 = DOMAIN class /\ c1.dit = dit
      /\ \A field \in DOMAIN class : field # "dit" => c1[field] = class[field]
  BY Updated DEF HasFigures, FigureNames
<1> HIDE DEF c1
<1>3. /\ DOMAIN c2 = DOMAIN c1 /\ c2.noc = noc
      /\ \A field \in DOMAIN c1 : field # "noc" => c2[field] = c1[field]
  BY <1>2, Updated DEF HasFigures, FigureNames
<1> HIDE DEF c2
<1>4. /\ DOMAIN c3 = DOMAIN c2 /\ c3.fanOut = out
      /\ \A field \in DOMAIN c2 : field # "fanOut" => c3[field] = c2[field]
  BY <1>2, <1>3, Updated DEF HasFigures, FigureNames
<1> HIDE DEF c3
<1>5. /\ DOMAIN c4 = DOMAIN c3 /\ c4.fanIn = in
      /\ \A field \in DOMAIN c3 : field # "fanIn" => c4[field] = c3[field]
  BY <1>2, <1>3, <1>4, Updated DEF HasFigures, FigureNames
<1> HIDE DEF c4
<1>6. /\ DOMAIN c5 = DOMAIN c4 /\ c5.cboModified = both
      /\ \A field \in DOMAIN c4 : field # "cboModified" => c5[field] = c4[field]
  BY <1>2, <1>3, <1>4, <1>5, Updated DEF HasFigures, FigureNames
<1> HIDE DEF c5
<1>7. /\ DOMAIN c6 = DOMAIN c5 /\ c6.nosi = nosi
      /\ \A field \in DOMAIN c5 : field # "nosi" => c6[field] = c5[field]
  BY <1>2, <1>3, <1>4, <1>5, <1>6, Updated DEF HasFigures, FigureNames
<1> HIDE DEF c6
<1>8. /\ DOMAIN c6 = DOMAIN class /\ c6.fanOut = out /\ c6.fanIn = in /\ c6.cboModified = both
      /\ c6.name = class.name /\ c6.coupled = class.coupled
  BY <1>2, <1>3, <1>4, <1>5, <1>6, <1>7 DEF HasFigures, FigureNames
<1>9. QED
  BY <1>1, <1>8, Zenon DEF HasFigures, out, in, both

-----------------------------------------------------------------------------
(* Coupling. *)

\* Of two sets without a member x of a third, the union is between the larger
\* and both together, and smaller than the third.
LEMMA UnionBounds ==
  ASSUME NEW D, IsFiniteSet(D), NEW x \in D, NEW A, A \subseteq D \ {x}, NEW B, B \subseteq D \ {x}
  PROVE  /\ Cardinality(A \cup B)
              \in Max({Cardinality(B), Cardinality(A)})..(Cardinality(B) + Cardinality(A))
         /\ Cardinality(A \cup B) < Cardinality(D)
<1> DEFINE a == Cardinality(A)
           b == Cardinality(B)
           u == Cardinality(A \cup B)
<1>1. IsFiniteSet(D \ {x}) /\ Cardinality(D \ {x}) = Cardinality(D) - 1
  BY FS_RemoveElement
<1>2. IsFiniteSet(A) /\ IsFiniteSet(B) /\ IsFiniteSet(A \cup B) /\ IsFiniteSet(A \cap B)
  <2>1. A \in SUBSET (D \ {x}) /\ B \in SUBSET (D \ {x}) /\ A \cup B \in SUBSET (D \ {x})
        /\ A \cap B \in SUBSET (D \ {x})
    OBVIOUS
  <2>2. QED
    BY <1>1, <2>1, FS_Subset
<1>3. a \in Nat /\ b \in Nat /\ u \in Nat /\ Cardinality(A \cap B) \in Nat /\ Cardinality(D) \in Nat
  BY <1>2, FS_CardinalityType
<1>4. u = a + b - Cardinality(A \cap B)
  BY <1>2, FS_Union
<1>5. a <= u /\ b <= u
  <2>1. A \in SUBSET (A \cup B) /\ B \in SUBSET (A \cup B)
    OBVIOUS
  <2>2. QED
    BY <1>2, <2>1, FS_Subset
<1>6. u <= Cardinality(D \ {x})
  <2>1. A \cup B \in SUBSET (D \ {x})
    OBVIOUS
  <2>2. QED
    BY <1>1, <2>1, FS_Subset
<1> HIDE DEF a, b, u
<1>7. Max({b, a}) \in {b, a}
  <2>1. \E m \in {b, a} : \A y \in {b, a} : m >= y
    BY <1>3
  <2>2. QED
    BY <2>1, Zenon DEF Max
<1>8. Max({b, a}) <= u /\ Max({b, a}) \in Nat /\ u <= b + a
  BY <1>3, <1>4, <1>5, <1>7
<1>9. u < Cardinality(D)
  BY <1>1, <1>3, <1>6
<1>10. QED
  BY <1>3, <1>8, <1>9 DEF a, b, u

\* AllPairs that go over into each other, forth and back, are as many.
LEMMA AsMany ==
  ASSUME NEW A, IsFiniteSet(A), NEW B, IsFiniteSet(B), NEW f, NEW g,
         \A p \in A : f[p] \in B /\ g[f[p]] = p,
         \A q \in B : g[q] \in A /\ f[g[q]] = q
  PROVE  Cardinality(A) = Cardinality(B)
<1> DEFINE F == [p \in A |-> f[p]]
           G == [q \in B |-> g[q]]
<1>1. F \in Injection(A, B)
  BY DEF Injection, IsInjective
<1>2. G \in Injection(B, A)
  BY DEF Injection, IsInjective
<1> HIDE DEF F, G
<1>3. Cardinality(A) <= Cardinality(B) /\ Cardinality(B) <= Cardinality(A)
  BY <1>1, <1>2, FS_Injection
<1>4. Cardinality(A) \in Nat /\ Cardinality(B) \in Nat
  BY FS_CardinalityType
<1>5. QED
  BY <1>3, <1>4

\* What is counted at a definition, in the end.
FiguresOK(class) ==
  /\ class.fanOut = Cardinality(OutNames(class))
  /\ class.fanIn = Cardinality(Referencers(class.name))
  /\ class.cboModified = Cardinality(OutNames(class) \cup Referencers(class.name))

\* References are to and from other names of the project.
LEMMA ReferencesWithin ==
  ASSUME DOMAIN basesOf = ClassNames(metrics), NEW d \in Classes
  PROVE  /\ ClassOf(d).name \in DOMAIN basesOf
         /\ OutNames(ClassOf(d)) \subseteq DOMAIN basesOf \ {ClassOf(d).name}
         /\ Referencers(ClassOf(d).name) \subseteq DOMAIN basesOf \ {ClassOf(d).name}
BY DEF Classes, ClassNames, ClassOf, OutNames, Referencers

\* With names that are unique, each reference is counted at either end.
LEMMA EndsAgree ==
  ASSUME DOMAIN basesOf = ClassNames(metrics), IsFiniteSet(DOMAIN basesOf), IsFiniteSet(Classes),
         \A d \in Classes : FiguresOK(ClassOf(d)), NamesUnique
  PROVE  SumOf([d \in Classes |-> ClassOf(d).fanOut]) = SumOf([d \in Classes |-> ClassOf(d).fanIn])
<1> DEFINE C == Classes
           D == DOMAIN basesOf
           out == [d \in C |-> OutNames(ClassOf(d))]
           in == [d \in C |-> Referencers(ClassOf(d).name)]
           A == Belonging(out, C, D)
           B == Belonging(in, C, D)
           the == [n \in D |-> CHOOSE d \in C : ClassOf(d).name = n]
           swap == [p \in C \X D |-> <<the[p[2]], ClassOf(p[1]).name>>]
           fanOut == [d \in C |-> ClassOf(d).fanOut]
           fanIn == [d \in C |-> ClassOf(d).fanIn]
<1>1. \A d \in C : ClassOf(d).name \in D
  BY ReferencesWithin
<1>2. ASSUME NEW n \in D PROVE the[n] \in C /\ ClassOf(the[n]).name = n
  <2>1. \E d \in C : ClassOf(d).name = n
    BY DEF Classes, ClassNames, ClassOf
  <2>2. QED
    BY <2>1
<1>3. ASSUME NEW d \in C PROVE the[ClassOf(d).name] = d
  <2>1. the[ClassOf(d).name] \in C /\ ClassOf(the[ClassOf(d).name]).name = ClassOf(d).name
    BY <1>1, <1>2
  <2> HIDE DEF the, C
  <2>2. \A e \in C : ClassOf(e).name = ClassOf(d).name => e = d
    BY DEF NamesUnique, C
  <2>3. QED
    BY <2>1, <2>2
<1>4. ASSUME NEW d \in C, NEW n \in D
      PROVE  n \in OutNames(ClassOf(d)) <=> ClassOf(d).name \in Referencers(n)
  <2>1. n \in OutNames(ClassOf(d)) <=> n \in ClassOf(d).coupled /\ n # ClassOf(d).name
    BY DEF OutNames
  <2>2. ClassOf(d).name \in Referencers(n)
          <=> ClassOf(d).name # n /\ \E e \in C : n \in ClassOf(e).coupled /\ ClassOf(e).name = ClassOf(d).name
    BY DEF Referencers
  <2>3. \A e \in C : ClassOf(e).name = ClassOf(d).name => e = d
    BY DEF NamesUnique
  <2>4. QED
    BY <2>1, <2>2, <2>3
<1>5. IsFiniteSet(A) /\ IsFiniteSet(B)
  <2>1. IsFiniteSet(C \X D)
    BY FS_Product
  <2>2. A \in SUBSET (C \X D) /\ B \in SUBSET (C \X D)
    BY DEF Belonging
  <2>3. QED
    BY <2>1, <2>2, FS_Subset
<1>6. \A d \in C, n \in D : <<d, n>> \in A <=> n \in OutNames(ClassOf(d))
  BY DEF Belonging
<1>7. \A d \in C, n \in D : <<d, n>> \in B <=> n \in Referencers(ClassOf(d).name)
  BY DEF Belonging
<1>8. \A d \in C, n \in D : swap[<<d, n>>] = <<the[n], ClassOf(d).name>>
  OBVIOUS
<1>9. \A p \in A \cup B : \E d \in C, n \in D : p = <<d, n>>
  BY DEF Belonging
<1>10. /\ \A d \in C : out[d] \subseteq D /\ in[d] \subseteq D
       /\ \A d \in C : fanOut[d] = Cardinality(out[d]) /\ fanIn[d] = Cardinality(in[d])
  BY ReferencesWithin DEF FiguresOK
<1>11. SumOf(fanOut) = Cardinality(A) /\ SumOf(fanIn) = Cardinality(B)
  <2>1. DOMAIN fanOut = C /\ DOMAIN fanIn = C /\ IsFiniteSet(C) /\ IsFiniteSet(D)
    OBVIOUS
  <2> HIDE DEF out, in, fanOut, fanIn, C, D
  <2>2. QED
    BY <1>10, <2>1, SumCounts
<1> HIDE DEF the, swap, A, B, C, D
<1>12. ASSUME NEW d \in C, NEW n \in D
       PROVE  /\ swap[swap[<<d, n>>]] = <<d, n>>
              /\ <<d, n>> \in A => swap[<<d, n>>] \in B
              /\ <<d, n>> \in B => swap[<<d, n>>] \in A
  <2>1. /\ the[n] \in C /\ ClassOf(the[n]).name = n
        /\ ClassOf(d).name \in D /\ the[ClassOf(d).name] = d
    BY <1>1, <1>2, <1>3
  <2>2. swap[<<d, n>>] = <<the[n], ClassOf(d).name>>
    BY <1>8
  <2>3. swap[<<the[n], ClassOf(d).name>>] = <<d, n>>
    BY <1>8, <2>1, Zenon
  <2>4. <<d, n>> \in A => <<the[n], ClassOf(d).name>> \in B
    BY <1>4, <1>6, <1>7, <2>1, Zenon
  <2>5. <<d, n>> \in B => <<the[n], ClassOf(d).name>> \in A
    BY <1>4, <1>6, <1>7, <2>1, Zenon
  <2>6. QED
    BY <2>2, <2>3, <2>4, <2>5
<1>13. /\ \A p \in A : swap[p] \in B /\ swap[swap[p]] = p
       /\ \A q \in B : swap[q] \in A /\ swap[swap[q]] = q
  BY <1>9, <1>12
<1>14. Cardinality(A) = Cardinality(B)
  BY <1>5, <1>13, AsMany
<1>15. QED
  BY <1>11, <1>14 DEF C

\* What is known of the definitions and of their figures.
Counted ==
  /\ pc # "done" => files \in Projects /\ metrics = [i \in DOMAIN files |-> FileMetrics(files[i])]
  /\ pc # "index" => DOMAIN basesOf = ClassNames(metrics)
  /\ pc = "done" => \A d \in Classes : FiguresOK(ClassOf(d))
  /\ IsFiniteSet(Classes)

LEMMA MeasuredAreFinite ==
  ASSUME files \in Projects, metrics = [i \in DOMAIN files |-> FileMetrics(files[i])]
  PROVE  IsFiniteSet(Classes)
<1>1. IsFiniteSet(Definitions([i \in DOMAIN files |-> FileMetrics(files[i])]))
  BY NamesAreOrdered, Zenon
<1>2. QED
  BY <1>1, Zenon DEF Classes

\* Figures written into the definitions change nothing else that counts.
LEMMA Rewritten ==
  ASSUME NEW before, NEW after, DOMAIN after = DOMAIN before,
         \A i \in DOMAIN before :
           /\ DOMAIN after[i].classes = DOMAIN before[i].classes
           /\ \A k \in DOMAIN before[i].classes :
                after[i].classes[k] = WithFigures(before[i].classes[k])
  PROVE  /\ Definitions(after) = Definitions(before)
         /\ \A d \in Definitions(before) : ClassAt(after, d) = WithFigures(ClassAt(before, d))
<1>1. Definitions(after) = Definitions(before)
  BY DEF Definitions
<1>2. ASSUME NEW d \in Definitions(before)
      PROVE  ClassAt(after, d) = WithFigures(ClassAt(before, d))
  <2>1. PICK i \in DOMAIN before : d \in {i} \X DOMAIN before[i].classes
    BY DEF Definitions
  <2>2. d[1] = i /\ d[2] \in DOMAIN before[i].classes
    BY <2>1
  <2>3. QED
    BY <2>2, Zenon DEF ClassAt
<1>3. QED
  BY <1>1, <1>2

LEMMA WriteBackCounts == Counted /\ WriteBack => Counted'
<1> SUFFICES ASSUME Counted, WriteBack PROVE Counted'
  OBVIOUS
<1> DEFINE row(i) == metrics[i]
           Rewrite(classes) == [k \in DOMAIN classes |-> WithFigures(classes[k])]
<1>1. /\ pc = "count" /\ pc' = "done" /\ UNCHANGED basesOf
      /\ metrics = [i \in DOMAIN files |-> FileMetrics(files[i])]
      /\ DOMAIN basesOf = ClassNames(metrics)
      /\ IsFiniteSet(Classes)
  BY DEF Counted, WriteBack
<1>2. metrics' = [i \in DOMAIN metrics |->
                    [metrics[i] EXCEPT !.classes = [k \in DOMAIN @ |-> WithFigures(@[k])]]]
  BY Zenon DEF WriteBack
<1>3. ASSUME NEW i \in DOMAIN metrics
      PROVE  /\ "classes" \in DOMAIN metrics[i]
             /\ \A k \in DOMAIN metrics[i].classes : HasFigures(metrics[i].classes[k])
  <2>1. metrics[i] = FileMetrics(files[i])
    BY <1>1
  <2>2. QED
    BY <2>1, MeasuredClasses
<1>4. /\ DOMAIN metrics' = DOMAIN metrics
      /\ \A i \in DOMAIN metrics :
           metrics'[i] = [metrics[i] EXCEPT !.classes = Rewrite(metrics[i].classes)]
  BY <1>2, Zenon
<1>5. ASSUME NEW i \in DOMAIN metrics
      PROVE  /\ DOMAIN metrics'[i].classes = DOMAIN metrics[i].classes
             /\ \A k \in DOMAIN metrics[i].classes :
                  metrics'[i].classes[k] = WithFigures(metrics[i].classes[k])
  <2>1. metrics'[i].classes = Rewrite(metrics[i].classes)
    <3> HIDE DEF Rewrite
    <3>1. QED
      BY <1>3, <1>4, Updated
  <2>2. QED
    BY <2>1
<1>6. /\ Definitions(metrics') = Definitions(metrics)
      /\ \A d \in Definitions(metrics) : ClassAt(metrics', d) = WithFigures(ClassAt(metrics, d))
  BY <1>4, <1>5, Rewritten
<1>7. Classes' = Classes /\ \A d \in Classes : ClassOf(d)' = WithFigures(ClassOf(d))
  BY <1>6 DEF Classes, ClassOf
<1>8. ASSUME NEW d \in Classes PROVE HasFigures(ClassOf(d))
  <2>1. PICK i \in DOMAIN metrics : d \in {i} \X DOMAIN metrics[i].classes
    BY DEF Classes, Definitions
  <2>2. d[1] = i /\ d[2] \in DOMAIN metrics[i].classes
    BY <2>1
  <2>3. QED
    BY <1>3, <2>2, Zenon DEF ClassOf, ClassAt
<1>9. ASSUME NEW d \in Classes
      PROVE  /\ ClassOf(d)'.name = ClassOf(d).name /\ ClassOf(d)'.coupled = ClassOf(d).coupled
             /\ ClassOf(d)'.fanOut = Cardinality(OutNames(ClassOf(d)))
             /\ ClassOf(d)'.fanIn = Cardinality(Referencers(ClassOf(d).name))
             /\ ClassOf(d)'.cboModified
                  = Cardinality(OutNames(ClassOf(d)) \cup Referencers(ClassOf(d).name))
  BY <1>7, <1>8, FiguresWritten
<1>10. \A name : Referencers(name)' = Referencers(name)
  BY <1>7, <1>9 DEF Referencers
<1>11. \A d \in Classes : OutNames(ClassOf(d)') = OutNames(ClassOf(d))
  BY <1>9 DEF OutNames
<1>12. ClassNames(metrics') = ClassNames(metrics)
  BY <1>7, <1>9 DEF ClassNames, Classes, ClassOf
<1>13. \A d \in Classes' : FiguresOK(ClassOf(d))'
  <2>1. ASSUME NEW d \in Classes PROVE FiguresOK(ClassOf(d))'
    <3>1. OutNames(ClassOf(d))' = OutNames(ClassOf(d))
      BY <1>1, <1>9 DEF OutNames
    <3>2. Referencers(ClassOf(d).name)' = Referencers(ClassOf(d).name)
      BY <1>9, <1>10
    <3>3. QED
      BY <1>9, <3>1, <3>2 DEF FiguresOK
  <2>2. QED
    BY <1>7, <2>1
<1>14. QED
  BY <1>1, <1>7, <1>12, <1>13 DEF Counted

\* A step before the figures are written leaves what was measured alone.
LEMMA MeasuredCounts ==
  ASSUME Counted, pc # "done", pc' # "done", UNCHANGED <<files, metrics>>,
         pc' # "index" => DOMAIN basesOf' = ClassNames(metrics)
  PROVE  Counted'
<1>1. Classes' = Classes
  BY DEF Classes
<1>2. QED
  BY <1>1 DEF Counted

LEMMA StutterCounts == Counted /\ UNCHANGED vars => Counted'
<1> SUFFICES ASSUME Counted, UNCHANGED vars PROVE Counted'
  OBVIOUS
<1>1. UNCHANGED <<files, metrics, pc, basesOf>>
  BY DEF vars
<1>2. Classes' = Classes /\ (\A d \in Classes : ClassOf(d)' = ClassOf(d))
  BY <1>1 DEF Classes, ClassOf
<1>3. \A d \in Classes : FiguresOK(ClassOf(d))' <=> FiguresOK(ClassOf(d))
  BY <1>1 DEF FiguresOK, OutNames, Referencers, Classes, ClassOf
<1>4. QED
  BY <1>1, <1>2, <1>3 DEF Counted

THEOREM Counts == Spec => []Counted
<1>1. Init => Counted
  <2> SUFFICES ASSUME Init PROVE Counted
    OBVIOUS
  <2>1. files \in Projects /\ metrics = [i \in DOMAIN files |-> FileMetrics(files[i])] /\ pc = "index"
    BY DEF Init
  <2>2. IsFiniteSet(Classes)
    BY <2>1, MeasuredAreFinite
  <2>3. QED
    BY <2>1, <2>2 DEF Counted
<1>2. ASSUME IInv, Counted, [Next]_vars PROVE Counted'
  <2>1. CASE Index
    BY <1>2, <2>1, MeasuredCounts DEF Index
  <2>2. ASSUME NEW i \in queue, Ask(i) PROVE Counted'
    BY <1>2, <2>2, MeasuredCounts DEF Ask, Counted
  <2>3. CASE TakeBase
    <3>1. UNCHANGED <<files, metrics, pc, basesOf>> /\ path # <<>>
      BY <2>3 DEF TakeBase, External, Known, Cut, Descend
    <3>2. pc = "depth"
      BY <1>2, <3>1 DEF IInv
    <3>3. QED
      BY <1>2, <3>1, <3>2, MeasuredCounts DEF Counted
  <2>4. CASE Answer
    <3>1. UNCHANGED <<files, metrics, pc, basesOf>> /\ path # <<>>
      BY <2>4 DEF Answer
    <3>2. pc = "depth"
      BY <1>2, <3>1 DEF IInv
    <3>3. QED
      BY <1>2, <3>1, <3>2, MeasuredCounts DEF Counted
  <2>5. CASE Resolved
    BY <1>2, <2>5, MeasuredCounts DEF Resolved, Counted
  <2>6. CASE WriteBack
    BY <1>2, <2>6, WriteBackCounts
  <2>7. CASE Finished
    BY <1>2, <2>7, StutterCounts DEF Finished
  <2>8. CASE UNCHANGED vars
    BY <1>2, <2>8, StutterCounts
  <2>9. QED
    BY <1>2, <2>1, <2>2, <2>3, <2>4, <2>5, <2>6, <2>7, <2>8 DEF Next
<1>3. QED
  BY <1>1, <1>2, Invariance, PTL DEF Spec

-----------------------------------------------------------------------------
\* For every project: with class names that are unique, as many references are
\* counted where they come from as where they go to; and the classes a class is
\* coupled to are at least those it refers to or those that refer to it, at
\* most both together, and never itself (the write-back of resolve_inheritance).
THEOREM CouplingIsAlwaysMutual == Spec => []CouplingIsMutual
<1>1. ASSUME IInv, Counted PROVE CouplingIsMutual
  <2> SUFFICES ASSUME pc = "done"
               PROVE  /\ NamesUnique =>
                           SumOf([d \in Classes |-> ClassOf(d).fanOut])
                             = SumOf([d \in Classes |-> ClassOf(d).fanIn])
                      /\ \A d \in Classes :
                           /\ ClassOf(d).cboModified
                                \in Max({ClassOf(d).fanIn, ClassOf(d).fanOut})
                                      ..(ClassOf(d).fanIn + ClassOf(d).fanOut)
                           /\ ClassOf(d).cboModified < Cardinality(DOMAIN basesOf)
    BY Zenon DEF CouplingIsMutual
  <2>1. /\ DOMAIN basesOf = ClassNames(metrics) /\ IsFiniteSet(DOMAIN basesOf) /\ IsFiniteSet(Classes)
        /\ \A d \in Classes : FiguresOK(ClassOf(d))
    BY <1>1 DEF IInv, Counted
  <2>2. NamesUnique =>
          SumOf([d \in Classes |-> ClassOf(d).fanOut]) = SumOf([d \in Classes |-> ClassOf(d).fanIn])
    BY <2>1, EndsAgree
  <2>3. ASSUME NEW d \in Classes
        PROVE  /\ ClassOf(d).cboModified
                    \in Max({ClassOf(d).fanIn, ClassOf(d).fanOut})..(ClassOf(d).fanIn + ClassOf(d).fanOut)
               /\ ClassOf(d).cboModified < Cardinality(DOMAIN basesOf)
    <3>1. FiguresOK(ClassOf(d))
      BY <2>1
    <3>2. /\ ClassOf(d).name \in DOMAIN basesOf
          /\ OutNames(ClassOf(d)) \subseteq DOMAIN basesOf \ {ClassOf(d).name}
          /\ Referencers(ClassOf(d).name) \subseteq DOMAIN basesOf \ {ClassOf(d).name}
      BY <2>1, ReferencesWithin
    <3> DEFINE out == OutNames(ClassOf(d))
               in == Referencers(ClassOf(d).name)
    <3>3. /\ Cardinality(out \cup in)
               \in Max({Cardinality(in), Cardinality(out)})..(Cardinality(in) + Cardinality(out))
          /\ Cardinality(out \cup in) < Cardinality(DOMAIN basesOf)
      BY <2>1, <3>2, UnionBounds, Zenon
    <3>4. QED
      BY <3>1, <3>3, Zenon DEF FiguresOK
  <2>4. QED
    BY <2>2, <2>3
<1>2. QED
  BY <1>1, Invariance, Counts, PTL

-----------------------------------------------------------------------------
(* Syntax trees: what is above a node is a line. *)

\* What is above each of the first nodes, as the definition of Above makes it.
Lineage(tree, k) ==
  CHOOSE up : up = [n \in 0..k |-> IF n = 0 THEN {} ELSE {tree[n].up} \cup up[tree[n].up]]

Lines(tree, h, k) ==
  \A n \in 0..k : h[n] = IF n = 0 THEN {} ELSE {tree[n].up} \cup h[tree[n].up]

LEMMA TreeFacts ==
  ASSUME NEW tree, IsTree(tree)
  PROVE  /\ Len(tree) \in Nat /\ DOMAIN tree = 1..Len(tree)
         /\ \A n \in DOMAIN tree : n \in Nat \ {0} /\ tree[n].up \in 0..(n - 1)
         /\ IsFiniteSet(DOMAIN tree) /\ DOMAIN tree \subseteq Nat
<1>1. Len(tree) \in Nat /\ DOMAIN tree = 1..Len(tree)
  BY DEF IsTree
<1>2. \A n \in DOMAIN tree : n \in Nat \ {0} /\ tree[n].up \in 0..(n - 1)
  BY <1>1 DEF IsTree
<1>3. IsFiniteSet(DOMAIN tree)
  BY <1>1, FS_Interval
<1>4. QED
  BY <1>1, <1>2, <1>3

LEMMA LinesExist ==
  ASSUME NEW tree, IsTree(tree), NEW k \in 0..Len(tree)
  PROVE  DOMAIN Lineage(tree, k) = 0..k /\ Lines(tree, Lineage(tree, k), k)
<1>1. Len(tree) \in Nat /\ \A n \in 1..Len(tree) : tree[n].up \in 0..(n - 1)
  BY TreeFacts
<1> DEFINE S == {m \in Nat : m <= k => \E h : DOMAIN h = 0..m /\ Lines(tree, h, m)}
<1>2. 0 \in S
  <2> DEFINE h == [n \in 0..0 |-> {}]
  <2>1. DOMAIN h = 0..0 /\ Lines(tree, h, 0)
    BY DEF Lines
  <2>2. QED
    BY <2>1
<1>3. ASSUME NEW m \in 1..k, m - 1 \in S PROVE m \in S
  <2>1. m \in Nat /\ m <= k /\ m - 1 <= k /\ m - 1 \in Nat
    BY <1>1
  <2>2. PICK g : DOMAIN g = 0..(m - 1) /\ Lines(tree, g, m - 1)
    BY <1>3, <2>1
  <2>3. m \in 1..Len(tree)
    BY <1>1, <2>1
  <2> DEFINE h == [n \in 0..m |-> IF n = m THEN {tree[m].up} \cup g[tree[m].up] ELSE g[n]]
  <2>4. ASSUME NEW n \in 0..m PROVE h[n] = IF n = 0 THEN {} ELSE {tree[n].up} \cup h[tree[n].up]
    <3>1. CASE n = m
      <4>1. tree[m].up \in 0..(m - 1)
        BY <1>1, <2>3
      <4>2. h[tree[m].up] = g[tree[m].up]
        BY <2>1, <4>1
      <4>3. h[m] = {tree[m].up} \cup g[tree[m].up] /\ m # 0
        BY <2>1
      <4> HIDE DEF h
      <4>4. QED
        BY <3>1, <4>2, <4>3
    <3>2. CASE n # m
      <4>1. n \in 0..(m - 1)
        BY <2>1, <3>2
      <4>2. g[n] = IF n = 0 THEN {} ELSE {tree[n].up} \cup g[tree[n].up]
        BY <2>2, <4>1 DEF Lines
      <4>3. n # 0 => tree[n].up \in 0..(m - 1)
        <5>1. n # 0 => n \in 1..Len(tree)
          BY <2>3, <4>1
        <5>2. QED
          BY <1>1, <4>1, <5>1
      <4>4. n # 0 => h[tree[n].up] = g[tree[n].up]
        BY <2>1, <4>3
      <4>5. h[n] = g[n]
        BY <3>2
      <4> HIDE DEF h
      <4>6. QED
        BY <4>2, <4>4, <4>5
    <3>3. QED
      BY <3>1, <3>2
  <2>5. DOMAIN h = 0..m /\ Lines(tree, h, m)
    BY <2>4 DEF Lines
  <2> HIDE DEF h
  <2>6. QED
    BY <2>1, <2>5
<1>4. k \in S
  <2>1. k \in Nat
    OBVIOUS
  <2> HIDE DEF S
  <2>2. 0..k \subseteq S
    BY <1>2, <1>3, <2>1, Upward
  <2>3. QED
    BY <2>1, <2>2
<1>5. PICK h : DOMAIN h = 0..k /\ Lines(tree, h, k)
  BY <1>4
<1> DEFINE f == [n \in 0..k |-> h[n]]
           F(up) == [n \in 0..k |-> IF n = 0 THEN {} ELSE {tree[n].up} \cup up[tree[n].up]]
<1>6. f = F(f)
  <2>1. \A n \in 0..k : n # 0 => tree[n].up \in 0..k
    <3>1. ASSUME NEW n \in 0..k, n # 0 PROVE tree[n].up \in 0..k
      <4>1. n \in 1..Len(tree)
        BY <1>1, <3>1
      <4>2. QED
        BY <1>1, <4>1
    <3>2. QED
      BY <3>1
  <2>2. \A n \in 0..k : n # 0 => f[tree[n].up] = h[tree[n].up]
    BY <2>1
  <2>3. \A n \in 0..k : h[n] = IF n = 0 THEN {} ELSE {tree[n].up} \cup h[tree[n].up]
    BY <1>5 DEF Lines
  <2>4. \A n \in 0..k : f[n] = IF n = 0 THEN {} ELSE {tree[n].up} \cup f[tree[n].up]
    BY <2>2, <2>3
  <2>5. QED
    BY <2>4
<1>7. Lineage(tree, k) = F(Lineage(tree, k))
  <2> HIDE DEF f
  <2>1. \E up : up = F(up)
    BY <1>6
  <2>2. Lineage(tree, k) = CHOOSE up : up = F(up)
    BY Zenon DEF Lineage
  <2> HIDE DEF F
  <2>3. QED
    BY <2>1, <2>2, Zenon
<1>8. DOMAIN Lineage(tree, k) = 0..k
  BY <1>7
<1>9. Lines(tree, Lineage(tree, k), k)
  BY <1>7 DEF Lines
<1>10. QED
  BY <1>8, <1>9

\* The line of a node is the same whichever node the definition starts from.
LEMMA LinesAgree ==
  ASSUME NEW tree, IsTree(tree), NEW k \in 0..Len(tree), NEW n \in 0..k
  PROVE  Lineage(tree, k)[n] = Above(tree, n)
<1>1. Len(tree) \in Nat /\ \A m \in 1..Len(tree) : tree[m].up \in 0..(m - 1)
  BY TreeFacts
<1>2. k \in Nat /\ n \in Nat /\ n \in 0..Len(tree) /\ k <= Len(tree)
  BY <1>1
<1> DEFINE a == Lineage(tree, k)
           b == Lineage(tree, n)
           S == {m \in Nat : \A j \in 0..m : j <= n => a[j] = b[j]}
<1>3. Lines(tree, a, k) /\ Lines(tree, b, n)
  BY <1>2, LinesExist
<1>4. \A j \in 0..n : /\ a[j] = IF j = 0 THEN {} ELSE {tree[j].up} \cup a[tree[j].up]
                      /\ b[j] = IF j = 0 THEN {} ELSE {tree[j].up} \cup b[tree[j].up]
  <2> HIDE DEF a, b
  <2>1. \A j \in 0..n : j \in 0..k
    BY <1>2
  <2>2. \A j \in 0..k : a[j] = IF j = 0 THEN {} ELSE {tree[j].up} \cup a[tree[j].up]
    BY <1>3 DEF Lines
  <2>3. \A j \in 0..n : b[j] = IF j = 0 THEN {} ELSE {tree[j].up} \cup b[tree[j].up]
    BY <1>3 DEF Lines
  <2>4. QED
    BY <2>1, <2>2, <2>3
<1> HIDE DEF a, b
<1>5. 0 \in S
  <2>1. a[0] = {} /\ b[0] = {}
    <3>1. 0 \in 0..n
      BY <1>2
    <3>2. QED
      BY <1>4, <3>1
  <2>2. \A j \in 0..0 : j = 0
    OBVIOUS
  <2>3. QED
    BY <2>1, <2>2
<1>6. ASSUME NEW m \in 1..n, m - 1 \in S PROVE m \in S
  <2>1. m \in Nat /\ m \in 0..n /\ m # 0 /\ m \in 1..Len(tree)
    BY <1>2
  <2>2. \A j \in 0..(m - 1) : a[j] = b[j]
    BY <1>2, <1>6
  <2>3. tree[m].up \in 0..(m - 1)
    BY <1>1, <2>1
  <2>4. a[m] = {tree[m].up} \cup a[tree[m].up] /\ b[m] = {tree[m].up} \cup b[tree[m].up]
    BY <1>4, <2>1
  <2>5. a[tree[m].up] = b[tree[m].up]
    BY <2>2, <2>3
  <2>6. a[m] = b[m]
    BY <2>4, <2>5
  <2>7. \A j \in 0..m : j = m \/ j \in 0..(m - 1)
    BY <2>1
  <2>8. QED
    BY <2>1, <2>2, <2>6, <2>7
<1>7. n \in S
  <2> HIDE DEF S
  <2>1. 0..n \subseteq S
    BY <1>2, <1>5, <1>6, Upward
  <2>2. QED
    BY <1>2, <2>1
<1>8. a[n] = b[n]
  BY <1>2, <1>7
<1>9. Above(tree, n) = b[n]
  BY Zenon DEF Above, Lineage, b
<1>10. QED
  BY <1>8, <1>9 DEF a

LEMMA AboveUnfolds ==
  ASSUME NEW tree, IsTree(tree)
  PROVE  /\ Above(tree, 0) = {}
         /\ \A n \in DOMAIN tree : Above(tree, n) = {tree[n].up} \cup Above(tree, tree[n].up)
<1>1. Len(tree) \in Nat /\ DOMAIN tree = 1..Len(tree)
  BY TreeFacts
<1>2. ASSUME NEW n \in 0..Len(tree)
      PROVE  Above(tree, n) = IF n = 0 THEN {} ELSE {tree[n].up} \cup Above(tree, tree[n].up)
  <2> DEFINE a == Lineage(tree, n)
  <2>1. Lines(tree, a, n) /\ n \in 0..n
    BY <1>1, LinesExist
  <2>2. a[n] = IF n = 0 THEN {} ELSE {tree[n].up} \cup a[tree[n].up]
    BY <2>1 DEF Lines
  <2>3. n # 0 => tree[n].up \in 0..n
    <3>1. n # 0 => tree[n].up \in 0..(n - 1)
      BY <1>1, TreeFacts
    <3>2. QED
      BY <1>1, <3>1
  <2>4. a[n] = Above(tree, n) /\ (n # 0 => a[tree[n].up] = Above(tree, tree[n].up))
    BY <2>1, <2>3, LinesAgree
  <2> HIDE DEF a
  <2>5. QED
    BY <2>2, <2>4
<1>3. QED
  BY <1>1, <1>2

\* What is above a node is a line: all of it is before the node, and of any two
\* nodes on it the first is above the other.
LineOK(tree, n) ==
  /\ Above(tree, n) \subseteq 0..(n - 1)
  /\ n > 0 => 0 \in Above(tree, n)
  /\ \A a \in Above(tree, n) : \A b \in Above(tree, a) : b \in Above(tree, n)
  /\ \A a, b \in Above(tree, n) : b < a => b \in Above(tree, a)

LEMMA AboveFacts ==
  ASSUME NEW tree, IsTree(tree)
  PROVE  \A n \in DOMAIN tree : LineOK(tree, n)
<1>1. Len(tree) \in Nat /\ DOMAIN tree = 1..Len(tree) /\ \A n \in DOMAIN tree : tree[n].up \in 0..(n - 1)
  BY TreeFacts
<1>2. /\ Above(tree, 0) = {}
      /\ \A n \in DOMAIN tree : Above(tree, n) = {tree[n].up} \cup Above(tree, tree[n].up)
  BY AboveUnfolds
<1> DEFINE S == {m \in Nat : \A j \in 0..m : j <= Len(tree) => LineOK(tree, j)}
<1>3. 0 \in S
  <2>1. LineOK(tree, 0)
    BY <1>2 DEF LineOK
  <2>2. \A j \in 0..0 : j = 0
    OBVIOUS
  <2>3. QED
    BY <2>1, <2>2
<1>4. ASSUME NEW m \in 1..Len(tree), m - 1 \in S PROVE m \in S
  <2> DEFINE p == tree[m].up
             A == Above(tree, m)
             B == Above(tree, p)
  <2>1. m \in Nat /\ p \in 0..(m - 1) /\ m \in DOMAIN tree
    BY <1>1
  <2>2. p \in 0..(m - 1) /\ p <= Len(tree) /\ p \in Nat /\ p < m
    BY <1>1, <2>1
  <2>3. LineOK(tree, p)
    BY <1>4, <2>2
  <2>4. A = {p} \cup B
    BY <1>2, <2>1
  <2>5. B \subseteq 0..(p - 1) /\ (p > 0 => 0 \in B) /\ \A a \in B : \A b \in Above(tree, a) : b \in B
    BY <2>3 DEF LineOK
  <2>6. \A a, b \in B : b < a => b \in Above(tree, a)
    BY <2>3 DEF LineOK
  <2> HIDE DEF p, A, B
  <2>7. A \subseteq 0..(m - 1)
    BY <2>2, <2>4, <2>5
  <2>8. 0 \in A
    BY <2>2, <2>4, <2>5
  <2>9. ASSUME NEW a \in A, NEW b \in Above(tree, a) PROVE b \in A
    BY <2>4, <2>5, <2>9 DEF B
  <2>10. ASSUME NEW a \in A, NEW b \in A, b < a PROVE b \in Above(tree, a)
    <3>1. CASE a = p
      <4>1. b # p
        BY <2>2, <2>10, <3>1
      <4>2. QED
        BY <2>4, <3>1, <4>1 DEF B
    <3>2. CASE a # p
      <4>1. a \in B /\ a < p
        BY <2>2, <2>4, <2>5, <3>2
      <4>2. b \in B
        BY <2>2, <2>4, <2>5, <2>10, <4>1
      <4>3. QED
        BY <2>6, <2>10, <4>1, <4>2
    <3>3. QED
      BY <3>1, <3>2
  <2>11. LineOK(tree, m)
    BY <2>7, <2>8, <2>9, <2>10 DEF LineOK, A
  <2>12. \A j \in 0..m : j = m \/ j \in 0..(m - 1)
    BY <2>1
  <2>13. QED
    BY <1>4, <2>1, <2>11, <2>12
<1>5. QED
  <2> HIDE DEF S
  <2>1. 0..Len(tree) \subseteq S
    BY <1>1, <1>3, <1>4, Upward
  <2>2. ASSUME NEW n \in DOMAIN tree PROVE LineOK(tree, n)
    <3>1. n \in S /\ n \in 0..n /\ n <= Len(tree)
      BY <1>1, <2>1
    <3>2. QED
      BY <3>1 DEF S
  <2>3. QED
    BY <2>2

\* Where a node on the line of another stands: what is before it on the line is
\* above it, its parent last.
LEMMA LineFacts ==
  ASSUME NEW tree, IsTree(tree), NEW d \in DOMAIN tree, NEW r \in Above(tree, d) \cup {d}, r # 0
  PROVE  /\ r \in DOMAIN tree /\ r \in Nat /\ d \in Nat /\ r <= d
         /\ Above(tree, r) \subseteq Above(tree, d)
         /\ Above(tree, d) \cup {d} \subseteq 0..d /\ d \notin Above(tree, d)
         /\ \A s \in Above(tree, d) \cup {d} : s < r <=> s \in Above(tree, r)
         /\ tree[r].up \in Above(tree, r) /\ tree[r].up \in 0..(r - 1)
         /\ \A s \in Above(tree, r) : s \in Nat /\ s <= tree[r].up
<1>1. Len(tree) \in Nat /\ DOMAIN tree = 1..Len(tree) /\ d \in Nat
  BY TreeFacts
<1>2. LineOK(tree, d)
  BY AboveFacts
<1> DEFINE A == Above(tree, d)
           B == Above(tree, r)
<1>3. /\ A \subseteq 0..(d - 1)
      /\ \A a \in A : \A b \in Above(tree, a) : b \in A
      /\ \A a, b \in A : b < a => b \in Above(tree, a)
  BY <1>2 DEF LineOK
<1>4. r \in DOMAIN tree /\ r \in Nat /\ r <= d
  BY <1>1, <1>3
<1>5. B \subseteq 0..(r - 1)
  BY <1>4, AboveFacts DEF LineOK
<1>6. B \subseteq A
  BY <1>3
<1>7. A \cup {d} \subseteq 0..d /\ d \notin A
  BY <1>1, <1>3
<1>8. ASSUME NEW s \in A \cup {d} PROVE s < r <=> s \in B
  <2>1. s \in Nat /\ s <= d
    BY <1>1, <1>7
  <2>2. s \in B => s < r
    BY <1>4, <1>5
  <2>3. ASSUME s < r PROVE s \in B
    <3>1. s \in A
      BY <1>1, <1>4, <2>1, <2>3
    <3>2. QED
      BY <1>3, <2>3, <3>1
  <2>4. QED
    BY <2>2, <2>3
<1>9. B = {tree[r].up} \cup Above(tree, tree[r].up) /\ tree[r].up \in 0..(r - 1)
  BY <1>4, AboveUnfolds, TreeFacts
<1>10. ASSUME NEW s \in B PROVE s \in Nat /\ s <= tree[r].up
  <2> DEFINE p == tree[r].up
  <2>1. CASE s = p
    BY <1>9, <2>1
  <2>2. CASE s # p
    <3>1. s \in Above(tree, p) /\ p \in Nat /\ p <= Len(tree)
      BY <1>1, <1>4, <1>9, <2>2
    <3>2. p # 0
      BY <3>1, AboveUnfolds
    <3>3. p \in DOMAIN tree
      BY <1>1, <3>1, <3>2
    <3>4. Above(tree, p) \subseteq 0..(p - 1)
      BY <3>3, AboveFacts DEF LineOK
    <3> HIDE DEF p
    <3>5. s \in Nat /\ s <= p
      BY <3>1, <3>4
    <3>6. QED
      BY <3>5 DEF p
  <2>3. QED
    BY <2>1, <2>2
<1>11. QED
  BY <1>1, <1>4, <1>6, <1>7, <1>8, <1>9, <1>10

\* The member of a set next above a node, or the module.
Nearest(tree, S, n) == Max({0} \cup (Above(tree, n) \cap S))

LEMMA NearestFacts ==
  ASSUME NEW tree, IsTree(tree), NEW S, S \subseteq DOMAIN tree, NEW n \in DOMAIN tree
  PROVE  /\ Nearest(tree, S, n) \in {0} \cup (Above(tree, n) \cap S)
         /\ \A s \in Above(tree, n) \cap S : s <= Nearest(tree, S, n)
         /\ Nearest(tree, S, n) = 0 <=> Above(tree, n) \cap S = {}
         /\ \A f \in Above(tree, n) \cap S :
              (\A s \in Above(tree, n) \cap S : s <= f) => Nearest(tree, S, n) = f
<1> DEFINE M == {0} \cup (Above(tree, n) \cap S)
<1>1. n \in Nat /\ M \subseteq 0..n /\ M # {} /\ \A s \in S : s \in Nat /\ s # 0
  <2>1. n \in Nat /\ Above(tree, n) \subseteq 0..(n - 1) /\ \A s \in S : s \in Nat /\ s # 0
    BY TreeFacts, AboveFacts DEF LineOK
  <2>2. QED
    BY <2>1
<1>2. Max(M) \in M /\ \A y \in M : y <= Max(M)
  BY <1>1, MaxIsGreatest
<1>3. Nearest(tree, S, n) = Max(M)
  BY DEF Nearest
<1> DEFINE g == Nearest(tree, S, n)
<1>4. g \in M /\ (\A y \in M : y <= g)
  BY <1>2, <1>3
<1>5. g \in Nat
  BY <1>1, <1>4
<1> HIDE DEF g
<1>6. g = 0 <=> Above(tree, n) \cap S = {}
  BY <1>1, <1>4, <1>5
<1>7. ASSUME NEW f \in Above(tree, n) \cap S, \A s \in Above(tree, n) \cap S : s <= f PROVE g = f
  <2>1. f \in Nat /\ f # 0 /\ f <= g
    BY <1>1, <1>4
  <2>2. g \in Above(tree, n) \cap S
    BY <1>4, <1>5, <2>1
  <2>3. QED
    BY <1>5, <1>7, <2>1, <2>2
<1>8. QED
  BY <1>4, <1>6, <1>7 DEF g

-----------------------------------------------------------------------------
(* Branches and functions. *)

AllFunctions(tree) == OfKind(tree, {"FunctionDef"})

\* The module is above everything.
LEMMA FromTheModule ==
  ASSUME NEW tree, IsTree(tree)
  PROVE  /\ Below(tree, 0) = DOMAIN tree
         /\ CollectFunctions(tree, 0) = AllFunctions(tree)
         /\ AllFunctions(tree) \subseteq DOMAIN tree /\ IsFiniteSet(AllFunctions(tree))
         /\ AllFunctions(tree) \subseteq Nat /\ 0 \notin DOMAIN tree
         /\ CollectClasses(tree, 0) \subseteq Nat /\ IsFiniteSet(CollectClasses(tree, 0))
         /\ CollectClasses(tree, 0) \subseteq DOMAIN tree
<1>1. \A n \in DOMAIN tree : n \in Nat \ {0} /\ 0 \in Above(tree, n)
  BY TreeFacts, AboveFacts DEF LineOK
<1>2. Below(tree, 0) = DOMAIN tree
  BY <1>1 DEF Below
<1>3. /\ AllFunctions(tree) \subseteq DOMAIN tree /\ CollectFunctions(tree, 0) = AllFunctions(tree)
      /\ CollectClasses(tree, 0) \subseteq DOMAIN tree
  BY <1>2 DEF CollectFunctions, CollectClasses, AllFunctions, OfKind
<1>4. IsFiniteSet(AllFunctions(tree)) /\ IsFiniteSet(CollectClasses(tree, 0))
  BY <1>3, TreeFacts, FS_Subset
<1>5. QED
  BY <1>1, <1>2, <1>3, <1>4

LEMMA FunctionsInOrder ==
  ASSUME NEW tree, IsTree(tree)
  PROVE  ToSet(InOrder(AllFunctions(tree))) = AllFunctions(tree)
<1> DEFINE F == AllFunctions(tree)
           functions == InOrder(F)
<1>1. F \subseteq Nat /\ IsFiniteSet(F)
  BY FromTheModule
<1> HIDE DEF F, functions
<1>2. \A i \in DOMAIN functions : functions[i] \in F
  BY <1>1, OrderFacts DEF functions
<1>3. \A f \in F : Place(F, f) \in DOMAIN functions /\ functions[Place(F, f)] = f
  BY <1>1, OrderFacts DEF functions
<1>4. ASSUME NEW x \in ToSet(functions) PROVE x \in F
  BY <1>2, <1>4 DEF ToSet
<1>5. ASSUME NEW x \in F PROVE x \in ToSet(functions)
  BY <1>3, <1>5 DEF ToSet
<1>6. QED
  BY <1>4, <1>5 DEF F, functions

LEMMA TokenFacts ==
  ASSUME NEW tree, IsTree(tree), NEW n \in DOMAIN tree
  PROVE  BranchTokens(tree, n) \in Int /\ (n \in AllFunctions(tree) => BranchTokens(tree, n) = 0)
<1>1. ASSUME NEW slot PROVE Cardinality(Kids(tree, n, slot)) \in Nat
  <2>1. Kids(tree, n, slot) \subseteq DOMAIN tree
    BY DEF Kids
  <2>2. QED
    BY <2>1, TreeFacts, FS_Subset, FS_CardinalityType
<1>2. tree[n].n \in Nat
  BY DEF IsTree
<1> DEFINE test == Cardinality(Kids(tree, n, "test"))
           guard == Cardinality(Kids(tree, n, "guard"))
           ifs == Cardinality(Kids(tree, n, "ifs"))
<1>3. test \in Nat /\ guard \in Nat /\ ifs \in Nat
  BY <1>1
<1>4. BranchTokens(tree, n) =
        CASE tree[n].kind \in {"If", "For", "While", "Handler", "IfExp"} -> 1
          [] tree[n].kind = "Clause" -> test
          [] tree[n].kind = "Case" -> 1 + guard
          [] tree[n].kind = "Generator" -> 1 + ifs
          [] tree[n].kind = "BoolOp" -> tree[n].n
          [] OTHER -> 0
  BY DEF BranchTokens
<1> HIDE DEF test, guard, ifs
<1>5. BranchTokens(tree, n) \in Int
  BY <1>2, <1>3, <1>4
<1>6. n \in AllFunctions(tree) => BranchTokens(tree, n) = 0
  BY <1>4 DEF AllFunctions, OfKind
<1>7. QED
  BY <1>5, <1>6

\* In the range of a function and of none nested in it are the nodes that it is
\* the next function above of.
LEMMA OwnRange ==
  ASSUME NEW tree, IsTree(tree), NEW g \in AllFunctions(tree)
  PROVE  InRange(tree, g, CollectFunctions(tree, g))
           = {n \in DOMAIN tree \ AllFunctions(tree) : Nearest(tree, AllFunctions(tree), n) = g}
<1> DEFINE F == AllFunctions(tree)
           I == InRange(tree, g, CollectFunctions(tree, g))
<1>1. F \subseteq DOMAIN tree /\ g \in Nat /\ g # 0 /\ \A f \in F : f # 0 /\ f \in Nat
  BY FromTheModule
<1>2. I = {n \in DOMAIN tree : /\ g \in Above(tree, n)
                               /\ \A f \in Above(tree, n) \cup {n} :
                                    ~ (f \in F /\ f \in DOMAIN tree /\ g \in Above(tree, f))}
  BY DEF InRange, Below, CollectFunctions, AllFunctions
<1>3. ASSUME NEW n \in I PROVE n \in DOMAIN tree \ F /\ Nearest(tree, F, n) = g
  <2>1. /\ n \in DOMAIN tree /\ g \in Above(tree, n)
        /\ \A f \in Above(tree, n) \cup {n} : f \in F => g \notin Above(tree, f)
    BY <1>1, <1>2, <1>3
  <2>2. n \notin F
    BY <2>1
  <2>3. ASSUME NEW s \in Above(tree, n) \cap F PROVE s <= g
    <3>1. g < s <=> g \in Above(tree, s)
      BY <1>1, <2>1, LineFacts
    <3>2. QED
      BY <1>1, <2>1, <3>1
  <2>4. g \in Above(tree, n) \cap F
    BY <2>1
  <2> HIDE DEF F, I
  <2>5. QED
    BY <1>1, <2>1, <2>2, <2>3, <2>4, NearestFacts
<1>4. ASSUME NEW n \in DOMAIN tree \ F, Nearest(tree, F, n) = g PROVE n \in I
  <2>1. g \in Above(tree, n) /\ \A s \in Above(tree, n) \cap F : s <= g
    BY <1>1, <1>4, NearestFacts
  <2>2. ASSUME NEW f \in Above(tree, n) \cup {n}, f \in F, g \in Above(tree, f) PROVE FALSE
    <3>1. f \in Above(tree, n) /\ f # 0 /\ f <= g
      BY <1>1, <1>4, <2>1, <2>2
    <3>2. g < f
      BY <1>1, <1>4, <2>1, <2>2, <3>1, LineFacts
    <3>3. QED
      BY <1>1, <2>2, <3>1, <3>2
  <2>3. QED
    BY <1>2, <1>4, <2>1, <2>2
<1>5. QED
  BY <1>3, <1>4

\* Functions that SumOf takes the values of one by one.
LEMMA SumIsOver == ASSUME NEW S, NEW f, DOMAIN f = S, f = [x \in S |-> f[x]] PROVE SumOf(f) = Over(f, S)
BY Zenon DEF Over

\* Every branch is counted for the function it belongs to, or outside all.
BranchesOnce(tree, file) ==
  LET functions == InOrder(CollectFunctions(tree, 0))
      Branches(nodes) == SumOf([n \in nodes |-> BranchTokens(tree, n)])
      Outside == {n \in DOMAIN tree : Above(tree, n) \cap ToSet(functions) = {}}
  IN  SumOf([f \in DOMAIN functions |-> file.functions[f].cyclomatic - 1])
        + Branches(Outside) = Branches(DOMAIN tree)

LEMMA MeasuredFunctions ==
  ASSUME NEW file, IsTree(file.tree)
  PROVE  LET functions == InOrder(CollectFunctions(file.tree, 0))
         IN  /\ DOMAIN FileMetrics(file).functions = DOMAIN functions
             /\ \A i \in DOMAIN functions :
                  FileMetrics(file).functions[i].cyclomatic
                    = Cyclomatic(file.tree, functions[i], CollectFunctions(file.tree, functions[i]))
<1> DEFINE functions == InOrder(CollectFunctions(file.tree, 0))
           Own(f) == CollectFunctions(file.tree, f)
<1>1. ASSUME NEW f, NEW nested
      PROVE  FunctionMetrics(file.tree, f, nested).cyclomatic = Cyclomatic(file.tree, f, nested)
  BY DEF FunctionMetrics
<1>2. FileMetrics(file).functions
        = [i \in DOMAIN functions |-> FunctionMetrics(file.tree, functions[i], Own(functions[i]))]
  BY DEF FileMetrics
<1> HIDE DEF functions, Own
<1>3. QED
  BY <1>1, <1>2 DEF functions, Own

LEMMA BranchesAreCountedOnce ==
  ASSUME NEW file, IsTree(file.tree)
  PROVE  BranchesOnce(file.tree, FileMetrics(file))
<1> DEFINE tree == file.tree
           D == DOMAIN tree
           F == AllFunctions(tree)
           R == D \ F
           functions == InOrder(CollectFunctions(tree, 0))
           b == [n \in D |-> BranchTokens(tree, n)]
           near == [n \in D |-> Nearest(tree, F, n)]
           G == [g \in F \cup {0} |-> Over(b, Fiber(R, near, g))]
           c == [i \in DOMAIN functions |-> FileMetrics(file).functions[i].cyclomatic - 1]
           place == [f \in F |-> Place(F, f)]
           Outside == {n \in D : Above(tree, n) \cap ToSet(functions) = {}}
<1>1. /\ F \subseteq D /\ F \subseteq Nat /\ IsFiniteSet(F) /\ 0 \notin D
      /\ functions = InOrder(F)
  BY FromTheModule
<1>2. IsFiniteSet(D) /\ IsFiniteSet(R) /\ IsFiniteSet(F \cup {0})
  <2>1. R \subseteq D
    OBVIOUS
  <2>2. QED
    BY <1>1, <2>1, TreeFacts, FS_Subset, FS_AddElement
<1>3. \A n \in D : b[n] \in Int /\ (n \in F => b[n] = 0)
  BY TokenFacts
<1>4. \A n \in R : near[n] \in F \cup {0}
  <2>1. \A n \in D : near[n] = Nearest(tree, F, n)
    OBVIOUS
  <2> HIDE DEF F, near, functions, G, b, c, place, Outside
  <2>2. ASSUME NEW n \in D PROVE Nearest(tree, F, n) \in F \cup {0}
    BY <1>1, NearestFacts
  <2>3. QED
    BY <2>1, <2>2
<1>5. \A g \in F \cup {0} : G[g] = Over(b, Fiber(R, near, g))
  OBVIOUS
<1>6. Over(b, R) = Over(G, F \cup {0})
  <2> HIDE DEF b, near, G, R, F, D
  <2>1. \A x \in R : b[x] \in Int
    BY <1>3 DEF R
  <2>2. QED
    BY <1>2, <1>4, <1>5, <2>1, OverFibers
<1>7. \A g \in F \cup {0} : G[g] \in Int
  <2>1. ASSUME NEW g \in F \cup {0} PROVE Over(b, Fiber(R, near, g)) \in Int
    <3>1. Fiber(R, near, g) \subseteq R
      BY DEF Fiber
    <3>2. IsFiniteSet(Fiber(R, near, g)) /\ \A n \in Fiber(R, near, g) : b[n] \in Int
      BY <1>2, <1>3, <3>1, FS_Subset
    <3> HIDE DEF b, near, R
    <3>3. QED
      BY <3>2, OverInt
  <2>2. QED
    BY <1>5, <2>1
<1>8. Over(G, F \cup {0}) = Over(G, F) + G[0] /\ Over(G, F) \in Int
  <2>1. 0 \notin F
    BY <1>1
  <2> HIDE DEF G, F
  <2>2. QED
    BY <1>1, <1>7, <2>1, OverAdd
<1>9. /\ DOMAIN functions = 1..Cardinality(F)
      /\ \A i \in DOMAIN functions : functions[i] \in F /\ place[functions[i]] = i
      /\ \A f \in F : place[f] \in DOMAIN functions /\ functions[place[f]] = f
  <2>1. /\ DOMAIN functions = 1..Cardinality(F)
        /\ \A i \in DOMAIN functions : functions[i] \in F /\ Place(F, functions[i]) = i
        /\ \A f \in F : Place(F, f) \in DOMAIN functions /\ functions[Place(F, f)] = f
    <3> HIDE DEF F, functions
    <3>1. QED
      BY <1>1, OrderFacts
  <2> HIDE DEF functions
  <2>2. QED
    BY <2>1
<1>10. ASSUME NEW i \in DOMAIN functions PROVE c[i] = G[functions[i]]
  <2> DEFINE g == functions[i]
             own == InRange(tree, g, CollectFunctions(tree, g))
  <2>1. g \in F
    BY <1>9
  <2>2. own = Fiber(R, near, g)
    <3>1. own = {n \in R : Nearest(tree, F, n) = g}
      BY <2>1, OwnRange
    <3>2. \A n \in R : near[n] = Nearest(tree, F, n)
      OBVIOUS
    <3> HIDE DEF own, near, R, F, g
    <3>3. QED
      BY <3>1, <3>2 DEF Fiber
  <2>3. FileMetrics(file).functions[i].cyclomatic = 1 + SumOf([n \in own |-> BranchTokens(tree, n)])
    BY MeasuredFunctions DEF Cyclomatic
  <2>4. [n \in own |-> BranchTokens(tree, n)] = [n \in own |-> b[n]]
    BY DEF InRange, Below
  <2>5. SumOf([n \in own |-> BranchTokens(tree, n)]) = G[g]
    <3> HIDE DEF own, near, b, R, G, F, g
    <3>1. QED
      BY <1>5, <2>1, <2>2, <2>4 DEF Over
  <2>6. c[i] = FileMetrics(file).functions[i].cyclomatic - 1 /\ G[g] \in Int
    BY <1>7, <2>1
  <2> HIDE DEF c, G, g, own
  <2>7. c[i] = G[g]
    BY <2>3, <2>5, <2>6
  <2>8. QED
    BY <2>7 DEF g
<1>11. IsFiniteSet(DOMAIN functions)
  BY <1>1, <1>9, FS_Interval, FS_CardinalityType
<1>12. Over(G, F) = Over(c, DOMAIN functions)
  <2> DEFINE T == DOMAIN functions
  <2>1. \A f \in F : G[f] \in Int
    BY <1>7
  <2>2. \A f \in F : place[f] \in T
    BY <1>9
  <2>3. \A i \in T : functions[i] \in F /\ place[functions[i]] = i
    BY <1>9
  <2>4. \A f \in F : functions[place[f]] = f
    BY <1>9
  <2>5. \A i \in T : c[i] = G[functions[i]]
    BY <1>10
  <2>6. IsFiniteSet(T)
    BY <1>11
  <2> HIDE DEF G, F, functions, c, place, T
  <2>7. Over(G, F) = Over(c, T)
    BY <1>1, <2>1, <2>2, <2>3, <2>4, <2>5, <2>6, OverRenamed
  <2>8. QED
    BY <2>7 DEF T
<1>13. SumOf(c) = Over(G, F)
  <2>1. SumOf(c) = Over(c, DOMAIN functions)
    BY SumIsOver
  <2>2. QED
    BY <1>12, <2>1
<1>14. ToSet(functions) = F
  BY <1>1, FunctionsInOrder
<1>15. Fiber(R, near, 0) = Outside \ F
  <2>1. \A n \in D : near[n] = 0 <=> Above(tree, n) \cap F = {}
    <3>1. \A n \in D : near[n] = Nearest(tree, F, n)
      OBVIOUS
    <3> HIDE DEF F, near, functions, G, b, c, place, Outside
    <3>2. ASSUME NEW n \in D PROVE Nearest(tree, F, n) = 0 <=> Above(tree, n) \cap F = {}
      BY <1>1, NearestFacts
    <3>3. QED
      BY <3>1, <3>2
  <2>2. Outside = {n \in D : Above(tree, n) \cap F = {}}
    BY <1>14
  <2> HIDE DEF near, F, Outside, D
  <2>3. QED
    BY <2>1, <2>2 DEF Fiber, R
<1>16. Over(b, Outside) = G[0]
  <2>1. Outside \subseteq D /\ Outside \ F \in SUBSET Outside
    OBVIOUS
  <2>2. IsFiniteSet(Outside)
    BY <1>2, <2>1, FS_Subset
  <2>3. \A n \in Outside : b[n] \in Int
    BY <1>3, <2>1
  <2>4. \A n \in Outside \ (Outside \ F) : b[n] = 0
    BY <1>3, <2>1
  <2> HIDE DEF Outside, b, F, G
  <2>5. Over(b, Outside \ F) = Over(b, Outside)
    BY <2>1, <2>2, <2>3, <2>4, OverPart
  <2>6. QED
    BY <1>5, <1>15, <2>5
<1>17. Over(b, R) = Over(b, D)
  <2>1. R \in SUBSET D /\ \A n \in D \ R : b[n] = 0
    BY <1>3
  <2> HIDE DEF R, b, D
  <2>2. QED
    BY <1>2, <1>3, <2>1, OverPart
<1>18. /\ SumOf([n \in Outside |-> BranchTokens(tree, n)]) = Over(b, Outside)
       /\ SumOf([n \in D |-> BranchTokens(tree, n)]) = Over(b, D)
  <2>1. [n \in Outside |-> BranchTokens(tree, n)] = [n \in Outside |-> b[n]]
    OBVIOUS
  <2>2. [n \in D |-> BranchTokens(tree, n)] = [n \in D |-> b[n]]
    OBVIOUS
  <2> HIDE DEF b, D, Outside
  <2>3. QED
    BY <2>1, <2>2, Zenon DEF Over
<1>19. SumOf(c) + SumOf([n \in Outside |-> BranchTokens(tree, n)]) = SumOf([n \in D |-> BranchTokens(tree, n)])
  <2> HIDE DEF b, D, Outside, c, G, F, R
  <2>1. QED
    BY <1>6, <1>8, <1>13, <1>16, <1>17, <1>18
<1>20. QED
  BY <1>19, Zenon DEF BranchesOnce

-----------------------------------------------------------------------------
(* Statements and the scopes they are in. *)

AllScopes(tree) == OfKind(tree, Scopes)

\* What is above a statement are statements that hold blocks, and their parts.
LEMMA BlocksAbove ==
  ASSUME NEW tree, IsTree(tree)
  PROVE  \A d \in DOMAIN tree : tree[d].kind \in Compound \cup Simple \cup Parts =>
           \A a \in Above(tree, d) : a # 0 => a \in DOMAIN tree /\ tree[a].kind \in Compound \cup Parts
<1> DEFINE Held(d) == \A a \in Above(tree, d) : a # 0 => a \in DOMAIN tree /\ tree[a].kind \in Compound \cup Parts
           S == {m \in Nat : \A d \in DOMAIN tree :
                   d <= m /\ tree[d].kind \in Compound \cup Simple \cup Parts => Held(d)}
<1>1. Len(tree) \in Nat /\ DOMAIN tree = 1..Len(tree) /\ \A n \in DOMAIN tree : tree[n].up \in 0..(n - 1)
  BY TreeFacts
<1>2. /\ Above(tree, 0) = {}
      /\ \A n \in DOMAIN tree : Above(tree, n) = {tree[n].up} \cup Above(tree, tree[n].up)
  BY AboveUnfolds
<1>3. \A d \in DOMAIN tree : tree[d].kind \in Compound \cup Simple \cup Parts /\ tree[d].up > 0 =>
        tree[tree[d].up].kind \in Compound \cup Parts
  BY DEF IsTree
<1>4. 0 \in S
  BY <1>1
<1>5. ASSUME NEW m \in 1..Len(tree), m - 1 \in S PROVE m \in S
  <2> DEFINE p == tree[m].up
  <2>1. m \in Nat /\ m \in DOMAIN tree /\ p \in 0..(m - 1)
    BY <1>1
  <2>2. ASSUME tree[m].kind \in Compound \cup Simple \cup Parts PROVE Held(m)
    <3>1. Above(tree, m) = {p} \cup Above(tree, p)
      BY <1>2, <2>1
    <3>2. CASE p = 0
      BY <1>2, <3>1, <3>2
    <3>3. CASE p # 0
      <4>1. p \in DOMAIN tree /\ p <= m - 1 /\ p > 0
        BY <1>1, <2>1, <3>3
      <4>2. tree[p].kind \in Compound \cup Parts
        BY <1>3, <2>1, <2>2, <4>1
      <4>3. Held(p)
        BY <1>5, <4>1, <4>2
      <4> HIDE DEF p
      <4>4. QED
        BY <3>1, <4>1, <4>2, <4>3
    <3>4. QED
      BY <3>2, <3>3
  <2>3. \A d \in DOMAIN tree : d <= m => d = m \/ d <= m - 1
    BY <1>1, <2>1
  <2> HIDE DEF Held
  <2>4. QED
    BY <1>5, <2>1, <2>2, <2>3
<1>6. 0..Len(tree) \subseteq S
  <2> HIDE DEF S
  <2>1. QED
    BY <1>1, <1>4, <1>5, Upward
<1>7. ASSUME NEW d \in DOMAIN tree, tree[d].kind \in Compound \cup Simple \cup Parts PROVE Held(d)
  <2>1. d \in S /\ d <= d
    BY <1>1, <1>6
  <2> HIDE DEF Held
  <2>2. QED
    BY <1>7, <2>1
<1>8. QED
  BY <1>7

\* A statement below a function or class is in its body.
LEMMA InTheBody ==
  ASSUME NEW tree, IsTree(tree), NEW f \in AllScopes(tree),
         NEW d \in Statements(tree), f \in Above(tree, d)
  PROVE  \E r \in Body(tree, f) \cap (Above(tree, d) \cup {d}) : TRUE
<1> DEFINE L == Above(tree, d) \cup {d}
           M == {x \in L : f < x}
           r == Min(M)
<1>1. /\ d \in DOMAIN tree /\ tree[d].kind \in Compound \cup Simple
      /\ f \in DOMAIN tree /\ tree[f].kind \in Scopes
  BY DEF Statements, AllScopes, OfKind
<1>2. d \in Nat /\ f \in Nat /\ d # 0 /\ L \subseteq 0..d /\ f < d
  <2>1. d \in Nat /\ f \in Nat /\ d # 0 /\ Above(tree, d) \subseteq 0..(d - 1)
    BY <1>1, TreeFacts, AboveFacts DEF LineOK
  <2>2. QED
    BY <2>1
<1>3. M \subseteq Nat /\ d \in M
  BY <1>2
<1>4. r \in M /\ \A x \in M : r <= x
  <2> HIDE DEF M
  <2>1. QED
    BY <1>3, MinIsLeast
<1> HIDE DEF r
<1>5. r \in L /\ f < r /\ r \in Nat /\ r # 0
  BY <1>2, <1>3, <1>4
<1>6. /\ r \in DOMAIN tree /\ Above(tree, r) \subseteq Above(tree, d) /\ f \in Above(tree, r)
      /\ tree[r].up \in Above(tree, r) /\ tree[r].up \in 0..(r - 1) /\ f <= tree[r].up
  BY <1>1, <1>5, LineFacts
<1>7. tree[r].up = f
  <2>1. tree[r].up \in L /\ tree[r].up \in Nat /\ tree[r].up < r
    BY <1>5, <1>6
  <2>2. ~ (f < tree[r].up)
    BY <1>4, <1>5, <2>1
  <2>3. QED
    BY <1>2, <1>6, <2>1, <2>2
<1>8. tree[r].kind \in Compound \cup Simple \cup Parts
  <2>1. CASE r = d
    BY <1>1, <2>1
  <2>2. CASE r # d
    BY <1>1, <1>5, <2>2, BlocksAbove
  <2>3. QED
    BY <2>1, <2>2
<1>9. tree[r].slot = "body"
  <2>1. tree[r].up > 0 /\ tree[tree[r].up].kind \in Scopes
    BY <1>1, <1>2, <1>7, TreeFacts
  <2>2. QED
    BY <1>6, <1>8, <2>1 DEF IsTree
<1>10. r \in Body(tree, f)
  BY <1>6, <1>7, <1>9 DEF Body, Kids
<1>11. QED
  BY <1>5, <1>10

LEMMA HomeIsNearest ==
  ASSUME NEW tree, NEW n
  PROVE  Home(tree, n) = Nearest(tree, AllScopes(tree), n)
BY Zenon DEF Home, Nearest, AllScopes

\* The statements a walk over a function's body counts are those whose scope it
\* is.
LEMMA OwnStatements ==
  ASSUME NEW tree, IsTree(tree), NEW f \in AllScopes(tree)
  PROVE  Visited(tree, Body(tree, f), AllScopes(tree)) \cap Statements(tree)
           = {s \in Statements(tree) : Home(tree, s) = f}
<1> DEFINE A == AllScopes(tree)
<1>1. A \subseteq DOMAIN tree /\ f \in DOMAIN tree /\ f \in Nat /\ f # 0
  BY TreeFacts DEF AllScopes, OfKind
<1>2. \A s \in A : s \in Nat /\ s # 0
  BY <1>1, TreeFacts
<1>3. Statements(tree) \subseteq DOMAIN tree
  BY DEF Statements, OfKind
<1>4. ASSUME NEW d \in Statements(tree), d \in Visited(tree, Body(tree, f), A) PROVE Home(tree, d) = f
  <2>1. d \in DOMAIN tree
    BY <1>3
  <2>2. PICK r \in Body(tree, f) \cap (Above(tree, d) \cup {d}) :
          \A s \in (Above(tree, d) \cup {d}) \cap A : s < r \/ s = d
    BY <1>4 DEF Visited
  <2>3. r \in DOMAIN tree /\ tree[r].up = f
    BY <2>2 DEF Body, Kids
  <2>4. r # 0
    BY <2>3, TreeFacts
  <2>5. /\ r \in Nat /\ Above(tree, r) \subseteq Above(tree, d) /\ d \notin Above(tree, d)
        /\ \A s \in Above(tree, d) \cup {d} : s < r <=> s \in Above(tree, r)
        /\ tree[r].up \in Above(tree, r) /\ \A s \in Above(tree, r) : s <= tree[r].up
    BY <2>1, <2>2, <2>4, LineFacts
  <2>6. f \in Above(tree, d) \cap A
    BY <2>3, <2>5
  <2>7. ASSUME NEW s \in Above(tree, d) \cap A PROVE s <= f
    BY <2>2, <2>3, <2>5
  <2>8. Nearest(tree, A, d) = f
    <3> HIDE DEF A
    <3>1. QED
      BY <1>1, <2>1, <2>6, <2>7, NearestFacts
  <2>9. QED
    BY <2>8, HomeIsNearest
<1>5. ASSUME NEW d \in Statements(tree), Home(tree, d) = f PROVE d \in Visited(tree, Body(tree, f), A)
  <2>1. d \in DOMAIN tree /\ d \in Nat
    BY <1>3, TreeFacts
  <2>2. Nearest(tree, A, d) = f
    BY <1>5, HomeIsNearest
  <2>3. f \in Above(tree, d) /\ \A s \in Above(tree, d) \cap A : s <= f
    <3> HIDE DEF A
    <3>1. QED
      BY <1>1, <2>1, <2>2, NearestFacts
  <2>4. PICK r \in Body(tree, f) \cap (Above(tree, d) \cup {d}) : TRUE
    BY <2>3, InTheBody
  <2>5. r \in DOMAIN tree /\ r \in Nat /\ f < r
    <3>1. r \in DOMAIN tree /\ tree[r].up = f
      BY <2>4 DEF Body, Kids
    <3>2. r \in Nat /\ tree[r].up \in 0..(r - 1)
      BY <3>1, TreeFacts
    <3>3. QED
      BY <3>1, <3>2
  <2>6. \A s \in (Above(tree, d) \cup {d}) \cap A : s < r \/ s = d
    BY <1>1, <1>2, <2>3, <2>5
  <2>7. QED
    BY <2>1, <2>4, <2>6 DEF Visited
<1>6. QED
  BY <1>4, <1>5

\* A statement of a walk over some of the module's statements that are neither
\* functions nor classes is at top level.
LEMMA TopStatements ==
  ASSUME NEW tree, IsTree(tree), NEW logic, logic \subseteq Body(tree, 0)
  PROVE  Visited(tree, logic, AllScopes(tree)) \cap Statements(tree)
           \subseteq {s \in Statements(tree) : Home(tree, s) = 0}
<1> DEFINE A == AllScopes(tree)
<1>1. A \subseteq DOMAIN tree /\ (\A s \in A : s # 0) /\ Statements(tree) \subseteq DOMAIN tree
  BY TreeFacts DEF AllScopes, Statements, OfKind
<1>2. ASSUME NEW d \in Statements(tree), d \in Visited(tree, logic, A) PROVE Home(tree, d) = 0
  <2>1. d \in DOMAIN tree
    BY <1>1
  <2>2. PICK r \in logic \cap (Above(tree, d) \cup {d}) :
          \A s \in (Above(tree, d) \cup {d}) \cap A : s < r \/ s = d
    BY <1>2 DEF Visited
  <2>3. r \in DOMAIN tree /\ tree[r].up = 0
    BY <2>2 DEF Body, Kids
  <2>4. r # 0
    BY <2>3, TreeFacts
  <2>5. /\ d \notin Above(tree, d)
        /\ \A s \in Above(tree, d) \cup {d} : s < r <=> s \in Above(tree, r)
        /\ \A s \in Above(tree, r) : s \in Nat /\ s <= tree[r].up
    BY <2>1, <2>2, <2>4, LineFacts
  <2>6. Above(tree, d) \cap A = {}
    <3>1. ASSUME NEW s \in Above(tree, d) \cap A PROVE FALSE
      <4>1. s \in Above(tree, r)
        BY <2>2, <2>5
      <4>2. s \in Nat /\ s <= 0
        BY <2>3, <2>5, <4>1
      <4>3. QED
        BY <1>1, <4>2
    <3>2. QED
      BY <3>1
  <2>7. Nearest(tree, A, d) = 0
    <3> HIDE DEF A
    <3>1. QED
      BY <1>1, <2>1, <2>6, NearestFacts
  <2>8. QED
    BY <2>7, HomeIsNearest
<1>3. QED
  BY <1>2

-----------------------------------------------------------------------------
(* What is measured of a file is of each part its own. *)

LEMMA MeasuredFile ==
  ASSUME NEW file
  PROVE  LET classes == InOrder(CollectClasses(file.tree, 0))
         IN  /\ DOMAIN FileMetrics(file).classes = DOMAIN classes
             /\ \A c \in DOMAIN classes :
                  FileMetrics(file).classes[c].wmc = ClassWmc(file.tree, classes[c])
             /\ FileMetrics(file).inFunctions = FunctionLogic(file.tree)
             /\ FileMetrics(file).topLevel = TopLevelLogic(file.tree)
             /\ FileMetrics(file).tests = FileTestStats(file.tree, file.test)
<1> DEFINE classes == InOrder(CollectClasses(file.tree, 0))
<1>1. ASSUME NEW class PROVE ClassMetrics(file.tree, class).wmc = ClassWmc(file.tree, class)
  BY DEF ClassMetrics
<1>2. /\ FileMetrics(file).classes = [i \in DOMAIN classes |-> ClassMetrics(file.tree, classes[i])]
      /\ FileMetrics(file).inFunctions = FunctionLogic(file.tree)
      /\ FileMetrics(file).topLevel = TopLevelLogic(file.tree)
      /\ FileMetrics(file).tests = FileTestStats(file.tree, file.test)
  BY DEF FileMetrics
<1> HIDE DEF classes
<1>3. QED
  BY <1>1, <1>2 DEF classes

\* The functions nested in a function, found statement by statement.
LEMMA NestedFunctions ==
  ASSUME NEW tree, IsTree(tree), NEW m \in AllFunctions(tree)
  PROVE  UNION {CollectFunctions(tree, s) \cup ({s} \cap AllFunctions(tree)) : s \in Body(tree, m)}
           = CollectFunctions(tree, m)
<1> DEFINE F == AllFunctions(tree)
           U == UNION {CollectFunctions(tree, s) \cup ({s} \cap F) : s \in Body(tree, m)}
<1>1. F \subseteq DOMAIN tree
  BY FromTheModule
<1>2. ASSUME NEW n PROVE CollectFunctions(tree, n) = {x \in F : n \in Above(tree, x)}
  BY <1>1 DEF CollectFunctions, Below, AllFunctions
<1>3. ASSUME NEW x \in U PROVE x \in CollectFunctions(tree, m)
  <2>1. PICK s \in Body(tree, m) : x \in CollectFunctions(tree, s) \/ (x = s /\ x \in F)
    OBVIOUS
  <2>2. x \in F /\ x \in DOMAIN tree /\ s \in Above(tree, x) \cup {x}
    BY <1>1, <1>2, <2>1
  <2>3. tree[s].up = m /\ s # 0
    BY <2>1, TreeFacts DEF Body, Kids
  <2>4. m \in Above(tree, x)
    BY <2>2, <2>3, LineFacts
  <2>5. QED
    BY <1>2, <2>2, <2>4
<1>4. ASSUME NEW x \in CollectFunctions(tree, m) PROVE x \in U
  <2>1. x \in F /\ m \in Above(tree, x)
    BY <1>2, <1>4
  <2>2. m \in AllScopes(tree) /\ x \in Statements(tree)
    BY <2>1 DEF AllFunctions, AllScopes, Statements, OfKind, Scopes, Compound
  <2>3. PICK s \in Body(tree, m) \cap (Above(tree, x) \cup {x}) : TRUE
    BY <2>1, <2>2, InTheBody
  <2>4. x \in CollectFunctions(tree, s) \cup ({s} \cap F)
    BY <1>2, <2>1, <2>3
  <2> HIDE DEF F
  <2>5. QED
    BY <2>3, <2>4
<1>5. QED
  BY <1>3, <1>4

LEMMA CyclomaticInt ==
  ASSUME NEW tree, IsTree(tree), NEW f, NEW nested
  PROVE  Cyclomatic(tree, f, nested) \in Int
<1> DEFINE I == InRange(tree, f, nested)
           b == [n \in I |-> BranchTokens(tree, n)]
<1>1. I \subseteq DOMAIN tree
  BY DEF InRange, Below
<1>2. IsFiniteSet(I)
  BY <1>1, TreeFacts, FS_Subset
<1>3. \A n \in I : b[n] \in Int
  BY <1>1, TokenFacts
<1>4. SumOf(b) = Over(b, I)
  BY SumIsOver
<1>5. Over(b, I) \in Int
  <2> HIDE DEF b, I
  <2>1. QED
    BY <1>2, <1>3, OverInt
<1>6. Cyclomatic(tree, f, nested) = 1 + SumOf(b)
  BY DEF Cyclomatic
<1>7. QED
  BY <1>4, <1>5, <1>6

\* A class weighs what its methods do in the table of functions.
WeighsItsMethods(tree, file) ==
  LET functions == InOrder(CollectFunctions(tree, 0))
      classes == InOrder(CollectClasses(tree, 0))
  IN  \A c \in DOMAIN classes :
        file.classes[c].wmc =
          SumOf([f \in {g \in DOMAIN functions : /\ tree[functions[g]].up = classes[c]
                                               /\ tree[functions[g]].slot = "body"}
                 |-> file.functions[f].cyclomatic])

LEMMA ClassesWeighTheirMethods ==
  ASSUME NEW file, IsTree(file.tree)
  PROVE  WeighsItsMethods(file.tree, FileMetrics(file))
<1> DEFINE tree == file.tree
           F == AllFunctions(tree)
           functions == InOrder(CollectFunctions(tree, 0))
           classes == InOrder(CollectClasses(tree, 0))
           Numbers(k) == {g \in DOMAIN functions : tree[functions[g]].up = k /\ tree[functions[g]].slot = "body"}
           figures == FileMetrics(file).functions
<1>1. F \subseteq Nat /\ F \subseteq DOMAIN tree /\ IsFiniteSet(F) /\ functions = InOrder(F)
  BY FromTheModule
<1>2. /\ DOMAIN functions = 1..Cardinality(F)
      /\ \A i \in DOMAIN functions : functions[i] \in F /\ Place(F, functions[i]) = i
      /\ \A f \in F : Place(F, f) \in DOMAIN functions /\ functions[Place(F, f)] = f
  <2> HIDE DEF F, functions
  <2>1. QED
    BY <1>1, OrderFacts
<1>3. IsFiniteSet(DOMAIN functions)
  BY <1>1, <1>2, FS_Interval, FS_CardinalityType
<1>4. \A i \in DOMAIN functions :
        figures[i].cyclomatic = Cyclomatic(tree, functions[i], CollectFunctions(tree, functions[i]))
  BY MeasuredFunctions
<1>5. ASSUME NEW k
      PROVE  ClassWmc(tree, k) = SumOf([f \in Numbers(k) |-> figures[f].cyclomatic])
  <2> DEFINE M == Methods(tree, k)
             T == Numbers(k)
             Inner(m) == UNION {CollectFunctions(tree, s) \cup ({s} \cap F) : s \in Body(tree, m)}
             w == [m \in M |-> Cyclomatic(tree, m, Inner(m))]
             there == [m \in M |-> Place(F, m)]
             v == [f \in T |-> figures[f].cyclomatic]
  <2>1. M = {m \in F : tree[m].up = k /\ tree[m].slot = "body"}
    BY <1>1 DEF Methods, Body, Kids, AllFunctions
  <2>2. M \subseteq F /\ T \subseteq DOMAIN functions /\ IsFiniteSet(M) /\ IsFiniteSet(T)
    BY <1>1, <1>3, <2>1, FS_Subset
  <2>3. ASSUME NEW m \in M PROVE w[m] \in Int /\ w[m] = Cyclomatic(tree, m, CollectFunctions(tree, m))
    <3>1. m \in F
      BY <2>2
    <3>2. Inner(m) = CollectFunctions(tree, m)
      BY <3>1, NestedFunctions
    <3>3. w[m] = Cyclomatic(tree, m, Inner(m))
      OBVIOUS
    <3>4. QED
      BY <3>2, <3>3, CyclomaticInt
  <2>4. \A m \in M : there[m] \in T /\ functions[there[m]] = m
    <3> HIDE DEF F, functions, M
    <3>1. \A m \in M : there[m] = Place(F, m)
      OBVIOUS
    <3>2. QED
      BY <1>2, <2>1, <3>1
  <2>5. \A i \in T : functions[i] \in M /\ there[functions[i]] = i
    <3> HIDE DEF F, functions, M
    <3>1. \A m \in M : there[m] = Place(F, m)
      OBVIOUS
    <3>2. QED
      BY <1>2, <2>1, <3>1
  <2>6. \A i \in T : v[i] = w[functions[i]]
    <3>1. ASSUME NEW i \in T PROVE v[i] = w[functions[i]]
      <4>1. functions[i] \in M /\ i \in DOMAIN functions
        BY <2>2, <2>5
      <4>2. w[functions[i]] = Cyclomatic(tree, functions[i], CollectFunctions(tree, functions[i]))
        BY <2>3, <4>1
      <4>3. v[i] = figures[i].cyclomatic
        OBVIOUS
      <4> HIDE DEF v, w, figures
      <4>4. QED
        BY <1>4, <4>1, <4>2, <4>3
    <3>2. QED
      BY <3>1
  <2>7. ClassWmc(tree, k) = SumOf(w)
    BY DEF ClassWmc, AllFunctions
  <2>8. SumOf(w) = Over(w, M) /\ SumOf(v) = Over(v, T)
    BY SumIsOver
  <2>9. Over(w, M) = Over(v, T)
    <3>1. \A m \in M : w[m] \in Int
      BY <2>3
    <3> HIDE DEF w, M, v, T, there, functions
    <3>2. \A m \in M : there[m] \in T
      BY <2>4
    <3>3. \A m \in M : functions[there[m]] = m
      BY <2>4
    <3>4. \A i \in T : functions[i] \in M /\ there[functions[i]] = i
      BY <2>5
    <3>5. QED
      BY <2>2, <2>6, <3>1, <3>2, <3>3, <3>4, OverRenamed
  <2>10. QED
    BY <2>7, <2>8, <2>9
<1>6. \A c \in DOMAIN classes : FileMetrics(file).classes[c].wmc = ClassWmc(tree, classes[c])
  BY MeasuredFile
<1>7. \A c \in DOMAIN classes :
        FileMetrics(file).classes[c].wmc = SumOf([f \in Numbers(classes[c]) |-> figures[f].cyclomatic])
  <2> HIDE DEF classes, Numbers, figures
  <2>1. QED
    BY <1>5, <1>6
<1>8. QED
  BY <1>7, Zenon DEF WeighsItsMethods

\* Every statement whose scope is a function is counted once.
LEMMA LogicOfFunctions ==
  ASSUME NEW tree, IsTree(tree)
  PROVE  FunctionLogic(tree)
           = Cardinality({s \in Statements(tree) : Home(tree, s) \in AllFunctions(tree)})
<1> DEFINE F == AllFunctions(tree)
           D == Statements(tree)
           In == {s \in D : Home(tree, s) \in F}
           g == [f \in F |-> {s \in D : Home(tree, s) = f}]
           w == [f \in F |-> Ncss(tree, Body(tree, f))]
           B == Belonging(g, F, D)
           there == [p \in B |-> p[2]]
           back == [s \in In |-> <<Home(tree, s), s>>]
<1>1. IsFiniteSet(F) /\ IsFiniteSet(D) /\ IsFiniteSet(In)
  <2>1. D \subseteq DOMAIN tree /\ In \subseteq D
    BY DEF Statements, OfKind
  <2>2. QED
    BY <2>1, FromTheModule, TreeFacts, FS_Subset
<1>2. ASSUME NEW f \in F PROVE w[f] = Cardinality(g[f])
  <2>1. f \in AllScopes(tree)
    BY DEF AllFunctions, AllScopes, OfKind, Scopes
  <2>2. Visited(tree, Body(tree, f), AllScopes(tree)) \cap D = g[f]
    BY <2>1, OwnStatements
  <2>3. w[f] = Cardinality(Visited(tree, Body(tree, f), AllScopes(tree)) \cap D)
    BY DEF Ncss, AllScopes, Statements
  <2>4. QED
    BY <2>2, <2>3
<1>3. FunctionLogic(tree) = SumOf(w)
  BY DEF FunctionLogic, AllFunctions
<1>4. SumOf(w) = Cardinality(B)
  <2>1. \A f \in F : g[f] \subseteq D
    OBVIOUS
  <2>2. DOMAIN w = F
    OBVIOUS
  <2> HIDE DEF g, w, F, D
  <2>3. QED
    BY <1>1, <1>2, <2>1, <2>2, SumCounts
<1>5. \A p \in B : p = <<p[1], p[2]>> /\ p[1] \in F /\ p[2] \in D /\ Home(tree, p[2]) = p[1]
  BY DEF Belonging
<1>6. \A s \in In : <<Home(tree, s), s>> \in B
  BY DEF Belonging
<1>7. IsFiniteSet(B)
  <2>1. B \subseteq F \X D
    BY DEF Belonging
  <2>2. QED
    BY <1>1, <2>1, FS_Product, FS_Subset
<1>8. \A p \in B : there[p] \in In /\ back[there[p]] = p
  <2> HIDE DEF B, F, D
  <2>1. \A p \in B : there[p] = p[2] /\ p[2] \in In
    BY <1>5
  <2>2. \A s \in In : back[s] = <<Home(tree, s), s>>
    OBVIOUS
  <2> HIDE DEF In, there, back
  <2>3. QED
    BY <1>5, <2>1, <2>2
<1>9. \A s \in In : back[s] \in B /\ there[back[s]] = s
  <2> HIDE DEF B
  <2>1. \A s \in In : back[s] = <<Home(tree, s), s>>
    OBVIOUS
  <2>2. \A p \in B : there[p] = p[2]
    OBVIOUS
  <2> HIDE DEF In, there, back
  <2>3. QED
    BY <1>6, <2>1, <2>2
<1>10. Cardinality(B) = Cardinality(In)
  <2> HIDE DEF B, In, there, back
  <2>1. QED
    BY <1>1, <1>7, <1>8, <1>9, AsMany
<1>11. QED
  BY <1>3, <1>4, <1>10

\* Statements counted at top level are in no function and no class.
LEMMA LogicOfTheModule ==
  ASSUME NEW tree, IsTree(tree)
  PROVE  TopLevelLogic(tree) <= Cardinality({s \in Statements(tree) : Home(tree, s) = 0})
<1> DEFINE H == {s \in Statements(tree) : Home(tree, s) = 0}
<1>1. PICK logic : /\ logic \subseteq Body(tree, 0)
                   /\ TopLevelLogic(tree) = Ncss(tree, logic)
  BY DEF TopLevelLogic
<1> DEFINE V == Visited(tree, logic, AllScopes(tree)) \cap Statements(tree)
<1>2. TopLevelLogic(tree) = Cardinality(V)
  BY <1>1 DEF Ncss, AllScopes, Statements
<1>3. V \subseteq H
  BY <1>1, TopStatements
<1>4. IsFiniteSet(H)
  <2>1. H \subseteq DOMAIN tree
    BY DEF Statements, OfKind
  <2>2. QED
    BY <2>1, TreeFacts, FS_Subset
<1> HIDE DEF V, H
<1>5. Cardinality(V) <= Cardinality(H)
  BY <1>3, <1>4, FS_Subset
<1>6. QED
  BY <1>2, <1>5 DEF H

Asserting(tree) == {n \in DOMAIN tree : tree[n].kind = "Assert" \/ IsAssertionCall(tree, n)}

\* No assertion is counted for two tests, since none is inside another.
LEMMA AssertionsOfTests ==
  ASSUME NEW tree, IsTree(tree)
  PROVE  FileTestStats(tree, TRUE).assertions <= Cardinality(Asserting(tree))
<1> DEFINE A == Asserting(tree)
           T == CollectTestFunctions(tree)
           stops == DOMAIN tree \ OfKind(tree, {"ClassDef"})
           g == [t \in T |-> {n \in A : n \in Visited(tree, Body(tree, t), {})}]
           w == [t \in T |-> CountAssertions(tree, t)]
           B == Belonging(g, T, A)
           there == [p \in B |-> p[2]]
<1>1. T \subseteq DOMAIN tree /\ A \subseteq DOMAIN tree
  BY DEF CollectTestFunctions, Visited, Asserting
<1>2. IsFiniteSet(T) /\ IsFiniteSet(A)
  BY <1>1, TreeFacts, FS_Subset
<1>3. ASSUME NEW t \in T PROVE w[t] = Cardinality(g[t])
  <2>1. g[t] = {n \in Visited(tree, Body(tree, t), {}) : tree[n].kind = "Assert" \/ IsAssertionCall(tree, n)}
    BY DEF Visited, Asserting
  <2>2. QED
    BY <2>1, Zenon DEF CountAssertions
<1>4. FileTestStats(tree, TRUE).assertions = SumOf(w)
  BY DEF FileTestStats
<1>5. SumOf(w) = Cardinality(B)
  <2>1. \A t \in T : g[t] \subseteq A
    OBVIOUS
  <2>2. DOMAIN w = T
    OBVIOUS
  <2> HIDE DEF g, w, T, A
  <2>3. QED
    BY <1>2, <1>3, <2>1, <2>2, SumCounts
<1>6. ASSUME NEW t \in T, NEW n \in g[t] PROVE n \in DOMAIN tree /\ t \in Above(tree, n)
  <2>1. PICK r \in Body(tree, t) \cap (Above(tree, n) \cup {n}) : TRUE
    BY DEF Visited
  <2>2. n \in DOMAIN tree /\ r \in DOMAIN tree /\ tree[r].up = t
    BY <1>1, <1>6, <2>1 DEF Body, Kids
  <2>3. r # 0
    BY <2>2, TreeFacts
  <2>4. QED
    BY <2>1, <2>2, <2>3, LineFacts
<1>7. ASSUME NEW t \in T, NEW u \in T, u \in Above(tree, t) PROVE FALSE
  <2>1. /\ u \in stops /\ t \in DOMAIN tree /\ u \in DOMAIN tree
        /\ t \in Visited(tree, Body(tree, 0), stops)
    BY <1>1 DEF CollectTestFunctions, OfKind
  <2>2. PICK r \in Body(tree, 0) \cap (Above(tree, t) \cup {t}) :
          \A s \in (Above(tree, t) \cup {t}) \cap stops : s < r \/ s = t
    BY <2>1, Zenon DEF Visited
  <2>3. r \in DOMAIN tree /\ tree[r].up = 0
    BY <2>2 DEF Body, Kids
  <2>4. r # 0 /\ u \in Nat /\ u # 0
    BY <2>1, <2>3, TreeFacts
  <2>5. /\ t \notin Above(tree, t)
        /\ \A s \in Above(tree, t) \cup {t} : s < r <=> s \in Above(tree, r)
        /\ \A s \in Above(tree, r) : s \in Nat /\ s <= tree[r].up
    BY <2>1, <2>2, <2>4, LineFacts
  <2>6. u \in Above(tree, r)
    BY <1>7, <2>1, <2>2, <2>5
  <2>7. QED
    BY <2>3, <2>4, <2>5, <2>6
<1>8. ASSUME NEW t \in T, NEW u \in T, NEW n \in g[t], n \in g[u] PROVE t = u
  <2>1. n \in DOMAIN tree /\ t \in Above(tree, n) /\ u \in Above(tree, n)
    BY <1>6, <1>8
  <2>2. t \in Nat /\ u \in Nat
    BY <1>1, TreeFacts
  <2>3. LineOK(tree, n)
    BY <2>1, AboveFacts
  <2>4. t < u => t \in Above(tree, u)
    BY <2>1, <2>3 DEF LineOK
  <2>5. u < t => u \in Above(tree, t)
    BY <2>1, <2>3 DEF LineOK
  <2>6. ~ (t < u) /\ ~ (u < t)
    BY <1>7, <2>4, <2>5
  <2>7. QED
    BY <2>2, <2>6
<1>9. \A p \in B : p = <<p[1], p[2]>> /\ p[1] \in T /\ p[2] \in A /\ p[2] \in g[p[1]]
  BY DEF Belonging
<1>10. there \in Injection(B, A)
  <2>1. \A p \in B : there[p] = p[2]
    OBVIOUS
  <2>2. \A p, q \in B : there[p] = there[q] => p = q
    <3> HIDE DEF B, g, T, A, there
    <3>1. ASSUME NEW p \in B, NEW q \in B, there[p] = there[q] PROVE p = q
      <4>1. p[2] = q[2]
        BY <2>1, <3>1
      <4>2. p[1] = q[1]
        BY <1>8, <1>9, <4>1
      <4>3. QED
        BY <1>9, <4>1, <4>2
    <3>2. QED
      BY <3>1
  <2>3. \A p \in B : there[p] \in A
    BY <1>9, <2>1
  <2>4. there = [p \in B |-> there[p]]
    OBVIOUS
  <2> HIDE DEF B, A, there
  <2>5. QED
    BY <2>2, <2>3, <2>4 DEF Injection, IsInjective
<1>11. IsFiniteSet(B)
  <2>1. B \subseteq T \X A
    BY DEF Belonging
  <2>2. QED
    BY <1>2, <2>1, FS_Product, FS_Subset
<1>12. Cardinality(B) <= Cardinality(A)
  <2> HIDE DEF B, A, there
  <2>1. QED
    BY <1>2, <1>10, <1>11, FS_Injection
<1>13. QED
  BY <1>4, <1>5, <1>12

\* What is measured before the classes are related.
Measured ==
  pc = "index" => files \in Projects /\ metrics = [i \in DOMAIN files |-> FileMetrics(files[i])]

THEOREM Measurements == Spec => []Measured
<1>1. Init => Measured
  BY DEF Init, Measured
<1>2. ASSUME Measured, [Next]_vars PROVE Measured'
  <2>1. pc' = "index" => pc = "index" /\ UNCHANGED <<files, metrics>>
    BY <1>2 DEF Next, vars, Index, Ask, TakeBase, External, Known, Cut, Descend, Answer, Resolved,
                WriteBack, Finished
  <2>2. QED
    BY <1>2, <2>1 DEF Measured
<1>3. QED
  BY <1>1, <1>2, PTL DEF Spec

\* What the property says of one file.
CountedOnce(tree, file, test) ==
  LET functions == InOrder(CollectFunctions(tree, 0))
      statements == OfKind(tree, Compound \cup Simple)
      InFunction == {s \in statements : Home(tree, s) \in ToSet(functions)}
  IN  /\ BranchesOnce(tree, file)
      /\ WeighsItsMethods(tree, file)
      /\ file.inFunctions = Cardinality(InFunction)
      /\ test => file.tests.assertions
                   <= Cardinality({n \in DOMAIN tree : tree[n].kind = "Assert" \/ IsAssertionCall(tree, n)})
      /\ file.topLevel <= Cardinality({s \in statements : Home(tree, s) = 0})

LEMMA FilesCountOnce ==
  ASSUME NEW file, IsTree(file.tree)
  PROVE  CountedOnce(file.tree, FileMetrics(file), file.test)
<1> DEFINE tree == file.tree
           F == AllFunctions(tree)
           functions == InOrder(CollectFunctions(tree, 0))
           statements == OfKind(tree, Compound \cup Simple)
<1>1. ToSet(functions) = F
  <2>1. functions = InOrder(F)
    BY FromTheModule
  <2>2. QED
    BY <2>1, FunctionsInOrder
<1>2. FileMetrics(file).inFunctions = Cardinality({s \in statements : Home(tree, s) \in ToSet(functions)})
  <2>1. FileMetrics(file).inFunctions = FunctionLogic(tree)
    BY MeasuredFile
  <2>2. FunctionLogic(tree) = Cardinality({s \in Statements(tree) : Home(tree, s) \in F})
    BY LogicOfFunctions
  <2> HIDE DEF functions, F
  <2>3. QED
    BY <1>1, <2>1, <2>2 DEF Statements
<1>3. file.test => FileMetrics(file).tests.assertions
        <= Cardinality({n \in DOMAIN tree : tree[n].kind = "Assert" \/ IsAssertionCall(tree, n)})
  <2>1. FileMetrics(file).tests = FileTestStats(tree, file.test)
    BY MeasuredFile
  <2>2. file.test => FileTestStats(tree, file.test) = FileTestStats(tree, TRUE)
    BY Zenon DEF FileTestStats
  <2>3. FileTestStats(tree, TRUE).assertions <= Cardinality(Asserting(tree))
    BY AssertionsOfTests
  <2>4. QED
    BY <2>1, <2>2, <2>3, Zenon DEF Asserting
<1>4. FileMetrics(file).topLevel <= Cardinality({s \in statements : Home(tree, s) = 0})
  <2>1. FileMetrics(file).topLevel = TopLevelLogic(tree)
    BY MeasuredFile
  <2>2. QED
    BY <2>1, LogicOfTheModule, Zenon DEF Statements
<1>5. BranchesOnce(tree, FileMetrics(file)) /\ WeighsItsMethods(tree, FileMetrics(file))
  BY BranchesAreCountedOnce, ClassesWeighTheirMethods
<1>6. QED
  BY <1>2, <1>3, <1>4, <1>5, Zenon DEF CountedOnce

\* For every project of syntax trees: every branch keyword of a file is counted
\* for one function or outside all, a class weighs what its methods do in the
\* table of functions, no statement is counted for two functions or both there
\* and at top level, and no assertion for two tests (the walks of
\* sloplint_metrics over nested functions and classes).
THEOREM NothingIsCountedTwice == Spec => []NothingCountedTwice
<1>1. ASSUME Measured PROVE NothingCountedTwice
  <2>1. ASSUME pc = "index", NEW i \in DOMAIN files
        PROVE  CountedOnce(files[i].tree, metrics[i], files[i].test)
    <3>1. files \in Projects /\ metrics[i] = FileMetrics(files[i])
      BY <1>1, <2>1 DEF Measured
    <3>2. IsTree(files[i].tree)
      BY <2>1, <3>1, TreesAreTrees
    <3>3. QED
      BY <3>1, <3>2, FilesCountOnce
  <2>2. QED
    BY <2>1, Zenon DEF NothingCountedTwice, CountedOnce, BranchesOnce, WeighsItsMethods
<1>2. QED
  BY <1>1, Measurements, PTL

-----------------------------------------------------------------------------
(* What is measured is what was checked. *)

\* For every project: the steps of a project that is checked and measured are
\* steps of the pass over the classes or leave it alone, so that what is shown
\* of the pass holds here too.
THEOREM MeasuringIsInheritance == PipelineSpec => Spec
<1>1. PipelineInit => Init
  BY DEF PipelineInit
<1>2. [PipelineNext]_<<vars, lintVars>> => [Next]_vars
  BY Zenon DEF PipelineNext, Measure
<1>3. QED
  BY <1>1, <1>2, PTL DEF PipelineSpec, Spec

-----------------------------------------------------------------------------
(* Of one place a rule says one thing. *)

Once(S) == \A d, e \in S : d.at = e.at => d = e
Speaks(S, code) == Once(S) /\ \A d \in S : d.code = code

LEMMA AtNodes ==
  ASSUME NEW S, NEW file, NEW code, NEW why, \A d \in S : \E n : d = Finding(file, code, n, why)
  PROVE  Speaks(S, code)
<1>1. ASSUME NEW d \in S PROVE d.code = code
  BY DEF Finding
<1>2. ASSUME NEW d \in S, NEW e \in S, d.at = e.at PROVE d = e
  <2>1. PICK n : d = Finding(file, code, n, why)
    OBVIOUS
  <2>2. PICK m : e = Finding(file, code, m, why)
    OBVIOUS
  <2>3. m = n
    BY <1>2, <2>1, <2>2 DEF Finding
  <2>4. QED
    BY <2>1, <2>2, <2>3
<1>3. QED
  BY <1>1, <1>2 DEF Speaks, Once

LEMMA AtComments ==
  ASSUME NEW S, NEW file, NEW code, NEW why, \A d \in S : \E c : d = OnComment(file, code, c, why)
  PROVE  Speaks(S, code)
<1>1. ASSUME NEW d \in S PROVE d.code = code
  BY DEF OnComment
<1>2. ASSUME NEW d \in S, NEW e \in S, d.at = e.at PROVE d = e
  <2>1. PICK n : d = OnComment(file, code, n, why)
    OBVIOUS
  <2>2. PICK m : e = OnComment(file, code, m, why)
    OBVIOUS
  <2>3. m = n
    BY <1>2, <2>1, <2>2 DEF OnComment
  <2>4. QED
    BY <2>1, <2>2, <2>3
<1>3. QED
  BY <1>1, <1>2 DEF Speaks, Once

\* A comment is told by one phrase.
LEMMA CommentTellsOnce ==
  ASSUME NEW file
  PROVE  Speaks(CommentTells(file), "SLP004")
<1>1. ASSUME NEW d \in CommentTells(file)
      PROVE  \E c : \E tell \in Classify(file.comments[c]) : d = OnComment(file, "SLP004", c, tell)
  BY DEF CommentTells
<1>2. ASSUME NEW comment, NEW t \in Classify(comment), NEW u \in Classify(comment) PROVE t = u
  BY DEF Classify
<1>3. ASSUME NEW d \in CommentTells(file) PROVE d.code = "SLP004"
  BY <1>1 DEF OnComment
<1>4. ASSUME NEW d \in CommentTells(file), NEW e \in CommentTells(file), d.at = e.at PROVE d = e
  <2>1. PICK c : \E tell \in Classify(file.comments[c]) : d = OnComment(file, "SLP004", c, tell)
    BY <1>1
  <2>2. PICK b : \E tell \in Classify(file.comments[b]) : e = OnComment(file, "SLP004", b, tell)
    BY <1>1
  <2>3. b = c
    BY <1>4, <2>1, <2>2 DEF OnComment
  <2>4. QED
    BY <1>2, <2>1, <2>2, <2>3
<1>5. QED
  BY <1>3, <1>4 DEF Speaks, Once

LEMMA OnlyTest ==
  ASSUME NEW tree, IsTree(tree), NEW i \in OfKind(tree, {"If"})
  PROVE  Min(Kids(tree, i, "test")) \in DOMAIN tree /\ tree[Min(Kids(tree, i, "test"))].up = i
<1>1. PICK t \in DOMAIN tree : Kids(tree, i, "test") = {t}
  BY DEF IsTree
<1>2. {t} \subseteq Nat
  BY TreeFacts
<1>3. Min({t}) \in {t}
  BY <1>2, MinIsLeast
<1>4. QED
  BY <1>1, <1>3 DEF Kids

\* A ladder is reported at its first test, which is in no other If, and for one
\* reason.
LEMMA DispatchLadderOnce ==
  ASSUME NEW file, IsTree(file.tree), NEW max
  PROVE  Speaks(DispatchLadder(file, max), "SLP130")
<1> DEFINE tree == file.tree
           FirstTest(i) == Min(Kids(tree, i, "test"))
<1>1. PICK literal, types :
        /\ literal \cup types \subseteq OfKind(tree, {"If"})
        /\ literal \cap types = {}
        /\ DispatchLadder(file, max) =
             {Finding(file, "SLP130", FirstTest(i), "literal") : i \in literal}
               \cup {Finding(file, "SLP130", FirstTest(i), "isinstance") : i \in types}
  <2> DEFINE Long == {i \in OfKind(tree, {"If"}) : Cardinality(Tests(tree, i)) > max}
             literal == {i \in Long : Uniform(Tests(tree, i), LAMBDA t : LiteralSubject(tree, t))}
             types == {i \in Long \ literal : Uniform(Tests(tree, i), LAMBDA t : InstanceSubject(tree, t))}
  <2>1. DispatchLadder(file, max) =
             {Finding(file, "SLP130", FirstTest(i), "literal") : i \in literal}
               \cup {Finding(file, "SLP130", FirstTest(i), "isinstance") : i \in types}
    BY Zenon DEF DispatchLadder
  <2>2. types \subseteq Long \ literal
    BY Zenon
  <2>3. literal \subseteq Long
    BY Zenon
  <2>4. Long \subseteq OfKind(tree, {"If"})
    BY Zenon
  <2> HIDE DEF Long, literal, types
  <2>5. literal \cup types \subseteq OfKind(tree, {"If"}) /\ literal \cap types = {}
    BY <2>2, <2>3, <2>4
  <2>6. QED
    BY <2>1, <2>5
<1>2. \A i, j \in literal \cup types : FirstTest(i) = FirstTest(j) => i = j
  BY <1>1, OnlyTest
<1> HIDE DEF FirstTest, tree
<1> DEFINE S == DispatchLadder(file, max)
<1>3. ASSUME NEW d \in S
      PROVE  \/ \E i \in literal : d = Finding(file, "SLP130", FirstTest(i), "literal")
             \/ \E i \in types : d = Finding(file, "SLP130", FirstTest(i), "isinstance")
  BY <1>1
<1> HIDE DEF S
<1>4. ASSUME NEW d \in S, NEW e \in S, d.at = e.at PROVE d = e
  <2>1. PICK i \in literal \cup types :
          \/ i \in literal /\ d = Finding(file, "SLP130", FirstTest(i), "literal")
          \/ i \in types /\ d = Finding(file, "SLP130", FirstTest(i), "isinstance")
    BY <1>3
  <2>2. PICK j \in literal \cup types :
          \/ j \in literal /\ e = Finding(file, "SLP130", FirstTest(j), "literal")
          \/ j \in types /\ e = Finding(file, "SLP130", FirstTest(j), "isinstance")
    BY <1>3
  <2>3. FirstTest(i) = FirstTest(j)
    BY <1>4, <2>1, <2>2 DEF Finding
  <2>4. i = j
    BY <1>2, <2>3
  <2>5. QED
    BY <1>1, <2>1, <2>2, <2>4
<1>5. \A d \in S : d.code = "SLP130"
  BY <1>3 DEF Finding
<1>6. QED
  BY <1>4, <1>5 DEF S, Speaks, Once

LEMMA AtNamesOnce ==
  ASSUME NEW S, NEW file, NEW code, NEW why, \A d \in S : \E n : d = AtName(file, code, n, why)
  PROVE  Speaks(S, code)
<1>1. ASSUME NEW n
      PROVE  /\ AtName(file, code, n, why).code = code
             /\ AtName(file, code, n, why).at = <<"node", n>>
  BY DEF AtName, Finding
<1>2. ASSUME NEW d \in S, NEW e \in S, d.at = e.at PROVE d = e
  <2>1. PICK n : d = AtName(file, code, n, why)
    OBVIOUS
  <2>2. PICK m : e = AtName(file, code, m, why)
    OBVIOUS
  <2>3. m = n
    BY <1>1, <1>2, <2>1, <2>2
  <2>4. QED
    BY <2>1, <2>2, <2>3
<1>3. QED
  BY <1>1, <1>2 DEF Speaks, Once

\* A place that is found for one of several reasons.
LEMMA ForReasons ==
  ASSUME NEW S, NEW file, NEW code, NEW why, \A d \in S : \E n \in DOMAIN why : d = Finding(file, code, n, why[n])
  PROVE  Speaks(S, code)
<1>1. ASSUME NEW d \in S, NEW e \in S, d.at = e.at PROVE d = e
  <2>1. PICK n : d = Finding(file, code, n, why[n])
    OBVIOUS
  <2>2. PICK m : e = Finding(file, code, m, why[m])
    OBVIOUS
  <2>3. m = n
    BY <1>1, <2>1, <2>2 DEF Finding
  <2>4. QED
    BY <2>1, <2>2, <2>3
<1>2. \A d \in S : d.code = code
  BY DEF Finding
<1>3. QED
  BY <1>1, <1>2 DEF Speaks, Once

\* A guard that is called where it is applied is one finding.
LEMMA PhantomGuardOnce ==
  ASSUME NEW file
  PROVE  Speaks(PhantomGuard(file), "SLP210")
<1> DEFINE why == [n \in Applied(file.tree) \cup Called(file.tree) |->
                     IF n \in Applied(file.tree) THEN "decorator" ELSE "call"]
<1>1. ASSUME NEW d \in PhantomGuard(file) PROVE \E n \in DOMAIN why : d = Finding(file, "SLP210", n, why[n])
  BY DEF PhantomGuard
<1> HIDE DEF why
<1>2. QED
  BY <1>1, ForReasons

\* What is given to a name is not what a function returns.
LEMMA GivenOrReturned ==
  ASSUME NEW tree
  PROVE  Credentials(tree) \cap UNION {Kids(tree, s, "value") : s \in OfKind(tree, {"Return"})} = {}
<1> DEFINE Given(holder, named) == {v \in Kids(tree, holder, "value") : tree[v].kind = "StringLiteral" /\ named}
           Targets(s) == UNION {NameNode(tree, t) : t \in Kids(tree, s, "targets") \cup Kids(tree, s, "target")}
           Assigned(s) == Given(s, \E t \in Targets(s) : tree[t].name \in CredentialNames)
           Passed(k) == Given(k, tree[tree[k].up].kind = "Call" /\ tree[k].name \in CredentialNames)
<1>1. Credentials(tree) =
        (UNION {Assigned(s) : s \in OfKind(tree, {"Assign", "AnnAssign"})})
          \cup UNION {Passed(k) : k \in OfKind(tree, {"Keyword"})}
  BY Zenon DEF Credentials
<1>2. \A n : Assigned(n) \subseteq Kids(tree, n, "value") /\ Passed(n) \subseteq Kids(tree, n, "value")
  BY Zenon
<1> HIDE DEF Assigned, Passed
<1>3. ASSUME NEW v \in Credentials(tree) PROVE tree[tree[v].up].kind \in {"Assign", "AnnAssign", "Keyword"}
  <2>1. CASE v \in UNION {Assigned(s) : s \in OfKind(tree, {"Assign", "AnnAssign"})}
    <3>1. PICK s \in OfKind(tree, {"Assign", "AnnAssign"}) : v \in Assigned(s)
      BY <2>1
    <3>2. v \in Kids(tree, s, "value")
      BY <1>2, <3>1
    <3>3. QED
      BY <3>1, <3>2 DEF Kids, OfKind
  <2>2. CASE v \in UNION {Passed(k) : k \in OfKind(tree, {"Keyword"})}
    <3>1. PICK k \in OfKind(tree, {"Keyword"}) : v \in Passed(k)
      BY <2>2
    <3>2. v \in Kids(tree, k, "value")
      BY <1>2, <3>1
    <3>3. QED
      BY <3>1, <3>2 DEF Kids, OfKind
  <2>3. QED
    BY <1>1, <2>1, <2>2
<1>4. ASSUME NEW v \in UNION {Kids(tree, s, "value") : s \in OfKind(tree, {"Return"})}
      PROVE  tree[tree[v].up].kind = "Return"
  BY DEF Kids, OfKind
<1>5. QED
  BY <1>3, <1>4

LEMMA MockDataOnce ==
  ASSUME NEW file
  PROVE  Speaks(MockData(file), "SLP230")
<1> DEFINE tree == file.tree
           weak == {v \in Credentials(tree) : tree[v].name \in WeakCredentials}
           dummies == {e \in UNION {Kids(tree, s, "value") : s \in OfKind(tree, {"Return"})} : IsDummy(tree, e)}
           texts == {s \in OfKind(tree, {"StringLiteral"}) \ CollectDocstrings(tree) :
                       tree[s].name \in PlaceholderTexts}
<1>1. weak \cap dummies = {}
  BY GivenOrReturned
<1>2. MockData(file) =
        IF file.testPath THEN {}
        ELSE {Finding(file, "SLP230", n, "credential") : n \in weak}
               \cup {Finding(file, "SLP230", n, "return") : n \in dummies}
               \cup {Finding(file, "SLP230", n, "text") : n \in texts \ (weak \cup dummies)}
  BY Zenon DEF MockData
<1> HIDE DEF weak, dummies, texts
<1>3. CASE file.testPath
  BY <1>2, <1>3 DEF Speaks, Once
<1>4. CASE ~file.testPath
  <2>1. MockData(file) =
          {Finding(file, "SLP230", n, "credential") : n \in weak}
            \cup {Finding(file, "SLP230", n, "return") : n \in dummies}
            \cup {Finding(file, "SLP230", n, "text") : n \in texts \ (weak \cup dummies)}
    BY <1>2, <1>4, Zenon
  <2> DEFINE why == [n \in weak \cup dummies \cup texts |->
                       IF n \in weak THEN "credential" ELSE IF n \in dummies THEN "return" ELSE "text"]
  <2>2. ASSUME NEW d \in MockData(file) PROVE \E n \in DOMAIN why : d = Finding(file, "SLP230", n, why[n])
    <3>1. CASE \E n \in weak : d = Finding(file, "SLP230", n, "credential")
      BY <3>1
    <3>2. CASE \E n \in dummies : d = Finding(file, "SLP230", n, "return")
      BY <1>1, <3>2
    <3>3. CASE \E n \in texts \ (weak \cup dummies) : d = Finding(file, "SLP230", n, "text")
      BY <3>3
    <3>4. QED
      BY <2>1, <3>1, <3>2, <3>3
  <2> HIDE DEF why
  <2>3. QED
    BY <2>2, ForReasons
<1>5. QED
  BY <1>3, <1>4

\* Every rule over one file.
LEMMA RulesSpeakOnce ==
  ASSUME NEW file, IsTree(file.tree), NEW code \in FileRules
  PROVE  Speaks(Check(code, file), code)
<1>1. ASSUME NEW max PROVE Speaks(OversizedFile(file, max), "SLP080")
  BY DEF OversizedFile, OnLine, Speaks, Once
<1>2. Speaks(AsciiOnly(file), "SLP050")
  <2> DEFINE LineAt(p) == 1 + Cardinality({q \in 1..p : file.glyphs[q] = "newline"})
             GlyphAt(p) == [code |-> "SLP050", at |-> <<"glyph", p>>, line |-> LineAt(p), why |-> "ascii"]
  <2>1. \A d \in AsciiOnly(file) : \E p \in DOMAIN file.glyphs : d = GlyphAt(p)
    BY Zenon DEF AsciiOnly
  <2> HIDE DEF LineAt
  <2>2. ASSUME NEW d \in AsciiOnly(file), NEW e \in AsciiOnly(file), d.at = e.at PROVE d = e
    BY <2>1, <2>2
  <2>3. \A d \in AsciiOnly(file) : d.code = "SLP050"
    BY <2>1
  <2>4. QED
    BY <2>2, <2>3 DEF Speaks, Once
<1>3. CASE code = "SLP001"
  <2>1. \A d \in RedundantComment(file) : \E c : d = OnComment(file, "SLP001", c, "restates")
    BY DEF RedundantComment
  <2>2. Check(code, file) = RedundantComment(file)
    BY <1>3 DEF Check
  <2>3. QED
    BY <1>3, <2>1, <2>2, AtComments
<1>4. CASE code = "SLP002"
  <2>1. \A d \in RedundantDocstring(file) : \E n : d = Finding(file, "SLP002", n, "restates")
    BY DEF RedundantDocstring
  <2>2. Check(code, file) = RedundantDocstring(file)
    BY <1>4 DEF Check
  <2>3. QED
    BY <1>4, <2>1, <2>2, AtNodes
<1>5. CASE code = "SLP004"
  BY <1>5, CommentTellsOnce DEF Check
<1>6. CASE code = "SLP010"
  <2>1. \A d \in BannedComments(file) : \E c : d = OnComment(file, "SLP010", c, "banned")
    BY DEF BannedComments
  <2>2. Check(code, file) = BannedComments(file)
    BY <1>6 DEF Check
  <2>3. QED
    BY <1>6, <2>1, <2>2, AtComments
<1>7. CASE code = "SLP030"
  <2>1. \A d \in DefensiveExcept(file) : \E n : d = Finding(file, "SLP030", n, "swallows")
    BY DEF DefensiveExcept
  <2>2. Check(code, file) = DefensiveExcept(file)
    BY <1>7 DEF Check
  <2>3. QED
    BY <1>7, <2>1, <2>2, AtNodes
<1>8. CASE code = "SLP040"
  <2>1. \A d \in RedundantTypeHint(file) : \E n : d = Finding(file, "SLP040", n, "restates")
    BY DEF RedundantTypeHint
  <2>2. Check(code, file) = RedundantTypeHint(file)
    BY <1>8 DEF Check
  <2>3. QED
    BY <1>8, <2>1, <2>2, AtNodes
<1>9. CASE code = "SLP050"
  BY <1>2, <1>9 DEF Check
<1>10. CASE code = "SLP060"
  <2> DEFINE max == LimitOf("max_identifier_words", file)
  <2>1. \A d \in VerboseNaming(file, max) : \E n : d = Finding(file, "SLP060", n, "verbose")
    BY DEF VerboseNaming
  <2>2. Check(code, file) = VerboseNaming(file, max)
    BY <1>10 DEF Check
  <2>3. QED
    BY <1>10, <2>1, <2>2, AtNodes
<1>11. CASE code = "SLP080"
  BY <1>1, <1>11 DEF Check
<1>12. CASE code = "SLP082"
  <2> DEFINE max == LimitOf("nesting_max_depth", file)
  <2>1. \A d \in DeepNesting(file, max) : \E n : d = Finding(file, "SLP082", n, "nesting")
    BY DEF DeepNesting
  <2>2. Check(code, file) = DeepNesting(file, max)
    BY <1>12 DEF Check
  <2>3. QED
    BY <1>12, <2>1, <2>2, AtNodes
<1>13. CASE code = "SLP084"
  <2> DEFINE max == LimitOf("data_nesting_max_depth", file)
  <2>1. \A d \in DeepDataNesting(file, max) : \E n : d = Finding(file, "SLP084", n, "nested")
    BY DEF DeepDataNesting
  <2>2. Check(code, file) = DeepDataNesting(file, max)
    BY <1>13 DEF Check
  <2>3. QED
    BY <1>13, <2>1, <2>2, AtNodes
<1>14. CASE code = "SLP120"
  <2> DEFINE min == LimitOf("lcom4_min_methods", file)
             max == LimitOf("lcom4_max_components", file)
  <2>1. \A d \in GodClass(file, min, max) : \E n : d = AtName(file, "SLP120", n, "cohesion")
    BY DEF GodClass
  <2>2. Check(code, file) = GodClass(file, min, max)
    BY <1>14 DEF Check
  <2>3. QED
    BY <1>14, <2>1, <2>2, AtNamesOnce
<1>15. CASE code = "SLP130"
  BY <1>15, DispatchLadderOnce DEF Check
<1>16. CASE code = "SLP210"
  BY <1>16, PhantomGuardOnce DEF Check
<1>17. CASE code = "SLP230"
  BY <1>17, MockDataOnce DEF Check
<1>18. CASE code = "SLP250"
  <2>1. \A d \in CrossLanguage(file) : \E n : d = Finding(file, "SLP250", n, "idiom")
    BY DEF CrossLanguage
  <2>2. Check(code, file) = CrossLanguage(file)
    BY <1>18 DEF Check
  <2>3. QED
    BY <1>18, <2>1, <2>2, AtNodes
<1>19. QED
  BY <1>3, <1>4, <1>5, <1>6, <1>7, <1>8, <1>9, <1>10, <1>11, <1>12, <1>13, <1>14, <1>15, <1>16, <1>17, <1>18
     DEF FileRules

\* What is said of a file by the rules over one file, and by SLP220 before and
\* after it is parsed.
LEMMA FilesSpeakOnce ==
  ASSUME NEW file, IsTree(file.tree)
  PROVE  /\ \A d, e \in CheckFile(file) : d.code = e.code /\ d.at = e.at => d = e
         /\ \A d \in CheckFile(file) : d.code \in FileRules
         /\ \A code \in FileRules :
              {d \in CheckFile(file) : d.code = code} = IF RunsOn(code, file) THEN Check(code, file) ELSE {}
<1> DEFINE C == CheckFile(file)
<1>1. ASSUME NEW d \in C PROVE d.code \in FileRules /\ RunsOn(d.code, file) /\ d \in Check(d.code, file)
  <2>1. PICK code \in FileRules : RunsOn(code, file) /\ d \in Check(code, file)
    BY Zenon DEF CheckFile
  <2>2. d.code = code
    BY <2>1, RulesSpeakOnce DEF Speaks
  <2>3. QED
    BY <2>1, <2>2
<1>2. ASSUME NEW code \in FileRules, RunsOn(code, file), NEW d \in Check(code, file) PROVE d \in C /\ d.code = code
  <2>1. d \in C
    BY <1>2, Zenon DEF CheckFile
  <2>2. QED
    BY <2>1, RulesSpeakOnce DEF Speaks
<1> HIDE DEF C
<1>3. ASSUME NEW d \in C, NEW e \in C, d.code = e.code, d.at = e.at PROVE d = e
  <2>1. d \in Check(d.code, file) /\ e \in Check(d.code, file) /\ d.code \in FileRules
    BY <1>1, <1>3
  <2>2. Once(Check(d.code, file))
    BY <2>1, RulesSpeakOnce DEF Speaks
  <2>3. QED
    BY <1>3, <2>1, <2>2 DEF Once
<1>4. ASSUME NEW code \in FileRules
      PROVE  {d \in C : d.code = code} = IF RunsOn(code, file) THEN Check(code, file) ELSE {}
  <2>1. CASE RunsOn(code, file)
    BY <1>1, <1>2, <2>1
  <2>2. CASE ~RunsOn(code, file)
    BY <1>1, <2>2
  <2>3. QED
    BY <2>1, <2>2
<1>5. QED
  BY <1>1, <1>3, <1>4 DEF C

\* The first line of a file that parses is no artifact.
LEMMA CorruptedOnce ==
  ASSUME NEW file, file.parses => (1 \in DOMAIN file.rows => file.rows[1] # "artifact"),
         DOMAIN file.rows \subseteq Nat
  PROVE  Speaks(Corrupted(file), "SLP220")
<1>1. ASSUME NEW masked
      PROVE  FindArtifact(file, masked) = {} \/ \E l \in DOMAIN file.rows :
               file.rows[l] = "artifact" /\ FindArtifact(file, masked) = {OnLine("SLP220", l, "artifact")}
  <2> DEFINE found == Rows(file, masked, {"artifact"})
  <2>1. CASE found = {}
    BY <2>1 DEF FindArtifact
  <2>2. CASE found # {}
    <3>1. found \subseteq Nat
      BY DEF Rows
    <3>2. Min(found) \in found
      <4> HIDE DEF found
      <4>1. QED
        BY <2>2, <3>1, MinIsLeast
    <3>3. FindArtifact(file, masked) = {OnLine("SLP220", Min(found), "artifact")}
      BY <2>2 DEF FindArtifact
    <3>4. Min(found) \in DOMAIN file.rows /\ file.rows[Min(found)] = "artifact"
      BY <3>2 DEF Rows
    <3>5. QED
      BY <3>3, <3>4
  <2>3. QED
    BY <2>1, <2>2
<1>2. ASSUME NEW l, NEW why PROVE Speaks({OnLine("SLP220", l, why)}, "SLP220")
  BY DEF OnLine, Speaks, Once
<1>3. Speaks({}, "SLP220")
  BY DEF Speaks, Once
<1>4. ASSUME NEW percent PROVE Speaks(OnParseError(file, percent), "SLP220")
  <2>1. \/ FindArtifact(file, {}) = {} /\ \E why : OnParseError(file, percent) = {OnLine("SLP220", 1, why)}
        \/ OnParseError(file, percent) = FindArtifact(file, {})
    BY Zenon DEF OnParseError
  <2>2. CASE OnParseError(file, percent) = FindArtifact(file, {})
    BY <1>1, <1>2, <1>3, <2>2
  <2>3. CASE \E why : OnParseError(file, percent) = {OnLine("SLP220", 1, why)}
    BY <1>2, <2>3
  <2>4. QED
    BY <2>1, <2>2, <2>3
<1>5. ASSUME NEW percent, file.parses PROVE Speaks(ScanParsed(file, percent), "SLP220")
  <2> DEFINE A == FindArtifact(file, MaskedLines(file))
             P == OnLine("SLP220", 1, "prose")
  <2>1. ScanParsed(file, percent) = A \/ ScanParsed(file, percent) = A \cup {P}
    BY DEF ScanParsed
  <2>2. A = {} \/ \E l \in DOMAIN file.rows : l # 1 /\ A = {OnLine("SLP220", l, "artifact")}
    BY <1>1, <1>5
  <2>3. CASE A = {}
    BY <1>2, <1>3, <2>1, <2>3
  <2>4. CASE \E l \in DOMAIN file.rows : l # 1 /\ A = {OnLine("SLP220", l, "artifact")}
    <3>1. PICK l : l # 1 /\ A = {OnLine("SLP220", l, "artifact")}
      BY <2>4
    <3>2. Speaks({OnLine("SLP220", l, "artifact"), OnLine("SLP220", 1, "prose")}, "SLP220")
      BY <3>1 DEF OnLine, Speaks, Once
    <3>3. CASE ScanParsed(file, percent) = A
      BY <1>2, <3>1, <3>3
    <3>4. CASE ScanParsed(file, percent) = A \cup {P}
      <4>1. A \cup {P} = {OnLine("SLP220", l, "artifact"), OnLine("SLP220", 1, "prose")}
        BY <3>1
      <4>2. QED
        BY <3>2, <3>4, <4>1
    <3>5. QED
      BY <2>1, <3>3, <3>4
  <2>5. QED
    BY <2>2, <2>3, <2>4
<1>6. QED
  BY <1>3, <1>4, <1>5 DEF Corrupted

LEMMA SourceFacts ==
  ASSUME NEW s \in Sources
  PROVE  /\ Len(s.files) \in Nat /\ DOMAIN s.files = 1..Len(s.files)
         /\ \A i \in DOMAIN s.files :
              /\ DOMAIN s.files[i].rows \subseteq Nat
              /\ s.files[i].parses =>
                   /\ IsTree(s.files[i].tree)
                   /\ 1 \in DOMAIN s.files[i].rows => s.files[i].rows[1] # "artifact"
<1>1. s.files \in Seq(ToSet(s.files)) /\ \A i \in DOMAIN s.files : s.files[i] \in ToSet(s.files)
  BY SourcesAreFiles DEF ToSet
<1>2. ASSUME NEW i \in DOMAIN s.files PROVE s.files[i].rows \in Seq(ToSet(s.files[i].rows))
  BY <1>1, SourcesAreFiles
<1>3. \A i \in DOMAIN s.files : DOMAIN s.files[i].rows \subseteq Nat
  BY <1>2
<1>4. QED
  BY <1>1, <1>3, SourcesAreFiles

\* The rules over a whole project: at the nodes of imports, of definitions and
\* of what reads flags.
LEMMA UndeclaredAtNodes ==
  ASSUME NEW file, NEW firstParty, NEW dists, NEW d \in UndeclaredImports(file, firstParty, dists)
  PROVE  \E n : d = Finding(file, "SLP180", n, "undeclared")
BY DEF UndeclaredImports

LEMMA TreeRulesSpeakOnce ==
  ASSUME NEW file, NEW scans
  PROVE  Speaks(GhostDefs(file, scans) \cup GhostFlags(file, scans), "SLP240")
<1> DEFINE D == GhostDefs(file, scans)
           F == GhostFlags(file, scans)
<1>2. ASSUME NEW d \in D PROVE \E n : file.tree[n].kind \in Scopes /\ d = AtName(file, "SLP240", n, "definition")
  BY DEF GhostDefs, Defs
<1>3. ASSUME NEW d \in F PROVE \E n : file.tree[n].kind = "Attribute" /\ d = Finding(file, "SLP240", n, "flag")
  BY DEF GhostFlags, ConfigReads, OfKind
<1>4. ASSUME NEW n
      PROVE  /\ AtName(file, "SLP240", n, "definition").code = "SLP240"
             /\ AtName(file, "SLP240", n, "definition").at = <<"node", n>>
  BY DEF AtName, Finding
<1> HIDE DEF D, F
<1>5. Speaks(D, "SLP240")
  BY <1>2, AtNamesOnce
<1>6. Speaks(F, "SLP240")
  BY <1>3, AtNodes
<1>7. ASSUME NEW d \in D, NEW e \in F PROVE d.at # e.at
  <2>1. PICK n : file.tree[n].kind \in Scopes /\ d = AtName(file, "SLP240", n, "definition")
    BY <1>2
  <2>2. PICK m : file.tree[m].kind = "Attribute" /\ e = Finding(file, "SLP240", m, "flag")
    BY <1>3
  <2>3. d.at = <<"node", n>> /\ e.at = <<"node", m>> /\ n # m
    BY <1>4, <2>1, <2>2 DEF Finding, Scopes
  <2>4. QED
    BY <2>3
<1>8. Speaks(D \cup F, "SLP240")
  BY <1>5, <1>6, <1>7 DEF Speaks, Once
<1>9. QED
  BY <1>8 DEF D, F

-----------------------------------------------------------------------------
(* The results of a check. *)

IsSequence(s) == \E S : s \in Seq(S)

OnceEach(diagnostics) == \A d, e \in diagnostics : d.code = e.code /\ d.at = e.at => d = e

\* Every file that parses is in the results when it was its turn, and none twice.
FilesInTurn ==
  /\ project \in Sources
  /\ next \in Nat \ {0}
  /\ stage \in {"scan", "tree", "suppress", "over"}
  /\ stage # "scan" => next = Len(project.files) + 1
  /\ IsSequence(results)
  /\ \A r \in DOMAIN results : results[r] = [file |-> results[r].file, diagnostics |-> results[r].diagnostics]
  /\ \A r \in DOMAIN results : results[r].file \in DOMAIN project.files /\ results[r].file < next
  /\ \A r, q \in DOMAIN results : results[r].file = results[q].file => r = q
  /\ \A i \in DOMAIN project.files :
       i < next /\ project.files[i].parses => \E r \in DOMAIN results : results[r].file = i

\* What a rule over one file has to say of it.
Says(code, file) == IF RunsOn(code, file) THEN Check(code, file) ELSE {}
Said == [i \in DOMAIN project.files |-> [code \in FileRules |-> Says(code, project.files[i])]]

\* Findings are what the rules say, until the end all of it.
Consistent(said, when, file, diagnostics) ==
  /\ OnceEach(diagnostics)
  /\ when \in {"scan", "tree"} => \A d \in diagnostics : d.code \in FileRules \cup {"SLP220"}
  /\ file.parses =>
       \A code \in FileRules :
         {d \in diagnostics : d.code = code} = {d \in said[code] : when = "over" => ~Suppressed(file, d)}

FindingsAreSaid ==
  \A r \in DOMAIN results :
    LET i == results[r].file
    IN  Consistent(Said[i], stage, project.files[i], results[r].diagnostics)

LintInv == FilesInTurn /\ FindingsAreSaid

LEMMA SameSaid == UNCHANGED project => Said' = Said
<1>1. ASSUME UNCHANGED project, NEW code, NEW file PROVE Check(code, file)' = Check(code, file)
  BY <1>1, Zenon DEF Check, LimitOf
<1>2. ASSUME UNCHANGED project, NEW code, NEW file PROVE RunsOn(code, file)' = RunsOn(code, file)
  BY <1>2, Zenon DEF RunsOn
<1>3. ASSUME UNCHANGED project, NEW code, NEW i PROVE Says(code, project.files[i])' = Says(code, project.files[i])
  BY <1>1, <1>2, <1>3, Zenon DEF Says
<1>4. QED
  BY <1>3 DEF Said

LEMMA LintInitHolds == LintInit => LintInv
<1> SUFFICES ASSUME LintInit PROVE LintInv
  OBVIOUS
<1>1. project \in Sources /\ stage = "scan" /\ next = 1 /\ results = <<>>
  BY DEF LintInit
<1>2. \A i \in DOMAIN project.files : ~ (i < next)
  BY <1>1, SourceFacts
<1>3. IsSequence(results) /\ DOMAIN results = {}
  <2>1. results \in Seq({})
    BY <1>1
  <2>2. QED
    BY <1>1, <2>1 DEF IsSequence
<1>4. FilesInTurn
  BY <1>1, <1>2, <1>3 DEF FilesInTurn
<1>5. FindingsAreSaid
  BY <1>3 DEF FindingsAreSaid
<1>6. QED
  BY <1>4, <1>5 DEF LintInv

LEMMA MoreResults ==
  ASSUME NEW s, IsSequence(s), NEW e
  PROVE  /\ IsSequence(Append(s, e)) /\ Len(s) \in Nat
         /\ DOMAIN s = 1..Len(s) /\ DOMAIN Append(s, e) = 1..(Len(s) + 1)
         /\ \A j \in DOMAIN s : Append(s, e)[j] = s[j]
         /\ Append(s, e)[Len(s) + 1] = e
<1>1. PICK S : s \in Seq(S)
  BY DEF IsSequence
<1>2. s \in Seq(S \cup {e})
  BY <1>1
<1>3. QED
  BY <1>2, AppendFacts DEF IsSequence

\* A file that is scanned, or found broken, gets a result of its own.
LEMMA ResultInTurn ==
  ASSUME FilesInTurn, Scanning, NEW found, Found(found), UNCHANGED <<project, stage>>
  PROVE  /\ FilesInTurn'
         /\ DOMAIN results' = DOMAIN results \cup {Len(results) + 1} /\ Len(results) + 1 \notin DOMAIN results
         /\ \A r \in DOMAIN results : results'[r] = results[r]
         /\ results'[Len(results) + 1] = [file |-> next, diagnostics |-> found]
<1> DEFINE n == Len(results) + 1
<1>1. /\ stage = "scan" /\ next \in DOMAIN project.files /\ next' = next + 1
      /\ results' = Append(results, [file |-> next, diagnostics |-> found])
      /\ project' = project /\ stage' = stage
  BY DEF Scanning, Found
<1>2. /\ project \in Sources /\ next \in Nat \ {0} /\ IsSequence(results)
      /\ \A r \in DOMAIN results : results[r].file \in DOMAIN project.files /\ results[r].file < next
      /\ \A r, q \in DOMAIN results : results[r].file = results[q].file => r = q
      /\ \A i \in DOMAIN project.files :
           i < next /\ project.files[i].parses => \E r \in DOMAIN results : results[r].file = i
  BY DEF FilesInTurn
<1>3. /\ IsSequence(results') /\ DOMAIN results' = DOMAIN results \cup {n} /\ n \notin DOMAIN results
      /\ \A r \in DOMAIN results : results'[r] = results[r]
      /\ results'[n] = [file |-> next, diagnostics |-> found]
  <2>1. /\ IsSequence(results') /\ Len(results) \in Nat /\ DOMAIN results = 1..Len(results)
        /\ DOMAIN results' = 1..(Len(results) + 1)
        /\ \A r \in DOMAIN results : results'[r] = results[r]
        /\ results'[Len(results) + 1] = [file |-> next, diagnostics |-> found]
    BY <1>1, <1>2, MoreResults
  <2>2. 1..(Len(results) + 1) = 1..Len(results) \cup {Len(results) + 1} /\ Len(results) + 1 \notin 1..Len(results)
    BY <2>1
  <2>3. QED
    BY <2>1, <2>2
<1> HIDE DEF n
<1>4. results'[n].file = next
  BY <1>3
<1>5. \A i \in DOMAIN project.files : i \in Nat
  BY <1>2, SourceFacts
<1>6. \A r \in DOMAIN results' : results'[r].file \in DOMAIN project.files /\ results'[r].file < next'
  BY <1>1, <1>2, <1>3, <1>4, <1>5
<1>7. \A r, q \in DOMAIN results' : results'[r].file = results'[q].file => r = q
  <2>1. \A r \in DOMAIN results : results[r].file # next
    BY <1>2, <1>5
  <2>2. QED
    BY <1>2, <1>3, <1>4, <2>1
<1>8. ASSUME NEW i \in DOMAIN project.files, i < next', project.files[i].parses
      PROVE  \E r \in DOMAIN results' : results'[r].file = i
  <2>1. CASE i = next
    BY <1>3, <1>4, <2>1
  <2>2. CASE i # next
    <3>1. i < next
      BY <1>1, <1>2, <1>5, <1>8, <2>2
    <3>2. PICK r \in DOMAIN results : results[r].file = i
      BY <1>2, <1>8, <3>1
    <3>3. QED
      BY <1>3, <3>2
  <2>3. QED
    BY <2>1, <2>2
<1>9. FilesInTurn'
  BY <1>1, <1>2, <1>3, <1>6, <1>7, <1>8 DEF FilesInTurn
<1>10. QED
  BY <1>3, <1>9 DEF n

\* What is said of a file when it is scanned.
LEMMA ScannedIsConsistent ==
  ASSUME project \in Sources, NEW i \in DOMAIN project.files
  PROVE  LET file == project.files[i]
         IN  /\ file.parses => Consistent(Said[i], "scan", file, CheckFile(file) \cup Corrupted(file))
             /\ ~file.parses => Consistent(Said[i], "scan", file, Corrupted(file))
<1> DEFINE file == project.files[i]
           C == CheckFile(file)
           B == Corrupted(file)
           said == Said[i]
<1>1. Once(B) /\ \A d \in B : d.code = "SLP220"
  BY SourceFacts, CorruptedOnce DEF Speaks
<1>2. "SLP220" \notin FileRules
  BY DEF FileRules
<1>3. ASSUME file.parses PROVE Consistent(said, "scan", file, C \cup B)
  <2>1. /\ \A d, e \in C : d.code = e.code /\ d.at = e.at => d = e
        /\ \A d \in C : d.code \in FileRules
        /\ \A code \in FileRules : {d \in C : d.code = code} = said[code]
    BY <1>3, SourceFacts, FilesSpeakOnce DEF Said, Says
  <2> HIDE DEF C, B, file, said
  <2>2. OnceEach(C \cup B)
    BY <1>1, <1>2, <2>1 DEF OnceEach, Once
  <2>3. ASSUME NEW code \in FileRules PROVE {d \in C \cup B : d.code = code} = said[code]
    <3>1. {d \in C \cup B : d.code = code} = {d \in C : d.code = code}
      BY <1>1, <1>2
    <3>2. QED
      BY <2>1, <3>1
  <2>4. \A code \in FileRules : said[code] = {d \in said[code] : "scan" = "over" => ~Suppressed(file, d)}
    <3>1. ASSUME NEW code \in FileRules PROVE said[code] = {d \in said[code] : "scan" = "over" => ~Suppressed(file, d)}
      <4>1. said[code] = {d \in C : d.code = code}
        BY <2>1
      <4> HIDE DEF said
      <4>2. QED
        BY <4>1
    <3>2. QED
      BY <3>1
  <2>5. QED
    BY <1>1, <2>1, <2>2, <2>3, <2>4, Zenon DEF Consistent
<1>4. ASSUME ~file.parses PROVE Consistent(said, "scan", file, B)
  <2> HIDE DEF B, file, said
  <2>1. QED
    BY <1>1, <1>4 DEF Consistent, OnceEach, Once
<1>5. QED
  BY <1>3, <1>4

LEMMA ResultKeeps ==
  ASSUME LintInv, Scanning, NEW found, Found(found), UNCHANGED <<project, stage>>,
         Consistent(Said[next], "scan", project.files[next], found)
  PROVE  LintInv'
<1> DEFINE n == Len(results) + 1
<1>1. FilesInTurn /\ FindingsAreSaid /\ stage = "scan"
  BY DEF LintInv, Scanning
<1>2. /\ FilesInTurn'
      /\ DOMAIN results' = DOMAIN results \cup {n}
      /\ \A r \in DOMAIN results : results'[r] = results[r]
      /\ results'[n] = [file |-> next, diagnostics |-> found]
  BY <1>1, ResultInTurn
<1> HIDE DEF n
<1>3. Said' = Said /\ project' = project /\ stage' = "scan"
  BY <1>1, SameSaid
<1>4. ASSUME NEW r \in DOMAIN results'
      PROVE  Consistent(Said[results'[r].file], "scan", project.files[results'[r].file], results'[r].diagnostics)
  <2>1. CASE r = n
    BY <1>2, <2>1
  <2>2. CASE r # n
    BY <1>1, <1>2, <2>2 DEF FindingsAreSaid
  <2>3. QED
    BY <2>1, <2>2
<1>5. FindingsAreSaid'
  BY <1>3, <1>4 DEF FindingsAreSaid
<1>6. QED
  BY <1>2, <1>5 DEF LintInv

LEMMA ScanFileKeeps == LintInv /\ ScanFile => LintInv'
<1> SUFFICES ASSUME LintInv, ScanFile PROVE LintInv'
  OBVIOUS
<1>1. /\ FilesInTurn /\ Scanning /\ File.parses
      /\ Found(CheckFile(File) \cup Corrupted(File)) /\ UNCHANGED <<project, stage>>
  BY DEF LintInv, ScanFile
<1>2. project \in Sources /\ next \in DOMAIN project.files /\ File = project.files[next]
  BY <1>1 DEF FilesInTurn, Scanning, File
<1>3. Consistent(Said[next], "scan", File, CheckFile(File) \cup Corrupted(File))
  BY <1>1, <1>2, ScannedIsConsistent
<1>4. QED
  BY <1>1, <1>2, <1>3, ResultKeeps

LEMMA ScanBrokenKeeps == LintInv /\ ScanBroken => LintInv'
<1> SUFFICES ASSUME LintInv, ScanBroken PROVE LintInv'
  OBVIOUS
<1>1. FilesInTurn /\ Scanning /\ ~File.parses /\ UNCHANGED <<project, stage>>
  BY DEF LintInv, ScanBroken
<1>2. project \in Sources /\ next \in DOMAIN project.files /\ File = project.files[next]
  BY <1>1 DEF FilesInTurn, Scanning, File
<1>3. CASE Found(Corrupted(File))
  <2>1. Consistent(Said[next], "scan", File, Corrupted(File))
    BY <1>1, <1>2, ScannedIsConsistent
  <2>2. QED
    BY <1>1, <1>2, <1>3, <2>1, ResultKeeps
<1>4. CASE results' = results
  <2>1. next' = next + 1 /\ stage = "scan" /\ stage' = stage /\ project' = project
    BY <1>1 DEF Scanning
  <2>2. \A i \in DOMAIN project.files : i \in Nat
    BY <1>2, SourceFacts
  <2>3. FilesInTurn'
    <3>1. \A r \in DOMAIN results : results[r].file \in DOMAIN project.files /\ results[r].file < next'
      BY <1>1, <2>1, <2>2 DEF FilesInTurn
    <3>2. \A i \in DOMAIN project.files :
            i < next' /\ project.files[i].parses => \E r \in DOMAIN results : results[r].file = i
      <4>1. ASSUME NEW i \in DOMAIN project.files, i < next', project.files[i].parses PROVE i < next
        BY <1>1, <1>2, <2>1, <2>2, <4>1 DEF FilesInTurn
      <4>2. QED
        BY <1>1, <4>1 DEF FilesInTurn
    <3>3. QED
      BY <1>1, <1>4, <2>1, <3>1, <3>2 DEF FilesInTurn
  <2>4. Said' = Said
    BY <2>1, SameSaid
  <2>5. FindingsAreSaid'
    BY <1>4, <2>1, <2>4 DEF LintInv, FindingsAreSaid
  <2>6. QED
    BY <2>3, <2>5 DEF LintInv
<1>5. QED
  BY <1>3, <1>4 DEF ScanBroken

LEMMA AllScannedKeeps == LintInv /\ AllScanned => LintInv'
<1> SUFFICES ASSUME LintInv, AllScanned PROVE LintInv'
  OBVIOUS
<1>1. /\ stage = "scan" /\ next = Len(project.files) + 1 /\ stage' \in {"tree", "suppress"}
      /\ project' = project /\ next' = next /\ results' = results
  BY DEF AllScanned
<1>2. FilesInTurn'
  BY <1>1 DEF LintInv, FilesInTurn
<1>3. Said' = Said
  BY <1>1, SameSaid
<1>4. FindingsAreSaid'
  <2>1. ASSUME NEW r \in DOMAIN results
        PROVE  Consistent(Said[results[r].file], stage', project.files[results[r].file], results[r].diagnostics)
    <3>1. Consistent(Said[results[r].file], stage, project.files[results[r].file], results[r].diagnostics)
      BY DEF LintInv, FindingsAreSaid
    <3>2. QED
      BY <1>1, <3>1 DEF Consistent
  <2>2. QED
    BY <1>1, <1>3, <2>1 DEF FindingsAreSaid
<1>5. QED
  BY <1>2, <1>4 DEF LintInv

\* The passes over all change what is said of a file and nothing else.
LEMMA PassInTurn ==
  ASSUME FilesInTurn, stage # "scan", stage' \in {"tree", "suppress", "over"}, UNCHANGED <<project, next>>, NEW diagnostics,
         results' = [r \in DOMAIN results |-> [file |-> results[r].file, diagnostics |-> diagnostics[r]]]
  PROVE  FilesInTurn'
<1>1. /\ project \in Sources /\ next \in Nat \ {0} /\ IsSequence(results)
      /\ next = Len(project.files) + 1
      /\ \A r \in DOMAIN results : results[r].file \in DOMAIN project.files /\ results[r].file < next
      /\ \A r, q \in DOMAIN results : results[r].file = results[q].file => r = q
      /\ \A i \in DOMAIN project.files :
           i < next /\ project.files[i].parses => \E r \in DOMAIN results : results[r].file = i
  BY DEF FilesInTurn
<1> DEFINE results2 == [r \in DOMAIN results |-> [file |-> results[r].file, diagnostics |-> diagnostics[r]]]
<1>2. /\ DOMAIN results2 = DOMAIN results
      /\ \A r \in DOMAIN results : /\ results2[r].file = results[r].file
                                   /\ results2[r] = [file |-> results2[r].file, diagnostics |-> results2[r].diagnostics]
  OBVIOUS
<1>3. IsSequence(results2)
  <2>1. Len(results) \in Nat /\ DOMAIN results = 1..Len(results)
    BY <1>1, MoreResults
  <2>2. results2 \in Seq({results2[r] : r \in DOMAIN results})
    BY <2>1
  <2> HIDE DEF results2
  <2>3. QED
    BY <2>2 DEF IsSequence
<1> HIDE DEF results2
<1>4. results' = results2
  BY DEF results2
<1>5. QED
  BY <1>1, <1>2, <1>3, <1>4 DEF FilesInTurn

\* What the passes over a whole project add to a file.
LEMMA TreeFindingsOnce ==
  ASSUME NEW file
  PROVE  OnceEach(TreeFindings(file)) /\ \A d \in TreeFindings(file) : d.code \in {"SLP180", "SLP240"}
<1> DEFINE U == Undeclared(file)
           G == Ghosts(file)
<1>1. \A d \in U : \E n : d = Finding(file, "SLP180", n, "undeclared")
  <2> DEFINE scanned == {project.files[i].path : i \in DOMAIN project.files}
  <2>1. ASSUME NEW d \in U PROVE \E n : d = Finding(file, "SLP180", n, "undeclared")
    <3>1. PICK m \in ResolveDeclared(project.dirs) :
                 d \in UndeclaredImports(file, FirstPartyNames(m.root.modules \cup scanned), m.dists)
      BY <2>1, Zenon DEF Undeclared
    <3> DEFINE ours == FirstPartyNames(m.root.modules \cup scanned)
    <3>2. d \in UndeclaredImports(file, ours, m.dists)
      BY <3>1
    <3> HIDE DEF ours
    <3>3. QED
      BY <3>2, UndeclaredAtNodes, Zenon
  <2>2. QED
    BY <2>1
<1>2. Speaks(U, "SLP180")
  <2> HIDE DEF U
  <2>1. QED
    BY <1>1, AtNodes
<1>3. Speaks(G, "SLP240")
  BY TreeRulesSpeakOnce DEF Ghosts
<1>4. Enabled("SLP180", U, file) \subseteq U /\ Enabled("SLP240", G, file) \subseteq G
  <2> HIDE DEF U, G
  <2>1. QED
    BY DEF Enabled
<1>5. TreeFindings(file) \subseteq U \cup G
  BY <1>4 DEF TreeFindings
<1> HIDE DEF U, G
<1>6. QED
  BY <1>2, <1>3, <1>5 DEF Speaks, Once, OnceEach

LEMMA TreePassesAdd ==
  ASSUME FilesInTurn, TreePasses
  PROVE  \E wide :
           /\ results' = [r \in DOMAIN results |-> [file |-> results[r].file,
                                                    diagnostics |-> results[r].diagnostics \cup wide[r]]]
           /\ \A r \in DOMAIN results :
                /\ OnceEach(wide[r]) /\ \A d \in wide[r] : d.code \in {"SLP180", "SLP240"}
                /\ Whose(r).parses => wide[r] = TreeFindings(Whose(r))
<1> DEFINE wide == [r \in DOMAIN results |-> IF Whose(r).parses THEN TreeFindings(Whose(r)) ELSE {}]
<1>1. results' = [r \in DOMAIN results |->
                    IF Whose(r).parses THEN [results[r] EXCEPT !.diagnostics = @ \cup TreeFindings(Whose(r))]
                    ELSE results[r]]
  BY Zenon DEF TreePasses
<1>2. ASSUME NEW r \in DOMAIN results
      PROVE  results'[r] = [file |-> results[r].file, diagnostics |-> results[r].diagnostics \cup wide[r]]
  <2>1. results[r] = [file |-> results[r].file, diagnostics |-> results[r].diagnostics]
    BY DEF FilesInTurn
  <2>2. wide[r] = IF Whose(r).parses THEN TreeFindings(Whose(r)) ELSE {}
    OBVIOUS
  <2>3. results'[r] = IF Whose(r).parses
                      THEN [results[r] EXCEPT !.diagnostics = results[r].diagnostics \cup TreeFindings(Whose(r))]
                      ELSE results[r]
    BY <1>1
  <2> HIDE DEF wide
  <2>4. QED
    BY <2>1, <2>2, <2>3
<1>3. ASSUME NEW r \in DOMAIN results
      PROVE  /\ OnceEach(wide[r]) /\ \A d \in wide[r] : d.code \in {"SLP180", "SLP240"}
             /\ Whose(r).parses => wide[r] = TreeFindings(Whose(r))
  <2>1. OnceEach({})
    BY DEF OnceEach
  <2>2. OnceEach(TreeFindings(Whose(r))) /\ \A d \in TreeFindings(Whose(r)) : d.code \in {"SLP180", "SLP240"}
    BY TreeFindingsOnce
  <2>3. QED
    BY <2>1, <2>2
<1> HIDE DEF wide
<1>4. results' = [r \in DOMAIN results |-> [file |-> results[r].file,
                                            diagnostics |-> results[r].diagnostics \cup wide[r]]]
  <2>1. results' = [r \in DOMAIN results |-> results'[r]]
    BY <1>1
  <2>2. QED
    BY <1>2, <2>1, Zenon
<1>5. QED
  BY <1>3, <1>4

LEMMA TreePassesKeeps == LintInv /\ TreePasses => LintInv'
<1> SUFFICES ASSUME LintInv, TreePasses PROVE LintInv'
  OBVIOUS
<1>1. /\ FilesInTurn /\ FindingsAreSaid
      /\ stage = "tree" /\ stage' = "suppress" /\ project' = project /\ next' = next
  BY Zenon DEF LintInv, TreePasses
<1>2. PICK wide :
        /\ results' = [r \in DOMAIN results |-> [file |-> results[r].file,
                                                 diagnostics |-> results[r].diagnostics \cup wide[r]]]
        /\ \A r \in DOMAIN results :
             OnceEach(wide[r]) /\ \A d \in wide[r] : d.code \in {"SLP180", "SLP240"}
  BY <1>1, TreePassesAdd
<1>3. FilesInTurn'
  <2> DEFINE diagnostics == [r \in DOMAIN results |-> results[r].diagnostics \cup wide[r]]
  <2>1. results' = [r \in DOMAIN results |-> [file |-> results[r].file, diagnostics |-> diagnostics[r]]]
    BY <1>2
  <2> HIDE DEF diagnostics
  <2>2. QED
    BY <1>1, <2>1, PassInTurn
<1>4. Said' = Said
  BY <1>1, SameSaid
<1>5. ASSUME NEW r \in DOMAIN results
      PROVE  Consistent(Said[results[r].file], "suppress", project.files[results[r].file],
                        results[r].diagnostics \cup wide[r])
  <2> DEFINE said == Said[results[r].file]
             file == project.files[results[r].file]
             before == results[r].diagnostics
  <2>1. Consistent(said, "tree", file, before)
    BY <1>1 DEF FindingsAreSaid
  <2>2. OnceEach(wide[r]) /\ \A d \in wide[r] : d.code \in {"SLP180", "SLP240"}
    BY <1>2
  <2>3. {"SLP180", "SLP240"} \cap (FileRules \cup {"SLP220"}) = {}
    BY DEF FileRules
  <2> HIDE DEF said, file, before
  <2>4. OnceEach(before \cup wide[r])
    BY <2>1, <2>2, <2>3 DEF OnceEach, Consistent
  <2>5. \A code \in FileRules : {d \in before \cup wide[r] : d.code = code} = {d \in before : d.code = code}
    BY <2>2, <2>3
  <2>6. Consistent(said, "suppress", file, before \cup wide[r])
    BY <2>1, <2>4, <2>5 DEF Consistent
  <2>7. QED
    BY <2>6 DEF said, file, before
<1>6. \A r \in DOMAIN results :
        results'[r].file = results[r].file /\ results'[r].diagnostics = results[r].diagnostics \cup wide[r]
  BY <1>2
<1>7. FindingsAreSaid'
  BY <1>1, <1>2, <1>4, <1>5, <1>6 DEF FindingsAreSaid
<1>8. QED
  BY <1>3, <1>7 DEF LintInv

LEMMA AcknowledgeKeeps == LintInv /\ Acknowledge => LintInv'
<1> SUFFICES ASSUME LintInv, Acknowledge PROVE LintInv'
  OBVIOUS
<1>1. /\ FilesInTurn /\ FindingsAreSaid
      /\ stage = "suppress" /\ stage' = "over" /\ project' = project /\ next' = next
      /\ results' = [r \in DOMAIN results |-> [results[r] EXCEPT !.diagnostics = Unacknowledged(results[r])]]
  BY DEF LintInv, Acknowledge
<1> DEFINE left == [r \in DOMAIN results |-> Unacknowledged(results[r])]
<1>2. results' = [r \in DOMAIN results |-> [file |-> results[r].file, diagnostics |-> left[r]]]
  <2>1. \A r \in DOMAIN results : results[r] = [file |-> results[r].file, diagnostics |-> results[r].diagnostics]
    BY <1>1 DEF FilesInTurn
  <2>2. \A r \in DOMAIN results : [results[r] EXCEPT !.diagnostics = left[r]] = [file |-> results[r].file, diagnostics |-> left[r]]
    <3> HIDE DEF left
    <3>1. QED
      BY <2>1
  <2>3. results' = [r \in DOMAIN results |-> [results[r] EXCEPT !.diagnostics = left[r]]]
    BY <1>1
  <2> HIDE DEF left
  <2>4. QED
    BY <2>2, <2>3
<1>3. \A r \in DOMAIN results :
        LET file == project.files[results[r].file]
        IN  left[r] = {d \in results[r].diagnostics : ~(file.parses /\ Suppressed(file, d))}
  BY DEF Unacknowledged
<1> HIDE DEF left
<1>4. FilesInTurn'
  BY <1>1, <1>2, PassInTurn
<1>5. Said' = Said
  BY <1>1, SameSaid
<1>6. ASSUME NEW r \in DOMAIN results
      PROVE  Consistent(Said[results[r].file], "over", project.files[results[r].file], left[r])
  <2> DEFINE said == Said[results[r].file]
             file == project.files[results[r].file]
             before == results[r].diagnostics
  <2>1. Consistent(said, "suppress", file, before)
    BY <1>1 DEF FindingsAreSaid
  <2>2. left[r] = {d \in before : ~(file.parses /\ Suppressed(file, d))}
    BY <1>3
  <2> HIDE DEF said, file, before
  <2>3. OnceEach(left[r])
    BY <2>1, <2>2 DEF Consistent, OnceEach
  <2>4. ASSUME file.parses, NEW code \in FileRules
        PROVE  {d \in left[r] : d.code = code} = {d \in said[code] : ~Suppressed(file, d)}
    <3>1. {d \in before : d.code = code} = said[code]
      BY <2>1, <2>4 DEF Consistent
    <3>2. QED
      BY <2>2, <2>4, <3>1
  <2>5. Consistent(said, "over", file, left[r])
    BY <2>3, <2>4 DEF Consistent
  <2>6. QED
    BY <2>5 DEF said, file
<1>7. FindingsAreSaid'
  <2>1. \A r \in DOMAIN results : results'[r].file = results[r].file /\ results'[r].diagnostics = left[r]
    BY <1>2
  <2>2. QED
    BY <1>1, <1>2, <1>5, <1>6, <2>1 DEF FindingsAreSaid
<1>8. QED
  BY <1>4, <1>7 DEF LintInv

LEMMA StillSaid == LintInv /\ UNCHANGED lintVars => LintInv'
<1> SUFFICES ASSUME LintInv, UNCHANGED lintVars PROVE LintInv'
  OBVIOUS
<1>1. project' = project /\ stage' = stage /\ next' = next /\ results' = results
  BY DEF lintVars
<1>2. Said' = Said
  BY <1>1, SameSaid
<1>3. FilesInTurn'
  BY <1>1 DEF LintInv, FilesInTurn
<1>4. FindingsAreSaid'
  BY <1>1, <1>2 DEF LintInv, FindingsAreSaid
<1>5. QED
  BY <1>3, <1>4 DEF LintInv

\* For every project: every file that parses is scanned once, and of what the
\* rules over one file say of it nothing is missing, doubled or attributed to
\* another file, until what is acknowledged is dropped.
THEOREM LintInvariance == PipelineSpec => []LintInv
<1>1. PipelineInit => LintInv
  BY LintInitHolds DEF PipelineInit
<1>2. ASSUME LintInv, LintNext PROVE LintInv'
  BY <1>2, ScanFileKeeps, ScanBrokenKeeps, AllScannedKeeps, TreePassesKeeps, AcknowledgeKeeps DEF LintNext
<1>3. ASSUME LintInv, [PipelineNext]_<<vars, lintVars>> PROVE LintInv'
  <2>1. CASE LintNext
    BY <1>2, <1>3, <2>1
  <2>2. CASE UNCHANGED lintVars
    BY <1>3, <2>2, StillSaid
  <2>3. LintNext \/ UNCHANGED lintVars
    BY <1>3, Zenon DEF PipelineNext, Measure
  <2>4. QED
    BY <2>1, <2>2, <2>3
<1>4. QED
  BY <1>1, <1>3, PTL DEF PipelineSpec

\* For every project of syntax trees: no rule has two findings at one place,
\* however many of its passes come by and whatever the passes over all files
\* add, and no file is reported on twice (scan_files and the rules it runs).
THEOREM OnePerPlaceAlways == PipelineSpec => []OncePerPlace
<1>1. LintInv => OncePerPlace
  BY DEF LintInv, FilesInTurn, FindingsAreSaid, Consistent, OnceEach, OncePerPlace
<1>2. QED
  BY <1>1, LintInvariance, PTL

-----------------------------------------------------------------------------
(* The two commands about the same functions. *)

\* What a walk over a body sees it sees the blocks around of, and the bodies of.
LEMMA BlocksAreSeen ==
  ASSUME NEW tree, IsTree(tree), NEW f \in DOMAIN tree, NEW stops,
         NEW d \in Visited(tree, Body(tree, f), stops), NEW b \in Above(tree, d), f < b
  PROVE  b \in Visited(tree, Body(tree, f), stops)
<1>1. d \in DOMAIN tree
  BY DEF Visited
<1>2. PICK r \in Body(tree, f) \cap (Above(tree, d) \cup {d}) :
        \A s \in (Above(tree, d) \cup {d}) \cap stops : s < r \/ s = d
  BY DEF Visited
<1>3. f \in Nat /\ f # 0 /\ b # 0
  <2>1. f \in Nat /\ f # 0 /\ d \in Nat
    BY <1>1, TreeFacts
  <2>2. Above(tree, d) \subseteq 0..(d - 1)
    BY <1>1, AboveFacts DEF LineOK
  <2>3. QED
    BY <2>1, <2>2
<1>4. r \in DOMAIN tree /\ tree[r].up = f /\ r # 0
  BY <1>2, TreeFacts DEF Body, Kids
<1>5. /\ b \in DOMAIN tree /\ b \in Nat /\ d \in Nat /\ Above(tree, b) \subseteq Above(tree, d)
      /\ d \notin Above(tree, d)
      /\ \A s \in Above(tree, d) \cup {d} : s < b <=> s \in Above(tree, b)
  BY <1>1, <1>3, LineFacts
<1>6. r \in Nat /\ \A s \in Above(tree, r) : s \in Nat /\ s <= f
  BY <1>1, <1>2, <1>4, LineFacts
<1>7. \A s \in Above(tree, d) \cup {d} : s < r <=> s \in Above(tree, r)
  BY <1>1, <1>2, <1>4, LineFacts
<1>8. ~ (b < r)
  <2>1. b \in Above(tree, r) => b <= f
    BY <1>6
  <2>2. QED
    BY <1>3, <1>5, <1>7, <2>1
<1>9. r \in Above(tree, b) \cup {b}
  BY <1>2, <1>5, <1>6, <1>8
<1>10. \A s \in (Above(tree, b) \cup {b}) \cap stops : s < r \/ s = b
  BY <1>2, <1>5
<1>11. QED
  BY <1>2, <1>5, <1>9, <1>10 DEF Visited

LEMMA BodiesAreSeen ==
  ASSUME NEW tree, IsTree(tree), NEW f, NEW stops, NEW b \in Visited(tree, Body(tree, f), stops), b \notin stops,
         NEW s \in Body(tree, b)
  PROVE  s \in Visited(tree, Body(tree, f), stops) /\ Above(tree, s) = Above(tree, b) \cup {b}
<1>1. s \in DOMAIN tree /\ tree[s].up = b
  BY DEF Body, Kids
<1>2. Above(tree, s) = {b} \cup Above(tree, b)
  BY <1>1, AboveUnfolds
<1>3. PICK r \in Body(tree, f) \cap (Above(tree, b) \cup {b}) :
        \A x \in (Above(tree, b) \cup {b}) \cap stops : x < r \/ x = b
  BY DEF Visited
<1>4. \A x \in (Above(tree, s) \cup {s}) \cap stops : x < r \/ x = s
  BY <1>2, <1>3
<1>5. QED
  BY <1>1, <1>2, <1>3, <1>4 DEF Visited

\* The blocks of a function that a node is in, and with itself.
Around(tree, f, s) == {a \in Above(tree, s) : a > f /\ tree[a].kind \in Nesting}
Within(tree, f, b) == {a \in (Above(tree, b) \cup {b}) \cap OfKind(tree, Nesting) : a > f}

LEMMA BlocksAreFinite ==
  ASSUME NEW tree, IsTree(tree), NEW f \in DOMAIN tree, NEW s \in DOMAIN tree
  PROVE  /\ Around(tree, f, s) \subseteq DOMAIN tree /\ Within(tree, f, s) \subseteq DOMAIN tree
         /\ Cardinality(Around(tree, f, s)) \in Nat
         /\ Cardinality(Within(tree, f, s)) \in 0..Cardinality(DOMAIN tree)
         /\ Cardinality(DOMAIN tree) \in Nat
<1>1. f \in Nat /\ f # 0 /\ s \in Nat
  BY TreeFacts
<1>2. ASSUME NEW a \in Above(tree, s), a > f PROVE a \in DOMAIN tree
  <2>1. a \in Nat /\ a # 0
    <3>1. Above(tree, s) \subseteq 0..(s - 1)
      BY AboveFacts DEF LineOK
    <3>2. QED
      BY <1>1, <1>2, <3>1
  <2>2. QED
    BY <2>1, LineFacts
<1>3. Around(tree, f, s) \subseteq DOMAIN tree /\ Within(tree, f, s) \subseteq DOMAIN tree
  BY <1>2 DEF Around, Within, OfKind
<1>4. IsFiniteSet(DOMAIN tree)
  BY TreeFacts
<1>5. QED
  BY <1>3, <1>4, FS_Subset, FS_CardinalityType

\* A function nests deeper than a limit if and only if a statement of it is in
\* more blocks.
LEMMA NestingIsDepth ==
  ASSUME NEW tree, IsTree(tree), NEW f \in AllFunctions(tree), NEW max \in Nat
  PROVE  MaxNesting(tree, f) > max <=> TooDeep(tree, f, max) # {}
<1> DEFINE stops == OfKind(tree, {"Match"} \cup Scopes)
           seen == Visited(tree, Body(tree, f), stops)
           blocks == OfKind(tree, Nesting)
           counts == {Cardinality(Within(tree, f, b)) : b \in blocks \cap seen}
           M == {0} \cup counts
<1>1. f \in DOMAIN tree /\ f \in Nat /\ f # 0
  BY TreeFacts DEF AllFunctions, OfKind
<1>2. MaxNesting(tree, f) = Max(M)
  BY DEF MaxNesting, Within, Nesting
<1>3. TooDeep(tree, f, max) = {s \in seen \cap Statements(tree) : Cardinality(Around(tree, f, s)) > max}
  BY DEF TooDeep, Depth, Around
<1>4. seen \subseteq DOMAIN tree /\ blocks \subseteq DOMAIN tree /\ blocks \cap stops = {}
  BY DEF Visited, OfKind, Nesting, Scopes
<1>5. \A b \in blocks : b \in OfKind(tree, Compound \ {"Match"})
  BY DEF OfKind, Nesting, Compound, Scopes
<1>6. Max(M) \in M /\ \A y \in M : y <= Max(M)
  <2> DEFINE n == Cardinality(DOMAIN tree)
  <2>1. \A b \in blocks \cap seen : Cardinality(Within(tree, f, b)) \in 0..n /\ n \in Nat
    BY <1>1, <1>4, BlocksAreFinite
  <2>2. n \in Nat
    BY <1>1, BlocksAreFinite
  <2>3. counts \subseteq 0..n
    BY <2>1
  <2> HIDE DEF n, counts
  <2>4. M \subseteq 0..n /\ M # {}
    BY <2>2, <2>3
  <2> HIDE DEF M
  <2>5. QED
    BY <2>2, <2>4, MaxIsGreatest
<1> HIDE DEF seen, stops, blocks, counts
<1>7. ASSUME MaxNesting(tree, f) > max PROVE TooDeep(tree, f, max) # {}
  <2>1. Max(M) # 0 /\ Max(M) > max
    BY <1>2, <1>7
  <2>2. PICK b \in blocks \cap seen : Cardinality(Within(tree, f, b)) > max
    BY <1>6, <2>1 DEF counts
  <2>3. PICK s \in Body(tree, b) : s \in OfKind(tree, Compound \cup Simple)
    BY <1>5, <2>2 DEF IsTree, Body
  <2>4. s \in seen /\ Above(tree, s) = Above(tree, b) \cup {b}
    BY <1>1, <1>4, <2>2, <2>3, BodiesAreSeen DEF seen
  <2>5. Around(tree, f, s) \subseteq DOMAIN tree
    BY <1>1, <1>4, <2>4, BlocksAreFinite
  <2>6. Around(tree, f, s) = Within(tree, f, b)
    BY <2>4, <2>5 DEF Around, Within, OfKind
  <2>7. s \in Statements(tree)
    BY <2>3 DEF Statements
  <2>8. QED
    BY <1>3, <2>2, <2>4, <2>6, <2>7
<1>8. ASSUME NEW s \in TooDeep(tree, f, max) PROVE MaxNesting(tree, f) > max
  <2> DEFINE D == Around(tree, f, s)
             b == Max(D)
  <2>1. s \in seen /\ s \in DOMAIN tree /\ Cardinality(D) > max /\ Cardinality(D) \in Nat
    BY <1>1, <1>3, <1>4, <1>8, BlocksAreFinite
  <2>2. s \in Nat /\ Above(tree, s) \subseteq 0..(s - 1) /\ s \notin Above(tree, s)
    BY <2>1, TreeFacts, AboveFacts DEF LineOK
  <2>3. D # {}
    <3> HIDE DEF D
    <3>1. D = {} => Cardinality(D) = 0
      BY FS_EmptySet
    <3>2. QED
      BY <2>1, <3>1
  <2>4. D \subseteq 0..s
    BY <2>2 DEF Around
  <2>5. b \in D /\ \A y \in D : y <= b
    <3> HIDE DEF D
    <3>1. QED
      BY <2>2, <2>3, <2>4, MaxIsGreatest
  <2>6. b \in Above(tree, s) /\ b > f /\ tree[b].kind \in Nesting /\ b \in DOMAIN tree
    <3>1. D \subseteq DOMAIN tree
      BY <1>1, <2>1, BlocksAreFinite
    <3> HIDE DEF b
    <3>2. QED
      BY <2>5, <3>1 DEF Around
  <2> HIDE DEF b
  <2>7. b \in Nat /\ b # 0
    BY <2>6, TreeFacts
  <2>8. b \in seen
    BY <1>1, <2>1, <2>6, <2>7, BlocksAreSeen DEF seen
  <2>9. b \in blocks
    BY <2>6 DEF blocks, OfKind
  <2>10. Within(tree, f, b) = D
    <3>1. /\ Above(tree, b) \subseteq Above(tree, s)
          /\ \A x \in Above(tree, s) \cup {s} : x < b <=> x \in Above(tree, b)
      BY <2>1, <2>6, <2>7, LineFacts
    <3>2. Within(tree, f, b) \subseteq D
      BY <2>6, <3>1 DEF Within, Around, OfKind
    <3>3. ASSUME NEW x \in D PROVE x \in Within(tree, f, b)
      <4>1. x \in DOMAIN tree /\ x \in Nat /\ x <= b
        BY <1>1, <2>1, <2>2, <2>4, <2>5, BlocksAreFinite
      <4>2. x \in Above(tree, b) \cup {b}
        BY <2>7, <3>1, <4>1 DEF Around
      <4>3. QED
        BY <4>1, <4>2 DEF Within, Around, OfKind
    <3>4. QED
      BY <3>2, <3>3
  <2>11. Cardinality(D) \in M
    BY <2>8, <2>9, <2>10 DEF counts
  <2>12. Max(M) \in Nat
    <3>1. \A x \in M : x \in Nat
      <4>1. ASSUME NEW x \in counts PROVE x \in Nat
        <5>1. PICK c \in blocks \cap seen : x = Cardinality(Within(tree, f, c))
          BY <4>1 DEF counts
        <5>2. QED
          BY <1>1, <1>4, <5>1, BlocksAreFinite
      <4>2. QED
        BY <4>1
    <3>2. QED
      BY <1>6, <3>1
  <2> HIDE DEF D, M
  <2>13. QED
    BY <1>2, <1>6, <2>1, <2>11, <2>12
<1>9. QED
  BY <1>7, <1>8

\* A statement that is too deep for a function belongs to no other.
LEMMA TooDeepIsOwn ==
  ASSUME NEW tree, IsTree(tree), NEW f \in AllFunctions(tree), NEW max, NEW s \in TooDeep(tree, f, max)
  PROVE  Home(tree, s) = f /\ s \in Nat
<1> DEFINE stops == OfKind(tree, {"Match"} \cup Scopes)
<1>1. s \in Visited(tree, Body(tree, f), stops) /\ s \in Statements(tree)
  BY DEF TooDeep
<1>2. AllScopes(tree) \subseteq stops
  BY DEF AllScopes, OfKind
<1>3. f \in AllScopes(tree)
  BY DEF AllFunctions, AllScopes, OfKind, Scopes
<1> HIDE DEF stops
<1>4. s \in Visited(tree, Body(tree, f), AllScopes(tree))
  BY <1>1, <1>2 DEF Visited
<1>5. s \in Nat
  BY <1>1, TreeFacts DEF Statements, OfKind
<1>6. QED
  BY <1>1, <1>3, <1>4, <1>5, OwnStatements

LEMMA NestingMeasured ==
  ASSUME NEW file, IsTree(file.tree)
  PROVE  LET functions == InOrder(AllFunctions(file.tree))
         IN  /\ DOMAIN FileMetrics(file).functions = DOMAIN functions
             /\ \A i \in DOMAIN functions :
                  FileMetrics(file).functions[i].nesting = MaxNesting(file.tree, functions[i])
<1> DEFINE functions == InOrder(CollectFunctions(file.tree, 0))
           Own(f) == CollectFunctions(file.tree, f)
<1>1. ASSUME NEW f, NEW nested
      PROVE  FunctionMetrics(file.tree, f, nested).nesting = MaxNesting(file.tree, f)
  BY DEF FunctionMetrics
<1>2. FileMetrics(file).functions
        = [i \in DOMAIN functions |-> FunctionMetrics(file.tree, functions[i], Own(functions[i]))]
  BY DEF FileMetrics
<1>3. functions = InOrder(AllFunctions(file.tree))
  BY FromTheModule
<1> HIDE DEF functions, Own
<1>4. QED
  BY <1>1, <1>2, <1>3

\* There is a finding for every function that is measured too deep.
LEMMA TooDeepAreMeasured ==
  ASSUME NEW file, IsTree(file.tree), NEW max \in Nat
  PROVE  Cardinality(DeepNesting(file, max))
           = Cardinality({i \in DOMAIN FileMetrics(file).functions : FileMetrics(file).functions[i].nesting > max})
<1> DEFINE tree == file.tree
           F == AllFunctions(tree)
           functions == InOrder(F)
           deep == {i \in DOMAIN FileMetrics(file).functions : FileMetrics(file).functions[i].nesting > max}
           Told(f) == Finding(file, "SLP082", Min(TooDeep(tree, f, max)), "nesting")
           g == [i \in deep |-> Told(functions[i])]
           A == DeepNesting(file, max)
<1>1. /\ F \subseteq Nat /\ IsFiniteSet(F)
      /\ \A i \in DOMAIN functions : functions[i] \in F /\ Place(F, functions[i]) = i
      /\ \A f \in F : Place(F, f) \in DOMAIN functions /\ functions[Place(F, f)] = f
      /\ IsFiniteSet(DOMAIN functions)
  <2>1. F \subseteq Nat /\ IsFiniteSet(F)
    BY FromTheModule
  <2>2. Cardinality(F) \in Nat
    BY <2>1, FS_CardinalityType
  <2> HIDE DEF F
  <2>3. DOMAIN functions = 1..Cardinality(F) /\ IsFiniteSet(1..Cardinality(F))
    <3>1. IsFiniteSet(1..Cardinality(F))
      BY <2>2, FS_Interval
    <3>2. DOMAIN functions = 1..Cardinality(F)
      BY <2>1, OrderFacts
    <3>3. QED
      BY <3>1, <3>2
  <2>4. QED
    BY <2>1, <2>3, OrderFacts
<1>2. deep = {i \in DOMAIN functions : MaxNesting(tree, functions[i]) > max}
  BY NestingMeasured
<1> HIDE DEF deep
<1>3. \A i \in deep : i \in DOMAIN functions /\ functions[i] \in F /\ TooDeep(tree, functions[i], max) # {}
  BY <1>1, <1>2, NestingIsDepth
<1>4. \A f \in F : TooDeep(tree, f, max) # {} => Place(F, f) \in deep /\ functions[Place(F, f)] = f
  BY <1>1, <1>2, NestingIsDepth
<1>5. A = {Told(f) : f \in {h \in F : TooDeep(tree, h, max) # {}}}
  BY DEF DeepNesting, AllFunctions
<1>6. ASSUME NEW f \in F, TooDeep(tree, f, max) # {}
      PROVE  Home(tree, Min(TooDeep(tree, f, max))) = f
  <2> DEFINE T == TooDeep(tree, f, max)
  <2>1. T \subseteq Nat
    BY TooDeepIsOwn
  <2>2. Min(T) \in T
    <3> HIDE DEF T
    <3>1. QED
      BY <1>6, <2>1, MinIsLeast DEF T
  <2>3. QED
    BY <2>2, TooDeepIsOwn
<1>7. ASSUME NEW f \in F, TooDeep(tree, f, max) # {}, NEW h \in F, TooDeep(tree, h, max) # {}, Told(f) = Told(h)
      PROVE  f = h
  <2>1. Min(TooDeep(tree, f, max)) = Min(TooDeep(tree, h, max))
    BY <1>7 DEF Finding
  <2>2. QED
    BY <1>6, <1>7, <2>1
<1>8. \A i \in deep : g[i] = Told(functions[i])
  OBVIOUS
<1> HIDE DEF F, functions, Told, g, A, tree
<1>9. \A i \in deep : g[i] \in A
  BY <1>3, <1>5, <1>8
<1>10. \A d \in A : \E i \in deep : d = g[i]
  BY <1>4, <1>5, <1>8
<1>11. ASSUME NEW i \in deep, NEW j \in deep, g[i] = g[j] PROVE i = j
  <2>1. functions[i] = functions[j]
    BY <1>3, <1>7, <1>8, <1>11
  <2>2. Place(F, functions[i]) = i /\ Place(F, functions[j]) = j
    BY <1>1, <1>3
  <2>3. QED
    BY <2>1, <2>2
<1>12. IsFiniteSet(deep)
  <2>1. deep \subseteq DOMAIN functions
    BY <1>3
  <2>2. QED
    BY <1>1, <2>1, FS_Subset
<1>13. Cardinality(A) = Cardinality(deep)
  BY <1>9, <1>10, <1>11, <1>12, OneEach
<1>14. QED
  BY <1>13 DEF A, deep

\* A handler that is broad for the rule has no type, or one that is broad for
\* the measure.
LEMMA BroadIsBroad ==
  ASSUME NEW tree, IsTree(tree), NEW h, IsBroad(tree, h), NEW t \in Kids(tree, h, "type")
  PROVE  IsBroadExcept(tree, t)
<1>1. t \in DOMAIN tree /\ tree[t].kind = "Name" /\ tree[t].name \in {"Exception", "BaseException"}
  BY DEF Kids, IsBroad
<1>2. t \in Nat /\ \A a \in Above(tree, t) : a < t
  <2>1. t \in Nat /\ Above(tree, t) \subseteq 0..(t - 1)
    BY <1>1, TreeFacts, AboveFacts DEF LineOK
  <2>2. QED
    BY <2>1
<1>3. ASSUME NEW stops PROVE t \in Visited(tree, {t}, stops)
  <2>1. \A s \in (Above(tree, t) \cup {t}) \cap stops : s < t \/ s = t
    BY <1>2
  <2>2. QED
    BY <1>1, <2>1 DEF Visited
<1>4. tree[t].name \in TrailingName(tree, t)
  BY <1>1, <1>3 DEF TrailingName
<1>5. TrailingName(tree, t) \cap {"Exception", "BaseException"} # {}
  BY <1>1, <1>4
<1>6. QED
  BY <1>3, <1>5 DEF IsBroadExcept

LEMMA SwallowedAreCounted ==
  ASSUME NEW file, IsTree(file.tree), NEW S, S \subseteq DefensiveExcept(file)
  PROVE  Cardinality(S) <= FileMetrics(file).exception.bare + FileMetrics(file).exception.broad
<1> DEFINE tree == file.tree
           H == OfKind(tree, {"Handler"})
           bare == {h \in H : Kids(tree, h, "type") = {}}
           broad == {h \in H : \E t \in Kids(tree, h, "type") : IsBroadExcept(tree, t)}
           B == {h \in H : IsBroad(tree, h)}
           g == [h \in B |-> Finding(file, "SLP030", h, "swallows")]
<1>1. FileMetrics(file).exception = ExceptionStats(tree)
  BY DEF FileMetrics
<1>2. FileMetrics(file).exception.bare = Cardinality(bare) /\ FileMetrics(file).exception.broad = Cardinality(broad)
  BY <1>1 DEF ExceptionStats
<1>3. IsFiniteSet(H)
  <2>1. H \subseteq DOMAIN tree
    BY DEF OfKind
  <2>2. QED
    BY <2>1, TreeFacts, FS_Subset
<1>4. B \subseteq bare \cup broad
  BY BroadIsBroad
<1>5. \A d \in S : \E h \in B : d = g[h]
  BY DEF DefensiveExcept
<1> HIDE DEF g, tree, H
<1>6. IsFiniteSet(B) /\ IsFiniteSet(bare) /\ IsFiniteSet(broad)
  BY <1>3, FS_Subset
<1> HIDE DEF B, bare, broad
<1>7. Cardinality(S) <= Cardinality(B)
  BY <1>5, <1>6, ImageBound
<1>8. /\ IsFiniteSet(bare \cup broad)
      /\ Cardinality(bare \cup broad) = Cardinality(bare) + Cardinality(broad) - Cardinality(bare \cap broad)
  BY <1>6, FS_Union
<1>9. Cardinality(B) <= Cardinality(bare \cup broad)
  BY <1>4, <1>8, FS_Subset
<1>10. IsFiniteSet(S) /\ IsFiniteSet(bare \cap broad)
  <2>1. bare \cap broad \subseteq bare
    OBVIOUS
  <2>2. IsFiniteSet(bare \cap broad)
    BY <1>6, <2>1, FS_Subset
  <2>3. QED
    BY <1>5, <1>6, <2>2, ImageBound
<1>11. /\ Cardinality(S) \in Nat /\ Cardinality(B) \in Nat /\ Cardinality(bare) \in Nat /\ Cardinality(broad) \in Nat
       /\ Cardinality(bare \cap broad) \in Nat
  BY <1>6, <1>10, FS_CardinalityType
<1>12. Cardinality(S) <= Cardinality(bare) + Cardinality(broad)
  BY <1>7, <1>8, <1>9, <1>11
<1>13. QED
  BY <1>2, <1>12

LEMMA LimitIsNat ==
  ASSUME project \in Sources, NEW file
  PROVE  LimitOf("nesting_max_depth", file) \in Nat
<1> DEFINE profiles == project.config.profiles
           setters == {i \in MatchingIndices(project.config, file.path) :
                         "nesting_max_depth" \in DOMAIN profiles[i].limits}
<1>1. /\ profiles \in Seq(ToSet(profiles))
      /\ "nesting_max_depth" \in DOMAIN project.config.limits
      /\ \A limits \in {project.config.limits} \cup {p.limits : p \in ToSet(profiles)} :
           \A name \in DOMAIN limits : limits[name] \in Nat
  BY SourcesAreFiles
<1>2. LimitOf("nesting_max_depth", file)
        = IF setters = {} THEN project.config.limits["nesting_max_depth"]
          ELSE profiles[Max(setters)].limits["nesting_max_depth"]
  BY DEF LimitOf, Limit
<1>3. MatchingIndices(project.config, file.path) \subseteq DOMAIN profiles
  <2> DEFINE claimed == {i \in DOMAIN profiles : ~profiles[i].default /\ Matches(profiles[i], file.path, FALSE)}
             defaults == {i \in DOMAIN profiles : profiles[i].default}
  <2>1. MatchingIndices(project.config, file.path)
          = IF claimed # {} \/ defaults = {} THEN claimed ELSE {Min(defaults)}
    BY DEF MatchingIndices, MatchingIndicesWith
  <2>2. defaults # {} => Min(defaults) \in DOMAIN profiles
    <3>1. defaults \subseteq Nat /\ defaults \subseteq DOMAIN profiles
      BY <1>1
    <3> HIDE DEF defaults
    <3>2. QED
      BY <3>1, MinIsLeast
  <2>3. claimed \subseteq DOMAIN profiles
    OBVIOUS
  <2> HIDE DEF claimed, defaults, profiles
  <2>4. QED
    BY <2>1, <2>2, <2>3
<1>4. setters \subseteq DOMAIN profiles
  BY <1>3
<1>5. CASE setters = {}
  BY <1>1, <1>2, <1>5
<1>6. CASE setters # {}
  <2>1. Len(profiles) \in Nat /\ setters \subseteq 0..Len(profiles)
    BY <1>1, <1>4
  <2>2. Max(setters) \in setters
    <3> HIDE DEF setters
    <3>1. QED
      BY <1>6, <2>1, MaxIsGreatest
  <2>3. Max(setters) \in DOMAIN profiles /\ "nesting_max_depth" \in DOMAIN profiles[Max(setters)].limits
    <3> DEFINE m == Max(setters)
    <3>1. m \in setters
      BY <2>2
    <3> HIDE DEF m
    <3>2. m \in DOMAIN profiles /\ "nesting_max_depth" \in DOMAIN profiles[m].limits
      BY <1>4, <3>1
    <3>3. QED
      BY <3>2 DEF m
  <2> HIDE DEF setters
  <2>4. profiles[Max(setters)] \in ToSet(profiles)
    BY <2>3 DEF ToSet
  <2>5. QED
    BY <1>1, <1>2, <1>6, <2>3, <2>4
<1>7. QED
  BY <1>5, <1>6

\* In the end a file is said of what its rules say, without what is acknowledged.
LEMMA SaidInTheEnd ==
  ASSUME LintInv, stage = "over", NEW j \in DOMAIN project.files, project.files[j].parses, NEW code \in FileRules
  PROVE  SaidOf(project.files[j], code)
           = {d \in Says(code, project.files[j]) : ~Suppressed(project.files[j], d)}
<1> DEFINE file == project.files[j]
           R == {q \in DOMAIN results : project.files[results[q].file] = file}
           A == {d \in Says(code, file) : ~Suppressed(file, d)}
<1>1. FilesInTurn /\ FindingsAreSaid
  BY DEF LintInv
<1>2. PICK r \in DOMAIN results : results[r].file = j
  <2>1. next = Len(project.files) + 1 /\ project \in Sources
    BY <1>1 DEF FilesInTurn
  <2>2. j < next
    BY <2>1, SourceFacts
  <2>3. QED
    BY <1>1, <2>2 DEF FilesInTurn
<1>3. r \in R
  BY <1>2
<1>4. ASSUME NEW q \in R PROVE {d \in results[q].diagnostics : d.code = code} = A
  <2> DEFINE k == results[q].file
             said == Said[k]
  <2>1. k \in DOMAIN project.files /\ project.files[k] = file
    BY <1>1, <1>4 DEF FilesInTurn
  <2>2. Consistent(said, "over", file, results[q].diagnostics)
    BY <1>1, <1>4, <2>1 DEF FindingsAreSaid
  <2>3. said[code] = Says(code, file)
    BY <2>1 DEF Said
  <2> HIDE DEF said, file, k
  <2>4. {d \in results[q].diagnostics : d.code = code} = {d \in said[code] : "over" = "over" => ~Suppressed(file, d)}
    BY <2>2 DEF Consistent, file
  <2>5. QED
    BY <2>3, <2>4 DEF A, file
<1>5. SaidOf(file, code) = {d \in UNION {results[q].diagnostics : q \in R} : d.code = code}
  BY Zenon DEF SaidOf
<1>6. QED
  <2> HIDE DEF A, R, file
  <2>1. SaidOf(file, code) \subseteq A
    BY <1>4, <1>5
  <2>2. A \subseteq SaidOf(file, code)
    BY <1>3, <1>4, <1>5
  <2>3. SaidOf(file, code) = A
    BY <2>1, <2>2
  <2>4. QED
    BY <2>3 DEF A, file

\* The files measured are the files that parse, all the time.
SameFiles == files = Parsing(project.files)

THEOREM MeasuredIsChecked == PipelineSpec => []SameFiles
<1>1. PipelineInit => SameFiles
  BY DEF PipelineInit, SameFiles
<1>2. ASSUME SameFiles, [PipelineNext]_<<vars, lintVars>> PROVE SameFiles'
  <2>1. [Next]_vars /\ (LintNext \/ UNCHANGED lintVars)
    BY <1>2, Zenon DEF PipelineNext, Measure
  <2>2. files' = files
    BY <2>1 DEF Next, vars, Index, Ask, TakeBase, External, Known, Cut, Descend, Answer, Resolved,
                WriteBack, Finished
  <2>3. project' = project
    BY <2>1 DEF LintNext, lintVars, ScanFile, ScanBroken, AllScanned, TreePasses, Acknowledge
  <2>4. QED
    BY <1>2, <2>2, <2>3 DEF SameFiles, Parsing, Chosen
<1>3. QED
  BY <1>1, <1>2, PTL DEF PipelineSpec

LEMMA ParsingFacts ==
  ASSUME project \in Sources, SameFiles, NEW i \in DOMAIN files
  PROVE  \E j \in DOMAIN project.files :
           files[i] = project.files[j] /\ project.files[j].parses /\ IsTree(project.files[j].tree)
<1> DEFINE P == {j \in DOMAIN project.files : project.files[j].parses}
<1>1. Len(project.files) \in Nat /\ DOMAIN project.files = 1..Len(project.files)
  BY SourceFacts
<1>2. P \subseteq Nat /\ IsFiniteSet(P)
  <2>1. IsFiniteSet(DOMAIN project.files) /\ P \subseteq DOMAIN project.files /\ P \subseteq Nat
    BY <1>1, FS_Interval
  <2>2. QED
    BY <2>1, FS_Subset
<1>3. files = [k \in DOMAIN InOrder(P) |-> project.files[InOrder(P)[k]]]
  BY DEF SameFiles, Parsing, Chosen
<1> HIDE DEF P
<1>4. i \in DOMAIN InOrder(P) /\ files[i] = project.files[InOrder(P)[i]]
  BY <1>3
<1>5. InOrder(P)[i] \in P
  BY <1>2, <1>4, OrderFacts
<1>6. InOrder(P)[i] \in DOMAIN project.files /\ project.files[InOrder(P)[i]].parses
  BY <1>5 DEF P
<1>7. QED
  BY <1>4, <1>6, SourceFacts

\* For every project: where nothing is acknowledged, SLP082 finds as many
\* functions too deep as have their nesting measured above the limit of their
\* file, and SLP030 finds no handlers that are not counted bare or broad (the
\* rules deep_nesting and defensive_except, complexity::max_nesting and
\* exception_stats).
THEOREM LintAlwaysAgreesWithMetrics == PipelineSpec => []LintAgreesWithMetrics
<1>1. ASSUME LintInv, SameFiles, Measured PROVE LintAgreesWithMetrics
  <2> DEFINE MaxDepth(file) == LimitOf("nesting_max_depth", file)
             TooNested(file, m) == {f \in DOMAIN m.functions : m.functions[f].nesting > MaxDepth(file)}
             Plain(file) == \A c \in DOMAIN file.comments : ~IsNoqa(file.comments[c])
  <2>1. project \in Sources
    BY <1>1 DEF LintInv, FilesInTurn
  <2>2. ASSUME stage = "over", pc = "index", NEW i \in DOMAIN files
        PROVE  /\ RunsOn("SLP082", files[i]) /\ Plain(files[i]) =>
                    Cardinality(SaidOf(files[i], "SLP082")) = Cardinality(TooNested(files[i], metrics[i]))
               /\ Cardinality(SaidOf(files[i], "SLP030")) <= metrics[i].exception.bare + metrics[i].exception.broad
    <3>1. PICK j \in DOMAIN project.files :
            files[i] = project.files[j] /\ project.files[j].parses /\ IsTree(project.files[j].tree)
      BY <1>1, <2>1, ParsingFacts
    <3> DEFINE file == files[i]
               Left(code) == {d \in Says(code, file) : ~Suppressed(file, d)}
    <3>2. \A code \in {"SLP082", "SLP030"} : SaidOf(file, code) = Left(code)
      BY <1>1, <2>2, <3>1, SaidInTheEnd DEF FileRules
    <3>3. metrics[i] = FileMetrics(file)
      BY <1>1, <2>2 DEF Measured
    <3>4. IsTree(file.tree)
      BY <3>1
    <3>5. MaxDepth(file) \in Nat
      BY <2>1, LimitIsNat
    <3>6. ASSUME RunsOn("SLP082", file), Plain(file)
          PROVE  Cardinality(SaidOf(file, "SLP082")) = Cardinality(TooNested(file, metrics[i]))
      <4>1. Says("SLP082", file) = DeepNesting(file, MaxDepth(file))
        BY <3>6, Zenon DEF Says, Check
      <4>2. \A d : ~Suppressed(file, d)
        BY <3>6 DEF Suppressed, Allows, IsNoqa
      <4>3. Left("SLP082") = DeepNesting(file, MaxDepth(file))
        BY <4>1, <4>2
      <4>4. Cardinality(DeepNesting(file, MaxDepth(file))) = Cardinality(TooNested(file, metrics[i]))
        <5> DEFINE max == MaxDepth(file)
        <5>1. max \in Nat
          BY <3>5
        <5> HIDE DEF max, file
        <5>2. Cardinality(DeepNesting(file, max))
                = Cardinality({f \in DOMAIN metrics[i].functions : metrics[i].functions[f].nesting > max})
          BY <3>3, <3>4, <5>1, TooDeepAreMeasured
        <5>3. QED
          BY <5>2 DEF max
      <4> HIDE DEF file, Left, MaxDepth, TooNested
      <4>5. QED
        BY <3>2, <4>3, <4>4
    <3>7. Cardinality(SaidOf(file, "SLP030")) <= metrics[i].exception.bare + metrics[i].exception.broad
      <4>1. Says("SLP030", file) \subseteq DefensiveExcept(file)
        <5>1. Check("SLP030", file) = DefensiveExcept(file)
          BY Zenon DEF Check
        <5>2. QED
          BY <5>1 DEF Says
      <4>2. Left("SLP030") \subseteq DefensiveExcept(file)
        BY <4>1
      <4> HIDE DEF file, Left
      <4>3. QED
        BY <3>2, <3>3, <3>4, <4>2, SwallowedAreCounted
    <3>8. QED
      BY <3>6, <3>7
  <2>3. QED
    BY <2>2, Zenon DEF LintAgreesWithMetrics
<1>2. PipelineSpec => []Measured
  BY MeasuringIsInheritance, Measurements, PTL
<1>3. QED
  BY <1>1, <1>2, LintInvariance, MeasuredIsChecked, PTL

-----------------------------------------------------------------------------
(* Acknowledgements only take findings away. *)

\* Two views of a file that may differ in their comments.
Alike(a, b) ==
  /\ a.path = b.path /\ a.testPath = b.testPath /\ a.tree = b.tree
  /\ a.line = b.line /\ a.length = b.length /\ a.glyphs = b.glyphs
  /\ a.parses = b.parses /\ a.rows = b.rows

LEMMA SameFindings ==
  ASSUME NEW a, NEW b, Alike(a, b), NEW code, NEW why
  PROVE  \A n : /\ Finding(a, code, n, why) = Finding(b, code, n, why)
                /\ AtName(a, code, n, why) = AtName(b, code, n, why)
BY DEF Alike, Finding, AtName

\* Most rules do not read comments.
LEMMA CommentsAside ==
  ASSUME NEW a, NEW b, Alike(a, b),
         NEW code \in FileRules \ {"SLP001", "SLP002", "SLP004", "SLP010"}
  PROVE  Check(code, a) = Check(code, b)
<1> DEFINE tree == a.tree
<1>1. /\ a.path = b.path /\ a.testPath = b.testPath /\ a.tree = tree /\ b.tree = tree
      /\ a.length = b.length /\ a.glyphs = b.glyphs
  BY DEF Alike
<1>2. \A c, n, why : Finding(a, c, n, why) = Finding(b, c, n, why) /\ AtName(a, c, n, why) = AtName(b, c, n, why)
  BY SameFindings
<1>3. \A limit : LimitOf(limit, a) = LimitOf(limit, b)
  BY <1>1 DEF LimitOf
<1>4. \A max : OversizedFile(a, max) = OversizedFile(b, max)
  BY <1>1 DEF OversizedFile
<1>5. AsciiOnly(a) = AsciiOnly(b)
  <2> DEFINE Starts(glyphs) == {p \in DOMAIN glyphs :
                             /\ glyphs[p] = "other"
                             /\ p = 1 \/ glyphs[p - 1] # "other"}
             Ascii(glyphs) == {[code |-> "SLP050", at |-> <<"glyph", p>>,
                                line |-> 1 + Cardinality({q \in 1..p : glyphs[q] = "newline"}), why |-> "ascii"] :
                                p \in Starts(glyphs)}
  <2>1. \A x : AsciiOnly(x) = Ascii(x.glyphs)
    BY Zenon DEF AsciiOnly
  <2> HIDE DEF Ascii
  <2>2. QED
    BY <2>1, <1>1
<1> HIDE DEF tree
<1>6. \A max : VerboseNaming(a, max) = VerboseNaming(b, max)
  BY <1>1, <1>2 DEF VerboseNaming
<1>7. \A max : DeepNesting(a, max) = DeepNesting(b, max)
  BY <1>1, <1>2 DEF DeepNesting
<1>8. \A max : DeepDataNesting(a, max) = DeepDataNesting(b, max)
  BY <1>1, <1>2 DEF DeepDataNesting
<1>9. \A min, max : GodClass(a, min, max) = GodClass(b, min, max)
  BY <1>1, <1>2 DEF GodClass
<1>10. \A max : DispatchLadder(a, max) = DispatchLadder(b, max)
  <2> DEFINE Long(max) == {i \in OfKind(tree, {"If"}) : Cardinality(Tests(tree, i)) > max}
             Literal(max) == {i \in Long(max) : Uniform(Tests(tree, i), LAMBDA t : LiteralSubject(tree, t))}
             Types(max) ==
               {i \in Long(max) \ Literal(max) : Uniform(Tests(tree, i), LAMBDA t : InstanceSubject(tree, t))}
  <2>1. \A x, max : x.tree = tree =>
          DispatchLadder(x, max) = {Finding(x, "SLP130", Min(Kids(tree, i, "test")), "literal") : i \in Literal(max)}
                          \cup {Finding(x, "SLP130", Min(Kids(tree, i, "test")), "isinstance") : i \in Types(max)}
    <3> SUFFICES ASSUME NEW x, NEW max, x.tree = tree
                 PROVE  DispatchLadder(x, max) = {Finding(x, "SLP130", Min(Kids(tree, i, "test")), "literal") : i \in Literal(max)}
                          \cup {Finding(x, "SLP130", Min(Kids(tree, i, "test")), "isinstance") : i \in Types(max)}
      OBVIOUS
    <3> QED BY DEF DispatchLadder, Uniform
  <2> HIDE DEF Literal, Types
  <2>2. \A max : {Finding(a, "SLP130", Min(Kids(tree, i, "test")), "literal") : i \in Literal(max)}
                   = {Finding(b, "SLP130", Min(Kids(tree, i, "test")), "literal") : i \in Literal(max)}
    BY <1>2
  <2>3. \A max : {Finding(a, "SLP130", Min(Kids(tree, i, "test")), "isinstance") : i \in Types(max)}
                   = {Finding(b, "SLP130", Min(Kids(tree, i, "test")), "isinstance") : i \in Types(max)}
    BY <1>2
  <2> SUFFICES ASSUME NEW max PROVE DispatchLadder(a, max) = DispatchLadder(b, max)
    OBVIOUS
  <2>4. /\ DispatchLadder(a, max) = {Finding(a, "SLP130", Min(Kids(tree, i, "test")), "literal") : i \in Literal(max)}
                          \cup {Finding(a, "SLP130", Min(Kids(tree, i, "test")), "isinstance") : i \in Types(max)}
        /\ DispatchLadder(b, max) = {Finding(b, "SLP130", Min(Kids(tree, i, "test")), "literal") : i \in Literal(max)}
                          \cup {Finding(b, "SLP130", Min(Kids(tree, i, "test")), "isinstance") : i \in Types(max)}
    BY <2>1, <1>1
  <2> QED
    BY <2>2, <2>3, <2>4, Zenon
<1>11. DefensiveExcept(a) = DefensiveExcept(b)
  BY <1>1, <1>2 DEF DefensiveExcept
<1>12. RedundantTypeHint(a) = RedundantTypeHint(b)
  BY <1>1, <1>2 DEF RedundantTypeHint
<1>13. PhantomGuard(a) = PhantomGuard(b)
  BY <1>1, <1>2 DEF PhantomGuard
<1>14. MockData(a) = MockData(b)
  <2> DEFINE weak == {v \in Credentials(tree) : tree[v].name \in WeakCredentials}
             dummies == {e \in UNION {Kids(tree, s, "value") : s \in OfKind(tree, {"Return"})} : IsDummy(tree, e)}
             texts == {s \in OfKind(tree, {"StringLiteral"}) \ CollectDocstrings(tree) :
                         tree[s].name \in PlaceholderTexts}
             Of(x, nodes, why) == {Finding(x, "SLP230", n, why) : n \in nodes}
             Findings(x) == Of(x, weak, "credential") \cup Of(x, dummies, "return")
                          \cup Of(x, texts \ (weak \cup dummies), "text")
  <2>1. MockData(a) = IF a.testPath THEN {} ELSE Findings(a)
    BY <1>1 DEF MockData
  <2>2. MockData(b) = IF b.testPath THEN {} ELSE Findings(b)
    BY <1>1 DEF MockData
  <2> HIDE DEF weak, dummies, texts
  <2>3. \A nodes, why : Of(a, nodes, why) = Of(b, nodes, why)
    BY <1>2
  <2>4. Findings(a) = Findings(b)
    <3> HIDE DEF Of
    <3> QED BY <2>3
  <2> HIDE DEF Findings
  <2> QED
    BY <1>1, <2>1, <2>2, <2>4
<1>15. CrossLanguage(a) = CrossLanguage(b)
  <2> DEFINE callees == UNION {Kids(tree, c, "func") : c \in OfKind(tree, {"Call"})}
             Of(nodes, kind, names) == {n \in nodes \cap OfKind(tree, {kind}) : tree[n].name \in names \ AllowedNames}
             loads == {n \in DOMAIN tree : tree[n].n = 0}
             idioms == Of(callees, "Attribute", Foreign.methods) \cup Of(callees, "Name", Foreign.functions)
                      \cup Of(loads, "Attribute", Foreign.attributes)
             Findings(x) == {Finding(x, "SLP250", n, "idiom") : n \in idioms}
  <2>1. CrossLanguage(a) = IF ImportsQt(tree) THEN {} ELSE Findings(a)
    BY <1>1 DEF CrossLanguage
  <2>2. CrossLanguage(b) = IF ImportsQt(tree) THEN {} ELSE Findings(b)
    BY <1>1 DEF CrossLanguage
  <2> HIDE DEF idioms
  <2>3. Findings(a) = Findings(b)
    BY <1>2
  <2> QED
    BY <2>1, <2>2, <2>3
<1>16. QED
  BY <1>3, <1>4, <1>5, <1>6, <1>7, <1>8, <1>9, <1>10, <1>11, <1>12, <1>13, <1>14, <1>15 DEF Check, FileRules

\* The comments of b are those of a that acknowledge nothing.
Kept(a, b) ==
  /\ \A i \in DOMAIN b.comments :
       \E c \in DOMAIN a.comments : ~IsNoqa(a.comments[c]) /\ b.comments[i] = a.comments[c]
  /\ \A c \in DOMAIN a.comments :
       ~IsNoqa(a.comments[c]) => \E i \in DOMAIN b.comments : b.comments[i] = a.comments[c]

LEMMA UnmarkedFacts ==
  ASSUME NEW file, Fields \subseteq DOMAIN file, file.comments \in Seq(ToSet(file.comments))
  PROVE  Alike(file, Unmarked(file)) /\ Kept(file, Unmarked(file))
<1> DEFINE all == file.comments
           K == {c \in DOMAIN all : ~IsNoqa(all[c])}
           bare == Unmarked(file)
<1>1. bare = [file EXCEPT !.comments = Chosen(all, K)]
  BY DEF Unmarked
<1>2. Alike(file, bare)
  <2> HIDE DEF K
  <2>1. QED
    BY <1>1 DEF Fields, Alike
<1>3. bare.comments = Chosen(all, K)
  <2> HIDE DEF K
  <2>1. QED
    BY <1>1 DEF Fields
<1>4. K \subseteq Nat /\ IsFiniteSet(K)
  <2>1. Len(all) \in Nat /\ DOMAIN all = 1..Len(all)
    OBVIOUS
  <2>2. IsFiniteSet(DOMAIN all) /\ K \subseteq DOMAIN all /\ K \subseteq Nat
    BY <2>1, FS_Interval
  <2>3. QED
    BY <2>2, FS_Subset
<1>5. /\ \A i \in DOMAIN InOrder(K) : InOrder(K)[i] \in K
      /\ \A n \in K : \E i \in DOMAIN InOrder(K) : InOrder(K)[i] = n
  <2> HIDE DEF K
  <2>1. /\ \A i \in DOMAIN InOrder(K) : InOrder(K)[i] \in K
        /\ \A n \in K : Place(K, n) \in DOMAIN InOrder(K) /\ InOrder(K)[Place(K, n)] = n
    BY <1>4, OrderFacts
  <2>2. QED
    BY <2>1
<1>6. bare.comments = [i \in DOMAIN InOrder(K) |-> all[InOrder(K)[i]]]
  BY <1>3, Zenon DEF Chosen
<1>7. Kept(file, bare)
  <2>1. \A n \in K : n \in DOMAIN all /\ ~IsNoqa(all[n])
    OBVIOUS
  <2>2. \A n \in DOMAIN all : ~IsNoqa(all[n]) => n \in K
    OBVIOUS
  <2> HIDE DEF K, bare
  <2>3. DOMAIN bare.comments = DOMAIN InOrder(K)
    BY <1>6
  <2>4. \A i \in DOMAIN bare.comments : bare.comments[i] = all[InOrder(K)[i]]
    BY <1>6
  <2>5. QED
    BY <1>5, <2>1, <2>2, <2>3, <2>4 DEF Kept
<1>8. QED
  BY <1>2, <1>7

\* Words that no acknowledgement uses are found among the comments of some
\* lines with or without them.
InLines(file, lines) == {c \in DOMAIN file.comments : file.comments[c].line \in lines}

LEMMA WordsAside ==
  ASSUME NEW a, NEW b, Alike(a, b), Kept(a, b), NEW nodes, NEW lines, NEW words,
         \A c \in DOMAIN a.comments : IsNoqa(a.comments[c]) => a.comments[c].words \cap words = {}
  PROVE  words \cap WordsOf(a, nodes, InLines(a, lines)) = words \cap WordsOf(b, nodes, InLines(b, lines))
<1> DEFINE Nodes(x) == UNION {WordsOfNode(x.tree[n]) : n \in nodes}
           Comments(x) == UNION {x.comments[c].words : c \in InLines(x, lines)}
<1>1. Nodes(a) = Nodes(b)
  BY DEF Alike
<1>2. ASSUME NEW w \in words PROVE w \in Comments(a) <=> w \in Comments(b)
  <2>1. ASSUME w \in Comments(a) PROVE w \in Comments(b)
    <3>1. PICK c \in InLines(a, lines) : w \in a.comments[c].words
      BY <2>1
    <3>2. c \in DOMAIN a.comments /\ a.comments[c].line \in lines
      BY DEF InLines
    <3>3. ~IsNoqa(a.comments[c])
      BY <3>1, <3>2
    <3>4. PICK i \in DOMAIN b.comments : b.comments[i] = a.comments[c]
      BY <3>2, <3>3 DEF Kept
    <3>5. i \in InLines(b, lines) /\ w \in b.comments[i].words
      BY <3>1, <3>2, <3>4 DEF InLines
    <3>6. QED
      BY <3>5
  <2>2. ASSUME w \in Comments(b) PROVE w \in Comments(a)
    <3>1. PICK i \in InLines(b, lines) : w \in b.comments[i].words
      BY <2>2
    <3>2. i \in DOMAIN b.comments /\ b.comments[i].line \in lines
      BY DEF InLines
    <3>3. PICK c \in DOMAIN a.comments : b.comments[i] = a.comments[c]
      BY <3>2 DEF Kept
    <3>4. c \in InLines(a, lines) /\ w \in a.comments[c].words
      BY <3>1, <3>2, <3>3 DEF InLines
    <3>5. QED
      BY <3>4
  <2>3. QED
    BY <2>1, <2>2
<1>3. \A x : WordsOf(x, nodes, InLines(x, lines)) = Nodes(x) \cup Comments(x)
  BY DEF WordsOf
<1> HIDE DEF Nodes, Comments
<1>4. QED
  BY <1>1, <1>2, <1>3

\* What a comment is held against.
LEMMA AssociatedAside ==
  ASSUME NEW a, NEW b, Alike(a, b), Kept(a, b), NEW comment,
         \A c \in DOMAIN a.comments :
           IsNoqa(a.comments[c]) => /\ a.comments[c].words \cap comment.words = {}
                                    /\ NodesOn(a, a.comments[c].line) # {}
  PROVE  comment.words \cap AssociatedWords(a, comment) = comment.words \cap AssociatedWords(b, comment)
<1> DEFINE words == comment.words
           Under(x) == {l \in comment.line + 1 .. x.length : NodesOn(x, l) # {} \/ CommentsOn(x, l) # {}}
<1>1. \A l : NodesOn(a, l) = NodesOn(b, l)
  BY DEF Alike, NodesOn
<1>2. \A x, l : CommentsOn(x, l) = InLines(x, {l})
  BY DEF CommentsOn, InLines
<1>3. Under(a) = Under(b)
  <2>1. ASSUME NEW l, CommentsOn(a, l) # {} PROVE NodesOn(b, l) # {} \/ CommentsOn(b, l) # {}
    <3>1. PICK c \in DOMAIN a.comments : a.comments[c].line = l
      BY <2>1 DEF CommentsOn
    <3>2. CASE IsNoqa(a.comments[c])
      BY <1>1, <3>1, <3>2
    <3>3. CASE ~IsNoqa(a.comments[c])
      BY <3>1, <3>3 DEF Kept, CommentsOn
    <3>4. QED
      BY <3>2, <3>3
  <2>2. ASSUME NEW l, CommentsOn(b, l) # {} PROVE CommentsOn(a, l) # {}
    BY <2>2 DEF CommentsOn, Kept
  <2>3. a.length = b.length
    BY DEF Alike
  <2>4. QED
    BY <1>1, <2>1, <2>2, <2>3
<1>4. ASSUME NEW nodes, NEW l
      PROVE  words \cap WordsOf(a, nodes, CommentsOn(a, l)) = words \cap WordsOf(b, nodes, CommentsOn(b, l))
  <2>1. \A c \in DOMAIN a.comments : IsNoqa(a.comments[c]) => a.comments[c].words \cap words = {}
    OBVIOUS
  <2> HIDE DEF words
  <2>2. words \cap WordsOf(a, nodes, InLines(a, {l})) = words \cap WordsOf(b, nodes, InLines(b, {l}))
    BY <2>1, WordsAside
  <2>3. QED
    BY <1>2, <2>2
<1>5. \A nodes : WordsOf(a, nodes, {}) = WordsOf(b, nodes, {})
  BY DEF WordsOf, Alike
<1>6. \A x : AssociatedWords(x, comment)
               = IF ~comment.own THEN WordsOf(x, NodesOn(x, comment.line), {})
                 ELSE IF Under(x) = {} THEN {}
                 ELSE WordsOf(x, NodesOn(x, Min(Under(x))), CommentsOn(x, Min(Under(x))))
  BY Zenon DEF AssociatedWords
<1> HIDE DEF Under, words
<1>7. CASE ~comment.own
  BY <1>1, <1>5, <1>6, <1>7
<1>8. CASE comment.own /\ Under(a) = {}
  BY <1>3, <1>6, <1>8
<1>9. CASE comment.own /\ Under(a) # {}
  <2> DEFINE m == Min(Under(a))
  <2>1. /\ AssociatedWords(a, comment) = WordsOf(a, NodesOn(a, m), CommentsOn(a, m))
        /\ AssociatedWords(b, comment) = WordsOf(b, NodesOn(a, m), CommentsOn(b, m))
    BY <1>1, <1>3, <1>6, <1>9
  <2> HIDE DEF m
  <2>2. QED
    BY <1>4, <2>1 DEF words
<1>10. QED
  BY <1>7, <1>8, <1>9 DEF words

\* Findings without the numbers of the comments they are on.
Faces(findings) == {Face(d) : d \in findings}

OnComments(file, code, places, why) == {OnComment(file, code, c, why) : c \in places}

\* What is said of comments, whatever their numbers.
LEMMA CommentFaces ==
  ASSUME NEW a, NEW b, NEW code, NEW why, NEW A, NEW B,
         A \subseteq DOMAIN a.comments, B \subseteq DOMAIN b.comments,
         \A c \in A : \E i \in B : b.comments[i] = a.comments[c],
         \A i \in B : \E c \in A : b.comments[i] = a.comments[c]
  PROVE  Faces(OnComments(a, code, A, why)) = Faces(OnComments(b, code, B, why))
<1>1. \A x, c : Face(OnComment(x, code, c, why)) = <<code, x.comments[c].line, why>>
  BY DEF Face, OnComment
<1>2. \A x, S, f : f \in Faces(OnComments(x, code, S, why)) <=> \E c \in S : f = <<code, x.comments[c].line, why>>
  BY <1>1 DEF Faces, OnComments
<1>3. ASSUME NEW f PROVE f \in Faces(OnComments(a, code, A, why)) <=> f \in Faces(OnComments(b, code, B, why))
  BY <1>2
<1>4. QED
  BY <1>3 DEF Faces

LEMMA BannedAside ==
  ASSUME NEW a, NEW b, Kept(a, b)
  PROVE  Faces(BannedComments(a)) = Faces(BannedComments(b))
<1> DEFINE Of(x) == {d \in DOMAIN x.comments : ~Exempt(x.comments[d])}
<1>1. \A x : BannedComments(x) = OnComments(x, "SLP010", Of(x), "banned")
  BY Zenon DEF BannedComments, OnComments
<1>2. /\ Of(a) \subseteq DOMAIN a.comments /\ Of(b) \subseteq DOMAIN b.comments
      /\ \A c \in Of(a) : ~IsNoqa(a.comments[c])
      /\ \A c \in DOMAIN a.comments, i \in DOMAIN b.comments :
           ~IsNoqa(a.comments[c]) /\ b.comments[i] = a.comments[c] => (c \in Of(a) <=> i \in Of(b))
  BY DEF Exempt, IsNoqa
<1> HIDE DEF Of
<1>3. /\ \A c \in Of(a) : \E i \in Of(b) : b.comments[i] = a.comments[c]
      /\ \A i \in Of(b) : \E c \in Of(a) : b.comments[i] = a.comments[c]
  BY <1>2, Zenon DEF Kept
<1>4. Faces(OnComments(a, "SLP010", Of(a), "banned")) = Faces(OnComments(b, "SLP010", Of(b), "banned"))
  BY <1>2, <1>3, CommentFaces
<1>5. QED
  BY <1>1, <1>4

LEMMA TellsAside ==
  ASSUME NEW a, NEW b, Kept(a, b)
  PROVE  Faces(CommentTells(a)) = Faces(CommentTells(b))
<1> DEFINE Told(comment) == ~Exempt(comment) /\ comment.sort \notin {"license", "empty"}
           Of(x) == {d \in DOMAIN x.comments : Told(x.comments[d])}
<1>1. \A x, d : d \in CommentTells(x) <=>
                  \E c \in Of(x) : \E tell \in Classify(x.comments[c]) : d = OnComment(x, "SLP004", c, tell)
  BY DEF CommentTells
<1>2. ASSUME NEW comment, Told(comment) PROVE ~IsNoqa(comment)
  BY <1>2 DEF Exempt, IsNoqa
<1> HIDE DEF Told
<1>3. \A c \in Of(a) : \E i \in Of(b) : b.comments[i] = a.comments[c]
  BY <1>2 DEF Kept
<1>4. \A i \in Of(b) : \E c \in Of(a) : b.comments[i] = a.comments[c]
  BY <1>2 DEF Kept
<1> HIDE DEF Of
<1>5. \A x, c, why : Face(OnComment(x, "SLP004", c, why)) = <<"SLP004", x.comments[c].line, why>>
  BY DEF Face, OnComment
<1>6. \A x, face : face \in Faces(CommentTells(x)) <=>
        \E c \in Of(x) : \E tell \in Classify(x.comments[c]) : face = <<"SLP004", x.comments[c].line, tell>>
  <2> SUFFICES ASSUME NEW x, NEW face
               PROVE  face \in Faces(CommentTells(x)) <=>
                        \E c \in Of(x) : \E tell \in Classify(x.comments[c]) : face = <<"SLP004", x.comments[c].line, tell>>
    OBVIOUS
  <2>1. face \in Faces(CommentTells(x)) <=> \E d \in CommentTells(x) : face = Face(d)
    BY DEF Faces
  <2>2. face \in Faces(CommentTells(x)) <=>
          \E c \in Of(x) : \E tell \in Classify(x.comments[c]) : face = Face(OnComment(x, "SLP004", c, tell))
    BY <1>1, <2>1
  <2>3. QED
    BY <1>5, <2>2
<1>7. ASSUME NEW face PROVE face \in Faces(CommentTells(a)) <=> face \in Faces(CommentTells(b))
  <2>1. ASSUME face \in Faces(CommentTells(a)) PROVE face \in Faces(CommentTells(b))
    <3>0. PICK c \in Of(a) : \E tell \in Classify(a.comments[c]) : face = <<"SLP004", a.comments[c].line, tell>>
      BY <1>6, <2>1
    <3>1. PICK tell \in Classify(a.comments[c]) : face = <<"SLP004", a.comments[c].line, tell>>
      BY <3>0
    <3>2. PICK i \in Of(b) : b.comments[i] = a.comments[c]
      BY <1>3
    <3>3. tell \in Classify(b.comments[i]) /\ face = <<"SLP004", b.comments[i].line, tell>>
      BY <3>1, <3>2
    <3>4. QED
      BY <1>6, <3>3
  <2>2. ASSUME face \in Faces(CommentTells(b)) PROVE face \in Faces(CommentTells(a))
    <3>0. PICK i \in Of(b) : \E tell \in Classify(b.comments[i]) : face = <<"SLP004", b.comments[i].line, tell>>
      BY <1>6, <2>2
    <3>1. PICK tell \in Classify(b.comments[i]) : face = <<"SLP004", b.comments[i].line, tell>>
      BY <3>0
    <3>2. PICK c \in Of(a) : b.comments[i] = a.comments[c]
      BY <1>4
    <3>3. tell \in Classify(a.comments[c]) /\ face = <<"SLP004", a.comments[c].line, tell>>
      BY <3>1, <3>2
    <3>4. QED
      BY <1>6, <3>3
  <2>3. QED
    BY <2>1, <2>2
<1>8. QED
  BY <1>7 DEF Faces

\* The words of what is compared with the code are no acknowledgement's.
LEMMA PlainWords ==
  ASSUME NEW a, PlainReasons(a), NEW n \in DOMAIN a.comments, IsNoqa(a.comments[n])
  PROVE  /\ NodesOn(a, a.comments[n].line) # {}
         /\ \A c \in DOMAIN a.comments :
              ~IsNoqa(a.comments[c]) => a.comments[n].words \cap a.comments[c].words = {}
         /\ \A s \in OfKind(a.tree, {"StringLiteral"}) : a.comments[n].words \cap ContentWords(a.tree[s].name) = {}
<1> DEFINE noqa == {c \in DOMAIN a.comments : IsNoqa(a.comments[c])}
           compared == (UNION {a.comments[c].words : c \in DOMAIN a.comments \ noqa})
                         \cup UNION {ContentWords(a.tree[s].name) : s \in OfKind(a.tree, {"StringLiteral"})}
<1>1. \A c \in noqa : NodesOn(a, a.comments[c].line) # {} /\ a.comments[c].words \cap compared = {}
  BY Zenon DEF PlainReasons
<1>2. n \in noqa
  OBVIOUS
<1>3. \A c \in DOMAIN a.comments : ~IsNoqa(a.comments[c]) => a.comments[c].words \subseteq compared
  OBVIOUS
<1>4. \A s \in OfKind(a.tree, {"StringLiteral"}) : ContentWords(a.tree[s].name) \subseteq compared
  OBVIOUS
<1> HIDE DEF noqa, compared
<1>5. QED
  BY <1>1, <1>2, <1>3, <1>4

LEMMA RedundantCommentAside ==
  ASSUME NEW a, NEW b, Alike(a, b), Kept(a, b), PlainReasons(a)
  PROVE  Faces(RedundantComment(a)) = Faces(RedundantComment(b))
<1> DEFINE Of(x) == {d \in DOMAIN x.comments :
                       LET comment == x.comments[d]
                       IN  /\ ~Exempt(comment)
                           /\ Cardinality(comment.words) \in 1..6
                           /\ Restates(comment.words, AssociatedWords(x, comment))}
<1>1. \A x : RedundantComment(x) = OnComments(x, "SLP001", Of(x), "restates")
  BY Zenon DEF RedundantComment, OnComments
<1>2. ASSUME NEW c \in DOMAIN a.comments, ~IsNoqa(a.comments[c])
      PROVE  Restates(a.comments[c].words, AssociatedWords(a, a.comments[c]))
               <=> Restates(a.comments[c].words, AssociatedWords(b, a.comments[c]))
  <2> DEFINE comment == a.comments[c]
  <2>1. \A n \in DOMAIN a.comments :
          IsNoqa(a.comments[n]) => /\ a.comments[n].words \cap comment.words = {}
                                   /\ NodesOn(a, a.comments[n].line) # {}
    BY <1>2, PlainWords
  <2> HIDE DEF comment
  <2>2. comment.words \cap AssociatedWords(a, comment) = comment.words \cap AssociatedWords(b, comment)
    BY <2>1, AssociatedAside
  <2>3. Restates(comment.words, AssociatedWords(a, comment)) <=> Restates(comment.words, AssociatedWords(b, comment))
    BY <2>2, Zenon DEF Restates
  <2>4. QED
    BY <2>3 DEF comment
<1>3. \A c : IsNoqa(c) => Exempt(c)
  BY DEF IsNoqa, Exempt
<1>4. /\ Of(a) \subseteq DOMAIN a.comments /\ Of(b) \subseteq DOMAIN b.comments
      /\ \A c \in Of(a) : ~IsNoqa(a.comments[c])
  BY <1>3
<1>5. ASSUME NEW c \in DOMAIN a.comments, NEW i \in DOMAIN b.comments,
             ~IsNoqa(a.comments[c]), b.comments[i] = a.comments[c]
      PROVE  c \in Of(a) <=> i \in Of(b)
  BY <1>2, <1>5
<1> HIDE DEF Of
<1>6. /\ \A c \in Of(a) : \E i \in Of(b) : b.comments[i] = a.comments[c]
      /\ \A i \in Of(b) : \E c \in Of(a) : b.comments[i] = a.comments[c]
  BY <1>4, <1>5, Kept(a, b), Zenon DEF Kept
<1>7. Faces(OnComments(a, "SLP001", Of(a), "restates"))
        = Faces(OnComments(b, "SLP001", Of(b), "restates"))
  BY <1>4, <1>6, CommentFaces
<1>8. QED
  BY <1>1, <1>7

LEMMA RedundantDocstringAside ==
  ASSUME NEW a, NEW b, Alike(a, b), Kept(a, b), PlainReasons(a)
  PROVE  RedundantDocstring(a) = RedundantDocstring(b)
<1> DEFINE tree == a.tree
           Words(e) == ContentWords(tree[e].name)
           Of(x, f) == {e \in DocstringOf(tree, f) :
                          Cardinality(Words(e)) \in 2..12 /\ Restates(Words(e), FunctionText(x, f, e))}
<1>1. a.tree = tree /\ b.tree = tree /\ a.line = b.line
  BY DEF Alike
<1>2. \A x, d : x.tree = tree =>
        (d \in RedundantDocstring(x) <=>
           \E f \in OfKind(tree, {"FunctionDef"}) : \E e \in Of(x, f) : d = Finding(x, "SLP002", e, "restates"))
  <2> HIDE DEF tree
  <2>1. QED
    BY DEF RedundantDocstring
<1>3. ASSUME NEW f, NEW e \in DocstringOf(tree, f)
      PROVE  Words(e) \cap FunctionText(a, f, e) = Words(e) \cap FunctionText(b, f, e)
  <2> DEFINE nodes == {f} \cup Below(tree, f)
             Final(x) == Max({x.line[n] : n \in nodes})
             Span(x) == x.line[f]..Final(x) - 1
             words == Words(e)
  <2>1. Span(a) = Span(b)
    BY <1>1
  <2>2. \A x : x.tree = tree => FunctionText(x, f, e) = WordsOf(x, nodes \ {e}, InLines(x, Span(x)))
    BY Zenon DEF FunctionText, InLines
  <2>3. \A n \in DOMAIN a.comments : IsNoqa(a.comments[n]) => a.comments[n].words \cap words = {}
    <3>1. e \in OfKind(a.tree, {"StringLiteral"})
      BY DEF DocstringOf
    <3>2. QED
      BY <3>1, PlainWords
  <2> HIDE DEF nodes, Span, words
  <2>4. words \cap WordsOf(a, nodes \ {e}, InLines(a, Span(a))) = words \cap WordsOf(b, nodes \ {e}, InLines(b, Span(a)))
    BY <2>3, WordsAside
  <2>5. words \cap FunctionText(a, f, e) = words \cap FunctionText(b, f, e)
    BY <1>1, <2>1, <2>2, <2>4
  <2>6. QED
    BY <2>5 DEF words
<1>4. ASSUME NEW f PROVE Of(a, f) = Of(b, f)
  <2>1. ASSUME NEW e \in DocstringOf(tree, f)
        PROVE  Restates(Words(e), FunctionText(a, f, e)) <=> Restates(Words(e), FunctionText(b, f, e))
    BY <1>3, Zenon DEF Restates
  <2> HIDE DEF tree, Words
  <2>2. QED
    BY <2>1
<1>5. \A n : Finding(a, "SLP002", n, "restates") = Finding(b, "SLP002", n, "restates")
  BY SameFindings
<1> HIDE DEF Of, tree
<1>6. \A d : d \in RedundantDocstring(a) <=> d \in RedundantDocstring(b)
  BY <1>1, <1>2, <1>4, <1>5
<1>7. QED
  BY <1>6 DEF RedundantDocstring

\* A rule says the same of a file with and without its acknowledgements.
LEMMA RulesAside ==
  ASSUME NEW file, Fields \subseteq DOMAIN file, file.comments \in Seq(ToSet(file.comments)), PlainReasons(file),
         NEW code \in FileRules
  PROVE  Faces(Check(code, file)) = Faces(Check(code, Unmarked(file)))
<1> DEFINE bare == Unmarked(file)
<1>1. Alike(file, bare) /\ Kept(file, bare)
  BY UnmarkedFacts
<1> HIDE DEF bare
<1>2. CASE code = "SLP001"
  <2>1. \A x : Check("SLP001", x) = RedundantComment(x)
    BY Zenon DEF Check
  <2>2. QED
    BY <1>1, <1>2, <2>1, RedundantCommentAside DEF bare
<1>3. CASE code = "SLP002"
  <2>1. \A x : Check("SLP002", x) = RedundantDocstring(x)
    BY Zenon DEF Check
  <2>2. RedundantDocstring(file) = RedundantDocstring(bare)
    BY <1>1, RedundantDocstringAside
  <2>3. QED
    BY <1>3, <2>1, <2>2 DEF bare
<1>4. CASE code = "SLP004"
  <2>1. \A x : Check("SLP004", x) = CommentTells(x)
    BY Zenon DEF Check
  <2>2. QED
    BY <1>1, <1>4, <2>1, TellsAside DEF bare
<1>5. CASE code = "SLP010"
  <2>1. \A x : Check("SLP010", x) = BannedComments(x)
    BY Zenon DEF Check
  <2>2. QED
    BY <1>1, <1>5, <2>1, BannedAside DEF bare
<1>6. CASE code \in FileRules \ {"SLP001", "SLP002", "SLP004", "SLP010"}
  <2>1. Check(code, file) = Check(code, bare)
    BY <1>1, <1>6, CommentsAside
  <2>2. QED
    BY <2>1 DEF bare
<1>7. QED
  BY <1>2, <1>3, <1>4, <1>5, <1>6

\* What the scan says of a file, and what the passes over all files do.
Scanned == [i \in DOMAIN project.files |-> CheckFile(project.files[i]) \cup Corrupted(project.files[i])]
Passed == [i \in DOMAIN project.files |-> IF project.config.preview THEN TreeFindings(project.files[i]) ELSE {}]

\* What has been said of a file and not been acknowledged when a stage begins.
UpTo(when, scanned, passed, file) ==
  IF when \in {"scan", "tree"} THEN scanned
  ELSE {d \in scanned \cup passed : when = "over" => ~Suppressed(file, d)}

NothingElseIsSaid ==
  /\ stage = "tree" => project.config.preview
  /\ \A r \in DOMAIN results :
       LET i == results[r].file
       IN  project.files[i].parses =>
             results[r].diagnostics = UpTo(stage, Scanned[i], Passed[i], project.files[i])

LEMMA SameScanned == UNCHANGED project => Scanned' = Scanned
<1> SUFFICES ASSUME UNCHANGED project PROVE Scanned' = Scanned
  OBVIOUS
<1>1. ASSUME NEW code, NEW file PROVE Check(code, file)' = Check(code, file)
  BY Zenon DEF Check, LimitOf
<1>2. ASSUME NEW code, NEW file PROVE RunsOn(code, file)' = RunsOn(code, file)
  BY Zenon DEF RunsOn
<1>3. ASSUME NEW file PROVE CheckFile(file)' = CheckFile(file)
  BY <1>1, <1>2 DEF CheckFile
<1>4. ASSUME NEW file PROVE Corrupted(file)' = Corrupted(file)
  BY <1>2, Zenon DEF Corrupted, LimitOf
<1>5. ASSUME NEW i
      PROVE  (CheckFile(project.files[i]) \cup Corrupted(project.files[i]))'
               = CheckFile(project.files[i]) \cup Corrupted(project.files[i])
  BY <1>3, <1>4, Zenon
<1>6. QED
  BY <1>5 DEF Scanned

LEMMA SamePassed ==
  UNCHANGED project /\ DOMAIN results' = DOMAIN results /\ (\A r \in DOMAIN results : results'[r].file = results[r].file)
    => Passed' = Passed
<1> SUFFICES ASSUME UNCHANGED project, DOMAIN results' = DOMAIN results,
                    \A r \in DOMAIN results : results'[r].file = results[r].file
             PROVE  Passed' = Passed
  OBVIOUS
<1>1. GhostScans' = GhostScans
  BY DEF GhostScans, Whose
<1>2. ASSUME NEW file PROVE Undeclared(file)' = Undeclared(file)
  <2> DEFINE Of(p) == LET scanned == {p.files[i].path : i \in DOMAIN p.files}
                      IN  UNION {UndeclaredImports(file, FirstPartyNames(d.root.modules \cup scanned), d.dists) :
                                   d \in ResolveDeclared(p.dirs)}
  <2>1. Undeclared(file) = Of(project) /\ Undeclared(file)' = Of(project')
    BY Zenon DEF Undeclared
  <2> HIDE DEF Of
  <2>2. QED
    BY <2>1
<1>3. ASSUME NEW file PROVE TreeFindings(file)' = TreeFindings(file)
  BY <1>1, <1>2, Zenon DEF TreeFindings, Ghosts, Enabled
<1> DEFINE Late(i) == IF project.config.preview THEN TreeFindings(project.files[i]) ELSE {}
<1>4. ASSUME NEW i PROVE Late(i)' = Late(i)
  BY <1>3, Zenon
<1>5. QED
  BY <1>4 DEF Passed

LEMMA StagesSay ==
  ASSUME NEW scanned, NEW passed, NEW file
  PROVE  /\ \A when \in {"scan", "tree"} : UpTo(when, scanned, passed, file) = scanned
         /\ UpTo("suppress", scanned, passed, file) = scanned \cup passed
         /\ UpTo("over", scanned, passed, file) = {d \in scanned \cup passed : ~Suppressed(file, d)}
BY DEF UpTo

LEMMA ScansSayNothingElse ==
  ASSUME LintInv, NothingElseIsSaid, ScanFile \/ ScanBroken
  PROVE  NothingElseIsSaid'
<1>1. /\ FilesInTurn /\ Scanning /\ stage = "scan" /\ stage' = "scan" /\ project' = project
      /\ next \in DOMAIN project.files /\ File = project.files[next]
  BY DEF LintInv, ScanFile, ScanBroken, Scanning, File
<1>2. Scanned' = Scanned
  BY <1>1, SameScanned
<1>3. \A r \in DOMAIN results :
        LET i == results[r].file
        IN  project.files[i].parses => results[r].diagnostics = Scanned[i]
  BY <1>1, StagesSay DEF NothingElseIsSaid
<1>4. ASSUME NEW found, Found(found), File.parses => found = Scanned[next]
      PROVE  \A r \in DOMAIN results' :
               LET i == results'[r].file
               IN  project.files[i].parses => results'[r].diagnostics = Scanned[i]
  <2> DEFINE n == Len(results) + 1
  <2>1. /\ DOMAIN results' = DOMAIN results \cup {n}
        /\ \A r \in DOMAIN results : results'[r] = results[r]
        /\ results'[n] = [file |-> next, diagnostics |-> found]
    BY <1>1, <1>4, ResultInTurn
  <2> HIDE DEF n
  <2>2. QED
    BY <1>1, <1>3, <1>4, <2>1
<1>5. \A r \in DOMAIN results' :
        LET i == results'[r].file
        IN  project.files[i].parses => results'[r].diagnostics = Scanned[i]
  <2>1. CASE ScanFile
    <3>1. Found(CheckFile(File) \cup Corrupted(File))
      BY <2>1 DEF ScanFile
    <3>2. CheckFile(File) \cup Corrupted(File) = Scanned[next]
      BY <1>1 DEF Scanned
    <3>3. QED
      BY <1>4, <3>1, <3>2
  <2>2. CASE ScanBroken
    <3>1. ~File.parses /\ (Found(Corrupted(File)) \/ results' = results)
      BY <2>2 DEF ScanBroken
    <3>2. CASE Found(Corrupted(File))
      BY <1>4, <3>1, <3>2
    <3>3. CASE results' = results
      BY <1>3, <3>3
    <3>4. QED
      BY <3>1, <3>2, <3>3
  <2>3. QED
    BY <2>1, <2>2
<1>6. QED
  BY <1>1, <1>2, <1>5, StagesSay DEF NothingElseIsSaid

\* What the results say once all files are scanned.
SaidOnce == \A r \in DOMAIN results :
              LET i == results[r].file
              IN  project.files[i].parses => results[r].diagnostics = Scanned[i]

LEMMA ScannedSaysThis == NothingElseIsSaid /\ stage \in {"scan", "tree"} => SaidOnce
BY StagesSay DEF NothingElseIsSaid, SaidOnce

LEMMA AllScannedSaysNothingElse ==
  ASSUME LintInv, NothingElseIsSaid, AllScanned
  PROVE  NothingElseIsSaid'
<1> DEFINE preview == project.config.preview
<1>1. /\ stage = "scan" /\ project' = project /\ results' = results
      /\ (preview /\ stage' = "tree") \/ (~preview /\ stage' = "suppress")
  BY DEF AllScanned
<1>2. Scanned' = Scanned /\ Passed' = Passed
  BY <1>1, SameScanned, SamePassed
<1>3. SaidOnce
  BY <1>1, ScannedSaysThis
<1>4. CASE preview /\ stage' = "tree"
  <2>1. stage' = "tree" => project'.config.preview
    BY <1>1, <1>4
  <2>2. \A r \in DOMAIN results :
          LET i == results[r].file
          IN  project.files[i].parses => results[r].diagnostics = UpTo("tree", Scanned[i], Passed[i], project.files[i])
    BY <1>3, StagesSay DEF SaidOnce
  <2> HIDE DEF preview
  <2>3. QED
    BY <1>1, <1>2, <1>4, <2>1, <2>2, Zenon DEF NothingElseIsSaid
<1>5. CASE ~preview /\ stage' = "suppress"
  <2>1. \A r \in DOMAIN results : Passed[results[r].file] = {}
    BY <1>5 DEF LintInv, FilesInTurn, Passed
  <2>2. ASSUME NEW r \in DOMAIN results, project.files[results[r].file].parses
        PROVE  results[r].diagnostics
                 = UpTo("suppress", Scanned[results[r].file], Passed[results[r].file], project.files[results[r].file])
    <3> DEFINE found == results[r].diagnostics
               passed == Passed[results[r].file]
               scanned == Scanned[results[r].file]
    <3>1. found = scanned /\ passed = {}
      BY <1>3, <2>1, <2>2 DEF SaidOnce
    <3> HIDE DEF found, scanned, passed
    <3>2. found = scanned \cup passed
      BY <3>1
    <3>3. QED
      BY <3>2, StagesSay DEF found, scanned, passed
  <2>3. stage' # "tree"
    BY <1>5
  <2> HIDE DEF preview
  <2>4. QED
    BY <1>1, <1>2, <1>5, <2>2, <2>3, Zenon DEF NothingElseIsSaid
<1>6. QED
  BY <1>1, <1>4, <1>5

LEMMA TreePassesSayNothingElse ==
  ASSUME LintInv, NothingElseIsSaid, TreePasses
  PROVE  NothingElseIsSaid'
<1>1. /\ FilesInTurn /\ stage = "tree" /\ stage' = "suppress" /\ project' = project /\ project.config.preview
  BY Zenon DEF LintInv, TreePasses, NothingElseIsSaid
<1>2. PICK wide :
        /\ results' = [r \in DOMAIN results |-> [file |-> results[r].file,
                                                 diagnostics |-> results[r].diagnostics \cup wide[r]]]
        /\ \A r \in DOMAIN results :
             /\ OnceEach(wide[r]) /\ \A d \in wide[r] : d.code \in {"SLP180", "SLP240"}
             /\ Whose(r).parses => wide[r] = TreeFindings(Whose(r))
  BY <1>1, TreePassesAdd
<1>3. /\ DOMAIN results' = DOMAIN results
      /\ \A r \in DOMAIN results :
           results'[r].file = results[r].file /\ results'[r].diagnostics = results[r].diagnostics \cup wide[r]
  BY <1>2
<1>4. Scanned' = Scanned /\ Passed' = Passed
  BY <1>1, <1>3, SameScanned, SamePassed
<1>5. SaidOnce
  BY <1>1, ScannedSaysThis
<1>6. \A r \in DOMAIN results :
        LET i == results[r].file
        IN  project.files[i].parses => wide[r] = Passed[i]
  <2>1. \A r \in DOMAIN results : results[r].file \in DOMAIN project.files
    BY <1>1 DEF FilesInTurn
  <2>2. \A i \in DOMAIN project.files : Passed[i] = TreeFindings(project.files[i])
    BY <1>1 DEF Passed
  <2>3. \A r \in DOMAIN results : project.files[results[r].file].parses => wide[r] = TreeFindings(project.files[results[r].file])
    BY <1>2 DEF Whose
  <2>4. QED
    BY <2>1, <2>2, <2>3
<1>7. ASSUME NEW r \in DOMAIN results', project'.files[results'[r].file].parses
      PROVE  results'[r].diagnostics
               = UpTo("suppress", Scanned'[results'[r].file], Passed'[results'[r].file], project'.files[results'[r].file])
  <2> DEFINE i == results[r].file
  <2>1. /\ r \in DOMAIN results /\ results'[r].file = i /\ results'[r].diagnostics = results[r].diagnostics \cup wide[r]
        /\ project.files[i].parses
    BY <1>1, <1>3, <1>7
  <2>2. results[r].diagnostics = Scanned[i] /\ wide[r] = Passed[i]
    BY <1>5, <1>6, <2>1 DEF SaidOnce
  <2> HIDE DEF i
  <2>3. QED
    BY <1>1, <1>4, <2>1, <2>2, StagesSay
<1>8. stage' # "tree" /\ stage' = "suppress"
  BY <1>1
<1>9. QED
  BY <1>7, <1>8, Zenon DEF NothingElseIsSaid

LEMMA AcknowledgeSaysNothingElse ==
  ASSUME LintInv, NothingElseIsSaid, Acknowledge
  PROVE  NothingElseIsSaid'
<1>1. /\ FilesInTurn /\ stage = "suppress" /\ stage' = "over" /\ project' = project
      /\ results' = [r \in DOMAIN results |-> [results[r] EXCEPT !.diagnostics = Unacknowledged(results[r])]]
  BY DEF LintInv, Acknowledge
<1> DEFINE left == [r \in DOMAIN results |-> Unacknowledged(results[r])]
<1>2. /\ DOMAIN results' = DOMAIN results
      /\ \A r \in DOMAIN results : results'[r].file = results[r].file /\ results'[r].diagnostics = left[r]
  <2>1. \A r \in DOMAIN results : results[r] = [file |-> results[r].file, diagnostics |-> results[r].diagnostics]
    BY <1>1 DEF FilesInTurn
  <2>2. results' = [r \in DOMAIN results |-> [results[r] EXCEPT !.diagnostics = left[r]]]
    BY <1>1
  <2> HIDE DEF left
  <2>3. QED
    BY <2>1, <2>2
<1>3. \A r \in DOMAIN results :
        LET i == results[r].file
        IN  project.files[i].parses => left[r] = {d \in results[r].diagnostics : ~Suppressed(project.files[i], d)}
  BY DEF Unacknowledged
<1> HIDE DEF left
<1>4. Scanned' = Scanned /\ Passed' = Passed
  BY <1>1, <1>2, SameScanned, SamePassed
<1>5. ASSUME NEW r \in DOMAIN results', project'.files[results'[r].file].parses
      PROVE  results'[r].diagnostics
               = UpTo("over", Scanned'[results'[r].file], Passed'[results'[r].file], project'.files[results'[r].file])
  <2> DEFINE i == results[r].file
  <2>1. r \in DOMAIN results /\ results'[r].file = i /\ project.files[i].parses
    BY <1>1, <1>2, <1>5
  <2>2. results'[r].diagnostics = {d \in results[r].diagnostics : ~Suppressed(project.files[i], d)}
    BY <1>2, <1>3, <2>1
  <2>3. results[r].diagnostics = UpTo("suppress", Scanned[i], Passed[i], project.files[i])
    BY <1>1, <2>1 DEF NothingElseIsSaid
  <2> HIDE DEF i
  <2>4. results[r].diagnostics = Scanned[i] \cup Passed[i]
    BY <2>3, StagesSay
  <2>5. results'[r].diagnostics = {d \in Scanned[i] \cup Passed[i] : ~Suppressed(project.files[i], d)}
    BY <2>2, <2>4
  <2>6. results'[r].diagnostics = UpTo("over", Scanned[i], Passed[i], project.files[i])
    BY <2>5, StagesSay
  <2>7. QED
    BY <1>1, <1>4, <2>1, <2>6
<1>6. stage' # "tree" /\ stage' = "over"
  BY <1>1
<1>7. QED
  BY <1>5, <1>6, Zenon DEF NothingElseIsSaid

\* For every project: of a file that parses exactly what the rules and the passes
\* over all files have to say is said, until what is acknowledged is dropped.
THEOREM NothingElseIsEverSaid == PipelineSpec => []NothingElseIsSaid
<1>1. PipelineInit => NothingElseIsSaid
  BY DEF PipelineInit, LintInit, NothingElseIsSaid
<1>2. ASSUME LintInv, NothingElseIsSaid, [PipelineNext]_<<vars, lintVars>> PROVE NothingElseIsSaid'
  <2>1. CASE LintNext
    BY <1>2, <2>1, ScansSayNothingElse, AllScannedSaysNothingElse, TreePassesSayNothingElse, AcknowledgeSaysNothingElse
       DEF LintNext
  <2>2. CASE UNCHANGED lintVars
    <3>1. project' = project /\ stage' = stage /\ results' = results
      BY <2>2 DEF lintVars
    <3>2. Scanned' = Scanned /\ Passed' = Passed
      BY <3>1, SameScanned, SamePassed
    <3>3. QED
      BY <1>2, <3>1, <3>2 DEF NothingElseIsSaid
  <2>3. LintNext \/ UNCHANGED lintVars
    BY <1>2, Zenon DEF PipelineNext, Measure
  <2>4. QED
    BY <2>1, <2>2, <2>3
<1>3. QED
  BY <1>1, <1>2, LintInvariance, PTL DEF PipelineSpec

\* The passes over all files read no comments; the prose of a file is looked for
\* on the lines that are not left out.
LEMMA PassesAside ==
  ASSUME NEW a, NEW b, Alike(a, b)
  PROVE  /\ TreeFindings(a) = TreeFindings(b)
         /\ a.parses /\ MaskedLines(a) = MaskedLines(b) => Corrupted(a) = Corrupted(b)
<1>1. /\ a.path = b.path /\ a.testPath = b.testPath /\ a.tree = b.tree /\ a.rows = b.rows
      /\ (a.parses <=> b.parses)
  BY DEF Alike
<1>2. \A c, n, why : Finding(a, c, n, why) = Finding(b, c, n, why) /\ AtName(a, c, n, why) = AtName(b, c, n, why)
  BY SameFindings
<1>3. Undeclared(a) = Undeclared(b)
  <2>1. \A ours, dists : UndeclaredImports(a, ours, dists) = UndeclaredImports(b, ours, dists)
    BY <1>1, <1>2 DEF UndeclaredImports
  <2>2. QED
    BY <2>1 DEF Undeclared
<1>4. Ghosts(a) = Ghosts(b)
  <2>1. \A scans : GhostDefs(a, scans) = GhostDefs(b, scans)
    BY <1>1, <1>2 DEF GhostDefs
  <2>2. \A scans : GhostFlags(a, scans) = GhostFlags(b, scans)
    <3> DEFINE Flags(scans) ==
                 LET keys == UNION {x.keys : x \in scans}
                     known == keys \cup UNION {x.words : x \in scans}
                 IN  IF keys = {} THEN {} ELSE {r \in ConfigReads(a.tree) : a.tree[r].name \notin known}
               Of(x, nodes) == {Finding(x, "SLP240", n, "flag") : n \in nodes}
    <3>1. \A x, scans : x.tree = a.tree => GhostFlags(x, scans) = Of(x, Flags(scans))
      BY DEF GhostFlags
    <3> HIDE DEF Flags
    <3>2. \A nodes : Of(a, nodes) = Of(b, nodes)
      BY <1>2
    <3> HIDE DEF Of
    <3>3. QED
      BY <1>1, <3>1, <3>2
  <2>3. QED
    BY <2>1, <2>2 DEF Ghosts
<1>5. TreeFindings(a) = TreeFindings(b)
  BY <1>1, <1>3, <1>4, Zenon DEF TreeFindings, Enabled
<1>6. ASSUME a.parses, MaskedLines(a) = MaskedLines(b) PROVE Corrupted(a) = Corrupted(b)
  <2>1. \A masked, kinds : Rows(a, masked, kinds) = Rows(b, masked, kinds)
    BY <1>1 DEF Rows
  <2>2. \A percent : ScanParsed(a, percent) = ScanParsed(b, percent)
    BY <1>6, <2>1 DEF ScanParsed, FindArtifact, ReadsAsProse
  <2>3. QED
    BY <1>1, <1>6, <2>2, Zenon DEF Corrupted, RunsOn, LimitOf
<1>7. QED
  BY <1>5, <1>6

LEMMA CheckFileAside ==
  ASSUME NEW file, Fields \subseteq DOMAIN file, file.comments \in Seq(ToSet(file.comments)), PlainReasons(file)
  PROVE  Faces(CheckFile(file)) = Faces(CheckFile(Unmarked(file)))
<1> DEFINE bare == Unmarked(file)
<1>1. \A code \in FileRules : Faces(Check(code, file)) = Faces(Check(code, bare))
  BY RulesAside
<1>2. file.path = bare.path
  BY UnmarkedFacts DEF Alike
<1>3. \A code : RunsOn(code, file) <=> RunsOn(code, bare)
  BY <1>2, Zenon DEF RunsOn
<1> HIDE DEF bare
<1>4. \A x, f : f \in Faces(CheckFile(x)) <=> \E code \in FileRules : RunsOn(code, x) /\ f \in Faces(Check(code, x))
  BY DEF CheckFile, Faces
<1>5. \A f : f \in Faces(CheckFile(file)) <=> f \in Faces(CheckFile(bare))
  BY <1>1, <1>3, <1>4
<1>6. QED
  BY <1>5 DEF Faces, bare

\* What looks the same stays the same when what can be told by looks goes.
LEMMA FacesKept ==
  ASSUME NEW A, NEW B, NEW C, Faces(A) = Faces(B),
         \A d, e \in A \cup B : Face(d) = Face(e) => (d \in C <=> e \in C)
  PROVE  Faces(A \cap C) = Faces(B \cap C)
<1>1. \A S, f : f \in Faces(S) <=> \E d \in S : f = Face(d)
  BY DEF Faces
<1>2. \A f : f \in Faces(A \cap C) <=> f \in Faces(B \cap C)
  BY <1>1
<1>3. QED
  BY <1>2 DEF Faces

\* The looks of two sets together are the looks of each.
LEMMA FacesTogether ==
  ASSUME NEW A, NEW C
  PROVE  Faces(A \cup C) = Faces(A) \cup Faces(C)
BY DEF Faces

\* For every project: what is said of a file that parses, at the end of a check,
\* is what would be said of it without its acknowledgements, less what these
\* cover; by every rule of LintTree (over one file, SLP180 and SLP240), and by
\* SLP220 where the lines it leaves out stay the same (check_file, the passes
\* over all files and apply_suppressions; rules comments::*, words).
THEOREM NoqaOnlyEverRemoves == PipelineSpec => []NoqaOnlyRemoves
<1>1. ASSUME LintInv, NothingElseIsSaid PROVE NoqaOnlyRemoves
  <2> SUFFICES ASSUME stage = "over", NEW r \in DOMAIN results
               PROVE  LET file == Whose(r)
                          bare == Unmarked(file)
                          Claimed(d) == d.code = "SLP220" => MaskedLines(bare) = MaskedLines(file)
                          found == {d \in results[r].diagnostics : Claimed(d)}
                          left == {d \in Verdict(bare) : Claimed(d) /\ ~Suppressed(file, d)}
                      IN  file.parses /\ PlainReasons(file) => {Face(d) : d \in found} = {Face(d) : d \in left}
    BY Zenon DEF NoqaOnlyRemoves
  <2> DEFINE i == results[r].file
             file == project.files[i]
             bare == Unmarked(file)
             Claimed(d) == d.code = "SLP220" => MaskedLines(bare) = MaskedLines(file)
             found == {d \in results[r].diagnostics : Claimed(d)}
             left == {d \in Verdict(bare) : Claimed(d) /\ ~Suppressed(file, d)}
  <2>1. FilesInTurn /\ i \in DOMAIN project.files /\ project \in Sources /\ Whose(r) = file
    BY <1>1 DEF LintInv, FilesInTurn, Whose
  <2> SUFFICES ASSUME file.parses, PlainReasons(file) PROVE Faces(found) = Faces(left)
    BY <2>1, Zenon DEF Faces
  <2>2. Fields \subseteq DOMAIN file /\ file.comments \in Seq(ToSet(file.comments))
    <3>1. file \in ToSet(project.files)
      BY <2>1 DEF ToSet
    <3>2. QED
      BY <2>1, <3>1, SourcesAreFiles
  <2>3. Alike(file, bare)
    BY <2>2, UnmarkedFacts
  <2>4. /\ Faces(CheckFile(file)) = Faces(CheckFile(bare))
        /\ TreeFindings(file) = TreeFindings(bare)
        /\ MaskedLines(file) = MaskedLines(bare) => Corrupted(file) = Corrupted(bare)
    BY <2>2, <2>3, CheckFileAside, PassesAside
  <2>5. /\ \A d \in Corrupted(file) : d.code = "SLP220"
        /\ \A d \in Corrupted(bare) : d.code = "SLP220"
    <3>1. /\ DOMAIN file.rows \subseteq Nat
          /\ 1 \in DOMAIN file.rows => file.rows[1] # "artifact"
          /\ bare.rows = file.rows
      BY <2>1, <2>3, SourceFacts DEF Alike
    <3>2. Speaks(Corrupted(file), "SLP220") /\ Speaks(Corrupted(bare), "SLP220")
      <4> HIDE DEF file, bare
      <4>1. QED
        BY <3>1, CorruptedOnce
    <3>3. QED
      BY <3>2 DEF Speaks
  <2> DEFINE late == IF project.config.preview THEN TreeFindings(file) ELSE {}
             V == CheckFile(file) \cup Corrupted(file) \cup late
             W == CheckFile(bare) \cup Corrupted(bare) \cup late
             C == {d \in V \cup W : Claimed(d) /\ ~Suppressed(file, d)}
  <2>6. results[r].diagnostics = {d \in V : ~Suppressed(file, d)}
    <3>1. results[r].diagnostics = UpTo("over", Scanned[i], Passed[i], file)
      BY <1>1 DEF NothingElseIsSaid
    <3>2. Scanned[i] = CheckFile(file) \cup Corrupted(file) /\ Passed[i] = late
      BY <2>1 DEF Scanned, Passed
    <3> HIDE DEF late
    <3>3. QED
      BY <3>1, <3>2, StagesSay
  <2>7. Verdict(bare) = W
    BY <2>4, Zenon DEF Verdict
  <2>8. found = V \cap C /\ left = W \cap C
    <3> HIDE DEF V, W, Claimed, file
    <3>1. QED
      BY <2>6, <2>7
  <2>9. \A d, e \in V \cup W : Face(d) = Face(e) => (d \in C <=> e \in C)
    <3>1. \A d, e : Face(d) = Face(e) => d.code = e.code /\ (Suppressed(file, d) <=> Suppressed(file, e))
      BY DEF Face, Suppressed, Allows
    <3> HIDE DEF V, W, file, bare
    <3>2. QED
      BY <3>1
  <2>10. CASE MaskedLines(bare) = MaskedLines(file)
    <3>1. Corrupted(file) = Corrupted(bare) /\ Faces(CheckFile(file)) = Faces(CheckFile(bare))
      BY <2>4, <2>10
    <3> DEFINE rest == Corrupted(bare) \cup late
               plain == CheckFile(file)
               blank == CheckFile(bare)
    <3>2. V = plain \cup rest /\ W = blank \cup rest
      <4> HIDE DEF file, bare, late
      <4>1. QED
        BY <3>1
    <3>3. Faces(plain) = Faces(blank)
      BY <3>1
    <3> HIDE DEF V, W, C, rest, plain, blank
    <3>4. Faces(V) = Faces(W)
      <4>1. /\ Faces(plain \cup rest) = Faces(plain) \cup Faces(rest)
            /\ Faces(blank \cup rest) = Faces(blank) \cup Faces(rest)
        BY FacesTogether, Zenon
      <4>2. QED
        BY <3>2, <3>3, <4>1, Zenon
    <3> HIDE DEF file, bare, found, left
    <3>5. Faces(V \cap C) = Faces(W \cap C)
      BY <2>9, <3>4, FacesKept, Zenon
    <3>6. QED
      BY <2>8, <3>5, Zenon
  <2>11. CASE MaskedLines(bare) # MaskedLines(file)
    <3> DEFINE V0 == CheckFile(file) \cup late
               W0 == CheckFile(bare) \cup late
    <3>1. \A d \in C : d.code # "SLP220"
      BY <2>11
    <3> HIDE DEF file, bare, late, C, found, left
    <3>2. V \cap C = V0 \cap C /\ W \cap C = W0 \cap C
      BY <2>5, <3>1
    <3> DEFINE plain == CheckFile(file)
               blank == CheckFile(bare)
    <3>3. Faces(plain) = Faces(blank) /\ V0 = plain \cup late /\ W0 = blank \cup late
      BY <2>4
    <3> HIDE DEF plain, blank, V0, W0
    <3>4. Faces(V0) = Faces(W0)
      <4>1. /\ Faces(plain \cup late) = Faces(plain) \cup Faces(late)
            /\ Faces(blank \cup late) = Faces(blank) \cup Faces(late)
        BY FacesTogether, Zenon
      <4>2. QED
        BY <3>3, <4>1, Zenon
    <3> USE DEF V0, W0
    <3>5. \A d, e \in V0 \cup W0 : Face(d) = Face(e) => (d \in C <=> e \in C)
      BY <2>9
    <3> HIDE DEF V, W, V0, W0
    <3>6. Faces(V0 \cap C) = Faces(W0 \cap C)
      BY <3>4, <3>5, FacesKept, Zenon
    <3>7. QED
      BY <2>8, <3>2, <3>6, Zenon
  <2>12. QED
    BY <2>10, <2>11
<1>2. QED
  BY <1>1, LintInvariance, NothingElseIsEverSaid, PTL

-----------------------------------------------------------------------------
(* Cohesion. *)

\* The parts of ClassCohesion.
Accesses(tree, class) == [m \in Cohering(tree, class) |-> SelfAccess(tree, m) \ Constructors]
Attributes(tree, class) ==
  [m \in Cohering(tree, class) |-> Accesses(tree, class)[m] \ MethodNames(tree, class)]
ClassFields(tree, class) == UNION {Attributes(tree, class)[m] : m \in Cohering(tree, class)}
FieldUsers(tree, class) ==
  [f \in ClassFields(tree, class) |-> {m \in Cohering(tree, class) : f \in Attributes(tree, class)[m]}]
Callers(tree, class) ==
  [c \in MethodNames(tree, class) |-> {m \in Cohering(tree, class) : c \in Accesses(tree, class)[m]}]
CallLinks(tree, class) ==
  UNION {{<<m, MethodNamed(tree, class, c)>> : m \in Callers(tree, class)[c]} : c \in MethodNames(tree, class)}
TurnLinks(tree, class) == UNION {InTurn(FieldUsers(tree, class)[f]) : f \in ClassFields(tree, class)}
Sharing(tree, class) ==
  {p \in Cohering(tree, class) \X Cohering(tree, class) :
     p[1] < p[2] /\ Attributes(tree, class)[p[1]] \cap Attributes(tree, class)[p[2]] # {}}
JoinedBy(tree, class, pairs) ==
  FoldSet(LAMBDA p, parent : Union(parent, p), [m \in Cohering(tree, class) |-> m], pairs)
RootsOf(tree, class, parent) == {DsuFind(parent, m) : m \in Cohering(tree, class)}

LEMMA CohesionFigures ==
  ASSUME NEW tree, NEW class
  PROVE  ClassCohesion(tree, class) =
           IF Cardinality(Cohering(tree, class)) <= 1
           THEN [lcom4 |-> Cardinality(Cohering(tree, class)), tcc |-> <<0, 1>>, lcc |-> <<0, 1>>, lcomStar |-> <<0, 1>>]
           ELSE [lcom4 |-> Cardinality(RootsOf(tree, class,
                             JoinedBy(tree, class, CallLinks(tree, class) \cup TurnLinks(tree, class)))),
                 tcc |-> <<Cardinality(Sharing(tree, class)), PairsAmong(Cardinality(Cohering(tree, class)))>>,
                 lcc |-> <<SumOf([r \in RootsOf(tree, class, JoinedBy(tree, class, Sharing(tree, class))) |->
                                    PairsAmong(Cardinality(BelowRoot(JoinedBy(tree, class, Sharing(tree, class)),
                                                                Cohering(tree, class), r)))]),
                           PairsAmong(Cardinality(Cohering(tree, class)))>>,
                 lcomStar |-> IF ClassFields(tree, class) = {} THEN <<0, 1>>
                              ELSE <<Cardinality(Cohering(tree, class)) * Cardinality(ClassFields(tree, class))
                                       - SumOf([f \in ClassFields(tree, class) |->
                                                  Cardinality(FieldUsers(tree, class)[f])]),
                                     (Cardinality(Cohering(tree, class)) - 1) * Cardinality(ClassFields(tree, class))>>]
BY Zenon DEF ClassCohesion, Accesses, MethodNames, Attributes, ClassFields, FieldUsers, Callers, CallLinks, TurnLinks, InTurn,
             Sharing, JoinedBy, RootsOf, PairsAmong, BelowRoot

LEMMA MethodsAreNumbers ==
  ASSUME NEW tree, IsTree(tree), NEW class
  PROVE  /\ Len(tree) \in Nat /\ Cohering(tree, class) \subseteq 0..Len(tree)
         /\ Cohering(tree, class) \subseteq Nat /\ IsFiniteSet(Cohering(tree, class))
<1> DEFINE D == DOMAIN tree
<1>1. Len(tree) \in Nat /\ D = 1..Len(tree) /\ IsFiniteSet(D)
  BY TreeFacts
<1>2. Cohering(tree, class) \subseteq D
  BY DEF Cohering, Methods, OfKind
<1>3. IsFiniteSet(Cohering(tree, class))
  <2> HIDE DEF D
  <2>1. QED
    BY <1>1, <1>2, FS_Subset
<1>4. QED
  BY <1>1, <1>2, <1>3

\* What the links of the property are made of.
FieldPairs(tree, class) ==
  UNION {FieldUsers(tree, class)[f] \X FieldUsers(tree, class)[f] : f \in ClassFields(tree, class)}

LEMMA AttributeFacts ==
  ASSUME NEW tree, NEW class
  PROVE  /\ \A m \in Cohering(tree, class) :
              Attributes(tree, class)[m] = Mentions(tree, m) \ MethodNames(tree, class)
         /\ \A f : f \in ClassFields(tree, class) <=>
                     f \notin MethodNames(tree, class)
                       /\ \E m \in Cohering(tree, class) : f \in Mentions(tree, m)
         /\ \A f \in ClassFields(tree, class) : FieldUsers(tree, class)[f] = Mentioning(tree, class, f)
         /\ \A c \in MethodNames(tree, class) : Callers(tree, class)[c] = Mentioning(tree, class, c)
<1> DEFINE nodes == Cohering(tree, class)
           named == MethodNames(tree, class)
<1>1. \A m \in nodes : Accesses(tree, class)[m] = Mentions(tree, m)
  BY DEF Accesses, Mentions
<1>2. \A m \in nodes : Attributes(tree, class)[m] = Mentions(tree, m) \ named
  BY <1>1 DEF Attributes
<1>3. \A f : f \in ClassFields(tree, class) <=> \E m \in nodes : f \in Attributes(tree, class)[m]
  BY DEF ClassFields
<1>4. \A f \in ClassFields(tree, class) :
        FieldUsers(tree, class)[f] = {m \in nodes : f \in Attributes(tree, class)[m]}
  BY DEF FieldUsers
<1>5. \A c \in named : Callers(tree, class)[c] = {m \in nodes : c \in Accesses(tree, class)[m]}
  BY DEF Callers
<1>6. \A x : Mentioning(tree, class, x) = {m \in nodes : x \in Mentions(tree, m)}
  BY DEF Mentioning
<1> HIDE DEF nodes, named
<1>7. \A f : f \in ClassFields(tree, class) <=> f \notin named /\ \E m \in nodes : f \in Mentions(tree, m)
  BY <1>2, <1>3
<1>8. \A f \in ClassFields(tree, class) : FieldUsers(tree, class)[f] = Mentioning(tree, class, f)
  <2>1. \A f \in ClassFields(tree, class) :
          \A m \in nodes : f \in Attributes(tree, class)[m] <=> f \in Mentions(tree, m)
    BY <1>2, <1>7
  <2>2. QED
    BY <1>4, <1>6, <2>1
<1>9. \A c \in named : Callers(tree, class)[c] = Mentioning(tree, class, c)
  <2>1. \A c : {m \in nodes : c \in Accesses(tree, class)[m]} = {m \in nodes : c \in Mentions(tree, m)}
    BY <1>1
  <2>2. QED
    BY <1>5, <1>6, <2>1
<1>10. QED
  BY <1>2, <1>7, <1>8, <1>9, Zenon DEF nodes, named

LEMMA LinksFacts ==
  ASSUME NEW tree, NEW class, NEW S
  PROVE  /\ AttributeLinks(tree, class) = FieldPairs(tree, class)
         /\ Keeps(S, Calls(tree, class)) <=> Keeps(S, CallLinks(tree, class))
<1> DEFINE nodes == Cohering(tree, class)
           named == MethodNames(tree, class)
           fields == ClassFields(tree, class)
           Users(name) == Mentioning(tree, class, name)
           mentioned == UNION {Mentions(tree, m) : m \in nodes}
<1>1. AttributeLinks(tree, class) = UNION {Users(f) \X Users(f) : f \in mentioned \ named}
  BY Zenon DEF AttributeLinks
<1>2. mentioned \ named = fields
  <2>1. \A f : f \in fields <=> f \notin named /\ \E m \in nodes : f \in Mentions(tree, m)
    BY AttributeFacts
  <2> HIDE DEF named, fields, nodes
  <2>2. QED
    BY <2>1
<1>3. UNION {Users(f) \X Users(f) : f \in fields} = FieldPairs(tree, class)
  <2> DEFINE users == FieldUsers(tree, class)
  <2>1. \A f \in fields : users[f] = Users(f)
    BY AttributeFacts
  <2> HIDE DEF users, fields, Users
  <2>2. UNION {Users(f) \X Users(f) : f \in fields} = UNION {users[f] \X users[f] : f \in fields}
    BY <2>1
  <2>3. QED
    BY <2>2, Zenon DEF FieldPairs, users, fields
<1>4. Keeps(S, Calls(tree, class)) <=> Keeps(S, CallLinks(tree, class))
  <2> DEFINE callers == Callers(tree, class)
             M(c) == MethodNamed(tree, class, c)
             users == [c \in named |-> Users(c)]
             target == [c \in named |-> M(c)]
             A == UNION {users[c] \X {target[c]} : c \in named}
             B == UNION {{<<m, target[c]>> : m \in users[c]} : c \in named}
  <2>1. \A c \in named : callers[c] = Users(c)
    BY AttributeFacts
  <2>2. CallLinks(tree, class) = UNION {{<<m, M(c)>> : m \in callers[c]} : c \in named}
    BY Zenon DEF CallLinks
  <2>3. Calls(tree, class) = UNION {Users(c) \X {M(c)} : c \in named}
    BY Zenon DEF Calls
  <2> HIDE DEF callers, named, Users, M
  <2>4. \A c \in named : M(c) = target[c] /\ Users(c) = users[c] /\ callers[c] = users[c]
    BY <2>1
  <2> HIDE DEF users, target
  <2>5. Calls(tree, class) = A
    BY <2>3, <2>4
  <2>6. CallLinks(tree, class) = B
    BY <2>2, <2>4
  <2>7. Keeps(S, A) <=> Keeps(S, B)
    BY KeepsStars
  <2> HIDE DEF A, B
  <2>8. QED
    BY <2>5, <2>6, <2>7
<1>5. QED
  BY <1>1, <1>2, <1>3, <1>4, Zenon

\* What chains the users of each attribute keeps them together.
LEMMA TurnsKeep ==
  ASSUME NEW tree, IsTree(tree), NEW class, NEW S
  PROVE  Keeps(S, TurnLinks(tree, class)) <=> Keeps(S, FieldPairs(tree, class))
<1> DEFINE fields == ClassFields(tree, class)
           users == FieldUsers(tree, class)
           turns == [f \in fields |-> InTurn(users[f])]
           pairs == [f \in fields |-> users[f] \X users[f]]
<1>1. ASSUME NEW f \in fields PROVE users[f] \subseteq 0..Len(tree) /\ Len(tree) \in Nat
  <2>1. users[f] \subseteq Cohering(tree, class)
    BY DEF FieldUsers
  <2>2. QED
    BY <2>1, MethodsAreNumbers
<1>2. TurnLinks(tree, class) = UNION {turns[f] : f \in fields}
  <2>1. TurnLinks(tree, class) = UNION {InTurn(users[f]) : f \in fields}
    BY Zenon DEF TurnLinks
  <2> HIDE DEF users, fields
  <2>2. QED
    BY <2>1
<1>3. FieldPairs(tree, class) = UNION {pairs[f] : f \in fields}
  <2>1. FieldPairs(tree, class) = UNION {users[f] \X users[f] : f \in fields}
    BY Zenon DEF FieldPairs
  <2> HIDE DEF users, fields
  <2>2. QED
    BY <2>1
<1> HIDE DEF fields, users
<1>4. \A f \in fields : Keeps(S, turns[f]) <=> Keeps(S, pairs[f])
  <2>1. ASSUME NEW f \in fields PROVE Keeps(S, turns[f]) <=> Keeps(S, pairs[f])
    <3>1. Keeps(S, InTurn(users[f])) <=> Keeps(S, users[f] \X users[f])
      BY <1>1, InTurnIsAll
    <3>2. QED
      BY <3>1
  <2>2. QED
    BY <2>1
<1> HIDE DEF turns, pairs
<1>5. /\ Keeps(S, UNION {turns[f] : f \in fields}) <=> \A f \in fields : Keeps(S, turns[f])
      /\ Keeps(S, UNION {pairs[f] : f \in fields}) <=> \A f \in fields : Keeps(S, pairs[f])
  BY KeepsUnions
<1>6. QED
  BY <1>2, <1>3, <1>4, <1>5

\* Two methods share an attribute if and only if they are among its users.
LEMMA SharedByUsers ==
  ASSUME NEW tree, NEW class
  PROVE  \A p : p \in FieldPairs(tree, class)
                  <=> /\ p \in Cohering(tree, class) \X Cohering(tree, class)
                      /\ Attributes(tree, class)[p[1]] \cap Attributes(tree, class)[p[2]] # {}
<1> DEFINE nodes == Cohering(tree, class)
           fields == ClassFields(tree, class)
           users == FieldUsers(tree, class)
           attributes == Attributes(tree, class)
<1>1. \A p : p \in FieldPairs(tree, class) <=> \E f \in fields : p \in users[f] \X users[f]
  BY DEF FieldPairs
<1>2. \A f \in fields : users[f] = {m \in nodes : f \in attributes[m]}
  BY DEF FieldUsers
<1>3. \A f : f \in fields <=> \E m \in nodes : f \in attributes[m]
  BY DEF ClassFields
<1> HIDE DEF nodes, fields, users, attributes
<1>4. ASSUME NEW p PROVE (\E f \in fields : p \in users[f] \X users[f])
                            <=> p \in nodes \X nodes /\ attributes[p[1]] \cap attributes[p[2]] # {}
  <2>1. ASSUME NEW f \in fields, p \in users[f] \X users[f]
        PROVE  p \in nodes \X nodes /\ attributes[p[1]] \cap attributes[p[2]] # {}
    <3>1. p = <<p[1], p[2]>> /\ p[1] \in users[f] /\ p[2] \in users[f]
      BY <2>1
    <3>2. p[1] \in nodes /\ p[2] \in nodes /\ f \in attributes[p[1]] /\ f \in attributes[p[2]]
      BY <1>2, <3>1
    <3>3. QED
      BY <3>1, <3>2
  <2>2. ASSUME p \in nodes \X nodes, NEW f \in attributes[p[1]] \cap attributes[p[2]]
        PROVE  f \in fields /\ p \in users[f] \X users[f]
    <3>1. p = <<p[1], p[2]>> /\ p[1] \in nodes /\ p[2] \in nodes
      BY <2>2
    <3>2. f \in fields
      BY <1>3, <2>2, <3>1
    <3>3. p[1] \in users[f] /\ p[2] \in users[f]
      BY <1>2, <2>2, <3>1, <3>2
    <3>4. QED
      BY <3>1, <3>2, <3>3
  <2>3. QED
    BY <2>1, <2>2
<1>5. QED
  BY <1>1, <1>4 DEF nodes, attributes

\* So that the pairs that share one, in order, keep the same sets.
LEMMA SharingKeeps ==
  ASSUME NEW tree, IsTree(tree), NEW class, NEW S
  PROVE  Keeps(S, Sharing(tree, class)) <=> Keeps(S, FieldPairs(tree, class))
<1> DEFINE nodes == Cohering(tree, class)
           attributes == Attributes(tree, class)
           P == FieldPairs(tree, class)
           Q == Sharing(tree, class)
<1>1. nodes \subseteq Nat
  BY MethodsAreNumbers
<1>2. \A p : p \in P <=> p \in nodes \X nodes /\ attributes[p[1]] \cap attributes[p[2]] # {}
  BY SharedByUsers
<1>3. \A p : p \in Q <=> p \in nodes \X nodes /\ p[1] < p[2] /\ attributes[p[1]] \cap attributes[p[2]] # {}
  BY DEF Sharing
<1> HIDE DEF nodes, attributes, P, Q
<1>4. Q \subseteq P
  BY <1>2, <1>3
<1>5. ASSUME Keeps(S, Q), NEW p \in P PROVE p[1] \in S <=> p[2] \in S
  <2> DEFINE a == p[1]
             b == p[2]
             q == <<b, a>>
  <2>1. p = <<a, b>> /\ a \in nodes /\ b \in nodes /\ attributes[a] \cap attributes[b] # {}
    BY <1>2
  <2>2. a \in Nat /\ b \in Nat
    BY <1>1, <2>1
  <2>3. CASE a < b
    <3>1. p \in Q
      BY <1>2, <1>3, <2>3
    <3>2. QED
      BY <1>5, <3>1 DEF Keeps
  <2>4. CASE b < a
    <3>1. q[1] = b /\ q[2] = a /\ q \in nodes \X nodes
      BY <2>1
    <3> HIDE DEF q
    <3>2. attributes[q[1]] \cap attributes[q[2]] # {}
      BY <2>1, <3>1
    <3>3. q \in Q
      BY <1>3, <2>4, <3>1, <3>2
    <3>4. q[1] \in S <=> q[2] \in S
      BY <1>5, <3>3 DEF Keeps
    <3>5. QED
      BY <3>1, <3>4
  <2>5. CASE a = b
    BY <2>5
  <2> HIDE DEF a, b
  <2>6. QED
    BY <2>2, <2>3, <2>4, <2>5
<1>6. Keeps(S, Q) => Keeps(S, P)
  BY <1>5 DEF Keeps
<1>7. Keeps(S, P) => Keeps(S, Q)
  BY <1>4 DEF Keeps
<1>8. QED
  BY <1>6, <1>7 DEF P, Q

LEMMA LinksAreOfMethods ==
  ASSUME NEW tree, IsTree(tree), NEW class
  PROVE  /\ Sharing(tree, class) \subseteq Cohering(tree, class) \X Cohering(tree, class)
         /\ CallLinks(tree, class) \cup TurnLinks(tree, class)
              \subseteq Cohering(tree, class) \X Cohering(tree, class)
<1> DEFINE nodes == Cohering(tree, class)
           users == FieldUsers(tree, class)
           callers == Callers(tree, class)
           M(c) == MethodNamed(tree, class, c)
<1>1. Len(tree) \in Nat /\ nodes \subseteq 0..Len(tree)
  BY MethodsAreNumbers
<1>2. ASSUME NEW p \in TurnLinks(tree, class) PROVE p \in nodes \X nodes
  <2>1. PICK f \in ClassFields(tree, class) : p \in InTurn(users[f])
    BY DEF TurnLinks
  <2>2. users[f] \subseteq nodes
    BY DEF FieldUsers
  <2> HIDE DEF nodes, users
  <2>3. users[f] \subseteq 0..Len(tree)
    BY <1>1, <2>2
  <2>4. p[1] \in users[f] /\ p[2] \in users[f] /\ p = <<p[1], p[2]>>
    BY <1>1, <2>1, <2>3, MembersInTurn
  <2>5. QED
    BY <2>2, <2>4
<1>3. ASSUME NEW c \in MethodNames(tree, class) PROVE M(c) \in nodes
  <2> DEFINE T == {m \in nodes : tree[m].name = c}
  <2>1. T # {} /\ T \subseteq nodes
    BY DEF MethodNames
  <2>2. M(c) = Max(T)
    BY DEF MethodNamed
  <2> HIDE DEF T, nodes
  <2>3. T \subseteq 0..Len(tree)
    BY <1>1, <2>1
  <2>4. Max(T) \in T
    BY <1>1, <2>1, <2>3, MaxIsGreatest
  <2>5. QED
    BY <2>1, <2>2, <2>4
<1>4. ASSUME NEW p \in CallLinks(tree, class) PROVE p \in nodes \X nodes
  <2>1. PICK c \in MethodNames(tree, class) : \E m \in callers[c] : p = <<m, M(c)>>
    BY DEF CallLinks
  <2>2. callers[c] \subseteq nodes
    BY DEF Callers
  <2> HIDE DEF nodes, callers, M
  <2>3. QED
    BY <1>3, <2>1, <2>2
<1>5. Sharing(tree, class) \subseteq nodes \X nodes
  BY DEF Sharing
<1>6. QED
  BY <1>2, <1>4, <1>5

\* The forest of some links represents them.
LEMMA JoinedRepresents ==
  ASSUME NEW tree, IsTree(tree), NEW class, NEW pairs,
         pairs \subseteq Cohering(tree, class) \X Cohering(tree, class)
  PROVE  Represents(JoinedBy(tree, class, pairs), pairs, Cohering(tree, class))
<1> DEFINE nodes == Cohering(tree, class)
<1>1. IsFiniteSet(nodes)
  BY MethodsAreNumbers
<1>2. IsFiniteSet(pairs)
  <2> HIDE DEF nodes
  <2>1. IsFiniteSet(nodes \X nodes)
    BY <1>1, FS_Product
  <2>2. pairs \subseteq nodes \X nodes
    BY DEF nodes
  <2>3. QED
    BY <2>1, <2>2, FS_Subset
<1>3. Represents(FoldSet(LAMBDA p, parent : Union(parent, p), [x \in nodes |-> x], pairs), pairs, nodes)
  BY <1>1, <1>2, UnitedPairs
<1>4. QED
  BY <1>3, Zenon DEF JoinedBy

\* LCOM4 counts the groups of methods.
LEMMA Lcom4Counts ==
  ASSUME NEW tree, IsTree(tree), NEW class
  PROVE  ClassCohesion(tree, class).lcom4
           = Cardinality({Group(AttributeLinks(tree, class) \cup Calls(tree, class), Cohering(tree, class), m) :
                            m \in Cohering(tree, class)})
<1> DEFINE nodes == Cohering(tree, class)
           n == Cardinality(nodes)
           links == CallLinks(tree, class) \cup TurnLinks(tree, class)
           linked == AttributeLinks(tree, class) \cup Calls(tree, class)
           parent == JoinedBy(tree, class, links)
<1>1. IsFiniteSet(nodes) /\ n \in Nat
  BY MethodsAreNumbers, FS_CardinalityType
<1>2. \A S : Keeps(S, links) <=> Keeps(S, linked)
  <2>1. ASSUME NEW S PROVE Keeps(S, links) <=> Keeps(S, linked)
    <3>1. Keeps(S, links) <=> Keeps(S, CallLinks(tree, class)) /\ Keeps(S, TurnLinks(tree, class))
      BY KeepsUnion
    <3>2. Keeps(S, linked) <=> Keeps(S, AttributeLinks(tree, class)) /\ Keeps(S, Calls(tree, class))
      BY KeepsUnion
    <3>3. Keeps(S, TurnLinks(tree, class)) <=> Keeps(S, FieldPairs(tree, class))
      BY TurnsKeep
    <3>4. AttributeLinks(tree, class) = FieldPairs(tree, class)
      BY LinksFacts
    <3>5. Keeps(S, Calls(tree, class)) <=> Keeps(S, CallLinks(tree, class))
      BY LinksFacts
    <3>6. QED
      BY <3>1, <3>2, <3>3, <3>4, <3>5
  <2>2. QED
    BY <2>1
<1>3. CASE n <= 1
  <2>1. ClassCohesion(tree, class).lcom4 = n
    BY <1>3, CohesionFigures
  <2> DEFINE G == {Group(linked, nodes, m) : m \in nodes}
  <2>2. CASE n = 0
    <3>1. nodes = {}
      <4> HIDE DEF nodes
      <4>1. QED
        BY <1>1, <2>2, FS_EmptySet
    <3>2. G = {}
      BY <3>1
    <3>3. Cardinality({}) = 0
      BY FS_EmptySet
    <3> HIDE DEF G, n
    <3>4. Cardinality(G) = 0
      BY <3>2, <3>3
    <3>5. QED
      BY <2>1, <2>2, <3>4 DEF G
  <2>3. CASE n = 1
    <3>1. PICK x : nodes = {x}
      <4> HIDE DEF nodes
      <4>1. QED
        BY <1>1, <2>3, FS_Singleton
    <3>2. G = {Group(linked, nodes, x)}
      BY <3>1
    <3> DEFINE g == Group(linked, nodes, x)
    <3> HIDE DEF g, G, n
    <3>3. G = {g}
      BY <3>2 DEF g
    <3>4. Cardinality(G) = 1
      BY <3>3, FS_Singleton
    <3>5. QED
      BY <2>1, <2>3, <3>4 DEF G
  <2> HIDE DEF n
  <2>4. QED
    BY <1>1, <1>3, <2>2, <2>3
<1>4. CASE ~(n <= 1)
  <2>1. ClassCohesion(tree, class).lcom4 = Cardinality(RootsOf(tree, class, parent))
    BY <1>4, CohesionFigures
  <2>2. Represents(parent, links, nodes)
    BY LinksAreOfMethods, JoinedRepresents
  <2>3. RootsOf(tree, class, parent) = {DsuFind(parent, m) : m \in nodes}
    BY DEF RootsOf
  <2> HIDE DEF parent, links, nodes, linked, n
  <2>4. Cardinality({DsuFind(parent, m) : m \in nodes}) = Cardinality({Group(links, nodes, m) : m \in nodes})
    BY <1>1, <2>2, RootsAreGroups
  <2>5. \A m : Group(links, nodes, m) = Group(linked, nodes, m)
    BY <1>2, SameGroups
  <2>6. {Group(links, nodes, m) : m \in nodes} = {Group(linked, nodes, m) : m \in nodes}
    BY <2>5
  <2>7. QED
    BY <2>1, <2>3, <2>4, <2>6 DEF nodes, linked
<1>5. QED
  BY <1>3, <1>4

\* The pairs of methods that shared attributes link.
LinkedPairs(tree, class) == InOneGroup(AttributeLinks(tree, class), Cohering(tree, class))

LEMMA WithinFacts ==
  ASSUME NEW tree, IsTree(tree), NEW class
  PROVE  /\ InOneGroup(Sharing(tree, class), Cohering(tree, class)) = LinkedPairs(tree, class)
         /\ Sharing(tree, class) \subseteq LinkedPairs(tree, class)
         /\ IsFiniteSet(LinkedPairs(tree, class))
<1> DEFINE nodes == Cohering(tree, class)
           sharing == Sharing(tree, class)
           pairs == AttributeLinks(tree, class)
<1>1. \A S : Keeps(S, sharing) <=> Keeps(S, pairs)
  <2>1. pairs = FieldPairs(tree, class)
    BY LinksFacts
  <2>2. QED
    BY <2>1, SharingKeeps
<1>2. sharing \subseteq nodes \X nodes /\ \A p \in sharing : p[1] < p[2]
  BY DEF Sharing
<1>3. IsFiniteSet(nodes \X nodes)
  BY MethodsAreNumbers, FS_Product
<1> HIDE DEF nodes, sharing, pairs
<1>4. \A x : Group(sharing, nodes, x) = Group(pairs, nodes, x)
  BY <1>1, SameGroups
<1>5. InOneGroup(sharing, nodes) = InOneGroup(pairs, nodes)
  BY <1>4 DEF InOneGroup
<1>6. ASSUME NEW p \in sharing PROVE p \in InOneGroup(sharing, nodes)
  <2>1. p[1] \in nodes /\ p[2] \in nodes /\ \A q \in sharing : q[1] \in nodes /\ q[2] \in nodes
    BY <1>2
  <2>2. p[1] \in Group(sharing, nodes, p[1]) /\ Keeps(Group(sharing, nodes, p[1]), sharing)
    BY <2>1, GroupFacts
  <2>3. p[2] \in Group(sharing, nodes, p[1])
    BY <2>2 DEF Keeps
  <2>4. QED
    BY <1>2, <2>3 DEF InOneGroup
<1>7. IsFiniteSet(InOneGroup(pairs, nodes))
  <2>1. InOneGroup(pairs, nodes) \subseteq nodes \X nodes
    BY DEF InOneGroup
  <2>2. QED
    BY <1>3, <2>1, FS_Subset
<1>8. QED
  BY <1>5, <1>6, <1>7, Zenon DEF LinkedPairs, nodes, sharing, pairs

\* LCC counts them, and TCC no more than them.
LEMMA LccCounts ==
  ASSUME NEW tree, IsTree(tree), NEW class
  PROVE  /\ ClassCohesion(tree, class).lcc[1] = Cardinality(LinkedPairs(tree, class))
         /\ ClassCohesion(tree, class).tcc[1] <= Cardinality(LinkedPairs(tree, class))
<1> DEFINE nodes == Cohering(tree, class)
           n == Cardinality(nodes)
           sharing == Sharing(tree, class)
           shared == JoinedBy(tree, class, sharing)
           W == LinkedPairs(tree, class)
           f == [r \in RootsOf(tree, class, shared) |-> PairsAmong(Cardinality(BelowRoot(shared, nodes, r)))]
<1>1. IsFiniteSet(nodes) /\ nodes \subseteq Nat /\ n \in Nat
  BY MethodsAreNumbers, FS_CardinalityType
<1>2. IsFiniteSet(W) /\ sharing \subseteq W /\ InOneGroup(sharing, nodes) = W
  BY WithinFacts
<1>3. CASE n <= 1
  <2>1. ClassCohesion(tree, class).lcc[1] = 0 /\ ClassCohesion(tree, class).tcc[1] = 0
    BY <1>3, CohesionFigures
  <2>2. W = {}
    <3>1. ASSUME NEW p \in W PROVE FALSE
      <4>1. p[1] \in nodes /\ p[2] \in nodes /\ p[1] < p[2]
        BY <3>1 DEF LinkedPairs, InOneGroup
      <4> DEFINE a == p[1]
                 b == p[2]
      <4> HIDE DEF a, b, nodes
      <4>2. a \in nodes /\ b \in nodes /\ a # b
        <5>1. a \in Nat /\ b \in Nat /\ a < b
          BY <1>1, <4>1 DEF a, b
        <5>2. a # b
          BY <5>1
        <5>3. QED
          BY <4>1, <5>2 DEF a, b
      <4>3. Cardinality({a, b}) <= n
        <5>1. {a, b} \subseteq nodes
          BY <4>2
        <5>2. QED
          BY <1>1, <5>1, FS_Subset
      <4>4. Cardinality({a, b}) = 2
        <5>1. Cardinality({a}) = 1 /\ IsFiniteSet({a})
          BY FS_Singleton
        <5>2. b \notin {a}
          BY <4>2
        <5>3. Cardinality({a} \cup {b}) = 1 + 1
          BY <5>1, <5>2, FS_AddElement
        <5>4. {a} \cup {b} = {a, b}
          OBVIOUS
        <5> DEFINE s == {a, b}
        <5> HIDE DEF s
        <5>5. {a} \cup {b} = s
          BY <5>4 DEF s
        <5>6. Cardinality(s) = 2
          BY <5>3, <5>5
        <5>7. QED
          BY <5>6 DEF s
      <4> HIDE DEF n
      <4>5. QED
        BY <1>1, <1>3, <4>3, <4>4
    <3>2. QED
      BY <3>1
  <2>3. Cardinality({}) = 0
    BY FS_EmptySet
  <2> HIDE DEF W
  <2>4. Cardinality(W) = 0
    BY <2>2, <2>3
  <2>5. QED
    BY <2>1, <2>4 DEF W
<1>4. CASE ~(n <= 1)
  <2>1. ClassCohesion(tree, class).lcc[1] = SumOf(f) /\ ClassCohesion(tree, class).tcc[1] = Cardinality(sharing)
    BY <1>4, CohesionFigures
  <2>2. Represents(shared, sharing, nodes)
    BY LinksAreOfMethods, JoinedRepresents
  <2>3. DOMAIN f = {DsuFind(shared, x) : x \in nodes}
    BY DEF RootsOf
  <2>4. \A r \in DOMAIN f : f[r] = PairsAmong(Cardinality(BelowRoot(shared, nodes, r)))
    OBVIOUS
  <2> HIDE DEF f, shared, nodes, sharing, W
  <2>5. SumOf(f) = Cardinality(InOneGroup(sharing, nodes))
    BY <1>1, <2>2, <2>3, <2>4, PairsBelowRoots
  <2>6. Cardinality(sharing) <= Cardinality(W)
    BY <1>2, FS_Subset
  <2>7. QED
    BY <1>2, <2>1, <2>5, <2>6 DEF W
<1>5. QED
  BY <1>3, <1>4

LEMMA FieldsAreFinite ==
  ASSUME NEW tree, IsTree(tree), NEW class
  PROVE  IsFiniteSet(ClassFields(tree, class))
<1> DEFINE D == DOMAIN tree
           name == [a \in D |-> tree[a].name]
           fields == ClassFields(tree, class)
<1>1. IsFiniteSet(D)
  BY TreeFacts
<1>2. \A m : Mentions(tree, m) \subseteq {name[a] : a \in D}
  <2>1. \A m : \A x \in SelfAccess(tree, m) : \E a \in D : x = tree[a].name
    BY DEF SelfAccess, OfKind
  <2>2. QED
    BY <2>1 DEF Mentions
<1>3. \A f \in fields : \E m : f \in Mentions(tree, m)
  BY AttributeFacts
<1> HIDE DEF D, name, fields
<1>4. \A f \in fields : \E a \in D : f = name[a]
  BY <1>2, <1>3
<1>5. IsFiniteSet(fields)
  BY <1>1, <1>4, ImageBound
<1>6. QED
  BY <1>5 DEF fields

\* LCOM* is a share: an attribute is used by a method, and at most by all.
LEMMA LcomStarIsShare ==
  ASSUME NEW tree, IsTree(tree), NEW class
  PROVE  ClassCohesion(tree, class).lcomStar[1] \in 0..ClassCohesion(tree, class).lcomStar[2]
<1> DEFINE nodes == Cohering(tree, class)
           n == Cardinality(nodes)
           fields == ClassFields(tree, class)
           users == FieldUsers(tree, class)
           f == [g \in fields |-> Cardinality(users[g])]
           star == ClassCohesion(tree, class).lcomStar
           B == Belonging(users, fields, nodes)
           k == Cardinality(fields)
           u == SumOf(f)
<1>1. IsFiniteSet(nodes) /\ n \in Nat
  BY MethodsAreNumbers, FS_CardinalityType
<1>2. CASE n <= 1 \/ fields = {}
  <2>1. star = <<0, 1>>
    BY <1>2, CohesionFigures
  <2> HIDE DEF star
  <2>2. star[1] = 0 /\ star[2] = 1
    BY <2>1
  <2>3. QED
    BY <2>2 DEF star
<1>3. CASE ~(n <= 1 \/ fields = {})
  <2>1. star[1] = n * k - u /\ star[2] = (n - 1) * k
    BY <1>3, CohesionFigures
  <2>2. IsFiniteSet(fields)
    BY FieldsAreFinite
  <2>3. \A g \in fields : users[g] \subseteq nodes
    BY DEF FieldUsers
  <2>4. \A g \in fields : \E m \in nodes : m \in users[g]
    BY DEF FieldUsers, ClassFields
  <2>5. DOMAIN f = fields /\ \A g \in fields : f[g] = Cardinality(users[g])
    OBVIOUS
  <2> HIDE DEF fields, nodes, users, f
  <2>6. u = Cardinality(B)
    BY <1>1, <2>2, <2>3, <2>5, SumCounts
  <2>7. IsFiniteSet(B) /\ Cardinality(B) <= k * n
    <3>1. IsFiniteSet(fields \X nodes) /\ Cardinality(fields \X nodes) = k * n
      BY <1>1, <2>2, FS_Product
    <3>2. B \subseteq fields \X nodes
      BY DEF Belonging
    <3> DEFINE P == fields \X nodes
    <3> HIDE DEF P, B, k, n
    <3>3. IsFiniteSet(B) /\ Cardinality(B) <= Cardinality(P)
      BY <3>1, <3>2, FS_Subset DEF P
    <3>4. QED
      BY <3>1, <3>3 DEF P
  <2>8. k <= Cardinality(B)
    <3> DEFINE first == [b \in B |-> b[1]]
    <3>1. \A g \in fields : \E b \in B : g = first[b]
      <4>1. ASSUME NEW g \in fields PROVE \E b \in B : g = first[b]
        <5>1. PICK m \in nodes : m \in users[g]
          BY <2>4
        <5> DEFINE b == <<g, m>>
        <5>2. b \in fields \X nodes /\ b[1] = g /\ b[2] = m
          OBVIOUS
        <5> HIDE DEF b
        <5>3. b \in B
          BY <5>1, <5>2 DEF Belonging
        <5>4. first[b] = g
          BY <5>2, <5>3
        <5>5. QED
          BY <5>3, <5>4
      <4>2. QED
        BY <4>1
    <3> HIDE DEF B, first
    <3>2. QED
      BY <2>7, <3>1, ImageBound
  <2>9. k \in Nat /\ Cardinality(B) \in Nat
    BY <2>2, <2>7, FS_CardinalityType
  <2> DEFINE c == Cardinality(B)
  <2> HIDE DEF B, u, n, k, c, star
  <2>10. star[1] = n * k - c /\ star[2] = (n - 1) * k /\ k <= c /\ c <= k * n /\ c \in Nat /\ k \in Nat /\ n \in Nat
    BY <1>1, <2>1, <2>6, <2>7, <2>8, <2>9 DEF c
  <2>11. (n - 1) * k = n * k - k /\ n * k = k * n /\ n * k \in Int
    BY <2>10
  <2> DEFINE t == n * k
             s == (n - 1) * k
  <2>12. star[1] = t - c /\ star[2] = s /\ s = t - k /\ t \in Int /\ c <= t /\ k <= c /\ c \in Nat /\ k \in Nat
    BY <2>10, <2>11
  <2> HIDE DEF t, s
  <2>13. star[1] \in 0..star[2]
    BY <2>12
  <2>14. QED
    BY <2>13 DEF star
<1>4. QED
  BY <1>2, <1>3

\* The property, for one class.
CohesionIs(tree, class, figures) ==
  LET nodes == Cohering(tree, class)
      sharing == AttributeLinks(tree, class)
      linked == sharing \cup Calls(tree, class)
      within == {p \in nodes \X nodes : p[1] < p[2] /\ p[2] \in Group(sharing, nodes, p[1])}
  IN  /\ figures.lcom4 = Cardinality({Group(linked, nodes, m) : m \in nodes})
      /\ figures.lcc[1] = Cardinality(within)
      /\ figures.tcc[1] <= figures.lcc[1]
      /\ figures.lcomStar[1] \in 0..figures.lcomStar[2]

LEMMA CohesionIsRight ==
  ASSUME NEW tree, IsTree(tree), NEW class
  PROVE  CohesionIs(tree, class, ClassCohesion(tree, class))
<1> DEFINE figures == ClassCohesion(tree, class)
           W == LinkedPairs(tree, class)
<1>1. figures.lcc[1] = Cardinality(W) /\ figures.tcc[1] <= Cardinality(W)
  BY LccCounts
<1>2. figures.tcc[1] <= figures.lcc[1]
  BY <1>1
<1> HIDE DEF figures, W
<1>3. QED
  BY <1>1, <1>2, Lcom4Counts, LcomStarIsShare, Zenon DEF CohesionIs, LinkedPairs, InOneGroup, figures, W

\* For every project of syntax trees: LCOM4 is the number of groups of methods
\* that shared attributes and calls link, LCC counts the pairs that shared
\* attributes link, TCC is never above it, and LCOM* is a share; although they
\* are computed from union-find forests with path compression, built in no
\* particular order (class_cohesion of sloplint_metrics).
THEOREM CohesionAlwaysAgrees == Spec => []CohesionAgrees
<1>1. ASSUME Measured PROVE CohesionAgrees
  <2>1. ASSUME pc = "index", NEW i \in DOMAIN files, NEW c \in DOMAIN metrics[i].classes
        PROVE  CohesionIs(files[i].tree, InOrder(CollectClasses(files[i].tree, 0))[c],
                          metrics[i].classes[c].cohesion)
    <3>1. files \in Projects /\ metrics[i] = FileMetrics(files[i])
      BY <1>1, <2>1 DEF Measured
    <3>2. IsTree(files[i].tree)
      BY <2>1, <3>1, TreesAreTrees
    <3> DEFINE classes == InOrder(CollectClasses(files[i].tree, 0))
    <3>3. FileMetrics(files[i]).classes = [k \in DOMAIN classes |-> ClassMetrics(files[i].tree, classes[k])]
      BY DEF FileMetrics
    <3> HIDE DEF classes
    <3>4. metrics[i].classes[c] = ClassMetrics(files[i].tree, classes[c])
      BY <2>1, <3>1, <3>3
    <3>5. metrics[i].classes[c].cohesion = ClassCohesion(files[i].tree, classes[c])
      BY <3>4 DEF ClassMetrics
    <3>6. QED
      BY <3>2, <3>5, CohesionIsRight DEF classes
  <2>2. QED
    BY <2>1, Zenon DEF CohesionAgrees, CohesionIs
<1>2. QED
  BY <1>1, Measurements, PTL

=============================================================================
