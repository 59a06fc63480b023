--------------------------- MODULE TaskGraphProofs ---------------------------
(***************************************************************************)
(* Theorems about TaskGraph and PlanHistory, for any finite set of names   *)
(* and any number of replans: Kahn's algorithm decides whether a graph is  *)
(* acyclic, and the merge of a replan keeps what is finished.              *)
(*                                                                         *)
(* What the counting loop computes is a function of the number of rounds;  *)
(* facts about all rounds follow from the least-number principle, in the   *)
(* form of the library's first-order theorems about well-founded relations *)
(* (NatLessThanWellFounded, WFMin).                                        *)
(***************************************************************************)
EXTENDS PlanHistory, FiniteSetTheorems, WellFoundedInduction, TLAPS

-----------------------------------------------------------------------------
(* Induction over the natural numbers, for sets.                           *)

\* A non-empty set of natural numbers has a least element.
LEMMA LeastNumber ==
  ASSUME NEW T \in SUBSET Nat, T # {}
  PROVE  \E n \in T : \A m \in T : n <= m
<1>1. PICK n \in T : \A m \in T : <<m, n>> \notin OpToRel(<, Nat)
      BY NatLessThanWellFounded, WFMin
<1>2. \A m \in T : ~ (m < n) BY <1>1 DEF OpToRel
<1> QED BY <1>2

\* A set with 0 and every successor has all natural numbers.
LEMMA SetInduction ==
  ASSUME NEW T, 0 \in T, \A n \in Nat : n \in T => n + 1 \in T
  PROVE  Nat \subseteq T
<1> SUFFICES ASSUME Nat \ T # {} PROVE FALSE OBVIOUS
<1>1. PICK n \in Nat \ T : \A m \in Nat \ T : n <= m BY LeastNumber
<1>2. n - 1 \in Nat /\ n - 1 \in T BY <1>1
<1> QED BY <1>1, <1>2

\* The sequences in which every element is F of the one before.
Orbits(S, F, x) == {r \in [Nat -> S] : r[0] = x /\ \A n \in Nat : r[n + 1] = F[r[n]]}

\* A step that is repeated from a start gives a sequence.
LEMMA Repetition ==
  ASSUME NEW S, NEW F \in [S -> S], NEW x \in S
  PROVE  Orbits(S, F, x) # {}
<1> DEFINE Prefix(n) == {h \in [0 .. n -> S] :
                           h[0] = x /\ \A k \in 0 .. n - 1 : h[k + 1] = F[h[k]]}
<1>1. \A n \in Nat : Prefix(n) # {}
  <2> DEFINE T == {n \in Nat : Prefix(n) # {}}
  <2>1. [k \in 0 .. 0 |-> x] \in Prefix(0) OBVIOUS
  <2>2. ASSUME NEW n \in Nat, NEW h \in Prefix(n) PROVE Prefix(n + 1) # {}
    <3> DEFINE h2 == [k \in 0 .. n + 1 |-> IF k = n + 1 THEN F[h[n]] ELSE h[k]]
    <3>1. h2 \in [0 .. n + 1 -> S] /\ h2[0] = x OBVIOUS
    <3>2. ASSUME NEW k \in 0 .. (n + 1) - 1 PROVE h2[k + 1] = F[h2[k]]
      <4>1. CASE k = n BY <4>1
      <4>2. CASE k # n
        <5>1. k \in 0 .. n - 1 BY <4>2
        <5>2. h2[k] = h[k] /\ h2[k + 1] = h[k + 1] BY <5>1
        <5> QED BY <5>1, <5>2
      <4> QED BY <4>1, <4>2
    <3>3. h2 \in Prefix(n + 1) BY <3>1, <3>2
    <3> QED BY <3>3
  <2>3. 0 \in T BY <2>1
  <2>4. \A n \in Nat : n \in T => n + 1 \in T BY <2>2
  <2> HIDE DEF T
  <2>5. Nat \subseteq T BY <2>3, <2>4, SetInduction
  <2> QED BY <2>5 DEF T
<1>2. ASSUME NEW m \in Nat, NEW n \in Nat, NEW h \in Prefix(m), NEW h2 \in Prefix(n),
             NEW k \in Nat, k <= m, k <= n
      PROVE  h[k] = h2[k]
  <2> DEFINE T == {j \in Nat : j <= m /\ j <= n => h[j] = h2[j]}
  <2>1. 0 \in T OBVIOUS
  <2>2. \A j \in Nat : j \in T => j + 1 \in T OBVIOUS
  <2> HIDE DEF T
  <2>3. Nat \subseteq T BY <2>1, <2>2, SetInduction
  <2> QED BY <1>2, <2>3 DEF T
<1> DEFINE one(n) == CHOOSE h \in Prefix(n) : TRUE
           r == [n \in Nat |-> one(n)[n]]
<1>3. \A n \in Nat : one(n) \in Prefix(n) BY <1>1
<1> HIDE DEF one
<1>4. \A n \in Nat : one(n)[n] \in S BY <1>3
<1>5. r \in [Nat -> S] /\ r[0] = x BY <1>3, <1>4
<1>6. ASSUME NEW n \in Nat PROVE r[n + 1] = F[r[n]]
  <2>1. one(n) \in Prefix(n) /\ one(n + 1) \in Prefix(n + 1) BY <1>3
  <2>2. one(n)[n] = one(n + 1)[n]
    <3> HIDE DEF Prefix
    <3> QED BY <1>2, <2>1
  <2>3. one(n + 1)[n + 1] = F[one(n + 1)[n]] BY <2>1
  <2> QED BY <2>2, <2>3
<1> QED BY <1>5, <1>6 DEF Orbits

-----------------------------------------------------------------------------
(* validate_dag: Kahn's algorithm decides whether a graph is acyclic.      *)

\* The tasks that may be popped once those of S have been.
Ready(gr, S) == {i \in Ids(gr) : gr[i].deps \subseteq S}

\* What validate_dag pops is what so many rounds pop, one after the other.
LEMMA Rounds ==
  ASSUME NEW gr
  PROVE  \E r \in [Nat -> SUBSET Ids(gr)] :
           /\ Popped(gr) = r[Cardinality(Ids(gr))]
           /\ r[0] = {}
           /\ \A n \in Nat : r[n + 1] = Ready(gr, r[n])
<1> DEFINE F == [S \in SUBSET Ids(gr) |-> Ready(gr, S)]
           body(g) == [n \in Nat |-> IF n = 0 THEN {}
                                     ELSE {i \in Ids(gr) : gr[i].deps \subseteq g[n - 1]}]
           round == CHOOSE g : g = body(g)
<1>1. F \in [SUBSET Ids(gr) -> SUBSET Ids(gr)] BY DEF Ready
<1>2. PICK r \in Orbits(SUBSET Ids(gr), F, {}) : TRUE
  <2> HIDE DEF F
  <2> QED BY <1>1, Repetition
<1>3. /\ r \in [Nat -> SUBSET Ids(gr)] /\ r[0] = {}
      /\ \A n \in Nat : r[n + 1] = F[r[n]]
  <2> HIDE DEF F
  <2> QED BY <1>2 DEF Orbits
<1>4. r = body(r)
  <2>1. ASSUME NEW n \in Nat, n # 0
        PROVE  r[n] = {i \in Ids(gr) : gr[i].deps \subseteq r[n - 1]}
    <3>1. n - 1 \in Nat /\ (n - 1) + 1 = n BY <2>1
    <3>2. r[n] = F[r[n - 1]]
      <4> HIDE DEF F
      <4> QED BY <1>3, <3>1
    <3>3. r[n - 1] \in SUBSET Ids(gr) BY <1>3, <3>1
    <3> QED BY <3>2, <3>3 DEF Ready
  <2> QED BY <1>3, <2>1
<1>5. round = body(round)
  <2> HIDE DEF body
  <2> QED BY <1>4
<1>6. round[0] = {} /\ \A n \in Nat : round[n + 1] = Ready(gr, round[n])
  <2> HIDE DEF round
  <2>1. \A n \in Nat : round[n] = IF n = 0 THEN {}
                                  ELSE {i \in Ids(gr) : gr[i].deps \subseteq round[n - 1]}
        BY <1>5
  <2>2. ASSUME NEW n \in Nat PROVE round[n + 1] = Ready(gr, round[n])
    <3>1. n + 1 \in Nat /\ n + 1 # 0 /\ (n + 1) - 1 = n OBVIOUS
    <3>2. round[n + 1] = {i \in Ids(gr) : gr[i].deps \subseteq round[(n + 1) - 1]}
          BY <2>1, <3>1
    <3> QED BY <3>1, <3>2 DEF Ready
  <2>3. round[0] = {} BY <2>1
  <2> QED BY <2>2, <2>3
<1>7. round \in [Nat -> SUBSET Ids(gr)]
  <2> HIDE DEF round
  <2>1. \A n \in Nat : (IF n = 0 THEN {}
                        ELSE {i \in Ids(gr) : gr[i].deps \subseteq round[n - 1]}) \in SUBSET Ids(gr)
        OBVIOUS
  <2> QED BY <1>5, <2>1
<1>8. Popped(gr) = round[Cardinality(Ids(gr))] BY DEF Popped
<1> HIDE DEF round
<1> QED BY <1>6, <1>7, <1>8

\* A task that waits for itself, over others or not, is never popped.
LEMMA StuckStays ==
  ASSUME NEW gr, NEW S \in SUBSET Ids(gr), Stuck(gr, S), IsFiniteSet(Ids(gr))
  PROVE  Popped(gr) \cap S = {}
<1>1. PICK r \in [Nat -> SUBSET Ids(gr)] :
        /\ Popped(gr) = r[Cardinality(Ids(gr))]
        /\ r[0] = {}
        /\ \A n \in Nat : r[n + 1] = Ready(gr, r[n])
      BY Rounds
<1> DEFINE T == {n \in Nat : r[n] \cap S = {}}
<1>2. 0 \in T BY <1>1
<1>3. \A n \in Nat : n \in T => n + 1 \in T BY <1>1 DEF Ready, Stuck
<1> HIDE DEF T
<1>4. Nat \subseteq T BY <1>2, <1>3, SetInduction
<1> QED BY <1>1, <1>4, FS_CardinalityType DEF T

\* In a closed graph the rounds stop at the tasks nothing keeps waiting.
LEMMA RoundsEnd ==
  ASSUME NEW gr, Closed(gr), Acyclic(gr, Ids(gr)), IsFiniteSet(Ids(gr))
  PROVE  Popped(gr) = Ids(gr)
<1>1. PICK r \in [Nat -> SUBSET Ids(gr)] :
        /\ Popped(gr) = r[Cardinality(Ids(gr))]
        /\ r[0] = {}
        /\ \A n \in Nat : r[n + 1] = Ready(gr, r[n])
      BY Rounds
<1>2. \A n \in Nat : r[n] \subseteq r[n + 1]
  <2> DEFINE T == {n \in Nat : r[n] \subseteq r[n + 1]}
  <2>1. 0 \in T BY <1>1
  <2>2. \A n \in Nat : n \in T => n + 1 \in T BY <1>1 DEF Ready
  <2> HIDE DEF T
  <2>3. Nat \subseteq T BY <2>1, <2>2, SetInduction
  <2> QED BY <2>3 DEF T
<1>3. \A n \in Nat : IsFiniteSet(r[n]) /\ Cardinality(r[n]) \in Nat
      BY FS_Subset, FS_CardinalityType
<1>4. \A n \in Nat : r[n + 1] = r[n] => r[n] = Ids(gr)
  <2> SUFFICES ASSUME NEW n \in Nat, r[n + 1] = r[n], Ids(gr) \ r[n] # {} PROVE FALSE
      OBVIOUS
  <2>1. Ready(gr, r[n]) = r[n] BY <1>1
  <2>2. \A i \in Ids(gr) \ r[n] : gr[i].deps \cap (Ids(gr) \ r[n]) # {}
        BY <2>1 DEF Ready, Closed
  <2> QED BY <2>2 DEF Stuck, Acyclic
<1>5. \A n \in Nat : n <= Cardinality(r[n]) \/ r[n] = Ids(gr)
  <2> DEFINE T == {n \in Nat : n <= Cardinality(r[n]) \/ r[n] = Ids(gr)}
  <2>1. 0 \in T BY <1>3
  <2>2. ASSUME NEW n \in Nat, n \in T PROVE n + 1 \in T
    <3>1. r[n + 1] \in SUBSET Ids(gr) /\ r[n] \subseteq r[n + 1] BY <1>2
    <3>2. CASE r[n] = Ids(gr) BY <3>1, <3>2
    <3>3. CASE r[n] # Ids(gr)
      <4>1. r[n + 1] # r[n] BY <1>4, <3>3
      <4>2. Cardinality(r[n]) <= Cardinality(r[n + 1])
            /\ Cardinality(r[n]) # Cardinality(r[n + 1])
            BY <1>3, <3>1, <4>1, FS_Subset
      <4> QED BY <1>3, <2>2, <3>3, <4>2
    <3> QED BY <3>2, <3>3
  <2> HIDE DEF T
  <2>3. Nat \subseteq T BY <2>1, <2>2, SetInduction
  <2> QED BY <2>3 DEF T
<1>6. Cardinality(Ids(gr)) \in Nat BY FS_CardinalityType
<1>7. r[Cardinality(Ids(gr))] = Ids(gr)
  <2> DEFINE c == Cardinality(Ids(gr))
  <2>1. r[c] \in SUBSET Ids(gr) BY <1>6
  <2>2. Cardinality(r[c]) <= c /\ (c = Cardinality(r[c]) => Ids(gr) = r[c])
        BY <2>1, FS_Subset
  <2>3. c <= Cardinality(r[c]) \/ r[c] = Ids(gr) BY <1>5, <1>6
  <2>4. Cardinality(r[c]) \in Nat BY <1>3, <1>6
  <2> HIDE DEF c
  <2> QED BY <1>6, <2>2, <2>3, <2>4 DEF c
<1> QED BY <1>1, <1>7

\* The validation of a plan is right.
LEMMA KahnIsRight ==
  ASSUME NEW gr, IsFiniteSet(Ids(gr))
  PROVE  ValidDag(gr) <=> Closed(gr) /\ Acyclic(gr, Ids(gr))
<1>1. ASSUME ValidDag(gr), NEW S \in SUBSET Ids(gr), Stuck(gr, S) PROVE FALSE
  <2>1. Popped(gr) \cap S = {} BY <1>1, StuckStays
  <2> QED BY <1>1, <2>1 DEF ValidDag, Stuck
<1> QED BY <1>1, RoundsEnd DEF ValidDag, Closed, Acyclic

\* A task id is its generation and its name.
LEMMA TaskIds ==
  /\ IsFiniteSet(TaskId)
  /\ \A S \in SUBSET TaskId : IsFiniteSet(S)
  /\ \A i, j \in TaskId : i[1] = j[1] /\ i[2] = j[2] => i = j
  /\ \A i \in TaskId : i[1] \in 0 .. MaxReplanCount /\ i[2] \in Names
  /\ \A n \in 0 .. MaxReplanCount, i \in TaskId : <<n, i[2]>> \in TaskId
<1>1. IsFiniteSet(0 .. MaxReplanCount) BY ReplanCapAssumption, FS_Interval
<1>2. IsFiniteSet(TaskId) BY <1>1, NamesAssumption, FS_Product DEF TaskId
<1>3. \A S \in SUBSET TaskId : IsFiniteSet(S) BY <1>2, FS_Subset
<1> QED BY <1>2, <1>3, ReplanCapAssumption DEF TaskId

\* Validation, of a graph of tasks.
LEMMA ValidGraphs ==
  ASSUME NEW gr
  PROVE  ValidDag(gr) <=> Closed(gr) /\ Acyclic(gr, Ids(gr))
<1>1. IsFiniteSet(Ids(gr)) BY TaskIds DEF Ids
<1> QED BY <1>1, KahnIsRight

-----------------------------------------------------------------------------
(* The merge of a replan.                                                  *)

\* What the validation lets through: a dag of plain ids, none of it begun.
PlainPlan(plan) ==
  /\ plan \in Graph
  /\ \A i \in Ids(plan) : i[1] = 0 /\ plan[i].status = "pending"
  /\ ValidDag(plan)

\* The renaming gives each task of the plan a home of its own, away from the
\* finished tasks, and takes its dependencies along.
LEMMA Homes ==
  ASSUME NEW old \in Graph, NEW n \in 1 .. MaxReplanCount, Mergeable(old, n),
         NEW plan, PlainPlan(plan)
  PROVE  /\ \A i \in Ids(plan) :
              /\ Renamed(old, n, i) \in TaskId \ DoneIds(old)
              /\ <<0, Renamed(old, n, i)[2]>> = i
              /\ Relabelled(old, n, plan)[Renamed(old, n, i)] =
                   [plan[i] EXCEPT !.deps = {Renamed(old, n, d) : d \in plan[i].deps}]
         /\ \A j \in Ids(Relabelled(old, n, plan)) :
              <<0, j[2]>> \in Ids(plan) /\ j = Renamed(old, n, <<0, j[2]>>)
<1>1. \A i \in Ids(plan) : i \in TaskId /\ i[1] = 0 /\ i = <<0, i[2]>>
  <2>1. \A i \in TaskId : i = <<i[1], i[2]>> BY DEF TaskId
  <2> QED BY <2>1 DEF Ids, PlainPlan
<1>2. ASSUME NEW i \in Ids(plan)
      PROVE  Renamed(old, n, i) \in TaskId \ DoneIds(old)
             /\ <<0, Renamed(old, n, i)[2]>> = i
  <2>1. CASE i \in DoneIds(old)
    <3>1. Renamed(old, n, i) = <<n, i[2]>> BY <2>1 DEF Renamed
    <3>2. <<n, i[2]>> \in TaskId BY <1>1, TaskIds
    <3>3. <<n, i[2]>> \notin DoneIds(old) BY DEF Mergeable
    <3> QED BY <1>1, <3>1, <3>2, <3>3
  <2>2. CASE i \notin DoneIds(old)
    <3>1. Renamed(old, n, i) = i BY <2>2 DEF Renamed
    <3> QED BY <1>1, <2>2, <3>1
  <2> QED BY <2>1, <2>2
<1>3. ASSUME NEW i \in Ids(plan)
      PROVE  Relabelled(old, n, plan)[Renamed(old, n, i)] =
               [plan[i] EXCEPT !.deps = {Renamed(old, n, d) : d \in plan[i].deps}]
      BY <1>2 DEF Relabelled
<1>4. ASSUME NEW j \in Ids(Relabelled(old, n, plan))
      PROVE  <<0, j[2]>> \in Ids(plan) /\ j = Renamed(old, n, <<0, j[2]>>)
      BY DEF Ids, Relabelled, AbsentNode
<1> QED BY <1>2, <1>3, <1>4

\* The merged graph consists of the finished tasks and the tasks of the plan
\* at their homes.
LEMMA MergedTasks ==
  ASSUME NEW old \in Graph, NEW n \in 1 .. MaxReplanCount, Mergeable(old, n),
         NEW plan, PlainPlan(plan)
  PROVE  /\ \A i \in DoneIds(old) : Merged(old, n, plan)[i] = old[i]
         /\ \A i \in Ids(plan) :
              LET j == Renamed(old, n, i) IN
              /\ j \in TaskId \ DoneIds(old)
              /\ <<0, j[2]>> = i
              /\ Merged(old, n, plan)[j].status = "pending"
              /\ Merged(old, n, plan)[j].pos = plan[i].pos
              /\ Merged(old, n, plan)[j].deps =
                   {Renamed(old, n, d) : d \in plan[i].deps}
         /\ \A j \in Ids(Merged(old, n, plan)) \ DoneIds(old) :
              <<0, j[2]>> \in Ids(plan) /\ j = Renamed(old, n, <<0, j[2]>>)
         /\ DoneIds(Merged(old, n, plan)) = DoneIds(old)
<1> DEFINE home(i) == Renamed(old, n, i)
           new == Relabelled(old, n, plan)
           both == Merged(old, n, plan)
<1>1. \A j \in TaskId : both[j] = IF j \in DoneIds(old) THEN old[j] ELSE new[j]
      BY DEF Merged
<1>2. DoneIds(old) \subseteq TaskId BY DEF DoneIds, WithStatus
<1> HIDE DEF home, new, both
<1>3. /\ \A i \in Ids(plan) :
           /\ home(i) \in TaskId \ DoneIds(old)
           /\ <<0, home(i)[2]>> = i
           /\ new[home(i)] = [plan[i] EXCEPT !.deps = {home(d) : d \in plan[i].deps}]
      /\ \A j \in Ids(new) : <<0, j[2]>> \in Ids(plan) /\ j = home(<<0, j[2]>>)
      BY Homes DEF home, new
<1>4. \A i \in DoneIds(old) : both[i] = old[i] BY <1>1, <1>2
<1>5. ASSUME NEW i \in Ids(plan)
      PROVE  /\ both[home(i)].status = "pending"
             /\ both[home(i)].pos = plan[i].pos
             /\ both[home(i)].deps = {home(d) : d \in plan[i].deps}
  <2>1. plan[i] \in Node /\ plan[i].status = "pending" BY DEF PlainPlan, Graph, Ids
  <2>2. both[home(i)] = [plan[i] EXCEPT !.deps = {home(d) : d \in plan[i].deps}]
        BY <1>1, <1>3
  <2> QED BY <2>1, <2>2 DEF Node
<1>6. Ids(both) \ DoneIds(old) \subseteq Ids(new) BY <1>1 DEF Ids
<1>7. DoneIds(both) = DoneIds(old)
  <2>1. \A j \in Ids(new) : j \in DoneIds(old) \/ both[j].status = "pending" BY <1>3, <1>5
  <2>2. DoneIds(both) \subseteq Ids(both) BY DEF DoneIds, WithStatus, Ids
  <2>3. DoneIds(both) \subseteq DoneIds(old)
        BY <1>6, <2>1, <2>2 DEF DoneIds, WithStatus
  <2>4. DoneIds(old) \subseteq DoneIds(both) BY <1>4 DEF DoneIds, WithStatus
  <2> QED BY <2>3, <2>4
<1> QED BY <1>3, <1>4, <1>5, <1>6, <1>7 DEF home, both

\* The merge is a dag again, so the plan alone, which would lose the finished
\* tasks, is never the result of a replan.
LEMMA MergeIsValid ==
  ASSUME NEW old \in Graph, NEW n \in 1 .. MaxReplanCount, Mergeable(old, n),
         NEW plan, PlainPlan(plan)
  PROVE  /\ Closed(Merged(old, n, plan))
         /\ Acyclic(Merged(old, n, plan), Ids(Merged(old, n, plan)))
         /\ MergeReplan(old, n, plan) = Merged(old, n, plan)
<1> DEFINE home(i) == Renamed(old, n, i)
           both == Merged(old, n, plan)
           back(j) == <<0, j[2]>>
<1>1. /\ \A i \in DoneIds(old) : both[i] = old[i]
      /\ \A i \in Ids(plan) :
           /\ home(i) \in TaskId \ DoneIds(old)
           /\ back(home(i)) = i
           /\ both[home(i)].status = "pending"
           /\ both[home(i)].deps = {home(d) : d \in plan[i].deps}
      /\ \A j \in Ids(both) \ DoneIds(old) : back(j) \in Ids(plan) /\ j = home(back(j))
      /\ DoneIds(both) = DoneIds(old)
      BY MergedTasks
<1>2. Closed(plan) /\ Acyclic(plan, Ids(plan)) BY ValidGraphs DEF PlainPlan
<1>3. \A i \in DoneIds(old) : old[i].deps \subseteq DoneIds(old) BY DEF Mergeable
<1>4. DoneIds(old) \subseteq Ids(both) BY <1>1 DEF DoneIds, WithStatus, Ids
<1> HIDE DEF home, both, back
<1>5. \A i \in Ids(plan) : home(i) \in Ids(both) BY <1>1 DEF Ids
<1>6. Closed(both)
  <2>1. ASSUME NEW i \in Ids(plan) PROVE both[home(i)].deps \subseteq Ids(both)
        BY <1>1, <1>2, <1>5 DEF Closed
  <2> QED BY <1>1, <1>3, <1>4, <2>1 DEF Closed
<1>7. ASSUME NEW S \in SUBSET Ids(both), Stuck(both, S) PROVE FALSE
  <2>1. CASE S \cap DoneIds(old) # {}
    <3> DEFINE D == S \cap DoneIds(old)
    <3>1. \A i \in D : old[i].deps \cap D # {} BY <1>1, <1>3, <1>7 DEF Stuck
    <3>2. Stuck(old, D) BY <2>1, <3>1 DEF Stuck
    <3> QED BY <3>2 DEF Mergeable, Acyclic
  <2>2. CASE S \cap DoneIds(old) = {}
    <3> DEFINE P == {back(j) : j \in S}
    <3>1. P # {} /\ P \subseteq Ids(plan) BY <1>1, <1>7, <2>2 DEF Stuck
    <3>2. ASSUME NEW j \in S PROVE plan[back(j)].deps \cap P # {}
      <4>1. back(j) \in Ids(plan) /\ j = home(back(j)) BY <1>1, <2>2
      <4>2. PICK k \in S : k \in both[j].deps BY <1>7 DEF Stuck
      <4>3. PICK d \in plan[back(j)].deps : k = home(d) BY <1>1, <4>1, <4>2
      <4>4. d \in Ids(plan) BY <1>2, <4>1, <4>3 DEF Closed
      <4>5. d = back(k) BY <1>1, <4>3, <4>4
      <4> QED BY <4>3, <4>5
    <3>3. Stuck(plan, P) BY <3>1, <3>2 DEF Stuck
    <3> QED BY <1>2, <3>1, <3>3 DEF Acyclic
  <2> QED BY <2>1, <2>2
<1>8. Acyclic(both, Ids(both)) BY <1>7 DEF Acyclic
<1>9. ValidDag(both) BY <1>6, <1>8, ValidGraphs
<1>10. Distinct(old, n, plan)
  <2>1. \A j \in Ids(Relabelled(old, n, plan)) :
          <<0, j[2]>> \in Ids(plan) /\ j = home(<<0, j[2]>>)
        BY Homes DEF home
  <2> QED BY <1>1, <2>1 DEF Distinct
<1> QED BY <1>6, <1>8, <1>9, <1>10 DEF MergeReplan, both

\* A task that finishes closes no circle of finished tasks.
LEMMA FinishMergeable ==
  ASSUME NEW old, NEW n, Mergeable(old, n), NEW t \in TaskId, t[1] < n,
         t \notin DoneIds(old), old[t].deps \subseteq DoneIds(old),
         NEW new, DoneIds(new) = DoneIds(old) \cup {t},
         \A i \in DoneIds(new) : new[i].deps = old[i].deps
  PROVE  Mergeable(new, n)
<1>1. \A i \in DoneIds(new) : i[1] < n /\ new[i].deps \subseteq DoneIds(new)
      BY DEF Mergeable
<1>2. ASSUME NEW S \in SUBSET DoneIds(new), Stuck(new, S) PROVE FALSE
  <2> DEFINE D == S \ {t}
  <2>1. \A i \in D : old[i].deps \cap D # {} BY <1>2 DEF Stuck, Mergeable
  <2>2. D # {}
    <3>1. \A i \in S : old[i].deps \cap S # {} BY <1>2 DEF Stuck
    <3>2. t \notin old[t].deps OBVIOUS
    <3> QED BY <1>2, <3>1, <3>2 DEF Stuck
  <2>3. Stuck(old, D) BY <2>1, <2>2 DEF Stuck
  <2>4. D \in SUBSET DoneIds(old) OBVIOUS
  <2> QED BY <2>3, <2>4 DEF Mergeable, Acyclic
<1> QED BY <1>1, <1>2 DEF Mergeable, Acyclic

\* The empty slots and the empty plan have their types.
LEMMA EmptyGraphs == AbsentNode \in Node /\ EmptyGraph \in Graph
  BY DEF AbsentNode, EmptyGraph, Node, Graph, Statuses, Risks, Faults

\* A merge has the type of a graph.
LEMMA MergedTypes ==
  ASSUME NEW old \in Graph, NEW n \in 0 .. MaxReplanCount, NEW plan \in Graph
  PROVE  Relabelled(old, n, plan) \in Graph /\ Merged(old, n, plan) \in Graph
<1> DEFINE at(i) == [plan[i] EXCEPT !.deps = {Renamed(old, n, d) : d \in plan[i].deps}]
<1>1. \A i \in TaskId : Renamed(old, n, i) \in TaskId BY TaskIds DEF Renamed
<1>2. \A i \in TaskId : at(i) \in Node BY <1>1 DEF Graph, Node
<1>3. \A j \in TaskId : <<0, j[2]>> \in TaskId BY TaskIds, ReplanCapAssumption
<1> HIDE DEF at
<1>4. \A j \in TaskId : Relabelled(old, n, plan)[j] \in {at(<<0, j[2]>>), AbsentNode}
      BY DEF Relabelled, at
<1>5. \A j \in TaskId : Relabelled(old, n, plan)[j] \in Node
      BY <1>2, <1>3, <1>4, EmptyGraphs
<1>6. Relabelled(old, n, plan) \in Graph BY <1>5 DEF Relabelled, Graph
<1> HIDE DEF at
<1>7. Merged(old, n, plan) \in Graph BY <1>6 DEF Merged, Graph
<1> QED BY <1>6, <1>7

-----------------------------------------------------------------------------
(* PlanHistory: one graph through completions, failures and replans.       *)

\* The tasks that are not done come from one plan, so no two of them share a
\* place; the ones that are done waited only for done ones.
History ==
  /\ proposal \in Answers
  /\ graph \in Graph
  /\ replans \in 0 .. MaxReplanCount
  /\ \A i \in Ids(graph) : i[1] <= replans
  /\ \A i \in Ids(graph) : graph[i].status \in {"pending", "done", "failed"}
  /\ \A i \in DoneIds(graph) : graph[i].deps \subseteq DoneIds(graph)
  /\ \A i, j \in Ids(graph) \ DoneIds(graph) : graph[i].pos = graph[j].pos => i = j
  /\ Closed(graph)
  /\ Acyclic(graph, Ids(graph))

\* An answer of the planner, valid or not.
LEMMA AnswersAre ==
  ASSUME NEW plan \in Answers
  PROVE  /\ plan \in Graph
         /\ \A i \in Ids(plan) : /\ i[1] = 0 /\ plan[i].status = "pending"
                                 /\ plan[i].pos = Place[i[2]]
<1>1. PICK S \in (SUBSET Names) \ {{}}, needs \in [Names -> SUBSET Names] :
        plan = AnswerWith(S, needs)
      BY DEF Answers
<1> DEFINE node(i) == [AbsentNode EXCEPT !.status = "pending", !.pos = Place[i[2]],
                                         !.deps   = {<<0, d>> : d \in needs[i[2]]}]
<1>2. \A i \in TaskId : plan[i] = IF i[1] = 0 /\ i[2] \in S THEN node(i) ELSE AbsentNode
      BY <1>1 DEF AnswerWith
<1>3. ASSUME NEW i \in TaskId PROVE node(i) \in Node
  <2>1. i[2] \in Names BY TaskIds
  <2>2. Place[i[2]] \in Nat BY <2>1, PlaceAssumption
  <2>3. \A d \in Names : <<0, d>> \in TaskId BY ReplanCapAssumption DEF TaskId
  <2>4. needs[i[2]] \in SUBSET Names BY <2>1
  <2>5. {<<0, d>> : d \in needs[i[2]]} \in SUBSET TaskId BY <2>3, <2>4
  <2> HIDE DEF TaskId
  <2> QED BY <2>2, <2>5 DEF AbsentNode, Node, Statuses, Risks, Faults
<1>4. plan = [i \in TaskId |-> IF i[1] = 0 /\ i[2] \in S THEN node(i) ELSE AbsentNode]
      BY <1>1 DEF AnswerWith
<1>5. AbsentNode \in Node BY DEF AbsentNode, Node, Statuses, Risks, Faults
<1>6. \A i \in TaskId : /\ node(i).status = "pending" /\ node(i).pos = Place[i[2]]
                        /\ AbsentNode.status = "absent"
      BY DEF AbsentNode
<1> HIDE DEF node
<1>7. plan \in Graph BY <1>3, <1>4, <1>5 DEF Graph
<1>8. \A i \in Ids(plan) : /\ i[1] = 0 /\ plan[i].status = "pending"
                           /\ plan[i].pos = Place[i[2]]
      BY <1>2, <1>6 DEF Ids
<1> QED BY <1>7, <1>8

\* What the validation of an answer means.
LEMMA AnswersValid ==
  ASSUME NEW plan \in Answers
  PROVE  /\ ValidDag(plan) <=> Closed(plan) /\ Acyclic(plan, Ids(plan))
         /\ ValidDag(plan) => PlainPlan(plan)
BY AnswersAre, ValidGraphs DEF PlainPlan

\* A first answer that is rejected leaves the goal without tasks.
LEMMA HistoryStarts == HistoryInit => History
<1> SUFFICES ASSUME HistoryInit PROVE History OBVIOUS
<1>1. proposal \in Answers /\ replans = 0 /\ 0 \in 0 .. MaxReplanCount
      BY ReplanCapAssumption DEF HistoryInit
<1>2. CASE ValidDag(proposal)
  <2>1. graph = proposal BY <1>2 DEF HistoryInit
  <2>2. DoneIds(graph) = {} BY <1>1, <2>1, AnswersAre DEF DoneIds, WithStatus, Ids
  <2>3. \A i, j \in Ids(graph) : graph[i].pos = graph[j].pos => i = j
    <3>1. \A i \in Ids(graph) : i \in TaskId BY DEF Ids
    <3> QED BY <1>1, <2>1, <3>1, AnswersAre, TaskIds, PlaceAssumption
  <2> QED BY <1>1, <1>2, <2>1, <2>2, <2>3, AnswersAre, AnswersValid DEF History
<1>3. CASE ~ ValidDag(proposal)
  <2>1. graph = EmptyGraph BY <1>3 DEF HistoryInit
  <2>2. Ids(graph) = {} /\ DoneIds(graph) = {}
        BY <2>1 DEF Ids, DoneIds, WithStatus, EmptyGraph, AbsentNode
  <2>3. Acyclic(graph, {}) BY DEF Acyclic, Stuck
  <2> QED BY <1>1, <2>1, <2>2, <2>3, EmptyGraphs DEF History, Closed
<1> QED BY <1>2, <1>3

\* The next task finishes or fails: nothing else about the graph changes.
LEMMA HistoryMarks ==
  ASSUME History, NEW t \in NextTask(graph), NEW s \in {"done", "failed"},
         graph' = [graph EXCEPT ![t].status = s], UNCHANGED <<proposal, replans>>
  PROVE  History'
<1>1. /\ t \in TaskId /\ t \in Ids(graph) /\ t \notin DoneIds(graph)
      /\ graph[t].deps \subseteq DoneIds(graph)
      BY DEF NextTask, Executable, WithStatus, Ids, DoneIds
<1>2. /\ graph' \in Graph
      /\ graph'[t].status = s
      /\ \A i \in TaskId : /\ graph'[i].deps = graph[i].deps /\ graph'[i].pos = graph[i].pos
                           /\ i # t => graph'[i].status = graph[i].status
      BY <1>1 DEF History, Graph, Node, Statuses
<1>3. Ids(graph') = Ids(graph) BY <1>1, <1>2 DEF Ids
<1>4. DoneIds(graph) \subseteq DoneIds(graph') /\ DoneIds(graph') \subseteq DoneIds(graph) \cup {t}
      BY <1>1, <1>2 DEF DoneIds, WithStatus
<1>5. Ids(graph) \subseteq TaskId BY DEF Ids
<1>6. Closed(graph') /\ Acyclic(graph', Ids(graph'))
      BY <1>2, <1>3, <1>5 DEF History, Closed, Acyclic, Stuck
<1>7. \A i \in DoneIds(graph') : graph'[i].deps \subseteq DoneIds(graph')
      BY <1>1, <1>2, <1>4 DEF History, DoneIds, WithStatus
<1>8. \A i \in Ids(graph') : graph'[i].status \in {"pending", "done", "failed"}
      BY <1>2, <1>3, <1>5 DEF History
<1>9. ASSUME NEW i \in Ids(graph') \ DoneIds(graph'), NEW j \in Ids(graph') \ DoneIds(graph'),
             graph'[i].pos = graph'[j].pos
      PROVE  i = j
  <2>1. i \in Ids(graph) \ DoneIds(graph) /\ j \in Ids(graph) \ DoneIds(graph)
        BY <1>3, <1>4
  <2>2. graph[i].pos = graph[j].pos BY <1>2, <1>5, <1>9, <2>1
  <2> QED BY <2>1, <2>2 DEF History
<1> QED BY <1>2, <1>3, <1>6, <1>7, <1>8, <1>9 DEF History

\* The finished tasks of a history can always be merged with a new plan.
LEMMA HistoryMerges ==
  ASSUME History, Replan
  PROVE  /\ Mergeable(graph, replans + 1)
         /\ PlainPlan(proposal')
         /\ replans + 1 \in 1 .. MaxReplanCount
         /\ graph' = Merged(graph, replans + 1, proposal')
<1>1. replans \in Nat /\ replans + 1 \in 1 .. MaxReplanCount
      BY ReplanCapAssumption DEF History, Replan
<1>2. DoneIds(graph) \subseteq Ids(graph) BY DEF DoneIds, WithStatus, Ids
<1>3. \A i \in DoneIds(graph) : i[1] < replans + 1
      BY <1>1, <1>2, TaskIds DEF History, Ids
<1>4. Mergeable(graph, replans + 1) BY <1>2, <1>3 DEF History, Mergeable, Acyclic
<1>5. PlainPlan(proposal') BY AnswersValid DEF Replan, ValidAnswers
<1>6. graph' = Merged(graph, replans + 1, proposal')
      BY <1>1, <1>4, <1>5, MergeIsValid DEF Replan, History
<1> QED BY <1>1, <1>4, <1>5, <1>6

\* A replan leaves one plan of unfinished tasks again.
LEMMA HistoryReplans == ASSUME History, Replan PROVE History'
<1> DEFINE n == replans + 1
           home(i) == Renamed(graph, n, i)
<1>1. /\ Mergeable(graph, n) /\ PlainPlan(proposal') /\ n \in 1 .. MaxReplanCount
      /\ graph' = Merged(graph, n, proposal')
      BY HistoryMerges
<1>2. replans' = n /\ proposal' \in Answers BY DEF Replan, ValidAnswers
<1>3. graph \in Graph /\ n \in 0 .. MaxReplanCount BY <1>1 DEF History
<1>4. graph' \in Graph BY <1>1, <1>3, MergedTypes DEF PlainPlan
<1>5. Closed(graph') /\ Acyclic(graph', Ids(graph')) BY <1>1, <1>3, MergeIsValid
<1>6. /\ \A i \in DoneIds(graph) : graph'[i] = graph[i]
      /\ \A i \in Ids(proposal') : /\ <<0, home(i)[2]>> = i
                                   /\ graph'[home(i)].status = "pending"
                                   /\ graph'[home(i)].pos = proposal'[i].pos
      /\ \A j \in Ids(graph') \ DoneIds(graph) :
           <<0, j[2]>> \in Ids(proposal') /\ j = home(<<0, j[2]>>)
      /\ DoneIds(graph') = DoneIds(graph)
      BY <1>1, <1>3, MergedTasks
<1>7. \A i \in Ids(proposal') : home(i)[1] <= n
      BY <1>1, <1>2, AnswersAre DEF Renamed
<1>8. \A i \in DoneIds(graph) : i[1] <= n /\ graph[i].deps \subseteq DoneIds(graph)
      BY <1>1, TaskIds DEF Mergeable, DoneIds, WithStatus
<1> HIDE DEF n, home
<1>9. \A i \in Ids(graph') : i[1] <= n BY <1>6, <1>7, <1>8
<1>10. \A i \in Ids(graph') : graph'[i].status \in {"pending", "done", "failed"}
  <2> SUFFICES ASSUME NEW i \in Ids(graph') PROVE graph'[i].status \in {"pending", "done"}
      OBVIOUS
  <2>1. CASE i \in DoneIds(graph) BY <1>6, <2>1 DEF DoneIds, WithStatus
  <2>2. CASE i \notin DoneIds(graph)
    <3>1. <<0, i[2]>> \in Ids(proposal') /\ i = home(<<0, i[2]>>) BY <1>6, <2>2
    <3>2. graph'[home(<<0, i[2]>>)].status = "pending" BY <1>6, <3>1
    <3> QED BY <3>1, <3>2
  <2> QED BY <2>1, <2>2
<1>11. \A i \in DoneIds(graph') : graph'[i].deps \subseteq DoneIds(graph') BY <1>6, <1>8
<1>12. ASSUME NEW i \in Ids(graph') \ DoneIds(graph'), NEW j \in Ids(graph') \ DoneIds(graph'),
              graph'[i].pos = graph'[j].pos
       PROVE  i = j
  <2>1. /\ i = home(<<0, i[2]>>) /\ <<0, i[2]>> \in Ids(proposal')
        /\ j = home(<<0, j[2]>>) /\ <<0, j[2]>> \in Ids(proposal')
        BY <1>6
  <2>2. proposal'[<<0, i[2]>>].pos = proposal'[<<0, j[2]>>].pos BY <1>6, <1>12, <2>1
  <2>3. Place[i[2]] = Place[j[2]] BY <1>2, <2>1, <2>2, AnswersAre
  <2>4. i[2] \in Names /\ j[2] \in Names BY TaskIds DEF Ids
  <2> QED BY <2>1, <2>3, <2>4, PlaceAssumption
<1> QED BY <1>2, <1>3, <1>4, <1>5, <1>9, <1>10, <1>11, <1>12 DEF History

\* The invariant of a graph's life.
LEMMA HistoryKept == HistorySpec => []History
<1>1. History /\ [HistoryNext]_pvars => History'
  <2> SUFFICES ASSUME History, [HistoryNext]_pvars PROVE History' OBVIOUS
  <2>1. CASE Finish BY <2>1, HistoryMarks DEF Finish
  <2>2. CASE GiveUp BY <2>2, HistoryMarks DEF GiveUp
  <2>3. CASE Replan BY <2>3, HistoryReplans
  <2>4. CASE UNCHANGED pvars BY <2>4 DEF pvars, History
  <2> QED BY <2>1, <2>2, <2>3, <2>4 DEF HistoryNext
<1> QED BY <1>1, HistoryStarts, PTL DEF HistorySpec

\* The validation of the planner's answers decides whether they are dags, for
\* any names and any dependencies.
THEOREM DagsAreAccepted == HistorySpec => []AcceptsExactlyDags
<1>1. History => AcceptsExactlyDags BY AnswersValid DEF History, AcceptsExactlyDags
<1> QED BY <1>1, HistoryKept, PTL

\* A history without a failed task has exactly one next task until all its
\* tasks are done: of the unfinished ones some wait for nothing.
THEOREM WorkIsAlwaysReachable == HistorySpec => []WorkRemainsReachable
<1>1. ASSUME History, Ids(graph) # {}, WithStatus(graph, "failed") = {}, ~ IsComplete(graph)
      PROVE  Cardinality(NextTask(graph)) = 1
  <2> DEFINE P == WithStatus(graph, "pending")
             pos == {graph[i].pos : i \in Executable(graph)}
  <2>1. P # {} /\ P = Ids(graph) \ DoneIds(graph)
        BY <1>1 DEF History, WithStatus, DoneIds, Ids, IsComplete
  <2>2. PICK i \in P : graph[i].deps \cap P = {}
        BY <1>1, <2>1 DEF History, Acyclic, Stuck
  <2>3. i \in Executable(graph)
        BY <1>1, <2>1, <2>2 DEF History, Closed, Executable
  <2>4. Executable(graph) \subseteq P /\ P \subseteq TaskId
        BY DEF Executable, WithStatus
  <2>5. pos \in SUBSET Nat /\ pos # {} BY <1>1, <2>3, <2>4 DEF History, Graph, Node
  <2>6. PICK least \in pos : \A m \in pos : least <= m BY <2>5, LeastNumber
  <2>7. PICK t \in Executable(graph) : graph[t].pos = least BY <2>6
  <2>8. NextTask(graph) = {t}
    <3>1. t \in NextTask(graph) BY <2>6, <2>7 DEF NextTask
    <3>2. ASSUME NEW u \in NextTask(graph) PROVE u = t
      <4>1. u \in Executable(graph) /\ graph[u].pos <= graph[t].pos BY <3>2 DEF NextTask
      <4>2. graph[u].pos \in Nat /\ graph[t].pos \in Nat BY <2>5, <2>7, <4>1
      <4>3. graph[u].pos = graph[t].pos BY <2>6, <2>7, <4>1, <4>2
      <4> QED BY <1>1, <2>1, <2>4, <2>7, <4>1, <4>3 DEF History
    <3> QED BY <3>1, <3>2
  <2> QED BY <2>8, FS_Singleton
<1>2. History => WorkRemainsReachable BY <1>1 DEF WorkRemainsReachable
<1> QED BY <1>2, HistoryKept, PTL

\* No replan loses a finished task or a task of the new plan, whatever ids the
\* plan reuses, and the dependencies of the plan are kept.
THEOREM ReplansLoseNothing == HistorySpec => ReplanLosesNothing
<1>1. ASSUME History, [HistoryNext]_pvars, replans' # replans
      PROVE  /\ \A t \in DoneIds(graph) : graph'[t] = graph[t]
             /\ \E home \in [Ids(proposal') -> Ids(graph') \ DoneIds(graph)] :
                  /\ \A j \in Ids(graph') \ DoneIds(graph) :
                       \E i \in DOMAIN home : home[i] = j
                  /\ \A i \in DOMAIN home :
                       graph'[home[i]].deps = {home[d] : d \in proposal'[i].deps}
  <2> DEFINE n == replans + 1
             home == [i \in Ids(proposal') |-> Renamed(graph, n, i)]
  <2>1. Replan BY <1>1 DEF HistoryNext, Finish, GiveUp, pvars
  <2>2. /\ Mergeable(graph, n) /\ PlainPlan(proposal') /\ n \in 1 .. MaxReplanCount
        /\ graph' = Merged(graph, n, proposal') /\ graph \in Graph
        BY <1>1, <2>1, HistoryMerges DEF History
  <2>3. /\ \A i \in DoneIds(graph) : graph'[i] = graph[i]
        /\ \A i \in Ids(proposal') :
             /\ home[i] \in TaskId \ DoneIds(graph)
             /\ graph'[home[i]].status = "pending"
             /\ graph'[home[i]].deps = {Renamed(graph, n, d) : d \in proposal'[i].deps}
        /\ \A j \in Ids(graph') \ DoneIds(graph) :
             <<0, j[2]>> \in Ids(proposal') /\ j = home[<<0, j[2]>>]
        BY <2>2, MergedTasks
  <2>4. \A i \in Ids(proposal') : proposal'[i].deps \subseteq Ids(proposal')
        BY <2>2 DEF PlainPlan, ValidDag
  <2>5. \A i \in Ids(proposal') : home[i] \in Ids(graph') \ DoneIds(graph)
        BY <2>3 DEF Ids
  <2>6. ASSUME NEW i \in Ids(proposal')
        PROVE  graph'[home[i]].deps = {home[d] : d \in proposal'[i].deps}
    <3>1. \A d \in proposal'[i].deps : home[d] = Renamed(graph, n, d) BY <2>4
    <3>2. {Renamed(graph, n, d) : d \in proposal'[i].deps} = {home[d] : d \in proposal'[i].deps}
          BY <3>1
    <3> QED BY <2>3, <3>2
  <2>7. home \in [Ids(proposal') -> Ids(graph') \ DoneIds(graph)] /\ DOMAIN home = Ids(proposal')
        BY <2>5
  <2>8. \A j \in Ids(graph') \ DoneIds(graph) : \E i \in DOMAIN home : home[i] = j
        BY <2>3, <2>7
  <2> HIDE DEF home
  <2>9. \E h \in [Ids(proposal') -> Ids(graph') \ DoneIds(graph)] :
          /\ \A j \in Ids(graph') \ DoneIds(graph) : \E i \in DOMAIN h : h[i] = j
          /\ \A i \in DOMAIN h : graph'[h[i]].deps = {h[d] : d \in proposal'[i].deps}
    <3> USE <2>7
    <3> WITNESS home \in [Ids(proposal') -> Ids(graph') \ DoneIds(graph)]
    <3> QED BY <2>6, <2>8
  <2> QED BY <2>3, <2>9
<1> QED BY <1>1, HistoryKept, PTL DEF HistorySpec, ReplanLosesNothing

=============================================================================
