--------------------------- MODULE GovernorProofs ---------------------------
(***************************************************************************)
(* The bound on active goals for any callers, goals and limit.  The slots  *)
(* that are held and the callers the limit has let pass, together, never   *)
(* exceed the limit by more than the other callers and the debt; an active *)
(* goal holds a slot or has given it back, and without failing calls the   *)
(* counter and the debt are together no less than the slots held.          *)
(***************************************************************************)
EXTENDS Governor, Functions, FiniteSetTheorems, TLAPS

USE GoalAssumption, FiniteAssumption, NumberAssumption

States == {"unused", "planning", "active", "paused", "over"}
Places == {"idle", "asking", "checking", "listing", "saving", "recording", "planning",
           "recording again"}
TickPlaces == {"none", "at work", "decr", "get", "set", "saving"}

AtWork(c) == pc[c] \in {"recording", "planning"}

\* A goal that runs, is paused or is ticked was recorded.
Recorded(g) ==
    /\ status[g] \in {"active", "paused"} \/ tick[g] # "none" =>
        g \in held \cup givenBack /\ status[g] # "unused"
    /\ status[g] = "unused" => g \notin held \cup givenBack

\* The goal of a creator is recorded once, and neither runs nor ends before
\* the creator is done with it.
Owned(c) ==
    AtWork(c) =>
        /\ status[mine[c]] \in {"planning", "over"}
        /\ tick[mine[c]] = "none"
        /\ mine[c] \notin givenBack
        /\ mine[c] \in held <=> pc[c] = "planning"

Slots ==
    /\ \A g \in Goals : Recorded(g)
    /\ \A c \in Creators : Owned(c)
    /\ \A c, d \in Creators : AtWork(c) /\ AtWork(d) /\ mine[c] = mine[d] => c = d

Counted ==
    troubles = 0 =>
        /\ Cardinality(held) <= count + debt
        /\ Cardinality(held) + Cardinality(InFlight) <= Limit + Cardinality(Creators) - 1 + debt

Inv == TypeOK /\ Slots /\ Counted

----------------------------------------------------------------------------
\* Cardinalities.

LEMMA Sizes ==
    ASSUME TypeOK
    PROVE  /\ IsFiniteSet(held) /\ Cardinality(held) \in Nat
           /\ IsFiniteSet(InFlight) /\ Cardinality(InFlight) \in Nat
           /\ Cardinality(Creators) \in Nat /\ Cardinality(Creators) >= 1
           /\ debt \in Nat /\ count \in Int
<1>1. held \in SUBSET Goals /\ InFlight \in SUBSET Creators
    BY DEF TypeOK, InFlight
<1>2. IsFiniteSet(held) /\ IsFiniteSet(InFlight)
    BY <1>1, FS_Subset
<1>3. Cardinality(Creators) # 0
    BY FS_EmptySet
<1>4. debt \in Nat /\ count \in Int
    BY DEF TypeOK
<1> QED
    BY <1>2, <1>3, <1>4, FS_CardinalityType

\* No more goals plan or run on their own slot than slots are held and
\* callers are in flight.
LEMMA AliveBounded == Inv => ActiveBounded
<1> SUFFICES ASSUME Inv, troubles = 0
             PROVE  Cardinality(Alive \ givenBack) <= Limit + Cardinality(Creators) - 1 + debt
    BY DEF ActiveBounded
<1> DEFINE R == {c \in Creators : pc[c] = "recording"}
           T == {mine[c] : c \in R}
           f == [c \in R |-> mine[c]]
           A == Alive \ givenBack
<1>1. R \in SUBSET InFlight /\ IsFiniteSet(InFlight)
    BY Sizes DEF InFlight, Inv
<1>2. IsFiniteSet(R) /\ Cardinality(R) <= Cardinality(InFlight)
    BY <1>1, FS_Subset
<1>3. f \in Surjection(R, T)
    BY DEF Surjection
<1>4. IsFiniteSet(T) /\ Cardinality(T) <= Cardinality(R)
    BY <1>2, <1>3, FS_Surjection
<1>5. A \in SUBSET (held \cup T)
    BY DEF Alive, Inv, Slots, Recorded, Owned, AtWork
<1> HIDE DEF R, T, f, A
<1>6. IsFiniteSet(held) /\ Cardinality(held) \in Nat /\ Cardinality(InFlight) \in Nat /\ debt \in Nat
    BY Sizes DEF Inv
<1>7. /\ IsFiniteSet(held \cup T) /\ IsFiniteSet(held \cap T)
      /\ Cardinality(held \cup T) = Cardinality(held) + Cardinality(T) - Cardinality(held \cap T)
    BY <1>4, <1>6, FS_Union, FS_Intersection
<1>8. Cardinality(A) <= Cardinality(held \cup T) /\ IsFiniteSet(A)
    BY <1>5, <1>7, FS_Subset
<1>9. /\ Cardinality(R) \in Nat /\ Cardinality(T) \in Nat /\ Cardinality(held \cap T) \in Nat
      /\ Cardinality(held \cup T) \in Nat /\ Cardinality(A) \in Nat /\ Cardinality(Creators) \in Nat
    BY <1>2, <1>4, <1>7, <1>8, FS_CardinalityType
<1>10. Cardinality(held) + Cardinality(InFlight) <= Limit + Cardinality(Creators) - 1 + debt
    BY DEF Inv, Counted
<1>11. Cardinality(A) <= Limit + Cardinality(Creators) - 1 + debt
    BY <1>2, <1>4, <1>6, <1>7, <1>8, <1>9, <1>10
<1> QED
    BY <1>11 DEF A

LEMMA Started == Init => Inv
<1> SUFFICES ASSUME Init PROVE Inv
    OBVIOUS
<1>1. TypeOK
    BY DEF Init, TypeOK
<1>2. Slots
    BY DEF Init, Slots, Recorded, Owned, AtWork
<1>3. Counted
    <2>1. held = {} /\ InFlight = {}
        BY DEF Init, InFlight
    <2>2. Cardinality(held) = 0 /\ Cardinality(InFlight) = 0
        BY <2>1, FS_EmptySet
    <2>3. Cardinality(Creators) \in Nat /\ Cardinality(Creators) >= 1
        BY <1>1, Sizes
    <2> QED
        BY <2>2, <2>3 DEF Init, Counted
<1> QED
    BY <1>1, <1>2, <1>3 DEF Inv

----------------------------------------------------------------------------
\* What a call that answers and a call that fails do to the fault count.
LEMMA Faults ==
    ASSUME Inv
    PROVE  /\ troubles \in 0 .. MaxTroubles /\ count \in Int /\ count + 1 \in Int
           /\ Goes => troubles' = troubles
           /\ Fails => troubles' \in 0 .. MaxTroubles /\ troubles' # 0
<1>1. troubles \in 0 .. MaxTroubles /\ count \in Int
    BY DEF Inv, TypeOK
<1> QED
    BY <1>1 DEF Goes, Fails

----------------------------------------------------------------------------
\* What callers do.

\* A step of a caller that leaves goals and counter alone and makes nobody
\* work on a goal keeps the slots; the bound then depends on the callers the
\* limit has let pass.
LEMMA CallerFrame ==
    ASSUME Inv, NEW c \in Creators, NEW place \in Places \ {"recording", "planning"},
           pc' = [pc EXCEPT ![c] = place], UNCHANGED <<status, held, givenBack, tick, mine>>
    PROVE  /\ pc' \in [Creators -> Places]
           /\ Slots'
           /\ place \notin {"listing", "saving"} => InFlight' = InFlight \ {c}
           /\ place \in {"listing", "saving"} => InFlight' = InFlight \cup {c}
<1>1. /\ pc' \in [Creators -> Places]
      /\ pc'[c] = place
      /\ \A d \in Creators \ {c} : pc'[d] = pc[d]
    BY DEF Places, Inv, TypeOK
<1>2. \A d \in Creators : AtWork(d)' => d # c /\ AtWork(d) /\ pc'[d] = pc[d]
    BY <1>1 DEF AtWork
<1>3. Slots'
    <2>1. \A g \in Goals : Recorded(g)'
        BY DEF Inv, Slots, Recorded
    <2>2. \A d \in Creators : Owned(d)'
        BY <1>2 DEF Inv, Slots, Owned
    <2>3. \A d, e \in Creators : AtWork(d)' /\ AtWork(e)' /\ mine'[d] = mine'[e] => d = e
        BY <1>2 DEF Inv, Slots
    <2> QED
        BY <2>1, <2>2, <2>3 DEF Slots
<1>4. place \notin {"listing", "saving"} => InFlight' = InFlight \ {c}
    BY <1>1 DEF InFlight, Places
<1>5. place \in {"listing", "saving"} => InFlight' = InFlight \cup {c}
    BY <1>1 DEF InFlight
<1> QED
    BY <1>1, <1>3, <1>4, <1>5

\* Fewer callers in flight, and a counter at least as high.
LEMMA CountedStays ==
    ASSUME Inv, InFlight' \subseteq InFlight, UNCHANGED <<held, debt>>,
           \/ count' = count /\ troubles' = troubles
           \/ count' = count + 1 /\ troubles' = troubles
           \/ Fails
    PROVE  Counted'
<1>1. IsFiniteSet(InFlight) /\ Cardinality(InFlight) \in Nat /\ Cardinality(held) \in Nat
      /\ Cardinality(Creators) \in Nat /\ debt \in Nat
    BY Sizes DEF Inv
<1>2. IsFiniteSet(InFlight') /\ Cardinality(InFlight') <= Cardinality(InFlight)
    BY <1>1, FS_Subset
<1>3. Cardinality(InFlight)' <= Cardinality(InFlight) /\ Cardinality(InFlight)' \in Nat
    BY <1>2, FS_CardinalityType
<1>4. count \in Int /\ (troubles' = 0 => troubles = 0 /\ count' \in Int /\ count' >= count)
    BY Faults
<1> QED
    BY <1>1, <1>2, <1>3, <1>4 DEF Inv, Counted

\* A step of a caller that is let pass nowhere.
LEMMA TurnedAway ==
    ASSUME Inv, NEW c \in Creators,
           NEW place \in {"idle", "asking", "checking", "recording again"},
           pc' = [pc EXCEPT ![c] = place], chat' \subseteq chat \cup {c},
           UNCHANGED <<status, tick, slots, mine>>, Goes \/ Fails,
           \/ count' = count
           \/ Goes /\ count' = count + 1
    PROVE  Inv'
<1>1. UNCHANGED <<held, givenBack, debt>> /\ place \in Places \ {"recording", "planning"}
    BY DEF slots, Places
<1>2. Slots' /\ InFlight' = InFlight \ {c} /\ pc' \in [Creators -> Places]
    BY <1>1, CallerFrame
<1>3. pc'[c] = place /\ \A d \in Creators \ {c} : pc'[d] = pc[d]
    BY DEF Inv, TypeOK
<1>4. TypeOK'
    <2>1. troubles' \in 0 .. MaxTroubles
        BY Faults
    <2>2. count' \in Int
        <3>1. count \in Int /\ count + 1 \in Int
            BY Faults
        <3> QED
            BY <3>1
    <2> QED
        BY <1>1, <1>2, <1>3, <2>1, <2>2 DEF Inv, TypeOK, Places
<1>5. Counted'
    BY <1>1, <1>2, CountedStays DEF Goes
<1> QED
    BY <1>2, <1>4, <1>5 DEF Inv

LEMMA AskInv == ASSUME Inv, NEW c \in Creators, Ask(c) PROVE Inv'
<1>1. PICK place \in {"asking", "checking"} :
        pc' = [pc EXCEPT ![c] = place] /\ chat' \subseteq chat \cup {c}
    BY DEF Ask, To
<1> QED
    BY <1>1, TurnedAway DEF Ask, Goes

LEMMA HandlerChecksInv == ASSUME Inv, NEW c \in Creators, HandlerChecks(c) PROVE Inv'
<1>1. PICK answer \in BOOLEAN : CheckAllow(answer) /\ To(c, IF answer THEN "checking" ELSE "idle")
    BY DEF HandlerChecks
<1>2. Goes \/ Fails
    BY <1>1 DEF CheckAllow
<1>3. PICK place \in {"checking", "idle"} :
        pc' = [pc EXCEPT ![c] = place] /\ chat' \subseteq chat \cup {c}
    BY <1>1 DEF To
<1> QED
    BY <1>2, <1>3, TurnedAway DEF HandlerChecks

LEMMA ReturnsSteps ==
    ASSUME NEW c \in Creators, Returns(c)
    PROVE  \E place \in {"idle", "recording again"} :
             pc' = [pc EXCEPT ![c] = place] /\ chat' \subseteq chat \cup {c}
BY DEF Returns, To

LEMMA CheckInv == ASSUME Inv, NEW c \in Creators, Check(c) PROVE Inv'
<1>1. PICK answer \in BOOLEAN : CheckAllow(answer) /\ IF answer THEN To(c, "listing") ELSE Returns(c)
    BY DEF Check
<1>2. Goes \/ Fails
    BY <1>1 DEF CheckAllow
<1>3. CASE ~answer
    <2>1. PICK place \in {"idle", "recording again"} :
            pc' = [pc EXCEPT ![c] = place] /\ chat' \subseteq chat \cup {c}
        BY <1>1, <1>3, ReturnsSteps
    <2> QED
        BY <1>2, <2>1, TurnedAway DEF Check
<1>4. CASE answer
    <2>1. pc' = [pc EXCEPT ![c] = "listing"] /\ chat' = chat /\ "listing" \in Places
        BY <1>1, <1>4 DEF To, Places
    <2>2. UNCHANGED <<count, status, held, givenBack, debt, tick, mine>>
        BY DEF Check, slots
    <2>3. /\ Slots' /\ InFlight' = InFlight \cup {c}
          /\ pc' \in [Creators -> Places]
        BY <2>1, <2>2, CallerFrame
    <2>4. pc'[c] = "listing" /\ \A d \in Creators \ {c} : pc'[d] = pc[d]
        BY <2>1 DEF Inv, TypeOK
    <2>5. TypeOK'
        <3>1. troubles' \in 0 .. MaxTroubles
            BY <1>2, Faults
        <3> QED
            BY <2>1, <2>2, <2>3, <2>4, <3>1 DEF Inv, TypeOK, Places
    <2>6. Counted'
        <3> SUFFICES ASSUME troubles' = 0 PROVE Counted'
            BY DEF Counted
        <3>1. troubles = 0 /\ count < Limit
            BY <1>1, <1>4, Faults DEF CheckAllow, Allows
        <3>2. Cardinality(held) <= count + debt
            BY <3>1 DEF Inv, Counted
        <3>3. Cardinality(held) \in Nat /\ count \in Int /\ Cardinality(Creators) \in Nat /\ debt \in Nat
            BY Sizes DEF Inv
        <3>4. Cardinality(InFlight)' <= Cardinality(Creators) /\ Cardinality(InFlight)' \in Nat
            <4>1. InFlight' \in SUBSET Creators
                BY DEF InFlight
            <4>2. IsFiniteSet(InFlight') /\ Cardinality(InFlight') <= Cardinality(Creators)
                BY <4>1, FS_Subset
            <4> QED
                BY <4>2, FS_CardinalityType
        <3>5. Cardinality(held) + Cardinality(InFlight)' <= Limit + Cardinality(Creators) - 1 + debt
            BY <3>1, <3>2, <3>3, <3>4
        <3> QED
            BY <2>2, <3>2, <3>5 DEF Counted
    <2> QED
        BY <2>3, <2>5, <2>6 DEF Inv
<1> QED
    BY <1>3, <1>4

LEMMA LooksInv == ASSUME Inv, NEW c \in Creators, LooksForDuplicate(c) PROVE Inv'
<1>1. CASE To(c, "saving")
    <2>1. pc' = [pc EXCEPT ![c] = "saving"] /\ chat' = chat /\ "saving" \in Places
        BY <1>1 DEF To, Places
    <2>2. UNCHANGED <<count, status, held, givenBack, debt, tick, mine, troubles>>
        BY DEF LooksForDuplicate, slots
    <2>3. /\ Slots' /\ InFlight' = InFlight \cup {c}
          /\ pc' \in [Creators -> Places]
        BY <2>1, <2>2, CallerFrame
    <2>4. InFlight' = InFlight
        BY <2>3 DEF LooksForDuplicate, InFlight
    <2>5. pc'[c] = "saving" /\ \A d \in Creators \ {c} : pc'[d] = pc[d]
        BY <2>1 DEF Inv, TypeOK
    <2>6. TypeOK'
        BY <2>1, <2>2, <2>3, <2>5 DEF Inv, TypeOK, Places
    <2>7. Counted'
        BY <2>2, <2>4, CountedStays
    <2> QED
        BY <2>3, <2>6, <2>7 DEF Inv
<1>2. CASE Returns(c)
    <2>1. PICK place \in {"idle", "recording again"} :
            pc' = [pc EXCEPT ![c] = place] /\ chat' \subseteq chat \cup {c}
        BY <1>2, ReturnsSteps
    <2> QED
        BY <2>1, TurnedAway DEF LooksForDuplicate, Goes
<1> QED
    BY <1>1, <1>2 DEF LooksForDuplicate

LEMMA HandlerRecordsInv == ASSUME Inv, NEW c \in Creators, HandlerRecords(c) PROVE Inv'
<1>1. Goes \/ Fails
    BY DEF HandlerRecords, RecordAction
<1>2. count' = count \/ (Goes /\ count' = count + 1)
    BY DEF HandlerRecords, RecordAction
<1>3. pc' = [pc EXCEPT ![c] = "idle"] /\ chat' \subseteq chat \cup {c}
    BY DEF HandlerRecords, To
<1> QED
    BY <1>1, <1>2, <1>3, TurnedAway DEF HandlerRecords

LEMMA SaveInv == ASSUME Inv, NEW c \in Creators, NEW g \in Goals, Save(c, g) PROVE Inv'
<1>1. /\ pc'[c] = "recording" /\ mine'[c] = g /\ status'[g] = "planning"
      /\ \A d \in Creators \ {c} : pc'[d] = pc[d] /\ mine'[d] = mine[d]
      /\ \A h \in Goals \ {g} : status'[h] = status[h]
    BY DEF Save, To, Inv, TypeOK
<1>2. /\ pc[c] = "saving" /\ status[g] = "unused" /\ chat' = chat
      /\ UNCHANGED <<count, tick, held, givenBack, debt, troubles>>
    BY DEF Save, To, slots
<1>3. tick[g] = "none" /\ g \notin held \cup givenBack
    BY <1>2 DEF Inv, Slots, Recorded
<1>4. \A d \in Creators : AtWork(d) => d # c /\ mine[d] # g /\ mine[d] \in Goals
    BY <1>2 DEF Inv, TypeOK, Slots, Owned, AtWork
<1>5. TypeOK'
    <2>1. /\ pc' \in [Creators -> Places]
          /\ mine' \in [Creators -> Goals \cup {NoGoal}]
          /\ status' \in [Goals -> States]
        BY DEF Save, To, Inv, TypeOK, Places, States
    <2>2. \A d \in Creators : pc'[d] \in {"recording", "planning"} => mine'[d] \in Goals
        BY <1>1 DEF Inv, TypeOK
    <2> QED
        BY <1>2, <2>1, <2>2 DEF Inv, TypeOK, Places, States
<1>6. Slots'
    <2>1. \A d \in Creators : AtWork(d)' =>
            d = c \/ (AtWork(d) /\ mine'[d] = mine[d] /\ pc'[d] = pc[d] /\ d # c)
        BY <1>1 DEF AtWork
    <2>2. \A h \in Goals : Recorded(h)'
        BY <1>1, <1>2, <1>3 DEF Inv, Slots, Recorded
    <2>3. ASSUME NEW d \in Creators PROVE Owned(d)'
        <3>1. CASE d = c
            BY <1>1, <1>2, <1>3, <3>1 DEF Owned
        <3>2. CASE d # c
            <4> SUFFICES ASSUME AtWork(d)' PROVE Owned(d)'
                BY DEF Owned
            <4>1. AtWork(d) /\ mine'[d] = mine[d] /\ pc'[d] = pc[d] /\ mine[d] # g /\ mine[d] \in Goals
                BY <1>4, <2>1, <3>2
            <4>2. status'[mine[d]] = status[mine[d]]
                BY <1>1, <4>1
            <4> QED
                BY <1>2, <4>1, <4>2 DEF Inv, Slots, Owned
        <3> QED
            BY <3>1, <3>2
    <2>4. \A d, e \in Creators : AtWork(d)' /\ AtWork(e)' /\ mine'[d] = mine'[e] => d = e
        BY <1>1, <1>4, <2>1 DEF Inv, Slots
    <2> QED
        BY <2>2, <2>3, <2>4 DEF Slots
<1>7. InFlight' \subseteq InFlight
    BY <1>1, <1>2 DEF InFlight
<1>8. Counted'
    BY <1>2, <1>7, CountedStays
<1> QED
    BY <1>5, <1>6, <1>8 DEF Inv

LEMMA RecordInv == ASSUME Inv, NEW c \in Creators, Record(c) PROVE Inv'
<1>1. /\ pc[c] = "recording" /\ pc'[c] = "planning" /\ chat' = chat
      /\ \A d \in Creators \ {c} : pc'[d] = pc[d]
      /\ held' = held \cup {mine[c]}
      /\ UNCHANGED <<status, mine, tick, givenBack, debt>>
    BY DEF Record, To, Inv, TypeOK
<1>2. mine[c] \in Goals /\ mine[c] \notin held
    BY <1>1 DEF Inv, TypeOK, Slots, Owned, AtWork
<1>3. TypeOK'
    <2>1. Goes \/ Fails
        BY DEF Record, RecordAction
    <2>2. count' \in Int
        BY Faults DEF Record, RecordAction
    <2>3. pc' \in [Creators -> Places]
        BY DEF Record, To, Inv, TypeOK, Places
    <2>4. \A d \in Creators : pc'[d] \in {"recording", "planning"} => mine'[d] \in Goals
        BY <1>1, <1>2 DEF Inv, TypeOK
    <2>5. troubles' \in 0 .. MaxTroubles
        BY <2>1, Faults
    <2> QED
        BY <1>1, <1>2, <2>2, <2>3, <2>4, <2>5 DEF Inv, TypeOK, Places
<1>4. Slots'
    <2>1. \A d \in Creators : AtWork(d)' <=> AtWork(d)
        BY <1>1 DEF AtWork
    <2>2. \A d \in Creators : AtWork(d) /\ mine[d] = mine[c] => d = c
        BY <1>1 DEF Inv, Slots, AtWork
    <2>3. status[mine[c]] # "unused"
        BY <1>1 DEF Inv, Slots, Owned, AtWork
    <2>4. \A d \in Creators : Owned(d)'
        BY <1>1, <2>1, <2>2 DEF Inv, Slots, Owned
    <2>5. \A d, e \in Creators : AtWork(d)' /\ AtWork(e)' /\ mine'[d] = mine'[e] => d = e
        BY <1>1, <2>1 DEF Inv, Slots
    <2>6. \A h \in Goals : Recorded(h)'
        BY <1>1, <2>3 DEF Inv, Slots, Recorded
    <2> QED
        BY <2>4, <2>5, <2>6 DEF Slots
<1>5. Counted'
    <2> SUFFICES ASSUME troubles' = 0 PROVE Counted'
        BY DEF Counted
    <2>1. troubles = 0 /\ count' = count + 1 /\ count \in Int
        BY Faults DEF Record, RecordAction
    <2>2. IsFiniteSet(held) /\ IsFiniteSet(InFlight) /\ c \in InFlight
        BY <1>1, Sizes DEF Inv, InFlight
    <2>3. InFlight' = InFlight \ {c}
        BY <1>1 DEF InFlight
    <2>4. Cardinality(held)' = Cardinality(held) + 1
        BY <1>1, <1>2, <2>2, FS_AddElement
    <2>5. Cardinality(InFlight)' = Cardinality(InFlight) - 1
        BY <2>2, <2>3, FS_RemoveElement
    <2>6. Cardinality(held) \in Nat /\ Cardinality(InFlight) \in Nat /\ Cardinality(Creators) \in Nat
          /\ debt \in Nat
        BY Sizes DEF Inv
    <2>7. /\ Cardinality(held) <= count + debt
          /\ Cardinality(held) + Cardinality(InFlight) <= Limit + Cardinality(Creators) - 1 + debt
        BY <2>1 DEF Inv, Counted
    <2> QED
        BY <1>1, <2>1, <2>4, <2>5, <2>6, <2>7 DEF Counted
<1> QED
    BY <1>3, <1>4, <1>5 DEF Inv

LEMMA PlanInv == ASSUME Inv, NEW c \in Creators, Plan(c) PROVE Inv'
<1>1. PICK place \in {"idle", "recording again"} :
        pc' = [pc EXCEPT ![c] = place] /\ chat' \subseteq chat \cup {c}
    BY ReturnsSteps DEF Plan, To
<1>2. /\ pc[c] = "planning" /\ pc'[c] = place
      /\ \A d \in Creators \ {c} : pc'[d] = pc[d] /\ mine'[d] = mine[d]
      /\ mine' = [mine EXCEPT ![c] = NoGoal]
      /\ UNCHANGED <<count, tick, held, givenBack, debt, troubles>>
    BY <1>1 DEF Plan, slots, Inv, TypeOK
<1>3. mine[c] \in Goals /\ mine[c] \in held /\ tick[mine[c]] = "none" /\ status[mine[c]] # "unused"
    BY <1>2 DEF Inv, TypeOK, Slots, Owned, AtWork
<1>4. /\ status' \in [Goals -> States]
      /\ status'[mine[c]] # "unused"
      /\ \A h \in Goals \ {mine[c]} : status'[h] = status[h]
    <2>1. status \in [Goals -> States]
        BY DEF Inv, TypeOK, States
    <2>2. CASE status' = status
        BY <1>3, <2>1, <2>2
    <2>3. ASSUME NEW st \in {"active", "over"}, status' = [status EXCEPT ![mine[c]] = st]
          PROVE  /\ status' \in [Goals -> States]
                 /\ status'[mine[c]] # "unused"
                 /\ \A h \in Goals \ {mine[c]} : status'[h] = status[h]
        BY <1>3, <2>1, <2>3 DEF States
    <2> QED
        BY <2>2, <2>3 DEF Plan
<1>5. TypeOK'
    <2>1. pc' \in [Creators -> Places] /\ mine' \in [Creators -> Goals \cup {NoGoal}]
        BY <1>1, <1>2 DEF Inv, TypeOK, Places
    <2>2. \A d \in Creators : pc'[d] \in {"recording", "planning"} => mine'[d] \in Goals
        BY <1>2 DEF Inv, TypeOK
    <2> QED
        BY <1>1, <1>2, <1>4, <2>1, <2>2 DEF Inv, TypeOK, Places, States
<1>6. Slots'
    <2>1. \A d \in Creators : AtWork(d)' => AtWork(d) /\ d # c /\ pc'[d] = pc[d] /\ mine'[d] = mine[d]
        BY <1>2 DEF AtWork
    <2>2. \A d \in Creators : AtWork(d) /\ d # c => mine[d] # mine[c] /\ mine[d] \in Goals
        BY <1>2 DEF Inv, Slots, AtWork, TypeOK
    <2>3. ASSUME NEW d \in Creators, AtWork(d)' PROVE Owned(d)'
        <3>1. AtWork(d) /\ mine[d] # mine[c] /\ mine[d] \in Goals /\ pc'[d] = pc[d] /\ mine'[d] = mine[d]
            BY <2>1, <2>2, <2>3
        <3>2. status'[mine[d]] = status[mine[d]]
            BY <1>4, <3>1
        <3>3. Owned(d)
            BY DEF Inv, Slots
        <3>4. UNCHANGED <<tick, held, givenBack>>
            BY <1>2
        <3> QED
            BY <3>1, <3>2, <3>3, <3>4 DEF Owned
    <2>4. \A d \in Creators : Owned(d)'
        BY <2>3 DEF Owned
    <2>5. \A d, e \in Creators : AtWork(d)' /\ AtWork(e)' /\ mine'[d] = mine'[e] => d = e
        BY <2>1 DEF Inv, Slots
    <2>6. ASSUME NEW h \in Goals PROVE Recorded(h)'
        <3>1. CASE h = mine[c]
            BY <1>2, <1>3, <1>4, <3>1 DEF Recorded
        <3>2. CASE h # mine[c]
            BY <1>2, <1>4, <3>2 DEF Inv, Slots, Recorded
        <3> QED
            BY <3>1, <3>2
    <2> QED
        BY <2>4, <2>5, <2>6 DEF Slots
<1>7. InFlight' \subseteq InFlight
    BY <1>2 DEF InFlight
<1>8. Counted'
    BY <1>2, <1>7, CountedStays
<1> QED
    BY <1>5, <1>6, <1>8 DEF Inv

----------------------------------------------------------------------------
\* The life of a goal.

\* A goal that runs, is paused or is ticked was recorded, and no caller is at
\* work on it.
LEMMA Running ==
    ASSUME Inv, NEW g \in Goals, status[g] \in {"active", "paused"} \/ tick[g] # "none"
    PROVE  /\ g \in held \cup givenBack
           /\ status[g] # "unused"
           /\ \A c \in Creators : AtWork(c) => mine[c] # g
BY DEF Inv, Slots, Recorded, Owned

\* Such a goal may change its state, its tick, and give its slot back.
LEMMA GoalFrame ==
    ASSUME Inv, NEW g \in Goals, status[g] \in {"active", "paused"} \/ tick[g] # "none",
           UNCHANGED <<pc, mine>>,
           \A h \in Goals \ {g} : status'[h] = status[h] /\ tick'[h] = tick[h],
           status'[g] # "unused", g \in held' \cup givenBack',
           \A h \in Goals \ {g} : (h \in held' <=> h \in held) /\ (h \in givenBack' <=> h \in givenBack)
    PROVE  Slots'
<1>1. g \in held \cup givenBack /\ \A c \in Creators : AtWork(c) => mine[c] # g /\ mine[c] \in Goals
    BY Running DEF Inv, TypeOK, AtWork
<1>2. ASSUME NEW h \in Goals PROVE Recorded(h)'
    <2>1. CASE h = g
        BY <2>1 DEF Recorded
    <2>2. CASE h # g
        BY <2>2 DEF Recorded, Inv, Slots
    <2> QED
        BY <2>1, <2>2
<1>3. \A c \in Creators : AtWork(c)' <=> AtWork(c)
    BY DEF AtWork
<1>4. ASSUME NEW c \in Creators, AtWork(c) PROVE Owned(c)'
    <2>1. mine[c] # g /\ mine[c] \in Goals /\ mine'[c] = mine[c] /\ pc'[c] = pc[c]
        BY <1>1, <1>4
    <2>2. /\ status'[mine[c]] = status[mine[c]] /\ tick'[mine[c]] = tick[mine[c]]
          /\ mine[c] \in held' <=> mine[c] \in held
          /\ mine[c] \in givenBack' <=> mine[c] \in givenBack
        BY <2>1
    <2>3. Owned(c)
        BY DEF Inv, Slots
    <2> QED
        BY <1>4, <2>1, <2>2, <2>3 DEF Owned
<1>5. \A c \in Creators : Owned(c)'
    BY <1>3, <1>4 DEF Owned
<1>6. \A c, d \in Creators : AtWork(c)' /\ AtWork(d)' /\ mine'[c] = mine'[d] => c = d
    BY <1>3 DEF Inv, Slots
<1> QED
    BY <1>2, <1>5, <1>6 DEF Slots

\* Steps that leave counter and slots alone.
LEMMA QuietInv ==
    ASSUME Inv, NEW g \in Goals,
           \/ TickStarts(g) \/ TickSaves(g) \/ EndsInTick(g) \/ ReleaseGet(g) \/ SaveEnd(g)
           \/ Pause(g) \/ Resume(g)
    PROVE  Inv'
<1>1. UNCHANGED <<count, pc, mine, chat, held, givenBack, debt, troubles>>
    BY DEF TickStarts, TickSaves, EndsInTick, ReleaseGet, SaveEnd, Pause, Resume, creators, slots
<1>2. status[g] \in {"active", "paused"} \/ tick[g] # "none"
    BY DEF TickStarts, TickSaves, EndsInTick, ReleaseGet, SaveEnd, Pause, Resume
<1>3. g \in held \cup givenBack /\ status[g] # "unused"
    BY <1>2, Running
<1>4. /\ status' \in [Goals -> States] /\ status'[g] # "unused"
      /\ \A h \in Goals \ {g} : status'[h] = status[h]
    <2>1. status \in [Goals -> States]
        BY DEF Inv, TypeOK, States
    <2>2. status' = status \/ \E s \in {"active", "paused", "over"} : status' = [status EXCEPT ![g] = s]
        BY DEF TickStarts, TickSaves, EndsInTick, ReleaseGet, SaveEnd, Pause, Resume
    <2> QED
        BY <1>3, <2>1, <2>2 DEF States
<1>5. tick' \in [Goals -> TickPlaces] /\ \A h \in Goals \ {g} : tick'[h] = tick[h]
    <2>1. tick \in [Goals -> TickPlaces]
        BY DEF Inv, TypeOK, TickPlaces
    <2>2. tick' = tick \/ \E t \in TickPlaces : tick' = [tick EXCEPT ![g] = t]
        BY DEF TickStarts, TickSaves, EndsInTick, ReleaseGet, SaveEnd, Pause, Resume, TickPlaces
    <2> QED
        BY <2>1, <2>2
<1>6. TypeOK'
    BY <1>1, <1>4, <1>5 DEF Inv, TypeOK, States, TickPlaces
<1>7. Slots'
    BY <1>1, <1>2, <1>3, <1>4, <1>5, GoalFrame
<1>8. Counted'
    BY <1>1 DEF Inv, Counted, InFlight
<1> QED
    BY <1>6, <1>7, <1>8 DEF Inv

LEMMA ReleaseDecrInv == ASSUME Inv, NEW g \in Goals, ReleaseDecr(g) PROVE Inv'
<1>1. UNCHANGED <<status, pc, mine, chat>> /\ tick[g] # "none"
    BY DEF ReleaseDecr, creators
<1>2. g \in held \cup givenBack /\ status[g] # "unused"
    BY <1>1, Running
<1>3. tick' \in [Goals -> TickPlaces] /\ \A h \in Goals \ {g} : tick'[h] = tick[h]
    BY DEF ReleaseDecr, Inv, TypeOK, TickPlaces
<1>4. CASE Fails
    <2>1. UNCHANGED <<held, givenBack, debt>> /\ (count' = count \/ ~Goes)
        <3>1. ~Goes
            BY <1>4, Faults DEF Fails, Goes
        <3> QED
            BY <3>1 DEF ReleaseDecr, slots
    <2>2. count' = count
        BY <1>4, Faults DEF ReleaseDecr, Fails, Goes
    <2>3. Slots'
        BY <1>1, <1>2, <1>3, <2>1, GoalFrame
    <2>4. TypeOK'
        BY <1>1, <1>3, <1>4, <2>1, <2>2, Faults DEF Inv, TypeOK, TickPlaces
    <2>5. Counted'
        BY <1>4, Faults DEF Counted
    <2> QED
        BY <2>3, <2>4, <2>5 DEF Inv
<1>5. CASE Goes
    <2>1. /\ count' = count - 1 /\ held' = held \ {g} /\ givenBack' = givenBack \cup {g}
          /\ debt' = IF g \in held THEN debt ELSE debt + 1
          /\ troubles' = troubles
        BY <1>5, Faults DEF ReleaseDecr, Fails, Goes
    <2>2. Slots'
        BY <1>1, <1>2, <1>3, <2>1, GoalFrame
    <2>3. /\ Cardinality(held) \in Nat /\ IsFiniteSet(held) /\ count \in Int /\ debt \in Nat
          /\ Cardinality(InFlight) \in Nat /\ Cardinality(Creators) \in Nat
        BY Sizes DEF Inv
    <2>4. TypeOK'
        <3>1. count' \in Int /\ debt' \in Nat
            BY <2>1, <2>3
        <3> QED
            BY <1>1, <1>3, <2>1, <3>1 DEF Inv, TypeOK, TickPlaces
    <2>5. Counted'
        <3> SUFFICES ASSUME troubles' = 0 PROVE Counted'
            BY DEF Counted
        <3>1. /\ Cardinality(held) <= count + debt
              /\ Cardinality(held) + Cardinality(InFlight) <= Limit + Cardinality(Creators) - 1 + debt
            BY <2>1 DEF Inv, Counted
        <3>2. InFlight' = InFlight
            BY <1>1 DEF InFlight
        <3>3. CASE g \in held
            <4>1. Cardinality(held)' = Cardinality(held) - 1
                BY <2>1, <2>3, <3>3, FS_RemoveElement
            <4> QED
                BY <2>1, <2>3, <3>1, <3>2, <3>3, <4>1 DEF Counted
        <3>4. CASE g \notin held
            <4>1. held' = held /\ debt' = debt + 1
                BY <2>1, <3>4
            <4> QED
                BY <2>1, <2>3, <3>1, <3>2, <4>1 DEF Counted
        <3> QED
            BY <3>3, <3>4
    <2> QED
        BY <2>2, <2>4, <2>5 DEF Inv
<1> QED
    BY <1>4, <1>5 DEF ReleaseDecr

LEMMA ReleaseSetInv == ASSUME Inv, NEW g \in Goals, ReleaseSet(g) PROVE Inv'
<1>1. /\ UNCHANGED <<status, pc, mine, chat, held, givenBack, troubles>> /\ tick[g] # "none"
      /\ count' = 0 /\ debt' = IF count > 0 THEN debt + count ELSE debt
    BY DEF ReleaseSet, creators
<1>2. g \in held \cup givenBack /\ status[g] # "unused"
    BY <1>1, Running
<1>3. tick' \in [Goals -> TickPlaces] /\ \A h \in Goals \ {g} : tick'[h] = tick[h]
    BY DEF ReleaseSet, Inv, TypeOK, TickPlaces
<1>4. /\ Cardinality(held) \in Nat /\ count \in Int /\ debt \in Nat
      /\ Cardinality(InFlight) \in Nat /\ Cardinality(Creators) \in Nat
    BY Sizes DEF Inv
<1>5. count' \in Int /\ debt' \in Nat /\ debt' >= debt /\ count' + debt' >= count + debt
    BY <1>1, <1>4
<1>6. TypeOK'
    BY <1>1, <1>3, <1>5 DEF Inv, TypeOK, TickPlaces
<1>7. Slots'
    BY <1>1, <1>2, <1>3, GoalFrame
<1>8. Counted'
    <2> SUFFICES ASSUME troubles' = 0 PROVE Counted'
        BY DEF Counted
    <2>1. /\ Cardinality(held) <= count + debt
          /\ Cardinality(held) + Cardinality(InFlight) <= Limit + Cardinality(Creators) - 1 + debt
        BY <1>1 DEF Inv, Counted
    <2>2. InFlight' = InFlight
        BY <1>1 DEF InFlight
    <2> QED
        BY <1>1, <1>4, <1>5, <2>1, <2>2 DEF Counted
<1> QED
    BY <1>6, <1>7, <1>8 DEF Inv

LEMMA ByHandInv == ASSUME Inv, NEW g \in Goals, EndsByHand(g) PROVE Inv'
<1>1. /\ UNCHANGED <<count, pc, mine, chat, tick, held, givenBack, debt, troubles>>
      /\ status[g] # "unused" /\ status' = [status EXCEPT ![g] = "over"]
    BY DEF EndsByHand, creators, slots
<1>2. /\ status' \in [Goals -> States] /\ status'[g] = "over"
      /\ \A h \in Goals \ {g} : status'[h] = status[h]
    BY <1>1 DEF Inv, TypeOK, States
<1>3. TypeOK'
    BY <1>1, <1>2 DEF Inv, TypeOK, States
<1>4. Slots'
    <2>1. \A h \in Goals : Recorded(h)'
        BY <1>1, <1>2 DEF Inv, Slots, Recorded
    <2>2. \A c \in Creators : (AtWork(c)' <=> AtWork(c)) /\ (AtWork(c) => mine[c] \in Goals)
        BY <1>1 DEF AtWork, Inv, TypeOK
    <2>3. ASSUME NEW c \in Creators, AtWork(c) PROVE Owned(c)'
        <3>1. status'[mine[c]] \in {"planning", "over"}
            BY <1>2, <2>2, <2>3 DEF Inv, Slots, Owned
        <3> QED
            BY <1>1, <2>3, <3>1 DEF Inv, Slots, Owned
    <2>4. \A c \in Creators : Owned(c)'
        BY <2>2, <2>3 DEF Owned
    <2>5. \A c, d \in Creators : AtWork(c)' /\ AtWork(d)' /\ mine'[c] = mine'[d] => c = d
        BY <1>1, <2>2 DEF Inv, Slots
    <2> QED
        BY <2>1, <2>4, <2>5 DEF Slots
<1>5. Counted'
    BY <1>1 DEF Inv, Counted, InFlight
<1> QED
    BY <1>3, <1>4, <1>5 DEF Inv

----------------------------------------------------------------------------
\* Expiry, and a crash.

LEMMA ExpireInv == ASSUME Inv, Expire PROVE Inv'
<1>1. /\ count' = 0 /\ held' = {} /\ givenBack' = givenBack \cup held
      /\ UNCHANGED <<status, pc, mine, chat, tick, debt, troubles>>
      /\ \A c \in Creators : pc[c] # "planning"
    BY DEF Expire, creators
<1>2. TypeOK'
    <2>1. 0 \in Int
        OBVIOUS
    <2> QED
        BY <1>1, <2>1 DEF Inv, TypeOK
<1>3. Slots'
    <2>1. \A h \in Goals : Recorded(h)'
        BY <1>1 DEF Inv, Slots, Recorded
    <2>2. \A c \in Creators : (AtWork(c)' <=> AtWork(c))
        BY <1>1 DEF AtWork
    <2>3. \A c \in Creators : Owned(c)'
        BY <1>1, <2>2 DEF Inv, Slots, Owned
    <2>4. \A c, d \in Creators : AtWork(c)' /\ AtWork(d)' /\ mine'[c] = mine'[d] => c = d
        BY <1>1, <2>2 DEF Inv, Slots
    <2> QED
        BY <2>1, <2>3, <2>4 DEF Slots
<1>4. Counted'
    <2>1. Cardinality(held)' = 0
        BY <1>1, FS_EmptySet
    <2>2. InFlight' = InFlight
        BY <1>1 DEF InFlight
    <2>3. /\ Cardinality(held) \in Nat /\ debt \in Nat
          /\ Cardinality(InFlight) \in Nat /\ Cardinality(Creators) \in Nat
        BY Sizes DEF Inv
    <2> QED
        BY <1>1, <2>1, <2>2, <2>3 DEF Inv, Counted
<1> QED
    BY <1>2, <1>3, <1>4 DEF Inv

LEMMA CrashInv == ASSUME Inv, Crash PROVE Inv'
<1>1. /\ \A c \in Creators : pc'[c] = "idle"
      /\ \A g \in Goals : tick'[g] = "none"
      /\ UNCHANGED <<count, status, held, givenBack, debt, troubles>>
    BY DEF Crash, slots
<1>2. TypeOK'
    BY <1>1 DEF Inv, TypeOK, Crash
<1>3. Slots'
    BY <1>1 DEF Inv, Slots, Recorded, Owned, AtWork
<1>4. Counted'
    <2>1. InFlight' = {}
        BY <1>1 DEF InFlight
    <2>2. Cardinality(InFlight)' = 0
        BY <2>1, FS_EmptySet
    <2>3. /\ Cardinality(InFlight) \in Nat /\ Cardinality(held) \in Nat /\ Cardinality(Creators) \in Nat
          /\ debt \in Nat
        BY Sizes DEF Inv
    <2> QED
        BY <1>1, <2>2, <2>3 DEF Inv, Counted
<1> QED
    BY <1>2, <1>3, <1>4 DEF Inv

LEMMA StutterInv == ASSUME Inv, UNCHANGED vars PROVE Inv'
<1>1. TypeOK'
    BY DEF Inv, TypeOK, vars, creators, slots
<1>2. Slots'
    BY DEF Inv, Slots, Recorded, Owned, AtWork, vars, creators, slots
<1>3. Counted'
    BY DEF Inv, Counted, InFlight, vars, creators, slots
<1> QED
    BY <1>1, <1>2, <1>3 DEF Inv

\* Every reachable state satisfies the invariant.
LEMMA Invariant == Spec => []Inv
<1>1. ASSUME Inv, [Next]_vars PROVE Inv'
    <2>1. ASSUME NEW c \in Creators,
                 \/ Ask(c) \/ HandlerChecks(c) \/ Check(c) \/ LooksForDuplicate(c)
                 \/ \E g \in Goals : Save(c, g)
                 \/ Record(c) \/ Plan(c) \/ HandlerRecords(c)
          PROVE  Inv'
        BY <1>1, <2>1, AskInv, HandlerChecksInv, CheckInv, LooksInv, SaveInv, RecordInv, PlanInv,
           HandlerRecordsInv
    <2>2. ASSUME NEW g \in Goals,
                 \/ TickStarts(g) \/ TickSaves(g) \/ EndsInTick(g)
                 \/ ReleaseDecr(g) \/ ReleaseGet(g) \/ ReleaseSet(g) \/ SaveEnd(g)
                 \/ EndsByHand(g) \/ Pause(g) \/ Resume(g)
          PROVE  Inv'
        BY <1>1, <2>2, QuietInv, ReleaseDecrInv, ReleaseSetInv, ByHandInv
    <2>3. CASE Expire \/ Crash
        BY <1>1, <2>3, ExpireInv, CrashInv
    <2>4. CASE UNCHANGED vars
        BY <1>1, <2>4, StutterInv
    <2> QED
        BY <1>1, <2>1, <2>2, <2>3, <2>4 DEF Next
<1> QED
    BY <1>1, Started, PTL DEF Spec

----------------------------------------------------------------------------

\* The counter, the goals and their creators keep their types.
THEOREM TypeCorrect == Spec => []TypeOK
<1>1. Inv => TypeOK
    BY DEF Inv
<1> QED
    BY <1>1, Invariant, PTL

\* While no call of Redis fails, check-then-increment lets through at most
\* one goal above the limit for every other concurrent caller and for every
\* slot that was given back twice; crashes, pauses, stale saves, the release
\* before the save and the expiry of the key included.
THEOREM GoalsAreLimited == Spec => []ActiveBounded
BY Invariant, AliveBounded, PTL
=============================================================================
