------------------------------ MODULE Governor ------------------------------
(***************************************************************************)
(* The limit on the active goals of a user (governance/governor.py) and    *)
(* the code that is to keep its counter: the creation of a goal, from the  *)
(* chat's handlers or directly (goal_orchestrator/orchestrator.py), and    *)
(* the ends of a goal.  The counter is a Redis key that is read in one     *)
(* call and incremented in a later one; an action is the code between two  *)
(* awaits.  What a goal does while it is active is left to GoalEngine.     *)
(***************************************************************************)
EXTENDS Integers, FiniteSets

CONSTANTS
    Creators,      \* callers that may create a goal at the same time
    Goals,         \* ids of goals
    NoGoal,
    Limit,         \* governor_max_goals_per_user
    MaxConcurrent, \* goal_max_concurrent: goals ticked at the same time
    MaxTroubles,   \* bound: failing calls of Redis
    MaxDebt        \* bound: slots given back by goals that hold none

ASSUME GoalAssumption == NoGoal \notin Goals

ASSUME FiniteAssumption == IsFiniteSet(Creators) /\ Creators # {} /\ IsFiniteSet(Goals)

ASSUME NumberAssumption ==
    /\ Limit \in Nat \ {0} /\ MaxTroubles \in Nat /\ MaxDebt \in Nat
    /\ MaxConcurrent \in Nat \ {0}

VARIABLES
    count,         \* gov:active_goals, 0 when there is no key
    status,        \* the saved state of each goal
    pc, mine,      \* where a creator is, and the goal it has made
    chat,          \* creators that came through a handler of the chat
    tick,          \* where the tick of a goal is, with the release of its slot
    held,          \* goals recorded, or let pass unrecorded, with their slot
    givenBack,     \* goals whose slot was released, or expired
    debt,          \* slots taken from the counter that it did not owe
    troubles

creators == <<pc, mine, chat>>
slots == <<held, givenBack, debt>>
vars == <<count, status, creators, tick, slots, troubles>>

\* Goals that run, and those a creator is planning: a goal whose creator is
\* gone stays in planning for ever and does nothing.
Alive ==
    {g \in Goals : status[g] = "active"}
    \cup {mine[c] : c \in {x \in Creators : pc[x] \in {"recording", "planning"}}}

\* Callers the limit has let pass whose goal the counter does not show yet.
InFlight == {c \in Creators : pc[c] \in {"listing", "saving", "recording"}}

TypeOK ==
    /\ count \in Int
    /\ status \in [Goals -> {"unused", "planning", "active", "paused", "over"}]
    /\ pc \in [Creators -> {"idle", "asking", "checking", "listing", "saving",
                            "recording", "planning", "recording again"}]
    /\ mine \in [Creators -> Goals \cup {NoGoal}]
    /\ \A c \in Creators : pc[c] \in {"recording", "planning"} => mine[c] \in Goals
    /\ chat \subseteq Creators
    /\ tick \in [Goals -> {"none", "at work", "decr", "get", "set", "saving"}]
    /\ held \subseteq Goals
    /\ givenBack \subseteq Goals
    /\ debt \in Nat
    /\ troubles \in 0 .. MaxTroubles

Init ==
    /\ count = 0
    /\ status = [g \in Goals |-> "unused"]
    /\ pc = [c \in Creators |-> "idle"]
    /\ mine = [c \in Creators |-> NoGoal]
    /\ chat = {}
    /\ tick = [g \in Goals |-> "none"]
    /\ held = {}
    /\ givenBack = {}
    /\ debt = 0
    /\ troubles = 0

Goes == UNCHANGED troubles
Fails == troubles < MaxTroubles /\ troubles' = troubles + 1

----------------------------------------------------------------------------
(* The governor.                                                           *)

\* mutant: one goal more than the limit
AllowsMutant(n) == n <= Limit

Allows(n) == n < Limit

\* check_allow: what cannot be read counts as 0.
CheckAllow(answer) ==
    \/ Goes  /\ answer = Allows(count)
    \/ Fails /\ answer = TRUE

\* record_action: a failing call is swallowed.
RecordAction ==
    \/ Goes  /\ count' = count + 1
    \/ Fails /\ UNCHANGED count

----------------------------------------------------------------------------
(* The creation of a goal.                                                 *)

To(c, place) ==
    /\ pc' = [pc EXCEPT ![c] = place]
    /\ chat' = IF place = "idle" THEN chat \ {c} ELSE chat

\* A request in the chat is checked by its handler first.
Ask(c) ==
    /\ pc[c] = "idle"
    /\ \/ pc' = [pc EXCEPT ![c] = "asking"] /\ chat' = chat \cup {c}
       \/ To(c, "checking")
    /\ UNCHANGED <<count, status, mine, tick, slots, troubles>>

HandlerChecks(c) ==
    /\ pc[c] = "asking"
    /\ \E answer \in BOOLEAN : CheckAllow(answer) /\ To(c, IF answer THEN "checking" ELSE "idle")
    /\ UNCHANGED <<count, status, mine, tick, slots>>

\* create_goal has returned: the handler records, whatever it returned.
Returns(c) == To(c, IF c \in chat THEN "recording again" ELSE "idle")

Check(c) ==
    /\ pc[c] = "checking"
    /\ \E answer \in BOOLEAN :
        CheckAllow(answer) /\ IF answer THEN To(c, "listing") ELSE Returns(c)
    /\ UNCHANGED <<count, status, mine, tick, slots>>

\* An active goal that is alike is returned in its stead.
LooksForDuplicate(c) ==
    /\ pc[c] = "listing"
    /\ \/ To(c, "saving")
       \/ /\ \E g \in Goals : status[g] = "active"
          /\ Returns(c)
    /\ UNCHANGED <<count, status, mine, tick, slots, troubles>>

Save(c, g) ==
    /\ pc[c] = "saving"
    /\ status[g] = "unused"
    /\ status' = [status EXCEPT ![g] = "planning"]
    /\ mine' = [mine EXCEPT ![c] = g]
    /\ To(c, "recording")
    /\ UNCHANGED <<count, tick, slots, troubles>>

Record(c) ==
    /\ pc[c] = "recording"
    /\ RecordAction
    /\ held' = held \cup {mine[c]}
    /\ To(c, "planning")
    /\ UNCHANGED <<status, mine, tick, givenBack, debt>>

\* A plan, no plan, or an exception: only the last skips the second record.
Plan(c) ==
    /\ pc[c] = "planning"
    /\ \/ \E s \in {"active", "over"} : status' = [status EXCEPT ![mine[c]] = s] /\ Returns(c)
       \/ UNCHANGED status /\ To(c, "idle")
    /\ mine' = [mine EXCEPT ![c] = NoGoal]
    /\ UNCHANGED <<count, tick, slots, troubles>>

HandlerRecords(c) ==
    /\ pc[c] = "recording again"
    /\ RecordAction
    /\ To(c, "idle")
    /\ UNCHANGED <<status, mine, tick, slots>>

----------------------------------------------------------------------------
(* The life of a goal.                                                     *)

\* A tick works on the active goal it has loaded; what it saves in the end
\* replaces whatever was saved meanwhile.
TickStarts(g) ==
    /\ status[g] = "active"
    /\ tick[g] = "none"
    /\ Cardinality({h \in Goals : tick[h] # "none"}) < MaxConcurrent
    /\ tick' = [tick EXCEPT ![g] = "at work"]
    /\ UNCHANGED <<count, status, creators, slots, troubles>>

\* The goal goes on, or has used up its budget.
TickSaves(g) ==
    /\ tick[g] = "at work"
    /\ \E s \in {"active", "paused"} : status' = [status EXCEPT ![g] = s]
    /\ tick' = [tick EXCEPT ![g] = "none"]
    /\ UNCHANGED <<count, creators, slots, troubles>>

\* The goal has completed or failed: its slot is released while the saved
\* goal is still active.
EndsInTick(g) ==
    /\ tick[g] = "at work"
    /\ tick' = [tick EXCEPT ![g] = "decr"]
    /\ UNCHANGED <<count, status, creators, slots, troubles>>

\* A goal that holds no slot takes another's: it is released again after a
\* crash, or its own has expired.
ReleaseDecr(g) ==
    /\ tick[g] = "decr"
    /\ \/ /\ Goes
          /\ g \in held \/ debt < MaxDebt
          /\ count' = count - 1
          /\ debt' = IF g \in held THEN debt ELSE debt + 1
          /\ held' = held \ {g}
          /\ givenBack' = givenBack \cup {g}
          /\ tick' = [tick EXCEPT ![g] = "get"]
       \/ /\ Fails
          /\ tick' = [tick EXCEPT ![g] = "saving"]
          /\ UNCHANGED <<count, slots>>
    /\ UNCHANGED <<status, creators>>

\* The floor at 0: a GET, and a SET if that was negative.
ReleaseGet(g) ==
    /\ tick[g] = "get"
    /\ tick' = [tick EXCEPT ![g] = IF count < 0 THEN "set" ELSE "saving"]
    /\ UNCHANGED <<count, status, creators, slots, troubles>>

\* What was recorded between the two is lost.
ReleaseSet(g) ==
    /\ tick[g] = "set"
    /\ count' = 0
    /\ debt' = IF count > 0 THEN debt + count ELSE debt
    /\ tick' = [tick EXCEPT ![g] = "saving"]
    /\ UNCHANGED <<status, creators, held, givenBack, troubles>>

SaveEnd(g) ==
    /\ tick[g] = "saving"
    /\ status' = [status EXCEPT ![g] = "over"]
    /\ tick' = [tick EXCEPT ![g] = "none"]
    /\ UNCHANGED <<count, creators, slots, troubles>>

\* Cancelled, or deleted: the slot is not released.  Only the owner's next
\* save brings a goal in planning back, only a tick's an active one.
EndsByHand(g) ==
    /\ status[g] # "unused"
    /\ status' = [status EXCEPT ![g] = "over"]
    /\ UNCHANGED <<count, creators, tick, slots, troubles>>

\* A paused goal keeps its slot, and is resumed without asking for one.
Pause(g) ==
    /\ status[g] = "active"
    /\ status' = [status EXCEPT ![g] = "paused"]
    /\ UNCHANGED <<count, creators, tick, slots, troubles>>

Resume(g) ==
    /\ status[g] = "paused"
    /\ status' = [status EXCEPT ![g] = "active"]
    /\ UNCHANGED <<count, creators, tick, slots, troubles>>

----------------------------------------------------------------------------
(* The key expires a day after the last goal was recorded.  The planning   *)
(* that follows a record takes minutes; a goal that was paused lives on.   *)
Expire ==
    /\ \A c \in Creators : pc[c] # "planning"
    /\ count' = 0
    /\ held' = {}
    /\ givenBack' = givenBack \cup held
    /\ UNCHANGED <<status, creators, tick, debt, troubles>>

\* A crash of the core: nothing in hand goes on.
Crash ==
    /\ pc' = [c \in Creators |-> "idle"]
    /\ mine' = [c \in Creators |-> NoGoal]
    /\ chat' = {}
    /\ tick' = [g \in Goals |-> "none"]
    /\ UNCHANGED <<count, status, slots, troubles>>

Next ==
    \/ \E c \in Creators :
        \/ Ask(c) \/ HandlerChecks(c) \/ Check(c) \/ LooksForDuplicate(c)
        \/ \E g \in Goals : Save(c, g)
        \/ Record(c) \/ Plan(c) \/ HandlerRecords(c)
    \/ \E g \in Goals :
        \/ TickStarts(g) \/ TickSaves(g) \/ EndsInTick(g)
        \/ ReleaseDecr(g) \/ ReleaseGet(g) \/ ReleaseSet(g) \/ SaveEnd(g)
        \/ EndsByHand(g) \/ Pause(g) \/ Resume(g)
    \/ Expire
    \/ Crash

Spec == Init /\ [][Next]_vars

----------------------------------------------------------------------------
(* However callers, ticks, commands, crashes and the expiry interleave,    *)
(* the goals of a user that plan or run on a slot of their own are at most *)
(* the limit, one for every other caller that was let pass before the      *)
(* counter showed it, and one for every slot the counter was made to give  *)
(* away twice: leaked slots only make it stricter.  The goals left out     *)
(* were released before their end was saved, or outlived their slot.       *)
ActiveBounded ==
    troubles = 0 =>
        Cardinality(Alive \ givenBack) <= Limit + Cardinality(Creators) - 1 + debt

(* "Number of active goals per user (default: 10)": refuted by two callers *)
(* at once, and, with a single caller, by the expiry of the key and by the *)
(* release that goes before the save.                                      *)
LimitKept == Cardinality(Alive) <= Limit

(* The counter counts active goals ("Number of active goals per user"):    *)
(* once every goal it counted has completed and given its slot back, and   *)
(* nobody is at work, it is back at 0.                                     *)
SlotsReturn ==
    /\ held = {}
    /\ \A c \in Creators : pc[c] = "idle"
    /\ \A g \in Goals : tick[g] = "none"
    => count <= 0
=============================================================================
