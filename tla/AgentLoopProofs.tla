-------------------------- MODULE AgentLoopProofs --------------------------
(***************************************************************************)
(* Theorems about AgentLoop, for every number of rounds, every budget and  *)
(* every cap.  The inductive invariant is TypeOK and four parts, one for   *)
(* each question the properties ask; each part needs TypeOK, and none      *)
(* needs another.                                                          *)
(***************************************************************************)
EXTENDS AgentLoop, TLAPS

LEMMA Caps ==
    /\ MaxCorrections \in Nat \ {0} /\ MaxAlike \in Nat \ {0}
    /\ StreakCap \in Nat \ {0} /\ MaxRetries \in Nat \ {0}
BY CapAssumption

USE RoundAssumption, Caps

\* The places of a round after the model has answered.
Middle == {"sifting", "text", "guarding", "executed", "judging"}

Spent(n) == generated <= MaxRounds + 1 + n /\ generated <= request.cap + 1 + n

\* What the loop has spent.
LoopLimits ==
    /\ stage = "planning" => generated <= round /\ generated <= used
    /\ stage \in Middle => generated <= round + 1 /\ generated <= used
    /\ stage \in {"planning"} \cup Middle => round < MaxRounds /\ used <= request.cap
    /\ stage \in {"planning", "closing", "validating"} \cup Middle => attempts = 0 /\ Spent(0)

\* What has been spent when: by the loop, and by each attempt after it.
Limits ==
    /\ LoopLimits
    /\ stage = "recovering" => Spent(2 * attempts)
    /\ stage \in {"mending", "mended"} => attempts > 0 /\ Spent(2 * attempts - 1)
    /\ stage = "finishing" => Spent(2 * MaxRetries)
    /\ stage \in {"correcting", "corrected"} =>
        request.is_scheduled_trigger /\ Spent(2 * MaxRetries + 1)
    /\ CallsBounded

Streaks == stage \in {"planning"} \cup Middle => ctx.intent_block_streak < StreakCap

\* What the gates have let through, and the flag that closes them.
Gates ==
    /\ OnlyVetted
    /\ stage = "guarding" => calls \subseteq {"fine", "foreign"}
    /\ ctx.tool_error_flag => stage \notin {"guarding", "executed", "judging"}

Freshness ==
    /\ stage \in {"sifting", "text", "guarding"} => fresh
    /\ stage \in {"closing", "validating", "finishing"} => fresh \/ reason \in {"rounds", "budget"}
    /\ AnswerSeesResults

\* The steps of Next, one by one.
LEMMA Steps ==
    ASSUME [Next]_vars
    PROVE  \/ UNCHANGED vars
           \/ BudgetStop \/ Generate \/ ToolErrorStop \/ StreakStop \/ Sift
           \/ \E reply \in Replies : Answer(reply)
           \/ GuardReplan \/ Execute \/ RedirectReplan \/ Gather
           \/ BlockSeen \/ SpecReplan \/ TimeLimit \/ Continue \/ Close
           \/ Afterwards \/ Raise \/ Clock
BY DEF Next, Loop

\* What is done after the loop changes nothing the loop has left.
LEMMA AfterLoop ==
    ASSUME Afterwards
    PROVE  /\ UNCHANGED loop
           /\ stage \in {"validating", "recovering", "mending", "mended", "finishing",
                         "correcting", "corrected"}
           /\ stage' \in {"recovering", "mending", "mended", "finishing", "correcting",
                          "corrected", "answered"}
           /\ \/ attempts' = attempts
              \/ attempts < MaxRetries /\ attempts' = attempts + 1
BY DEF Afterwards, Validate, Redirect, Recover, Mend, Synthesize, GiveUp, Excuse, Correct,
   CorrectionRuns, Summarize, Send

LEMMA TypeInit == Init => TypeOK
<1> SUFFICES ASSUME Init PROVE TypeOK
    OBVIOUS
<1>1. ctx \in Contexts
    BY DEF Init, Contexts, Counted
<1>2. request.cap \in Nat
    BY DEF Init, Requests
<1>3. 0 \in 0 .. request.cap + 1 /\ 0 \in 0 .. MaxRounds /\ 0 \in 0 .. MaxRetries
    BY <1>2
<1> QED
    BY <1>1, <1>3 DEF Init, TypeOK

\* Counting a correction keeps the type of the context.
LEMMA CountTyped ==
    ASSUME NEW c \in Contexts, NEW k \in Counted
    PROVE  [c EXCEPT !.correction_count = @ + 1, !.correction_signatures[k] = @ + 1] \in Contexts
<1> DEFINE counts == [c.correction_signatures EXCEPT ![k] = @ + 1]
<1>1. counts \in [Counted -> Nat]
    <2>1. c.correction_signatures \in [Counted -> Nat]
        BY DEF Contexts
    <2> QED
        BY <2>1
<1>2. c.correction_count + 1 \in Nat
    BY DEF Contexts
<1>3. [c EXCEPT !.correction_count = @ + 1, !.correction_signatures[k] = @ + 1]
        = [c EXCEPT !.correction_count = @ + 1, !.correction_signatures = counts]
    BY DEF Contexts
<1> HIDE DEF counts
<1> QED
    BY <1>1, <1>2, <1>3 DEF Contexts

\* So does an answer's correction, sent or skipped.
LEMMA RecordedTyped ==
    ASSUME TypeOK, NEW k \in {Corrections[i] : i \in 1 .. 5}
    PROVE  Considered(k) \in Contexts /\ Recorded(Considered(k), k) \in Contexts
<1>1. Considered(k) \in Contexts
    BY DEF TypeOK, Considered, Contexts
<1> QED
    BY <1>1, CountTyped DEF Recorded

\* The streak is a number between nought and the cap.
LEMMA StreakTyped ==
    ASSUME TypeOK, ctx.intent_block_streak < StreakCap PROVE Streak \in 0 .. StreakCap
<1>1. ctx.intent_block_streak \in 0 .. StreakCap - 1
    BY DEF TypeOK, Contexts
<1>2. \A n \in 0 .. StreakCap - 1 : {n, n + 1, 0} \subseteq 0 .. StreakCap
    OBVIOUS
<1>3. Streak \in {ctx.intent_block_streak, ctx.intent_block_streak + 1, 0}
    BY DEF Streak
<1> QED
    BY <1>1, <1>2, <1>3

LEMMA TypeStep == TypeOK /\ Limits /\ Streaks /\ [Next]_vars => TypeOK'
<1> SUFFICES ASSUME TypeOK, Limits, Streaks, [Next]_vars PROVE TypeOK'
    OBVIOUS
<1> USE DEF TypeOK, Limits, LoopLimits, Middle
<1>0. request \in Requests /\ request.cap \in Nat
    BY DEF Requests
<1>1. CASE UNCHANGED vars
    BY <1>1 DEF vars, ghosts
<1>2. CASE BudgetStop
    BY <1>0, <1>2 DEF BudgetStop, Stop
<1>3. CASE Generate
    BY <1>0, <1>3 DEF Generate, Asked
<1>4. CASE ToolErrorStop
    BY <1>4 DEF ToolErrorStop, Stop
<1>5. ASSUME stage = "sifting" PROVE Streak \in 0 .. StreakCap
    BY <1>5, StreakTyped DEF Streaks
<1>6. CASE StreakStop
    <2>1. ctx' \in Contexts
        BY <1>5, <1>6 DEF StreakStop, Contexts
    <2> QED
        BY <1>6, <2>1 DEF StreakStop, Stop
<1>7. CASE Sift
    <2>1. ctx' \in Contexts
        BY <1>5, <1>7 DEF Sift, Contexts
    <2> QED
        <3>1. Allowed \subseteq Sorts
            BY DEF Allowed, Routed
        <3>2. CASE NextRound
            BY <1>7, <2>1, <3>2 DEF Sift, NextRound, Before
        <3>3. CASE Stop("stop")
            BY <1>7, <2>1, <3>3 DEF Sift, Stop
        <3>4. CASE calls' = Allowed /\ stage' \in {"text", "guarding"}
                       /\ UNCHANGED <<round, reason>>
            BY <1>7, <2>1, <3>1, <3>4 DEF Sift
        <3> QED
            BY <1>7, <3>2, <3>3, <3>4 DEF Sift
<1>8. ASSUME NEW reply \in Replies, Answer(reply) PROVE TypeOK'
    <2>1. ctx' \in Contexts
        BY <1>8, RecordedTyped DEF Answer
    <2> QED
        <3>1. CASE NextRound
            <4>1. /\ stage = "text"
                  /\ UNCHANGED <<request, used, late, attempts, generated, executed, fresh, proven>>
                BY <1>8 DEF Answer
            <4> QED
                BY <2>1, <3>1, <4>1 DEF NextRound, Before
        <3>2. CASE Stop("stop")
            BY <1>8, <2>1, <3>2 DEF Answer, Stop
        <3> QED
            BY <1>8, <3>1, <3>2 DEF Answer
<1>9. CASE GuardReplan
    BY <1>9 DEF GuardReplan, NextRound, Before
<1>10. CASE Execute
    BY <1>10 DEF Execute
<1>11. CASE RedirectReplan
    BY <1>11 DEF RedirectReplan, NextRound, Before
<1>12. CASE Gather
    <2>1. ctx' \in Contexts
        BY <1>0, <1>12 DEF Gather, Contexts, Requests, Committed, TerminalState
    <2> QED
        BY <1>0, <1>12, <2>1 DEF Gather, Requests, Committed
<1>13. CASE BlockSeen
    <2>1. ctx' \in Contexts
        BY <1>13 DEF BlockSeen, Contexts
    <2> QED
        BY <1>13, <2>1 DEF BlockSeen, NextRound, Before
<1>14. CASE SpecReplan
    <2>1. ctx' \in Contexts
        BY <1>14 DEF SpecReplan, Contexts
    <2> QED
        BY <1>14, <2>1 DEF SpecReplan, NextRound, Before
<1>15. CASE TimeLimit
    BY <1>15 DEF TimeLimit, Stop, Asked
<1>16. CASE Continue
    BY <1>16 DEF Continue, NextRound, Before
<1>17. CASE Close
    BY <1>17 DEF Close
<1>18. CASE Raise
    BY <1>18 DEF Raise, ghosts
<1>19. CASE Clock
    BY <1>19 DEF Clock, ghosts
<1>20. CASE Afterwards
    <2>1. UNCHANGED <<request, round, used, calls, ctx, late, executed, proven>>
        BY <1>20, AfterLoop DEF loop
    <2>2. attempts' \in 0 .. MaxRetries /\ generated' \in Nat
        <3>1. attempts < MaxRetries => attempts + 1 \in 0 .. MaxRetries
            OBVIOUS
        <3>2. attempts' = attempts \/ (attempts < MaxRetries /\ attempts' = attempts + 1)
            BY <1>20, AfterLoop
        <3>3. generated' = generated \/ generated' = generated + 1
            BY <1>20 DEF Afterwards, Validate, Redirect, Recover, Mend, Synthesize, GiveUp, Correct,
               CorrectionRuns, Summarize, Send
        <3> QED
            BY <3>1, <3>2, <3>3
    <2>3. fresh' \in BOOLEAN /\ reason' \in {"none", "rounds", "budget", "stop", "unsummarized"}
        BY <1>20 DEF Afterwards, Validate, Redirect, Recover, Mend, Synthesize, GiveUp, Excuse,
           Correct, CorrectionRuns, Summarize, Send
    <2> QED
        BY <1>20, <2>1, <2>2, <2>3, AfterLoop
<1> QED
    BY Steps, <1>1, <1>2, <1>3, <1>4, <1>6, <1>7, <1>8, <1>9, <1>10, <1>11, <1>12,
       <1>13, <1>14, <1>15, <1>16, <1>17, <1>18, <1>19, <1>20

\* After the loop each attempt pays for two calls, and a correction for two.
LEMMA AfterLimits ==
    ASSUME TypeOK, Limits, Afterwards PROVE Limits'
<1> DEFINE flag == request.is_scheduled_trigger
<1>1. request.cap \in Nat /\ flag \in BOOLEAN
    BY DEF TypeOK, Requests
<1>2. /\ generated \in Nat /\ attempts \in 0 .. MaxRetries
      /\ MaxRounds \in Nat /\ MaxRetries \in Nat \ {0}
    BY DEF TypeOK
<1>3. UNCHANGED <<request, round, used>>
    BY AfterLoop DEF loop
<1>4. /\ Extra \in Nat /\ Extra >= 2 * MaxRetries
      /\ flag => Extra = 2 * MaxRetries + 2
    BY <1>1, <1>2 DEF Extra
<1>5. CallsBounded <=> Spent(Extra)
    BY DEF CallsBounded, Spent
<1>6. CallsBounded' <=> Spent(Extra)'
    BY DEF CallsBounded, Spent
<1>7. Extra' = Extra
    BY <1>3 DEF Extra
<1>8. stage' \notin {"planning", "closing", "validating"} \cup Middle
    BY AfterLoop DEF Middle
<1> HIDE DEF flag
<1>9. SUFFICES /\ stage' = "recovering" => Spent(2 * attempts)'
               /\ stage' \in {"mending", "mended"} => attempts' > 0 /\ Spent(2 * attempts - 1)'
               /\ stage' = "finishing" => Spent(2 * MaxRetries)'
               /\ stage' \in {"correcting", "corrected"} => flag /\ Spent(2 * MaxRetries + 1)'
               /\ Spent(Extra)'
    BY <1>3, <1>6, <1>8 DEF Limits, LoopLimits, Middle, flag
<1> USE <1>1, <1>2, <1>3, <1>4, <1>7 DEF Spent
<1>10. CASE Validate
    BY <1>10 DEF Limits, LoopLimits, Validate, Excuse, loop
<1>11. CASE Redirect
    BY <1>11 DEF Limits, LoopLimits, Redirect, loop
<1>12. CASE Recover
    BY <1>12 DEF Limits, Recover
<1>13. CASE Mend
    BY <1>13 DEF Limits, Mend
<1>14. CASE Synthesize
    BY <1>14 DEF Limits, Synthesize
<1>15. CASE GiveUp
    BY <1>15 DEF Limits, GiveUp, Excuse
<1>16. CASE Correct
    BY <1>16 DEF Limits, Correct, flag
<1>17. CASE CorrectionRuns
    BY <1>17 DEF Limits, CorrectionRuns, flag
<1>18. CASE Summarize
    BY <1>18 DEF Limits, Summarize, flag
<1>19. CASE Send
    BY <1>19 DEF Limits, Send
<1> QED
    BY <1>10, <1>11, <1>12, <1>13, <1>14, <1>15, <1>16, <1>17, <1>18, <1>19 DEF Afterwards

\* Each call of the model is paid for by a round and by the budget.
LEMMA LoopLimitsStep ==
    ASSUME TypeOK, LoopLimits, Loop
    PROVE  /\ LoopLimits'
           /\ UNCHANGED request /\ generated' \in Nat
           /\ stage' \in {"planning", "closing", "validating"} \cup Middle
<1> DEFINE Goal == /\ LoopLimits'
                   /\ UNCHANGED request /\ generated' \in Nat
                   /\ stage' \in {"planning", "closing", "validating"} \cup Middle
<1> SUFFICES Goal
    OBVIOUS
<1> USE DEF TypeOK, LoopLimits, Middle, Spent
<1>0. request.cap \in Nat
    BY DEF Requests
<1>2. CASE BudgetStop
    BY <1>2 DEF BudgetStop, Stop
<1>3. CASE Generate
    <2>1. generated + 1 <= round + 1 /\ generated + 1 <= used + 1
        BY <1>3 DEF Generate
    <2>2. used + 1 <= request.cap /\ round + 1 <= MaxRounds
        BY <1>0, <1>3 DEF Generate
    <2>3. generated + 1 <= MaxRounds + 1 /\ generated + 1 <= request.cap + 1
        BY <1>0, <2>1, <2>2
    <2>4. /\ request' = request /\ attempts' = attempts /\ round' = round
          /\ generated' = generated + 1 /\ used' = used + 1 /\ stage' = "sifting" /\ attempts = 0
        BY <1>3 DEF Generate, Asked
    <2> QED
        BY <1>0, <2>1, <2>2, <2>3, <2>4
<1>4. CASE ToolErrorStop
    BY <1>4 DEF ToolErrorStop, Stop
<1>5. CASE StreakStop
    BY <1>5 DEF StreakStop, Stop
<1>6. CASE Sift
    <2>1. CASE NextRound
        BY <1>6, <2>1 DEF Sift, NextRound, Before
    <2>2. CASE Stop("stop")
        BY <1>6, <2>2 DEF Sift, Stop
    <2>3. CASE stage' \in {"text", "guarding"} /\ UNCHANGED round
        BY <1>6, <2>3 DEF Sift
    <2> QED
        BY <1>6, <2>1, <2>2, <2>3 DEF Sift
<1>7. ASSUME NEW reply \in Replies, Answer(reply) PROVE Goal
    <2>1. CASE NextRound
        BY <1>7, <2>1 DEF Answer, NextRound, Before
    <2>2. CASE Stop("stop")
        BY <1>7, <2>2 DEF Answer, Stop
    <2> QED
        BY <1>7, <2>1, <2>2 DEF Answer
<1>8. CASE GuardReplan
    BY <1>8 DEF GuardReplan, NextRound, Before
<1>9. CASE Execute
    BY <1>9 DEF Execute
<1>10. CASE RedirectReplan
    BY <1>10 DEF RedirectReplan, NextRound, Before
<1>11. CASE Gather
    BY <1>11 DEF Gather
<1>12. CASE BlockSeen
    BY <1>12 DEF BlockSeen, NextRound, Before
<1>13. CASE SpecReplan
    BY <1>13 DEF SpecReplan, NextRound, Before
<1>14. CASE TimeLimit
    <2>1. generated <= round + 1 /\ generated <= used /\ round < MaxRounds /\ used <= request.cap
        BY <1>14 DEF TimeLimit
    <2>2. round + 1 < MaxRounds
        BY <1>14 DEF TimeLimit, Before
    <2>3. generated + 1 <= MaxRounds + 1 /\ generated + 1 <= request.cap + 1
        BY <1>0, <2>1, <2>2
    <2>4. /\ request' = request /\ attempts' = attempts /\ attempts = 0
          /\ generated' = generated + 1 /\ stage' = "closing"
        BY <1>14 DEF TimeLimit, Stop, Asked
    <2> QED
        BY <1>0, <2>3, <2>4
<1>15. CASE Continue
    BY <1>15 DEF Continue, NextRound, Before
<1>16. CASE Close
    BY <1>16 DEF Close
<1> QED
    BY <1>2, <1>3, <1>4, <1>5, <1>6, <1>7, <1>8, <1>9, <1>10, <1>11, <1>12, <1>13, <1>14, <1>15,
       <1>16 DEF Loop

LEMMA LimitsStep == TypeOK /\ Limits /\ [Next]_vars => Limits'
<1> SUFFICES ASSUME TypeOK, Limits, [Next]_vars PROVE Limits'
    OBVIOUS
<1>0. request.cap \in Nat /\ MaxRounds \in Nat /\ MaxRetries \in Nat
    BY DEF TypeOK, Requests
<1>1. CASE Loop
    <2>1. /\ LoopLimits'
          /\ UNCHANGED request /\ generated' \in Nat
          /\ stage' \in {"planning", "closing", "validating"} \cup Middle
        BY <1>1, LoopLimitsStep DEF Limits
    <2>2. Spent(0)'
        BY <2>1 DEF LoopLimits
    <2>3. Extra' \in Nat
        BY <1>0 DEF Extra
    <2>4. CallsBounded'
        <3>1. generated' <= MaxRounds + 1 /\ generated' <= request.cap + 1
            BY <1>0, <2>1, <2>2 DEF Spent
        <3>2. generated' <= MaxRounds + 1 + Extra' /\ generated' <= request.cap + 1 + Extra'
            <4>1. generated' \in Nat
                BY <2>1
            <4>2. \A n, e \in Nat :
                    /\ n <= MaxRounds + 1 => n <= MaxRounds + 1 + e
                    /\ n <= request.cap + 1 => n <= request.cap + 1 + e
                BY <1>0
            <4> QED
                BY <2>3, <3>1, <4>1, <4>2
        <3> QED
            BY <2>1, <3>2 DEF CallsBounded
    <2> QED
        BY <2>1, <2>4 DEF Limits, Middle
<1>2. CASE Afterwards
    BY <1>2, AfterLimits
<1>3. CASE Raise
    BY <1>3 DEF Raise, ghosts, Limits, LoopLimits, Middle, CallsBounded, Extra
<1>4. CASE Clock
    BY <1>4 DEF Clock, ghosts, Limits, LoopLimits, Middle, Spent, CallsBounded, Extra
<1>5. CASE UNCHANGED vars
    BY <1>5 DEF vars, ghosts, Limits, LoopLimits, Middle, Spent, CallsBounded, Extra
<1> QED
    BY <1>1, <1>2, <1>3, <1>4, <1>5 DEF Next

\* The gate ends the loop before the streak passes its cap.
LEMMA StreaksStep == TypeOK /\ Streaks /\ Limits /\ [Next]_vars => Streaks'
<1> SUFFICES ASSUME TypeOK, Streaks, Limits, [Next]_vars PROVE Streaks'
    OBVIOUS
<1> USE DEF Streaks, TypeOK, Middle
<1>1. CASE UNCHANGED vars
    BY <1>1 DEF vars, ghosts
<1>2. CASE BudgetStop
    BY <1>2 DEF BudgetStop, Stop
<1>3. CASE Generate
    BY <1>3 DEF Generate, Asked
<1>4. CASE ToolErrorStop
    BY <1>4 DEF ToolErrorStop, Stop
<1>5. CASE StreakStop
    BY <1>5 DEF StreakStop, Stop
<1>6. CASE Sift
    <2>1. ctx'.intent_block_streak = Streak
        BY <1>6 DEF Sift, Contexts
    <2>2. ctx.intent_block_streak < StreakCap /\ Streak \in 0 .. StreakCap
        BY <1>6, StreakTyped DEF Sift
    <2>3. Streak < StreakCap
        <3>1. CASE "side effect" \in Routed
            <4>1. ~ (Streak >= StreakCap)
                BY <1>6, <3>1 DEF Sift, StreakExceeded
            <4>2. \A n \in 0 .. StreakCap : ~ (n >= StreakCap) => n < StreakCap
                OBVIOUS
            <4> QED
                BY <2>2, <4>1, <4>2
        <3>2. CASE "side effect" \notin Routed
            <4>1. Streak \in {ctx.intent_block_streak, 0}
                BY <3>2 DEF Streak
            <4>2. 0 < StreakCap
                OBVIOUS
            <4> QED
                BY <2>2, <4>1, <4>2
        <3> QED
            BY <3>1, <3>2
    <2> QED
        BY <2>1, <2>3
<1>7. ASSUME NEW reply \in Replies, Answer(reply) PROVE Streaks'
    <2>0. \A k \in {Corrections[i] : i \in 1 .. 5} :
            /\ Considered(k).intent_block_streak = ctx.intent_block_streak
            /\ Recorded(Considered(k), k).intent_block_streak = ctx.intent_block_streak
        BY DEF Considered, Recorded, Contexts
    <2>1. ctx'.intent_block_streak = ctx.intent_block_streak
        BY <1>7, <2>0 DEF Answer
    <2> QED
        BY <1>7, <2>1 DEF Answer
<1>8. CASE GuardReplan
    BY <1>8 DEF GuardReplan, NextRound, Before
<1>9. CASE Execute
    BY <1>9 DEF Execute
<1>10. CASE RedirectReplan
    BY <1>10 DEF RedirectReplan, NextRound, Before
<1>11. CASE Gather
    BY <1>11 DEF Gather, Contexts
<1>12. CASE BlockSeen
    BY <1>12 DEF BlockSeen, Contexts
<1>13. CASE SpecReplan
    BY <1>13 DEF SpecReplan, Contexts
<1>14. CASE TimeLimit
    BY <1>14 DEF TimeLimit, Stop, Asked
<1>15. CASE Continue
    BY <1>15 DEF Continue, NextRound, Before
<1>16. CASE Close
    BY <1>16 DEF Close
<1>17. CASE Raise
    BY <1>17 DEF Raise, ghosts
<1>18. CASE Clock
    BY <1>18 DEF Clock, ghosts
<1>19. CASE Afterwards
    BY <1>19, AfterLoop
<1> QED
    BY Steps, <1>1, <1>2, <1>3, <1>4, <1>5, <1>6, <1>7, <1>8, <1>9, <1>10, <1>11,
       <1>12, <1>13, <1>14, <1>15, <1>16, <1>17, <1>18, <1>19

\* A call passes the router and the gate, then the guard, before it is executed.
LEMMA GatesStep == TypeOK /\ Gates /\ [Next]_vars => Gates'
<1> SUFFICES ASSUME TypeOK, Gates, [Next]_vars PROVE Gates'
    OBVIOUS
<1> USE DEF Gates, OnlyVetted, TypeOK
<1>1. CASE UNCHANGED vars
    BY <1>1 DEF vars, ghosts
<1>2. CASE BudgetStop
    BY <1>2 DEF BudgetStop, Stop
<1>3. CASE Generate
    BY <1>3 DEF Generate, Asked
<1>4. CASE ToolErrorStop
    BY <1>4 DEF ToolErrorStop, Stop
<1>5. CASE StreakStop
    BY <1>5 DEF StreakStop, Stop, Contexts
<1>6. CASE Sift
    <2>1. \/ stage' \in {"planning", "closing"}
          \/ stage' \in {"text", "guarding"} /\ calls' = Allowed
        <3>1. CASE NextRound
            BY <3>1 DEF NextRound
        <3>2. CASE Stop("stop")
            BY <3>2 DEF Stop
        <3> QED
            BY <1>6, <3>1, <3>2 DEF Sift
    <2>2. Allowed \subseteq {"fine", "foreign"}
        BY DEF Allowed, Routed, Sorts
    <2>3. ctx'.tool_error_flag => stage' \notin {"guarding", "executed", "judging"}
        BY <1>6 DEF Sift, NextRound, Stop, BreaksLoop, Contexts, Allowed, Routed
    <2> QED
        BY <1>6, <2>1, <2>2, <2>3 DEF Sift
<1>7. ASSUME NEW reply \in Replies, Answer(reply) PROVE Gates'
    <2>0. \A k \in {Corrections[i] : i \in 1 .. 5} :
            /\ Considered(k).tool_error_flag = ctx.tool_error_flag
            /\ Recorded(Considered(k), k).tool_error_flag = ctx.tool_error_flag
        BY DEF Considered, Recorded, Contexts
    <2>1. ctx'.tool_error_flag = ctx.tool_error_flag
        BY <1>7, <2>0 DEF Answer
    <2> QED
        BY <1>7, <2>1 DEF Answer, NextRound, Stop
<1>8. CASE GuardReplan
    BY <1>8 DEF GuardReplan, NextRound, Before
<1>9. CASE Execute
    BY <1>9 DEF Execute
<1>10. CASE RedirectReplan
    BY <1>10 DEF RedirectReplan, NextRound, Before
<1>11. CASE Gather
    BY <1>11 DEF Gather, Contexts
<1>12. CASE BlockSeen
    BY <1>12 DEF BlockSeen, NextRound, Contexts
<1>13. CASE SpecReplan
    BY <1>13 DEF SpecReplan, NextRound, Contexts
<1>14. CASE TimeLimit
    BY <1>14 DEF TimeLimit, Stop, Asked
<1>15. CASE Continue
    BY <1>15 DEF Continue, NextRound, Before
<1>16. CASE Close
    BY <1>16 DEF Close
<1>17. CASE Raise
    BY <1>17 DEF Raise, ghosts
<1>18. CASE Clock
    BY <1>18 DEF Clock, ghosts
<1>19. CASE Afterwards
    BY <1>19, AfterLoop DEF loop
<1> QED
    BY Steps, <1>1, <1>2, <1>3, <1>4, <1>5, <1>6, <1>7, <1>8, <1>9, <1>10, <1>11,
       <1>12, <1>13, <1>14, <1>15, <1>16, <1>17, <1>18, <1>19

\* Whatever ends the loop after an execution asks the model again, or has run out.
LEMMA FreshnessStep == TypeOK /\ Freshness /\ [Next]_vars => Freshness'
<1> SUFFICES ASSUME TypeOK, Freshness, [Next]_vars PROVE Freshness'
    OBVIOUS
<1> USE DEF Freshness, AnswerSeesResults, TypeOK
<1>1. CASE UNCHANGED vars
    BY <1>1 DEF vars, ghosts
<1>2. CASE BudgetStop
    BY <1>2 DEF BudgetStop, Stop
<1>3. CASE Generate
    BY <1>3 DEF Generate, Asked
<1>4. CASE ToolErrorStop
    BY <1>4 DEF ToolErrorStop, Stop
<1>5. CASE StreakStop
    BY <1>5 DEF StreakStop, Stop
<1>6. CASE Sift
    BY <1>6 DEF Sift, NextRound, Stop, Before
<1>7. ASSUME NEW reply \in Replies, Answer(reply) PROVE Freshness'
    BY <1>7 DEF Answer, NextRound, Stop, Before
<1>8. CASE GuardReplan
    BY <1>8 DEF GuardReplan, NextRound, Before
<1>9. CASE Execute
    BY <1>9 DEF Execute
<1>10. CASE RedirectReplan
    BY <1>10 DEF RedirectReplan, NextRound, Before
<1>11. CASE Gather
    BY <1>11 DEF Gather
<1>12. CASE BlockSeen
    BY <1>12 DEF BlockSeen, NextRound, Before
<1>13. CASE SpecReplan
    BY <1>13 DEF SpecReplan, NextRound, Before
<1>14. CASE TimeLimit
    BY <1>14 DEF TimeLimit, Stop, Asked
<1>15. CASE Continue
    BY <1>15 DEF Continue, NextRound, Before
<1>16. CASE Close
    BY <1>16 DEF Close
<1>17. CASE Raise
    BY <1>17 DEF Raise, ghosts
<1>18. CASE Clock
    BY <1>18 DEF Clock, ghosts
<1>19. CASE Afterwards
    BY <1>19 DEF Afterwards, Validate, Redirect, Recover, Mend, Synthesize, GiveUp, Excuse, Correct,
       CorrectionRuns, Summarize, Send
<1> QED
    BY Steps, <1>1, <1>2, <1>3, <1>4, <1>5, <1>6, <1>7, <1>8, <1>9, <1>10, <1>11,
       <1>12, <1>13, <1>14, <1>15, <1>16, <1>17, <1>18, <1>19

\* A correction is sent only below both caps.
LEMMA CorrectionsStep == TypeOK /\ CorrectionsBounded /\ [Next]_vars => CorrectionsBounded'
<1> SUFFICES ASSUME TypeOK, CorrectionsBounded, [Next]_vars PROVE CorrectionsBounded'
    OBVIOUS
<1> USE DEF CorrectionsBounded, TypeOK
<1>1. CASE UNCHANGED vars
    BY <1>1 DEF vars, ghosts
<1>2. CASE BudgetStop
    BY <1>2 DEF BudgetStop, Stop
<1>3. CASE Generate
    BY <1>3 DEF Generate, Asked
<1>4. CASE ToolErrorStop
    BY <1>4 DEF ToolErrorStop, Stop
<1>5. CASE StreakStop
    BY <1>5 DEF StreakStop, Stop, Contexts
<1>6. CASE Sift
    BY <1>6 DEF Sift, Contexts
<1>7. ASSUME NEW reply \in Replies, Answer(reply) PROVE CorrectionsBounded'
    <2>1. CASE UNCHANGED ctx
        BY <2>1
    <2>2. ASSUME NEW k \in {Corrections[i] : i \in 1 .. 5}, ctx' = Considered(k)
          PROVE  CorrectionsBounded'
        BY <2>2 DEF Considered, Contexts
    <2>3. ASSUME NEW k \in Counted, ~ Skips(k, reply), ctx' = Recorded(Considered(k), k)
          PROVE  CorrectionsBounded'
        <3>1. ctx.correction_count \in Nat /\ ctx.correction_signatures \in [Counted -> Nat]
            BY DEF Contexts
        <3>2. /\ ctx'.correction_count = ctx.correction_count + 1
              /\ ctx'.correction_signatures = [ctx.correction_signatures EXCEPT ![k] = @ + 1]
            BY <2>3 DEF Recorded, Considered, Contexts
        <3>3. MaxCorrections \in Nat /\ MaxAlike \in Nat
            OBVIOUS
        <3>4. ctx.correction_count + 1 <= MaxCorrections
            BY <2>3, <3>1, <3>3 DEF Skips
        <3>5. ctx.correction_signatures[k] + 1 <= MaxAlike
            BY <2>3, <3>1, <3>3 DEF Skips
        <3> QED
            BY <3>1, <3>2, <3>4, <3>5
    <2>4. ASSUME NEW k \in {Corrections[i] : i \in 1 .. 5}, k \notin Counted,
                 ctx' = Recorded(Considered(k), k)
          PROVE  CorrectionsBounded'
        BY <2>2, <2>4 DEF Recorded
    <2> QED
        BY <1>7, <2>1, <2>2, <2>3, <2>4 DEF Answer
<1>8. CASE GuardReplan
    BY <1>8 DEF GuardReplan, NextRound, Before
<1>9. CASE Execute
    BY <1>9 DEF Execute
<1>10. CASE RedirectReplan
    BY <1>10 DEF RedirectReplan, NextRound, Before
<1>11. CASE Gather
    BY <1>11 DEF Gather, Contexts
<1>12. CASE BlockSeen
    BY <1>12 DEF BlockSeen, Contexts
<1>13. CASE SpecReplan
    BY <1>13 DEF SpecReplan, Contexts
<1>14. CASE TimeLimit
    BY <1>14 DEF TimeLimit, Stop, Asked
<1>15. CASE Continue
    BY <1>15 DEF Continue, NextRound, Before
<1>16. CASE Close
    BY <1>16 DEF Close
<1>17. CASE Raise
    BY <1>17 DEF Raise, ghosts
<1>18. CASE Clock
    BY <1>18 DEF Clock, ghosts
<1>19. CASE Afterwards
    BY <1>19, AfterLoop DEF loop
<1> QED
    BY Steps, <1>1, <1>2, <1>3, <1>4, <1>5, <1>6, <1>7, <1>8, <1>9, <1>10, <1>11,
       <1>12, <1>13, <1>14, <1>15, <1>16, <1>17, <1>18, <1>19

Inv ==
    /\ TypeOK
    /\ Limits /\ Streaks /\ Gates /\ Freshness
    /\ CorrectionsBounded

LEMMA InvInit == Init => Inv
<1> SUFFICES ASSUME Init PROVE Inv
    OBVIOUS
<1>1. TypeOK
    BY TypeInit
<1>2. Limits
    <2>1. request.cap \in Nat \ {0}
        BY DEF Init, Requests
    <2>2. 0 < MaxRounds /\ 0 <= MaxRounds + 1 /\ 0 <= request.cap /\ 0 <= request.cap + 1
        BY <2>1
    <2>3. Extra \in Nat
        BY DEF Extra
    <2>4. 0 <= MaxRounds + 1 + Extra /\ 0 <= request.cap + 1 + Extra
        BY <2>1, <2>3
    <2>5. CallsBounded
        BY <2>4 DEF Init, CallsBounded
    <2> QED
        BY <2>1, <2>2, <2>5 DEF Init, Limits, LoopLimits, Spent, Middle
<1>3. Streaks
    BY DEF Init, Streaks
<1>4. Gates /\ Freshness
    BY DEF Init, Gates, OnlyVetted, Freshness, AnswerSeesResults
<1>5. CorrectionsBounded
    BY DEF Init, CorrectionsBounded
<1> QED
    BY <1>1, <1>2, <1>3, <1>4, <1>5 DEF Inv

LEMMA InvStep == Inv /\ [Next]_vars => Inv'
BY TypeStep, LimitsStep, StreaksStep, GatesStep, FreshnessStep, CorrectionsStep DEF Inv

LEMMA Invariant == Spec => []Inv
BY InvInit, InvStep, PTL DEF Spec

(* The state of the loop keeps its type: the streak its cap, the rounds    *)
(* and the budget their ends.                                              *)
THEOREM TypeCorrect == Spec => []TypeOK
BY Invariant, PTL DEF Inv

(* The cost of a request: whatever the model says, it is called at most    *)
(* once more than there are rounds, and once more than the budget allows,  *)
(* and twice for each attempt to recover and for a correction.             *)
THEOREM CallsAreBounded == Spec => []CallsBounded
BY Invariant, PTL DEF Inv, Limits

(* A request is corrected at most MAX_MEANINGFUL_CORRECTIONS times.        *)
THEOREM CorrectionsAreBounded == Spec => []CorrectionsBounded
BY Invariant, PTL DEF Inv

(* The loop executes nothing that a gate of its round has dropped or       *)
(* refused.                                                                *)
THEOREM NothingUnvettedRuns == Spec => []OnlyVetted
BY Invariant, PTL DEF Inv, Gates

(* The answer is written after the last results, or rounds or budget have  *)
(* run out, or the last call of a correction has failed.                   *)
THEOREM AnswersSeeResults == Spec => []AnswerSeesResults
BY Invariant, PTL DEF Inv, Freshness

(* Once a round has lost all its calls to a missing URL, no later round of *)
(* the loop reaches the guard.                                             *)
THEOREM ToolErrorEndsRounds == Spec => NoRoundAfterToolError
<1>1. Inv /\ [Next]_vars => [ctx.tool_error_flag => stage' # "executed"]_vars
    <2> SUFFICES ASSUME Inv, [Next]_vars, vars' # vars, ctx.tool_error_flag
                 PROVE  stage' # "executed"
        BY DEF vars
    <2>1. stage \notin {"guarding", "executed", "judging"}
        BY DEF Inv, Gates
    <2>2. stage' = "executed" => stage \in {"guarding", "executed"}
        BY Steps, AfterLoop DEF BudgetStop, Generate, ToolErrorStop, StreakStop, Sift, Answer,
           GuardReplan, Execute, RedirectReplan, Gather, BlockSeen, SpecReplan, TimeLimit, Continue,
           Close, Raise, Clock, NextRound, Stop
    <2> QED
        BY <2>1, <2>2
<1> QED
    BY <1>1, Invariant, PTL DEF Spec, NoRoundAfterToolError
=============================================================================
