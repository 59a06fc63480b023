----------------------------- MODULE AgentLoop -----------------------------
(***************************************************************************)
(* The execution engine of the chat (EventHandler._run_llm_loop): rounds   *)
(* of one call of the model and one batch of skills, with a budget, gates  *)
(* before the skills, corrections of answers without skills and replans    *)
(* after them; then what the handler does with the answer: it validates    *)
(* it, lets attempt_recovery make up for what is missing, and corrects a   *)
(* scheduled task that skipped a step.  The model and the skills are the   *)
(* environment: they may say and return anything.  What is said is cut     *)
(* down to what the code tells apart; the lock on a site, artifacts and    *)
(* wording are left out.                                                   *)
(***************************************************************************)
EXTENDS Naturals, Sequences

CONSTANTS
    MaxRounds,        \* _max_skill_rounds
    BudgetCaps,       \* rounds a request may cost, by the tier of its text
    MaxCorrections,   \* MAX_MEANINGFUL_CORRECTIONS
    MaxAlike,         \* corrections of one kind
    StreakCap,        \* rounds in a row with a call the intent gate drops
    MaxRetries        \* of attempt_recovery

ASSUME RoundAssumption == MaxRounds \in Nat \ {0} /\ BudgetCaps \subseteq Nat \ {0}

ASSUME CapAssumption == {MaxCorrections, MaxAlike, StreakCap, MaxRetries} \subseteq Nat \ {0}

VARIABLES
    request,          \* what the handler has found in the user's message
    stage,            \* where in a round the loop is
    round,            \* round_num
    used,             \* of the budget
    calls,            \* the round's skill calls that were let through so far
    ctx,              \* the flags of _LoopContext, and the loop's own
    late,             \* MAX_CHAT_SECONDS have passed
    attempts,         \* of attempt_recovery
    generated,        \* calls of the model
    executed,         \* sorts of skill calls the loop has executed
    fresh,            \* the response was written after the last execution
    proven,           \* the results show that the request is fulfilled
    reason            \* why the loop ended, or what went wrong after it

ghosts == <<generated, executed, fresh, proven, reason>>
vars   == <<request, stage, round, used, calls, ctx, late, attempts, ghosts>>

\* A call may lack its URL, have a side effect nobody asked for, or leave
\* the request's site or family of skills.
Sorts == {"fine", "no url", "side effect", "foreign"}

\* In the order in which they are considered.
Corrections ==
    <<"retry_promise", "action_enforcement", "intent_completeness", "goal_lock", "spec_override">>

\* The last is neither counted nor skipped.
Counted == {Corrections[i] : i \in 1 .. 4}

Requests == [action_commitment : BOOLEAN, planning_mode : BOOLEAN,
             is_scheduled_trigger : BOOLEAN, objective_spec : BOOLEAN, cap : BudgetCaps]

\* An answer without skill calls.
Replies == [says : {"something", "already gone", "will try"},
            complete : BOOLEAN, grounded : BOOLEAN, repeats : BOOLEAN]

Contexts == [tool_error_flag : BOOLEAN, intent_block_streak : 0 .. StreakCap,
             correction_count : Nat, correction_signatures : [Counted -> Nat],
             action_enforcement_done : BOOLEAN, intent_retry_done : BOOLEAN,
             action_all_results : BOOLEAN,
             action_terminal_detected : BOOLEAN, action_terminal_success : BOOLEAN,
             spec_replan_count : Nat, spec_terminal_override_done : BOOLEAN,
             blocking_state_notified : BOOLEAN]

TypeOK ==
    /\ request \in Requests
    /\ stage \in {"planning", "sifting", "text", "guarding", "executed", "judging",
                  "closing", "validating", "recovering", "mending", "mended",
                  "finishing", "correcting", "corrected", "answered", "raised"}
    /\ round \in 0 .. MaxRounds
    /\ used \in 0 .. request.cap + 1
    /\ calls \subseteq Sorts
    /\ ctx \in Contexts
    /\ late \in BOOLEAN
    /\ attempts \in 0 .. MaxRetries
    /\ generated \in Nat
    /\ executed \subseteq Sorts
    /\ fresh \in BOOLEAN
    /\ proven \in BOOLEAN
    /\ reason \in {"none", "rounds", "budget", "stop", "unsummarized"}

Init ==
    /\ request \in Requests
    /\ stage = "planning"
    /\ round = 0
    /\ used = 0
    /\ calls = {}
    /\ ctx = [tool_error_flag |-> FALSE, intent_block_streak |-> 0,
              correction_count |-> 0, correction_signatures |-> [k \in Counted |-> 0],
              action_enforcement_done |-> FALSE, intent_retry_done |-> FALSE,
              action_all_results |-> FALSE,
              action_terminal_detected |-> FALSE, action_terminal_success |-> FALSE,
              spec_replan_count |-> 0, spec_terminal_override_done |-> FALSE,
              blocking_state_notified |-> FALSE]
    /\ late = FALSE
    /\ attempts = 0
    /\ generated = 0
    /\ executed = {}
    /\ fresh = TRUE
    /\ proven = FALSE
    /\ reason = "none"

----------------------------------------------------------------------------
(* How a round ends.                                                       *)

Before(n) == round + n < MaxRounds

Committed == request.action_commitment /\ ~ request.planning_mode

\* continue
NextRound ==
    /\ round' = round + 1
    /\ calls' = {}
    /\ stage' = IF Before(1) THEN "planning" ELSE "closing"
    /\ reason' = IF Before(1) THEN reason ELSE "rounds"

\* break
Stop(why) ==
    /\ stage' = "closing"
    /\ calls' = {}
    /\ reason' = why
    /\ UNCHANGED round

\* Another call of the model.
Asked ==
    /\ generated' = generated + 1
    /\ fresh' = TRUE

----------------------------------------------------------------------------
(* Plan: the budget, the model, and the gates its calls go through.        *)

BudgetStop ==
    /\ stage = "planning"
    /\ used >= request.cap
    /\ used' = used + 1
    /\ Stop("budget")
    /\ UNCHANGED <<request, ctx, late, attempts, generated, executed, fresh, proven>>

Generate ==
    /\ stage = "planning"
    /\ used < request.cap
    /\ used' = used + 1
    /\ Asked
    /\ calls' \in SUBSET Sorts
    /\ stage' = "sifting"
    /\ UNCHANGED <<request, round, ctx, late, attempts, executed, proven, reason>>

\* mutant: the flag of an earlier round is not looked at
BreaksLoopMutant == FALSE

\* A tool error in an earlier round: no more skills in this loop.
BreaksLoop == ctx.tool_error_flag /\ calls # {}

ToolErrorStop ==
    /\ stage = "sifting"
    /\ BreaksLoop
    /\ Stop("stop")
    /\ UNCHANGED <<request, used, ctx, late, attempts, generated, executed, fresh, proven>>

\* sanitize_tool_calls
Routed == calls \ {"no url"}

\* mutant: what the intent gate drops is executed all the same
AllowedMutant == Routed

\* _filter_inferred_side_effects
Allowed == Routed \ {"side effect"}

\* A round without calls leaves the streak alone.
Streak ==
    IF Routed = {} THEN ctx.intent_block_streak
    ELSE IF "side effect" \in Routed THEN ctx.intent_block_streak + 1 ELSE 0

StreakExceeded == "side effect" \in Routed /\ Streak >= StreakCap

AllCallsLost == "no url" \in calls /\ Allowed = {}

StreakStop ==
    /\ stage = "sifting"
    /\ ~ BreaksLoop
    /\ StreakExceeded
    /\ ctx' = [ctx EXCEPT !.intent_block_streak = Streak]
    /\ Stop("stop")
    /\ UNCHANGED <<request, used, late, attempts, generated, executed, fresh, proven>>

\* The calls go on, less those the router and the gate have dropped.
Sift ==
    /\ stage = "sifting"
    /\ ~ BreaksLoop
    /\ ~ StreakExceeded
    /\ \/ /\ AllCallsLost
          /\ ctx' = [ctx EXCEPT !.intent_block_streak = Streak, !.tool_error_flag = TRUE]
          /\ NextRound
       \/ /\ ~ AllCallsLost
          /\ ctx' = [ctx EXCEPT !.intent_block_streak = Streak]
          /\ \/ request.planning_mode /\ Allowed # {} /\ Stop("stop")
             \/ /\ request.planning_mode => Allowed = {}
                /\ calls' = Allowed
                /\ stage' = IF Allowed = {} THEN "text" ELSE "guarding"
                /\ UNCHANGED <<round, reason>>
    /\ UNCHANGED <<request, used, late, attempts, generated, executed, fresh, proven>>

----------------------------------------------------------------------------
(* An answer without skill calls: corrected, or the end of the loop.       *)

CalledFor(k, reply) ==
    CASE k = "retry_promise" ->
            reply.says = "will try" /\ ~ request.planning_mode /\ Before(2)
      [] k = "action_enforcement" ->
            /\ Committed
            /\ ~ ctx.action_enforcement_done
            /\ ~ ctx.action_terminal_detected
            /\ Before(2)
      [] k = "intent_completeness" ->
            ~ reply.complete /\ ~ ctx.intent_retry_done /\ ~ request.is_scheduled_trigger
      [] k = "goal_lock" ->
            Committed /\ ctx.action_terminal_detected /\ Before(1) /\ ~ reply.grounded
      [] k = "spec_override" ->
            /\ Committed
            /\ ctx.action_terminal_success
            /\ ~ ctx.spec_terminal_override_done
            /\ Before(1)
            /\ request.objective_spec
            /\ ~ reply.grounded

First(i, reply) ==
    /\ CalledFor(Corrections[i], reply)
    /\ \A j \in 1 .. i - 1 : ~ CalledFor(Corrections[j], reply)

\* mutant: only the kind is looked at
SkipsMutant(k, reply) == k \in Counted /\ ctx.correction_signatures[k] >= MaxAlike

\* _correction_should_skip
Skips(k, reply) ==
    /\ k \in Counted
    /\ \/ ctx.correction_count >= MaxCorrections
       \/ ctx.correction_signatures[k] >= MaxAlike
       \/ ctx.correction_count > 0 /\ reply.repeats

\* The flags that are set whether the correction is sent or skipped.
Considered(k) ==
    [ctx EXCEPT !.action_enforcement_done = @ \/ k = "action_enforcement",
                !.intent_retry_done = @ \/ k = "intent_completeness",
                !.spec_terminal_override_done = @ \/ k = "spec_override"]

\* _correction_record
Recorded(c, k) ==
    IF k \in Counted
    THEN [c EXCEPT !.correction_count = @ + 1, !.correction_signatures[k] = @ + 1]
    ELSE c

Answer(reply) ==
    /\ stage = "text"
    /\ \/ /\ reply.says = "already gone"
          /\ Stop("stop")
          /\ UNCHANGED ctx
       \/ /\ reply.says # "already gone"
          /\ \A k \in {Corrections[i] : i \in 1 .. 5} : ~ CalledFor(k, reply)
          /\ Stop("stop")
          /\ UNCHANGED ctx
       \/ /\ reply.says # "already gone"
          /\ \E i \in 1 .. 5 :
                LET k == Corrections[i]
                IN /\ First(i, reply)
                   /\ \/ Skips(k, reply) /\ ctx' = Considered(k) /\ Stop("stop")
                      \/ ~ Skips(k, reply) /\ ctx' = Recorded(Considered(k), k) /\ NextRound
    /\ UNCHANGED <<request, used, late, attempts, generated, executed, fresh, proven>>

----------------------------------------------------------------------------
(* The guard, the execution, and what follows from its results.            *)

\* pre_execution_check has found a foreign call, or has raised.
GuardReplan ==
    /\ stage = "guarding"
    /\ NextRound
    /\ UNCHANGED <<request, used, ctx, late, attempts, generated, executed, fresh, proven>>

Execute ==
    /\ stage = "guarding"
    /\ "foreign" \notin calls
    /\ executed' = executed \cup calls
    /\ fresh' = FALSE
    /\ stage' = "executed"
    /\ UNCHANGED <<request, round, used, calls, ctx, late, attempts, generated, proven, reason>>

\* check_redirect_escape: the results are not counted as the request's.
RedirectReplan ==
    /\ stage = "executed"
    /\ NextRound
    /\ UNCHANGED <<request, used, ctx, late, attempts, generated, executed, fresh, proven>>

\* _check_action_terminal_state
TerminalState(shown) == request.action_commitment /\ shown

\* The results are gathered: those of the browser only, and the check for a
\* terminal state, in the branch of a request without commitment.
Gather ==
    /\ stage = "executed"
    /\ \E shown, browsed \in BOOLEAN :
        /\ proven' = (proven \/ (Committed /\ shown))
        /\ LET found == ~ Committed /\ TerminalState(shown)
           IN ctx' = [ctx EXCEPT !.action_all_results = @ \/ Committed \/ browsed,
                                 !.action_terminal_detected = @ \/ found,
                                 !.action_terminal_success = @ \/ found]
    /\ stage' = "judging"
    /\ UNCHANGED <<request, round, used, calls, late, attempts, generated, executed, fresh, reason>>

\* _detect_blocking_state: a hard one asks for another way at once.
BlockSeen ==
    /\ stage = "judging"
    /\ Committed
    /\ ~ ctx.blocking_state_notified
    /\ Before(1)
    /\ ctx' = [ctx EXCEPT !.blocking_state_notified = TRUE]
    /\ NextRound \/ UNCHANGED <<stage, round, calls, reason>>
    /\ UNCHANGED <<request, used, late, attempts, generated, executed, fresh, proven>>

SpecReplanMax ==
    LET half == MaxRounds \div 2
    IN IF half < 2 THEN 2 ELSE IF half > 4 THEN 4 ELSE half

SpecReplan ==
    /\ stage = "judging"
    /\ Committed
    /\ request.objective_spec
    /\ ~ ctx.action_terminal_detected
    /\ Before(2)
    /\ ctx.spec_replan_count < SpecReplanMax
    /\ ctx' = [ctx EXCEPT !.spec_replan_count = @ + 1]
    /\ NextRound
    /\ UNCHANGED <<request, used, late, attempts, generated, executed, fresh, proven>>

\* mutant: the loop goes on after the answer it has asked for
TimeLimitMutant ==
    /\ stage = "judging"
    /\ late
    /\ Before(1)
    /\ Asked
    /\ NextRound
    /\ UNCHANGED <<request, used, ctx, late, attempts, executed, proven>>

\* mutant: time is up, and the response written before the skills is sent
TimeLimitMutant2 ==
    /\ stage = "judging"
    /\ late
    /\ Before(1)
    /\ Stop("stop")
    /\ UNCHANGED <<request, used, ctx, late, attempts, generated, executed, fresh, proven>>

\* The wall-clock cap: one last call of the model, whose answer is final.
TimeLimit ==
    /\ stage = "judging"
    /\ late
    /\ Before(1)
    /\ Asked
    /\ Stop("stop")
    /\ UNCHANGED <<request, used, ctx, late, attempts, executed, proven>>

\* The results go to the model, if there is another round.
Continue ==
    /\ stage = "judging"
    /\ late => ~ Before(1)
    /\ NextRound
    /\ UNCHANGED <<request, used, ctx, late, attempts, generated, executed, fresh, proven>>

----------------------------------------------------------------------------
(* After the loop.                                                         *)

\* The gates on the answer, which put a text of their own in place of what
\* they refuse.
Close ==
    /\ stage = "closing"
    /\ fresh' \in {fresh, TRUE}
    /\ stage' = "validating"
    /\ UNCHANGED <<request, round, used, calls, ctx, late, attempts>>
    /\ UNCHANGED <<generated, executed, proven, reason>>

loop == <<request, round, used, calls, ctx, late, executed, proven>>

\* A text of the handler's own is sent: it tells of no result.
Excuse ==
    /\ fresh' = TRUE
    /\ stage' = "finishing"

\* ResponseValidator: the answer stays, or is refused, or there is something
\* missing that skills may still do.
Validate ==
    /\ stage = "validating"
    /\ \/ stage' = "finishing" /\ UNCHANGED fresh
       \/ Excuse
       \/ stage' = "recovering" /\ UNCHANGED fresh
    /\ UNCHANGED <<loop, attempts, generated, reason>>

\* An answer about something else is written again, or refused if the model
\* fails.
Redirect ==
    /\ stage = "validating"
    /\ generated' = generated + 1
    /\ fresh' = TRUE
    /\ stage' = "finishing"
    /\ UNCHANGED <<loop, attempts, reason>>

\* attempt_recovery asks for the missing calls, and gets some or none.
Recover ==
    /\ stage = "recovering"
    /\ attempts < MaxRetries
    /\ attempts' = attempts + 1
    /\ generated' = generated + 1
    /\ stage' \in {"recovering", "mending"}
    /\ UNCHANGED <<loop, fresh, reason>>

\* They are executed as they are: no router, no intent gate, no guard.
Mend ==
    /\ stage = "mending"
    /\ fresh' = FALSE
    /\ stage' \in {"recovering", "mended"}
    /\ UNCHANGED <<loop, attempts, generated, reason>>

\* A new answer is written from the results and validated in its turn.
Synthesize ==
    /\ stage = "mended"
    /\ generated' = generated + 1
    /\ \/ fresh' = TRUE /\ stage' \in {"finishing", "recovering"}
       \/ UNCHANGED fresh /\ stage' = "recovering"
    /\ UNCHANGED <<loop, attempts, reason>>

GiveUp ==
    /\ stage = "recovering"
    /\ attempts = MaxRetries
    /\ Excuse
    /\ UNCHANGED <<loop, attempts, generated, reason>>

\* A scheduled task that has skipped a step it names is told so: the model may
\* fail, or answer without calls.
Correct ==
    /\ stage = "finishing"
    /\ request.is_scheduled_trigger
    /\ generated' = generated + 1
    /\ stage' \in {"correcting", "answered"}
    /\ UNCHANGED <<loop, attempts, fresh, reason>>

CorrectionRuns ==
    /\ stage = "correcting"
    /\ fresh' = FALSE
    /\ \/ stage' = "corrected" /\ UNCHANGED reason
       \/ stage' = "answered" /\ reason' = "unsummarized"
    /\ UNCHANGED <<loop, attempts, generated>>

\* If nothing comes of the last call, the answer of before is sent.
Summarize ==
    /\ stage = "corrected"
    /\ generated' = generated + 1
    /\ stage' = "answered"
    /\ \/ fresh' = TRUE /\ UNCHANGED reason
       \/ reason' = "unsummarized" /\ UNCHANGED fresh
    /\ UNCHANGED <<loop, attempts>>

\* A report's own text may replace the answer: it tells of its results.
Send ==
    /\ stage = "finishing"
    /\ fresh' \in {fresh, TRUE}
    /\ stage' = "answered"
    /\ UNCHANGED <<loop, attempts, generated, reason>>

\* A call of the model raises in the loop, or the consumer's timeout cancels
\* the handler anywhere.
Raise ==
    /\ stage \notin {"sifting", "text", "closing", "answered", "raised"}
    /\ stage' = "raised"
    /\ UNCHANGED <<request, round, used, calls, ctx, late, attempts, ghosts>>

Clock ==
    /\ ~ late
    /\ stage \notin {"answered", "raised"}
    /\ late' = TRUE
    /\ UNCHANGED <<request, stage, round, used, calls, ctx, attempts, ghosts>>

Loop ==
    \/ BudgetStop \/ Generate
    \/ ToolErrorStop \/ StreakStop \/ Sift
    \/ \E reply \in Replies : Answer(reply)
    \/ GuardReplan \/ Execute
    \/ RedirectReplan \/ Gather
    \/ BlockSeen \/ SpecReplan \/ TimeLimit \/ Continue
    \/ Close

Afterwards ==
    \/ Validate \/ Redirect \/ Recover \/ Mend \/ Synthesize \/ GiveUp
    \/ Correct \/ CorrectionRuns \/ Summarize \/ Send

Next == Loop \/ Afterwards \/ Raise \/ Clock

Spec == Init /\ [][Next]_vars

----------------------------------------------------------------------------
\* Calls of the model that the loop's budget does not count: two for each
\* attempt of the recovery, two for the correction of a scheduled task.
Extra == 2 * MaxRetries + (IF request.is_scheduled_trigger THEN 2 ELSE 0)

(* The cost of a request, recovery and correction included: no more calls  *)
(* of the model than rounds, or than the request's budget, one for the     *)
(* wall-clock cap, and those no budget counts.                             *)
CallsBounded ==
    /\ generated <= MaxRounds + 1 + Extra
    /\ generated <= request.cap + 1 + Extra

(* Corrections of all kinds together, and of each kind, stay below their   *)
(* caps, so that a model that answers without skills cannot spend all its  *)
(* rounds on being corrected.                                              *)
CorrectionsBounded ==
    /\ ctx.correction_count <= MaxCorrections
    /\ \A k \in Counted : ctx.correction_signatures[k] <= MaxAlike

(* Whatever rounds came before, the loop only executes calls that the      *)
(* router, the intent gate and the guard have all let through.  Recovery   *)
(* and correction, after the loop, ask none of the three.                  *)
OnlyVetted == executed \subseteq {"fine"}

(* Once all calls of a round were dropped for a missing URL, no later      *)
(* round of the loop runs a skill, however often it asks the model again.  *)
(* The recovery after the loop may still run one.                          *)
NoRoundAfterToolError == [][ctx.tool_error_flag => stage' # "executed"]_vars

(* The answer that is sent was written with the last results at hand, or   *)
(* is a text of the code's own, whatever was recovered or corrected after  *)
(* the loop; unless the loop has run out of rounds or of budget, or the    *)
(* last call of a correction failed.                                       *)
AnswerSeesResults ==
    stage = "answered" => fresh \/ reason \in {"rounds", "budget", "unsummarized"}

(* "TERMINAL - _check_action_terminal_state() detects completion": once    *)
(* the results of a committed request show that it is fulfilled, the loop  *)
(* has noticed.                                                            *)
CompletionDetected ==
    stage = "judging" /\ Committed /\ proven => ctx.action_terminal_detected
=============================================================================
