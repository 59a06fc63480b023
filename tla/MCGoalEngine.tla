---------------------------- MODULE MCGoalEngine ----------------------------
(***************************************************************************)
(* Instances of GoalEngine for TLC: the plans of the runs.                 *)
(***************************************************************************)
EXTENDS GoalProperties, TLC

Task(pos, deps, retries) ==
  [AbsentNode EXCEPT !.status = "pending", !.pos = pos, !.maxRetries = retries,
                     !.deps = {<<0, d>> : d \in deps}]

PlanOf(f) ==
  [i \in TaskId |-> IF i[1] = 0 /\ i[2] \in DOMAIN f THEN f[i[2]] ELSE AbsentNode]

\* b needs a; a may be retried once.
Chain == PlanOf("a" :> Task(1, {}, 2) @@ "b" :> Task(2, {"a"}, 0))

\* One task with a dangerous skill: confirmed in "semi", free in "full".
Risky == PlanOf("a" :> [Task(1, {}, 1) EXCEPT !.dangerous = TRUE])

\* b is refused by the intent gate once a is done.
Gated == PlanOf("a" :> Task(1, {}, 1)
             @@ "b" :> [Task(2, {"a"}, 2) EXCEPT !.fault = "rejected"])

\* Listed before the task it needs, which a cap of one task cuts off.
Backward == PlanOf("a" :> Task(1, {"b"}, 1) @@ "b" :> Task(2, {}, 1))

\* a is outside the sandbox of the agent.
Denied == PlanOf("a" :> [Task(1, {}, 1) EXCEPT !.fault = "denied"])

PlansAll   == {Chain, Risky, Gated, Backward, Denied}
PlansPlain == {Chain, Gated}
PlansChain == {Chain}
PlansBack  == {Chain, Backward}
PlansRisky == {Risky}

Templated(f) == [i \in TaskId |-> IF i \in DOMAIN f THEN f[i] ELSE AbsentNode]

\* The graph of a goal after one replan, a finished before it: a, and the new
\* plan's r1_a and b, which the intent gate will refuse.
Replayed ==
  Templated(<<0, "a">> :> Task(1, {}, 1)
         @@ <<1, "a">> :> Task(2, {}, 1)
         @@ <<0, "b">> :> [Task(3, {}, 2) EXCEPT !.fault = "rejected",
                                                 !.deps  = {<<1, "a">>}])

\* The graph of a goal whose plan has been cut: a waits for a task cut off.
Stump == Truncate(Backward, 1)

\* The intent gate refuses the first task.
Refused == PlanOf("a" :> [Task(1, {}, 1) EXCEPT !.fault = "rejected"])

\* The graph of a goal whose planning failed.
Nothing == EmptyGraph

TemplatesAll  == {Chain, Gated, Replayed, Stump, Nothing}
TemplatesFair == {Chain, Nothing}
TemplatesShort == {Gated, Risky, Denied, Stump, Refused}

\* The history runs decides nothing, and no invariant of a record is about it.
WithoutRuns == <<store, late, maker, ticking, tick, command, issued, faults>>

TwoDrivers == Permutations(Drivers)

OnePriority == [g \in Goals |-> 5]

\* The first goal is a user's (8), the others are autonomous (3).
TwoPriorities == LET first == CHOOSE g \in Goals : TRUE IN
                 [g \in Goals |-> IF g = first THEN 8 ELSE 3]

-----------------------------------------------------------------------------
(* Fairness.  The scheduler's loop and asyncio run what is ready; a skill  *)
(* and the planner answer within their own timeouts; a backoff (300 s at   *)
(* most) is not in force at every load.  Nothing is assumed of users and   *)
(* of faults; the runtime limit is relied on for goals that have nothing   *)
(* to do from the start, which nothing else ends.                          *)

PastBackoff(w, g) ==
  \/ StopAtLimit(w, g) \/ FindNoTask(w, g) \/ BlockTask(w, g)
  \/ RejectTask(w, g) \/ ExecuteTask(w, g)

Fairness ==
  /\ \A w \in Drivers : WF_vars(StartTick(w)) /\ WF_vars(EndTick(w))
  /\ \A w \in Drivers, g \in Goals :
       /\ WF_vars(Compute(w, g))
       /\ SF_vars(PastBackoff(w, g))
       /\ WF_vars(Answer(w, g))
  /\ \A g \in Goals : WF_vars(\E plan \in Plans : PlanGoal(g, plan))
  /\ \A g \in Goals : WF_vars(Ids(store[g].graph) = {} /\ RuntimeElapses(g))

FairSpec == Spec /\ Fairness

\* An active goal comes to rest: it ends, or waits for the user.
ActiveComesToRest ==
  \A g \in Goals :
    store[g].state = "active" ~> store[g].state \in Terminal \cup {"paused"}

\* The user keeps resuming a paused goal.
ResumingUser ==
  \A u \in Operators, g \in Goals :
    WF_vars(IssueCommand(u, "resume", g) \/ SaveCommand(u, g))

PatientSpec == FairSpec /\ ResumingUser

\* autonomy.py:12: a blocked task waits "for the user to review via dashboard
\* or Telegram and then Resume": resumed, it runs, or its goal ends.
ResumedTaskRuns ==
  \A g \in Goals :
    (store[g].state = "paused" /\ WithStatus(store[g].graph, "blocked") # {})
      ~> (runs[g] > 0 \/ store[g].state \in Terminal)

=============================================================================
