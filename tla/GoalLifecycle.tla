--------------------------- MODULE GoalLifecycle ----------------------------
(***************************************************************************)
(* What a user of the Goal Engine may rely on when nothing else writes the *)
(* goals: the state machine of a goal and the set of its finished tasks.   *)
(* GoalEngine with one driver implements it (GoalProperties, Lifecycle).   *)
(***************************************************************************)
CONSTANTS Goals, Tasks

VARIABLES
  phase,   \* the state of each goal, "gone" when it has been forgotten
  done,    \* the tasks of each goal that have been finished
  loose    \* the goals that may lose them: from templates of replanned goals

Init ==
  /\ phase = [g \in Goals |-> "absent"]
  /\ done  = [g \in Goals |-> {}]
  /\ loose = {}

Goto(g, from, to) ==
  /\ phase[g] \in from
  /\ phase' = [phase EXCEPT ![g] = to]
  /\ UNCHANGED done

Create(g) == Goto(g, {"absent"}, "planning") /\ UNCHANGED loose
Abort(g)  == Goto(g, {"planning", "active"}, "failed") /\ UNCHANGED loose
Pause(g)  == Goto(g, {"active"}, "paused") /\ UNCHANGED loose
Resume(g) == Goto(g, {"paused"}, "active") /\ UNCHANGED loose

\* It is settled with the first graph whether a goal is loose.
Activate(g) ==
  /\ Goto(g, {"planning"}, "active")
  /\ loose' \in {loose, loose \cup {g}}

\* One more task is finished, and only an active goal finishes tasks.
Finish(g, t) ==
  /\ phase[g] = "active"
  /\ t \notin done[g]
  /\ done' = [done EXCEPT ![g] = @ \cup {t}]
  /\ UNCHANGED <<phase, loose>>

\* A loose goal starts again with a plan that repeats its finished work.
StartOver(g) ==
  /\ g \in loose
  /\ phase[g] = "active"
  /\ done' = [done EXCEPT ![g] = {}]
  /\ UNCHANGED <<phase, loose>>

\* Completion needs finished work.
Complete(g) ==
  /\ done[g] # {}
  /\ Goto(g, {"active"}, "completed")
  /\ UNCHANGED loose

\* Old goals are forgotten, several at once, and an id is never used again.
Forget(S) ==
  /\ \A g \in S : phase[g] \in {"completed", "failed"}
  /\ phase' = [g \in Goals |-> IF g \in S THEN "gone" ELSE phase[g]]
  /\ done'  = [g \in Goals |-> IF g \in S THEN {} ELSE done[g]]
  /\ loose' = loose \ S

Next ==
  \/ \E S \in SUBSET Goals : Forget(S)
  \/ \E g \in Goals :
       \/ Create(g) \/ Activate(g) \/ Abort(g) \/ Pause(g) \/ Resume(g)
       \/ Complete(g) \/ StartOver(g) \/ \E t \in Tasks : Finish(g, t)

Spec == Init /\ [][Next]_<<phase, done, loose>>

=============================================================================
