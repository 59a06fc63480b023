----------------------------- MODULE PlanHistory -----------------------------
(***************************************************************************)
(* One graph through its life, seen apart from the goal that owns it:      *)
(* the planner's answer, tasks that finish in dependency order, tasks that *)
(* fail for good, and the merge of each replan.  Every dependency relation *)
(* on the names is a possible answer, so the runs cover all small plans,   *)
(* the cyclic ones included.                                               *)
(***************************************************************************)
EXTENDS TaskGraph

CONSTANT Place   \* the place of each name in the lists of the planner

ASSUME PlaceAssumption ==
  /\ Place \in [Names -> Nat]
  /\ \A a, b \in Names : Place[a] = Place[b] => a = b

VARIABLES
  proposal,  \* the planner's last answer, before validation
  graph,     \* the graph of the goal
  replans    \* replan_count

pvars == <<proposal, graph, replans>>

\* The answer that lists the tasks S, each needing the names needs gives it.
AnswerWith(S, needs) ==
  [i \in TaskId |->
     IF i[1] = 0 /\ i[2] \in S
     THEN [AbsentNode EXCEPT !.status = "pending",
                             !.pos    = Place[i[2]],
                             !.deps   = {<<0, d>> : d \in needs[i[2]]}]
     ELSE AbsentNode]

\* Some of the names, each needing any of the names.
Answers ==
  {AnswerWith(S, needs) : S \in (SUBSET Names) \ {{}}, needs \in [Names -> SUBSET Names]}

\* Those validate_dag lets through.
ValidAnswers == {plan \in Answers : ValidDag(plan)}

HistoryInit ==
  /\ proposal \in Answers
  /\ graph = IF ValidDag(proposal) THEN proposal ELSE EmptyGraph
  /\ replans = 0

Finish ==
  /\ \E t \in NextTask(graph) : graph' = [graph EXCEPT ![t].status = "done"]
  /\ UNCHANGED <<proposal, replans>>

GiveUp ==
  /\ WithStatus(graph, "failed") = {}
  /\ \E t \in NextTask(graph) : graph' = [graph EXCEPT ![t].status = "failed"]
  /\ UNCHANGED <<proposal, replans>>

Replan ==
  /\ WithStatus(graph, "failed") # {}
  /\ replans < MaxReplanCount
  /\ replans' = replans + 1
  /\ proposal' \in ValidAnswers
  /\ graph' = MergeReplan(graph, replans + 1, proposal')

HistoryNext == Finish \/ GiveUp \/ Replan

HistorySpec == HistoryInit /\ [][HistoryNext]_pvars

-----------------------------------------------------------------------------
\* validate_dag accepts an answer exactly when its dependencies exist and no
\* set of tasks waits for itself: Kahn's counting loop against the definition.
AcceptsExactlyDags ==
  ValidDag(proposal) <=> Closed(proposal) /\ Acyclic(proposal, Ids(proposal))

\* get_next_task never leaves work behind: after any number of replans, a graph
\* without a failed task has a next task or is complete.
WorkRemainsReachable ==
  Ids(graph) # {} /\ WithStatus(graph, "failed") = {} =>
    IsComplete(graph) \/ Cardinality(NextTask(graph)) = 1

\* The renaming of colliding ids loses nothing: a replan keeps the finished
\* tasks and adds every task of the new plan, each waiting for as many tasks
\* as the planner said, none of them finished before.
ReplanLosesNothing ==
  [][replans' # replans =>
       /\ \A t \in DoneIds(graph) : graph'[t] = graph[t]
       /\ \E home \in [Ids(proposal') -> Ids(graph') \ DoneIds(graph)] :
            /\ \A j \in Ids(graph') \ DoneIds(graph) : \E i \in DOMAIN home : home[i] = j
            /\ \A i \in DOMAIN home :
                 graph'[home[i]].deps = {home[d] : d \in proposal'[i].deps}]_pvars

=============================================================================
