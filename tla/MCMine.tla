------------------------------- MODULE MCMine -------------------------------
(***************************************************************************)
(* Small boards: three pull requests, the states they may move between.    *)
(***************************************************************************)
EXTENDS Mine

Check(at, name, conclusion, required) ==
  [at |-> at, kind |-> "check", name |-> name,
   status |-> IF conclusion = "" THEN "IN_PROGRESS" ELSE "COMPLETED",
   conclusion |-> conclusion, required |-> required, run |-> 1, url |-> NoUrl]

Build(conclusion) == Check(1, "build", conclusion, TRUE)
Lint(conclusion) == Check(2, "lint", conclusion, FALSE)

Ready(rank) ==
  [pr |-> rank, state |-> "OPEN", draft |-> FALSE, conflict |-> FALSE,
   computing |-> {}, review |-> "APPROVED", codeOwners |-> FALSE,
   queueEnabled |-> FALSE, queue |-> NoQueue, conversations |-> TRUE,
   required |-> {"build"}, bprReadable |-> TRUE, hidden |-> FALSE,
   hooks |-> FALSE, strict |-> TRUE, behindBy |-> 0, canUpdate |-> TRUE,
   threads |-> <<0>>, rollup |-> TRUE,
   checks |-> <<{Build("SUCCESS"), Lint("SUCCESS")}>>]

Ran(w, build, lint) == [w EXCEPT !.checks = <<{Build(build), Lint(lint)}>>]

\* 1: behind a merge queue whose rules the token cannot read.
Queueing == [Ready(1) EXCEPT !.queueEnabled = TRUE, !.bprReadable = FALSE]
InQueue == [Queueing EXCEPT !.queue = [state |-> "QUEUED", position |-> 1, eta |-> 90]]

\* 2: no queue; checks fail or run or, after a push, have not reported; the base
\* advances, a rule is hidden.
\* 3: lists longer than a page, no mergeability yet, no rollup, a merge.
MineWorlds ==
  {Queueing, Ran(Queueing, "FAILURE", "SUCCESS"), InQueue}
  \cup {Ran(Ready(2), "SUCCESS", "FAILURE"), Ran(Ready(2), "", "SUCCESS"),
        [Ready(2) EXCEPT !.checks = <<{Lint("FAILURE")}>>],
        [Ready(2) EXCEPT !.behindBy = 2], [Ready(2) EXCEPT !.hidden = TRUE]}
  \cup {[Queueing EXCEPT !.pr = 3, !.checks = <<@[1], {Check(3, "test", "FAILURE", TRUE)}>>],
        [Ready(3) EXCEPT !.threads = <<0, 1>>, !.computing = {"mergeable"}],
        [Ready(3) EXCEPT !.rollup = FALSE], [Ready(3) EXCEPT !.state = "MERGED"]}

Of(rank) == {w \in MineWorlds : w.pr = rank}

\* Search order is not row order; a node without a pull request; a result
\* beyond the limit of four.
MineBoards ==
  {<<c, NoPR, a, b>> : a \in Of(1), b \in Of(2), c \in Of(3)}
  \cup {<<b, a>> : a \in Of(1), b \in Of(2)}
  \cup {<<NoPR, b, NoPR, a, Queueing>> : a \in Of(3), b \in Of(2)} \cup {<<>>}

Item(at, loss) == [at |-> at, loss |-> loss, climbs |-> FALSE, thread |-> 1]

MineErrors ==
  {{}, {Item(3, "reviewThreads")}, {Item(2, "mergeQueueEntry"), Item(1, "statusCheckRollup")},
   {[Item(1, "reviewThreads") EXCEPT !.climbs = TRUE], Item(3, "contexts")},
   {Item(0, "isRequired")}, {[Item(2, "threadNode") EXCEPT !.thread = 3]}}

MineLosses == {{}, {"statusCheckRollup"}, {"isRequired"}}
NoError == {{}}
MaimedOnly == {{}, {"isRequiredNode"}}
=============================================================================
