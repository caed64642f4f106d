------------------------------- MODULE MCFetch -------------------------------
(***************************************************************************)
(* Small instances of Fetch: the states a pull request may move between.   *)
(***************************************************************************)
EXTENDS Fetch

Check(at, name, conclusion, required) ==
  [at |-> at, kind |-> "check", name |-> name,
   status |-> IF conclusion = "" THEN "IN_PROGRESS" ELSE "COMPLETED",
   conclusion |-> conclusion, required |-> required, run |-> 1, url |-> NoUrl]

Build(at, conclusion) == Check(at, "build", conclusion, TRUE)
Lint(at, conclusion) == Check(at, "lint", conclusion, FALSE)

Ready ==
  [pr |-> "o/r#1", state |-> "OPEN", draft |-> FALSE, conflict |-> FALSE,
   computing |-> {}, review |-> "APPROVED", codeOwners |-> FALSE,
   queueEnabled |-> FALSE, queue |-> NoQueue, conversations |-> TRUE,
   required |-> {"build"}, bprReadable |-> TRUE, hidden |-> FALSE,
   hooks |-> FALSE, strict |-> TRUE, behindBy |-> 0, canUpdate |-> TRUE,
   threads |-> <<0>>, rollup |-> TRUE,
   checks |-> <<{Build(1, "SUCCESS"), Lint(2, "FAILURE")}>>]

Undecid(w) == [w EXCEPT !.computing = {"mergeable"}]
Red(w) == [w EXCEPT !.checks = <<{Build(1, "FAILURE"), Lint(2, "SUCCESS")}>>]
Enqueue(w) == [w EXCEPT !.queueEnabled = TRUE]
Unreadable(w) == [w EXCEPT !.bprReadable = FALSE]

\* Mergeability comes and goes while the pull request is merged, closed,
\* breaks, falls behind or waits for a merge queue.
ProbeWorlds ==
  {Ready, Undecid(Ready), Red(Ready), Undecid(Red(Ready)),
   Unreadable(Enqueue(Red(Ready))), Undecid(Enqueue(Ready)),
   [Ready EXCEPT !.behindBy = 2], [Ready EXCEPT !.state = "MERGED"]}

ProbeLosses == {{}, {"isRequired"}, {"isRequiredNode"}, {"reviewThreads"}, {"compare"}}

\* Budgets of 0, 1, 3.5 and 8 seconds: no probe, one, three, all four.
ProbeBudgets == {0, 2, 7, 16}

\* Facts beyond the first page.  Under a merge queue only the later pages
\* tell a pull request that is ready to enqueue from one that is not.
Deep(w, threads, checks) == [w EXCEPT !.threads = threads, !.checks = checks]
Filler(n) == {Check(n, "test", "SUCCESS", FALSE)}

ThreadPageWorlds ==
  {Enqueue(Ready),
   Deep(Enqueue(Ready), <<0, 1>>, <<{Build(1, "SUCCESS")}>>),
   Deep(Enqueue(Ready), <<0, 0, 0, 0, 0, 1>>, <<{Build(1, "SUCCESS")}>>)}

CheckPageWorlds ==
  {Unreadable(Deep(Enqueue(Ready), <<0, 0>>, <<Filler(1), {Build(101, "FAILURE")}>>)),
   Deep(Enqueue(Ready), <<0>>, <<Filler(1), {Build(101, "SUCCESS")}, {Build(201, "")}>>),
   Unreadable(Deep(Enqueue(Ready), <<0>>,
     <<Filler(1), Filler(101), Filler(201), Filler(301), {Build(401, "FAILURE")}>>))}

\* A push leaves the head without a rollup; there is no merge queue.
PushWorlds ==
  {Deep(Ready, <<0, 0>>, <<{Build(1, "SUCCESS")}, {Lint(101, "FAILURE")}>>),
   Deep(Ready, <<0, 1>>, <<Filler(1), {Build(101, "FAILURE")}>>),
   [Ready EXCEPT !.rollup = FALSE], Undecid(Ready)}

\* Three pull requests: one invocation asks for one of them.
Numbered(worlds, number) == {[w EXCEPT !.pr = number] : w \in worlds}
PagedWorlds == ThreadPageWorlds \cup Numbered(CheckPageWorlds, "o/r#2")
               \cup Numbered(PushWorlds, "o/r#3")

\* GitHub has settled mergeable and not yet mergeStateStatus.
LaggingWorlds ==
  {[w EXCEPT !.computing = {"mergeState"}] : w \in {Ready, [Ready EXCEPT !.hidden = TRUE]}}
  \cup {Ready}

\* The failing required check is on the second page when the head moves.
VanishingWorlds ==
  {Unreadable(Deep(Enqueue(Ready), <<0>>, <<Filler(1), {Build(101, "FAILURE")}>>)),
   [Enqueue(Ready) EXCEPT !.rollup = FALSE]}

QueueWorlds == {Enqueue(Ready), [Enqueue(Ready) EXCEPT !.threads = <<1>>]}

SilentLoss == {{}, {"baseRef"}, {"compare"}, {"reviewRequests"}}
NoLoss == {{}}
=============================================================================
