------------------------------- MODULE MCWatch -------------------------------
(***************************************************************************)
(* Small instances of Watch: pull requests at birth, what their checks may *)
(* report, the orders the rollup may come in.                              *)
(***************************************************************************)
EXTENDS Watch

Ctx(at, name, required) ==
  [at |-> at, kind |-> "check", name |-> name, status |-> "IN_PROGRESS",
   conclusion |-> "", required |-> required, run |-> 1, url |-> NoUrl]

Newborn ==
  [pr |-> "o/r#1", state |-> "OPEN", draft |-> FALSE, conflict |-> FALSE,
   computing |-> {}, review |-> "", codeOwners |-> TRUE,
   queueEnabled |-> FALSE, queue |-> NoQueue, conversations |-> TRUE,
   required |-> {"build"}, bprReadable |-> TRUE, hidden |-> FALSE,
   hooks |-> FALSE, strict |-> TRUE, behindBy |-> 0, canUpdate |-> TRUE,
   threads |-> <<0>>, rollup |-> TRUE,
   checks |-> <<{Ctx(1, "build", TRUE), Ctx(2, "lint", FALSE)}>>]

InRepoWithQueue(w) == [w EXCEPT !.queueEnabled = TRUE, !.review = "APPROVED"]
Unreadable(w) == [w EXCEPT !.bprReadable = FALSE]

Ran(conclusion, run) == [status |-> "COMPLETED", conclusion |-> conclusion, run |-> run]
Running == [status |-> "IN_PROGRESS", conclusion |-> "", run |-> 1]

ThreeOutcomes == {Running, Ran("SUCCESS", 1), Ran("FAILURE", 2)}
InOrder == {<<1, 2>>}
AnyOrder == {<<1, 2>>, <<2, 1>>}

Numbered(worlds, number) == {[w EXCEPT !.pr = number] : w \in worlds}

\* o/r#1: the rules can be read, with and without a queue, and everything
\* about the pull request may change.
ReadablePRs ==
  {Newborn, InRepoWithQueue(Newborn),
   [Newborn EXCEPT !.hooks = TRUE, !.strict = FALSE, !.rollup = FALSE]}

\* o/r#2: rules the token cannot read, in a repository with and without a
\* queue, and answers that lose parts.
PoorlySeenPRs ==
  Numbered({Newborn, Unreadable(Newborn), [Newborn EXCEPT !.hidden = TRUE],
            InRepoWithQueue(Newborn), Unreadable(InRepoWithQueue(Newborn))}, "o/r#2")

ReadableOrPoorlySeen == ReadablePRs \cup PoorlySeenPRs

EveryFacet == {"required", "optional", "rollup", "review", "draft", "threads", "base",
               "update", "computing", "conflict", "queue", "ends"}
ExitFacets ==
  [pr \in PRs |-> IF pr = "o/r#1" THEN EveryFacet
                  ELSE {"required", "optional", "review", "threads", "base", "ends"}]
NoisyFacets == [pr \in PRs |-> {"required", "optional", "base", "queue"}]
CheckFacets == [pr \in PRs |-> {"required", "optional"}]

\* A check reported twice under one name: by two runs, or by two suites of
\* which the ruleset requires one.
Twins(w, secondRequired) ==
  [w EXCEPT !.checks = <<{Ctx(1, "build", secondRequired), Ctx(2, "build", TRUE)}>>]
TwinnedPR == {Twins(Newborn, TRUE)}
ShadowedPR == {Twins(Newborn, FALSE)}

\* A required and an optional check; a check reported twice, in two orders; a
\* merge queue, whose base has advanced already.
NoisyPRs ==
  {Newborn, Twins(Newborn, TRUE), [InRepoWithQueue(Newborn) EXCEPT !.behindBy = 2]}

TwinOutcomes == {Running, Ran("FAILURE", 1), Ran("FAILURE", 2)}

NoLoss == [pr \in PRs |-> {{}}]
SomeLoss == [pr \in PRs |-> {{}, {"compare"}, {"isRequiredNode"}}]
AnyLoss == {{}} \cup {{l} : l \in Losses \ {"baseRef"}}
                \cup {{"isRequired", "reviewThreads"}, {"compare", "isRequiredNode"}}
ExitLoss == [pr \in PRs |-> IF pr = "o/r#1" THEN {{}} ELSE AnyLoss]
=============================================================================
