-------------------------------- MODULE Fetch --------------------------------
(***************************************************************************)
(* One invocation on one pull request: fetch.PR (internal/fetch/fetch.go)  *)
(* request by request, then the report and the exit code of runSingle      *)
(* (cmd/prq/run.go).  The pull request moves on GitHub between any two     *)
(* requests; requests fail, answer in part, or take time; time counts in   *)
(* half seconds from the start of the invocation.                          *)
(***************************************************************************)
EXTENDS GitHub

CONSTANTS Worlds,      \* the states the pull request may be in
          LossSets,    \* what one partial answer may lose
          Budgets,     \* values of --retry-budget
          Timeout,     \* --timeout
          Latencies,   \* the times one request may take
          Faults       \* "error": requests fail; "null": a page has no pull request

ASSUME FetchAssumption ==
  /\ Worlds \subseteq World
  /\ LossSets \subseteq SUBSET Losses
  /\ Budgets \subseteq Nat
  /\ Timeout \in Nat /\ Latencies \subseteq Nat
  /\ Faults \subseteq {"error", "null"}

Ladder == <<1, 2, 4, 8>>
MaxThreadPages == 5
MaxContextPages == 4

VARIABLES
  world,     \* the pull request on GitHub
  budget,    \* retryBudget
  ghes,      \* the host is not github.com
  pc,        \* the next step of the invocation
  now,       \* the time it has taken
  pr,        \* the full answer it holds
  degraded,  \* the tokens that came with that answer
  rung,      \* index of the next sleep of the ladder
  spent,     \* time slept so far
  in,        \* the synthesizer's input
  tp, cp,    \* open thread and context pages: the next page, whether there is one
  out,       \* the exit code, and the report where there is one
  lost,      \* history: what the held answer lost
  view,      \* history: the pull request as the pages read so far describe it
  blank,     \* history: a page came back without a pull request or a rollup
  sent       \* history: requests sent

code == <<budget, ghes, pc, now, pr, degraded, rung, spent, in, tp, cp, out>>
history == <<lost, view, blank, sent>>
vars == <<world, code, history>>

Nothing == [exit |-> -1]   \* a value not computed yet

Init ==
  /\ world \in Worlds /\ budget \in Budgets /\ ghes \in BOOLEAN
  /\ pc = "full" /\ now = 0 /\ rung = 1 /\ spent = 0
  /\ pr = Nothing /\ in = Nothing /\ out = Nothing
  /\ degraded = {} /\ lost = {}
  /\ tp = [page |-> 2, hasNext |-> FALSE] /\ cp = [page |-> 2, hasNext |-> FALSE]
  /\ view = world /\ blank = FALSE /\ sent = 0

-----------------------------------------------------------------------------
(* Requests: the deadline passes first, or an answer arrives in time. *)

Arrives == /\ \E t \in Latencies : now + t < Timeout /\ now' = now + t
           /\ sent' = sent + 1

Expires == /\ \E t \in Latencies : now + t >= Timeout
           /\ now' = IF now > Timeout THEN now ELSE Timeout
           /\ sent' = sent + 1

Errs == "error" \in Faults /\ Arrives
Fails == Expires \/ Errs

\* A bug the runs tell apart: the tokens of two answers add up.
AnsweredAddingUp == \E l \in LossSets :
  /\ lost' = l
  /\ pr' = FullAnswer(world, l)
  /\ degraded' = degraded \cup Partial(ErrorFields(l))
  /\ view' = world

\* A full query is answered, with its facts and the tokens of what it lost.
Answered == \E l \in LossSets :
  /\ lost' = l
  /\ pr' = FullAnswer(world, l)
  /\ degraded' = Partial(ErrorFields(l))
  /\ view' = world

FullAnswers ==
  /\ pc = "full" /\ Arrives /\ Answered
  /\ pc' = "ladder"
  /\ UNCHANGED <<world, budget, ghes, rung, spent, in, tp, cp, out, blank>>

\* 3: permission or not found; 4: anything a later attempt may cure.
ClassifiedExits == {3, 4}

FullFails ==
  /\ pc = "full"
  /\ \/ Expires /\ out' = [exit |-> 4]
     \/ Errs /\ \E e \in ClassifiedExits : out' = [exit |-> e]
  /\ pc' = "done"
  /\ UNCHANGED <<world, budget, ghes, pr, degraded, rung, spent, in, tp, cp, lost, view, blank>>

-----------------------------------------------------------------------------
(* The probe ladder, while mergeable is UNKNOWN. *)

Undecided(state, mergeable) == state = "OPEN" /\ mergeable = "UNKNOWN"

\* Bugs the runs tell apart: the budget is checked before the next sleep is
\* added to it; a merged pull request, UNKNOWN for ever, is probed too.
MayProbeLate ==
  /\ Undecided(pr.state, pr.mergeable)
  /\ rung <= Len(Ladder)
  /\ spent < budget

MayProbeAnyState ==
  /\ pr.mergeable = "UNKNOWN"
  /\ rung <= Len(Ladder)
  /\ spent + Ladder[rung] <= budget

MayProbe ==
  /\ Undecided(pr.state, pr.mergeable)
  /\ rung <= Len(Ladder)
  /\ spent + Ladder[rung] <= budget

Sleep ==
  /\ pc = "ladder" /\ MayProbe
  /\ spent' = spent + Ladder[rung] /\ now' = now + Ladder[rung]
  /\ pc' = "probe"
  /\ UNCHANGED <<world, budget, ghes, pr, degraded, rung, in, tp, cp, out, history>>

\* A bug the runs tell apart: nothing but a decision ends the ladder.
LadderEndsDecided ==
  /\ pc = "ladder" /\ ~Undecided(pr.state, pr.mergeable)
  /\ pc' = "normalize"
  /\ UNCHANGED <<world, budget, ghes, now, pr, degraded, rung, spent, in, tp, cp, out, history>>

LadderEnds ==
  /\ pc = "ladder" /\ ~MayProbe
  /\ pc' = "normalize"
  /\ UNCHANGED <<world, budget, ghes, now, pr, degraded, rung, spent, in, tp, cp, out, history>>

ProbeAnswers ==
  /\ pc = "probe" /\ Arrives
  /\ IF Undecided(world.state, Mergeable(world))
     THEN pc' = "ladder" /\ rung' = rung + 1
     ELSE pc' = "refetch" /\ rung' = rung
  /\ UNCHANGED <<world, budget, ghes, pr, degraded, spent, in, tp, cp, out, lost, view, blank>>

\* A failed probe, like a failed second query, keeps the answer held.
ProbeFails ==
  /\ pc = "probe" /\ Fails
  /\ pc' = "normalize"
  /\ UNCHANGED <<world, budget, ghes, pr, degraded, rung, spent, in, tp, cp, out, lost, view, blank>>

\* A bug the runs tell apart: the ladder goes on after the second query.
RefetchClimbsOn ==
  /\ pc = "refetch" /\ Arrives /\ Answered
  /\ pc' = "ladder"
  /\ UNCHANGED <<world, budget, ghes, rung, spent, in, tp, cp, out, blank>>

RefetchAnswers ==
  /\ pc = "refetch" /\ Arrives /\ Answered
  /\ pc' = "normalize"
  /\ UNCHANGED <<world, budget, ghes, rung, spent, in, tp, cp, out, blank>>

RefetchFails ==
  /\ pc = "refetch" /\ Fails
  /\ pc' = "normalize"
  /\ UNCHANGED <<world, budget, ghes, pr, degraded, rung, spent, in, tp, cp, out, lost, view, blank>>

-----------------------------------------------------------------------------
(* normalize and paginate. *)

Settle ==
  /\ pc = "normalize"
  /\ in' = Degrade(Normalize(pr), degraded)
  /\ tp' = [page |-> 2, hasNext |-> pr.reviewThreads.hasNext]
  /\ cp' = [page |-> 2, hasNext |-> pr.statusCheckRollup.contexts.hasNext]
  /\ pc' = "threads"
  /\ UNCHANGED <<world, budget, ghes, now, pr, degraded, rung, spent, out, history>>

\* What the pages read so far say, once page n is answered by "pages".
Reread(read, n, pages) == SubSeq(read, 1, n - 1) \o SubSeq(pages, n, Len(pages))

AsksThreads == pc = "threads" /\ tp.hasNext /\ tp.page <= MaxThreadPages

ThreadsAnswers ==
  /\ AsksThreads /\ Arrives
  /\ LET page == ThreadsAnswer(world, tp.page, {})
     IN  /\ in' = [in EXCEPT !.unresolvedThreads = @ + page.nodes]
         /\ tp' = [page |-> tp.page + 1, hasNext |-> page.hasNext]
  /\ view' = [view EXCEPT !.threads = Reread(@, tp.page, world.threads)]
  /\ UNCHANGED <<world, budget, ghes, pc, pr, degraded, rung, spent, cp, out, lost, blank>>

ThreadsFail ==
  /\ AsksThreads /\ Fails
  /\ in' = [in EXCEPT !.degraded = @ \cup {"threads_truncated"}]
  /\ pc' = "contexts"
  /\ UNCHANGED <<world, budget, ghes, pr, degraded, rung, spent, tp, cp, out, lost, view, blank>>

ThreadsNull ==
  /\ AsksThreads /\ "null" \in Faults /\ Arrives
  /\ blank' = TRUE
  /\ pc' = "contexts"
  /\ UNCHANGED <<world, budget, ghes, pr, degraded, rung, spent, in, tp, cp, out, lost, view>>

ThreadsEnd ==
  /\ pc = "threads"
  /\ ~tp.hasNext \/ tp.page > MaxThreadPages
  /\ in' = [in EXCEPT !.degraded = @ \cup If(tp.hasNext, {"threads_truncated"})]
  /\ pc' = "contexts"
  /\ UNCHANGED <<world, budget, ghes, now, pr, degraded, rung, spent, tp, cp, out, history>>

AsksContexts == pc = "contexts" /\ cp.hasNext /\ cp.page <= MaxContextPages

ContextsAnswers ==
  /\ AsksContexts /\ Arrives /\ world.rollup
  /\ LET page == ContextsAnswer(world, cp.page, {})
     IN  /\ in' = [in EXCEPT !.contexts = AppendContexts(@, page.nodes)]
         /\ cp' = [page |-> cp.page + 1, hasNext |-> page.hasNext]
  /\ view' = [view EXCEPT !.checks = Reread(@, cp.page, world.checks)]
  /\ UNCHANGED <<world, budget, ghes, pc, pr, degraded, rung, spent, tp, out, lost, blank>>

\* A bug the runs tell apart: a failed page is given up without a token.
ContextsFailSilently ==
  /\ AsksContexts /\ Fails
  /\ pc' = "report"
  /\ UNCHANGED <<world, budget, ghes, pr, degraded, rung, spent, in, tp, cp, out, lost, view, blank>>

ContextsFail ==
  /\ AsksContexts /\ Fails
  /\ in' = [in EXCEPT !.degraded = @ \cup {"checks_truncated"}]
  /\ pc' = "report"
  /\ UNCHANGED <<world, budget, ghes, pr, degraded, rung, spent, tp, cp, out, lost, view, blank>>

\* The head moved to a commit nothing has reported on: no rollup, no error.
ContextsNull ==
  /\ AsksContexts /\ Arrives
  /\ ~world.rollup \/ "null" \in Faults
  /\ blank' = TRUE
  /\ pc' = "report"
  /\ UNCHANGED <<world, budget, ghes, pr, degraded, rung, spent, in, tp, cp, out, lost, view>>

ContextsEnd ==
  /\ pc = "contexts"
  /\ ~cp.hasNext \/ cp.page > MaxContextPages
  /\ in' = [in EXCEPT !.degraded = @ \cup If(cp.hasNext, {"checks_truncated"})]
  /\ pc' = "report"
  /\ UNCHANGED <<world, budget, ghes, now, pr, degraded, rung, spent, tp, cp, out, history>>

-----------------------------------------------------------------------------
Report ==
  /\ pc = "report"
  /\ LET r == Synthesize([in EXCEPT !.degraded = @ \cup If(ghes, {"ghes"})])
     IN  out' = [exit |-> ExitForReport(r), report |-> r]
  /\ pc' = "done"
  /\ UNCHANGED <<world, budget, ghes, now, pr, degraded, rung, spent, in, tp, cp, history>>

\* The pull request changes, and stays the one that was asked for.
WorldMoves ==
  /\ pc # "done"
  /\ world' \in {w \in Worlds \ {world} : w.pr = world.pr}
  /\ UNCHANGED <<code, history>>

Step ==
  \/ FullAnswers \/ FullFails
  \/ Sleep \/ LadderEnds \/ ProbeAnswers \/ ProbeFails
  \/ RefetchAnswers \/ RefetchFails
  \/ Settle
  \/ ThreadsAnswers \/ ThreadsFail \/ ThreadsNull \/ ThreadsEnd
  \/ ContextsAnswers \/ ContextsFail \/ ContextsNull \/ ContextsEnd
  \/ Report

Next == Step \/ WorldMoves

Spec == Init /\ [][Next]_vars
FairSpec == Spec /\ WF_vars(Step)

-----------------------------------------------------------------------------
(* Properties. *)

Finished == pc = "done"
Reported == Finished /\ out.exit # 4 /\ "report" \in DOMAIN out

\* Every variable holds a value of its kind at every step of the invocation.
TypeOK ==
  /\ world \in Worlds /\ view \in World /\ blank \in BOOLEAN
  /\ budget \in Budgets /\ ghes \in BOOLEAN
  /\ pc \in {"full", "ladder", "probe", "refetch", "normalize", "threads",
              "contexts", "report", "done"}
  /\ now \in Nat /\ spent \in Nat /\ sent \in Nat
  /\ rung \in 1..(Len(Ladder) + 1)
  /\ degraded \subseteq Tokens /\ lost \in LossSets \cup {{}}
  /\ pc \notin {"full", "done"} => pr \in PRNode
  /\ pc \in {"threads", "contexts", "report"} => in \in Input
  /\ tp \in [page : Nat, hasNext : BOOLEAN] /\ cp \in [page : Nat, hasNext : BOOLEAN]
  /\ Finished => out.exit \in 0..4

\* The four places where the code calls green what may not be, each with a
\* run of its own below or in Watch: a page came back blank, the branch
\* protection rule was lost without a token, GitHub had not computed its merge
\* state, two checks of one name differ in what they are required for.
KnownGap ==
  \/ blank /\ view.queueEnabled
  \/ "baseRef" \in lost
  \/ pr.state = "OPEN" /\ pr.mergeStateStatus = "UNKNOWN"
  \/ \E c, d \in Walk(view) : SameKey(c, d) /\ c.required # d.required

\* GitHub gives the answer held of no pull request that is not green.
Vouched == \A w \in Worlds : FullAnswer(w, lost) = pr => Green(w)

NothingReadAgainst ==
  /\ \A c \in Walk(view) : c.required => Rank(c) = 0
  /\ view.bprReadable /\ view.conversations => ~Unresolved(view)

\* An exit 0 is deserved, whatever moved, was lost, failed or was cut short on
\* the way: the pull request, as its full answer and the pages read after it
\* describe it, can be merged or enqueued; or GitHub's own answer said so, and
\* no page read since speaks against it (PR, normalize, Synthesize,
\* exitForReport).  The exceptions are the known ones.
NoFalseGreen ==
  Finished /\ out.exit = 0 /\ ~KnownGap =>
    \/ Green(Shown(view))
    \/ ~view.queueEnabled /\ Vouched /\ (blank \/ NothingReadAgainst)

\* The probes never sleep past --retry-budget, and every loop of PR is
\* bounded: 2 full queries, 4 probes, 4 thread pages, 3 context pages.
Bounded == spent <= budget /\ sent <= 13

\* A pull request whose mergeability GitHub has not decided in the answer the
\* verdict rests on is never called green, though probe and second query may
\* have failed half way (PR's retry loop).
UndecidedNeverGreen ==
  Reported /\ Undecided(pr.state, pr.mergeable) => out.exit # 0

\* The tokens of the report are those of the answer its facts come from: a
\* loss of a first answer that a second one replaced leaves no trace, and a
\* loss of the second is not forgotten.
TokensOfTheAnswerHeld ==
  Reported =>
    out.report.degraded \ {"behind", "threads_truncated", "checks_truncated"}
      = Partial(ErrorFields(lost)) \cup If(ghes, {"ghes"})

\* Whatever page was announced is read, or its token says it was not: a
\* failure, a timeout or the cap never cuts a list silently (paginate); only
\* a page that came back blank does.
PagesAccountedFor ==
  Reported /\ ~blank =>
    /\ tp.hasNext => "threads_truncated" \in out.report.degraded
    /\ cp.hasNext => "checks_truncated" \in out.report.degraded

\* A second full query, and so a change of the snapshot held, only happens
\* to an open, undecided pull request; a decided snapshot is final.
DecidedIsFinal ==
  [][pr # Nothing /\ ~Undecided(pr.state, pr.mergeable) => pr' = pr]_vars

\* The invocation as Lookup sees it.
Phase == CASE pc = "full" -> "asking"
           [] pc \in {"ladder", "probe", "refetch"} -> "holding"
           [] pc \in {"normalize", "threads", "contexts", "report"} -> "settled"
           [] pc = "done" -> "done"

Snapshots ==
  [w \in Worlds |-> {[facts |-> FullAnswer(w, l), tokens |-> Partial(ErrorFields(l))] :
                       l \in LossSets}]

L == INSTANCE Lookup WITH
       Answers <- Snapshots,
       Unsettled <- {f \in PRNode : Undecided(f.state, f.mergeable)},
       Unasked <- [facts |-> Nothing, tokens |-> {}],
       phase <- Phase,
       held <- [facts |-> pr, tokens |-> degraded],
       exit <- out.exit,
       told <- IF "report" \in DOMAIN out THEN out.report.degraded ELSE {}

\* The invocation keeps the promise of Lookup: its verdict and its tokens are
\* those of one answer, replaced at most once and only while undecided, for
\* all the probes, failures and pages around it (PR, runSingle).
KeepsPromise == L!Spec

\* Every invocation ends, whatever GitHub does.
Terminates == <>Finished

-----------------------------------------------------------------------------
(* What docs and comments say and the code does not do. *)

\* design.md 2.3: a mergeStateStatus UNKNOWN of an open pull request exits 1
\* or 2.  The code looks at mergeable alone (StateOf, PR's retry loop).
UnknownMergeStateNeverGreen ==
  Reported /\ pr.state = "OPEN" /\ pr.mergeStateStatus = "UNKNOWN" => out.exit # 0

\* fetch.go, paginate: failures and cap overruns degrade the output.  A page
\* answered without a rollup ends the walk and leaves no token.
UnreadPagesNeverGreen ==
  Reported /\ (tp.hasNext \/ cp.hasNext) => out.exit # 0

\* client.go, optionalFields: a subtree with an empty token is enrichment
\* whose loss synthesis re-reports or safely ignores.  baseRef carries the
\* branch protection rule as well.
SilentLossIsIgnorable ==
  Reported /\ Partial(ErrorFields(lost)) = {} /\ out.exit = 0 => Green(Shown(view))

=============================================================================
