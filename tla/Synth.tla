------------------------------- MODULE Synth -------------------------------
(***************************************************************************)
(* The verdict synthesizer of prq (internal/synth/synth.go): a pure        *)
(* function from the normalized facts of one pull request to the report    *)
(* prq prints, and the exit code cmd/prq/run.go derives from that report.  *)
(*                                                                         *)
(* Lists are sets of lines here: the order they are printed in and the cap *)
(* on their length are display, decided after the verdict, the exit code   *)
(* and the fingerprint.  A line keeps what distinguishes two lines of the  *)
(* code, never its wording.  The fingerprint is the tuple of what is       *)
(* hashed: joining and SHA-256 are taken to be injective.                  *)
(***************************************************************************)
EXTENDS Integers, FiniteSets

CONSTANTS PRs,      \* pull requests, as owner/name#number
          Names,    \* names of checks and of status contexts
          Urls,     \* detailsUrl / targetUrl values
          NoUrl     \* the empty URL

ASSUME NamesAreNotEmpty == "" \notin Names

-----------------------------------------------------------------------------
(* Facts. *)

CheckStatuses == {"REQUESTED", "QUEUED", "IN_PROGRESS", "WAITING", "PENDING"}
FailedRuns == {"FAILURE", "TIMED_OUT", "CANCELLED", "ACTION_REQUIRED",
               "STARTUP_FAILURE", "STALE"}
PassedRuns == {"SUCCESS", "NEUTRAL", "SKIPPED"}
StatusStates == {"SUCCESS", "FAILURE", "ERROR", "PENDING", "EXPECTED"}

\* One entry of the status-check rollup; "at" is its place in the walk over
\* the pages, so that a walk is a set of contexts.
ContextOf(kinds) ==
  [at : Nat, kind : kinds, name : Names,
   status : CheckStatuses \cup {"COMPLETED", ""},
   conclusion : FailedRuns \cup PassedRuns \cup StatusStates \cup {""},
   required : BOOLEAN, run : Nat, url : Urls \cup {NoUrl}]

Context == ContextOf({"check", "status"})

QueueStates == {"AWAITING_CHECKS", "LOCKED", "MERGEABLE", "QUEUED", "UNMERGEABLE"}

\* state "NONE" is the nil *Queue; eta -1 is the null estimate.
Queue == [state : QueueStates \cup {"NONE"}, position : Nat, eta : Nat \cup {-1}]
NoQueue == [state |-> "NONE", position |-> 0, eta |-> -1]

MergeStates == {"DIRTY", "UNKNOWN", "BLOCKED", "BEHIND", "UNSTABLE",
                "HAS_HOOKS", "CLEAN", ""}
Decisions == {"", "APPROVED", "CHANGES_REQUESTED", "REVIEW_REQUIRED"}
Tokens == {"threads", "checks", "required", "merge_state", "behind", "ghes",
           "threads_truncated", "checks_truncated"}

Input ==
  [pr : PRs, prState : {"OPEN", "CLOSED", "MERGED"}, isDraft : BOOLEAN,
   mergeable : {"MERGEABLE", "CONFLICTING", "UNKNOWN", ""},
   mergeState : MergeStates, reviewDecision : Decisions,
   codeOwnerWait : BOOLEAN, behindBy : Nat \cup {-1}, canUpdate : BOOLEAN,
   queueEnabled : BOOLEAN, queue : Queue, rollupPresent : BOOLEAN,
   rollupState : StatusStates \cup {""}, contexts : SUBSET Context,
   requiredKnown : BOOLEAN, missingRequired : SUBSET Names, convResolution : BOOLEAN,
   unresolvedThreads : Nat, threadsKnown : BOOLEAN, degraded : SUBSET Tokens]

-----------------------------------------------------------------------------
(* Lines: what the code calls an entry, or a string of non_blocking. *)

Prec == [closed |-> 0, draft |-> 1, review |-> 2, check |-> 3, conflict |-> 4,
         behind |-> 5, threads |-> 6, queue |-> 7, blocked |-> 8, note |-> 9]

\* src tells apart equal texts that come from a check and from a status.
Line(prec, src, key, text) ==
  [prec |-> prec, src |-> src, key |-> key, text |-> text]

Plain(prec, text) == Line(prec, "", "", text)

If(cond, S) == IF cond THEN S ELSE {}

-----------------------------------------------------------------------------
(* The rollup: classify, dedup by (kind, name), required-ness. *)

Failing(c) == IF c.kind = "check"
              THEN c.status = "COMPLETED" /\ c.conclusion \in FailedRuns
              ELSE c.conclusion \in {"FAILURE", "ERROR"}

Waiting(c) == IF c.kind = "check"
              THEN c.status # "COMPLETED"
              ELSE c.conclusion \in {"PENDING", "EXPECTED"}

Rank(c) == IF Failing(c) THEN 2 ELSE IF Waiting(c) THEN 1 ELSE 0

SameKey(c, d) == c.kind = d.kind /\ c.name = d.name

\* A bug the runs tell apart: the first occurrence wins, not the worst.
FirstWins(d, c) == SameKey(c, d) /\ d.at < c.at

\* d displaces c in the map "best": worse, or as bad and met earlier.
Shadows(d, c) == /\ SameKey(c, d)
                 /\ \/ Rank(d) > Rank(c)
                    \/ Rank(d) = Rank(c) /\ d.at < c.at

Best(contexts) == {c \in contexts : \A d \in contexts : ~Shadows(d, c)}

MergeableState(in) == in.mergeState \in {"CLEAN", "HAS_HOOKS", "UNSTABLE"}

\* Unknown required-ness over-blocks, except under a merge state that
\* already says the pull request can be merged.
OverBlocks(in) == ~in.requiredKnown /\ ~MergeableState(in)
CountsAsRequired(in, c) == OverBlocks(in) \/ (c.required /\ in.requiredKnown)

Required(in) == {c \in Best(in.contexts) : CountsAsRequired(in, c)}
Optional(in) == Best(in.contexts) \ Required(in)

Mark(in) == IF OverBlocks(in) THEN "required?" ELSE ""

NextAction(c) ==
  IF c.kind = "check" /\ c.run > 0 THEN <<"cifail", c.run>>
  ELSE IF c.url # NoUrl THEN <<"open", c.url>> ELSE <<>>

Verb(c) == IF c.kind = "check" /\ c.conclusion # "FAILURE"
           THEN c.conclusion ELSE "FAILING"

FailedText(c, mark) ==
  IF c.conclusion \in {"ACTION_REQUIRED", "STALE"}
  THEN <<c.conclusion, c.name, mark>>
  ELSE <<Verb(c), c.name, mark, NextAction(c)>>

FailedLine(prec, c, mark) == Line(prec, c.kind, c.name, FailedText(c, mark))

WaitWord(c) == IF c.kind = "check" THEN "RUNNING" ELSE c.conclusion

CheckBlockers(in) ==
  {FailedLine(Prec.check, c, Mark(in)) : c \in {r \in Required(in) : Failing(r)}}

CheckPending(in) ==
  {Line(Prec.check, c.kind, c.name, <<WaitWord(c), c.name, Mark(in)>>) :
     c \in {r \in Required(in) : Waiting(r)}}

Checks(in) ==
  LET count(S, n) == Cardinality({c \in S : Rank(c) = n})
  IN  [reqOK |-> count(Required(in), 0), reqFail |-> count(Required(in), 2),
       reqRun |-> count(Required(in), 1), optFail |-> count(Optional(in), 2),
       optRun |-> count(Optional(in), 1)]

NoChecks == [reqOK |-> 0, reqFail |-> 0, reqRun |-> 0, optFail |-> 0, optRun |-> 0]

CheckNotes(in) ==
  If(in.mergeState = "HAS_HOOKS", {Plain(Prec.note, <<"hooks">>)})
  \cup {FailedLine(Prec.note, c, "optional") : c \in {o \in Optional(in) : Failing(o)}}
  \cup LET waiting == {o \in Optional(in) : Waiting(o)}
       IN  If(waiting # {}, {Plain(Prec.note, <<"optional pending", Cardinality(waiting)>>)})

-----------------------------------------------------------------------------
(* The other rows of the decomposition. *)

Queued(in) == in.queue.state # "NONE"

DraftLines(in) == If(in.isDraft, {Plain(Prec.draft, <<"draft">>)})

ReviewLines(in) ==
  LET owners == in.codeOwnerWait /\ in.reviewDecision = "REVIEW_REQUIRED"
  IN  If(in.reviewDecision \in {"CHANGES_REQUESTED", "REVIEW_REQUIRED"},
         {Plain(Prec.review, <<in.reviewDecision, owners>>)})

\* Required contexts that never reported; only where GitHub says BLOCKED or
\* says nothing.
MissingLines(in) ==
  If(in.mergeState \in {"BLOCKED", ""},
     {Line(Prec.check, "missing", n, <<"MISSING", n>>) :
        n \in in.missingRequired \ {c.name : c \in in.contexts}})

ConflictLines(in) ==
  If(in.mergeable = "CONFLICTING" \/ in.mergeState = "DIRTY",
     {Plain(Prec.conflict, <<"conflict">>)})

IsBehind(in) == in.mergeState = "BEHIND" /\ ~Queued(in)

BehindLines(in) ==
  If(IsBehind(in),
     {Plain(Prec.behind, IF in.behindBy > 0
                         THEN <<"behind", in.behindBy, in.canUpdate>>
                         ELSE <<"out of date">>)})

ThreadLines(in) ==
  If(in.unresolvedThreads > 0 /\ in.convResolution,
     {Plain(Prec.threads, <<"threads", in.unresolvedThreads>>)})

EjectedLines(in) ==
  If(in.queue.state = "UNMERGEABLE", {Plain(Prec.queue, <<"ejected">>)})

QueueLines(in) ==
  If(Queued(in) /\ in.queue.state # "UNMERGEABLE",
     {Plain(Prec.queue,
            <<"queue", in.queue.position, in.queue.state,
              IF in.queue.eta > 0 THEN (in.queue.eta + 59) \div 60 ELSE 0>>)})

Computing == Plain(Prec.blocked, <<"computing">>)

ComputingLines(in) == If(in.mergeable = "UNKNOWN", {Computing})

DecomposedBlockers(in) ==
  DraftLines(in) \cup ReviewLines(in) \cup CheckBlockers(in)
  \cup MissingLines(in) \cup ConflictLines(in) \cup BehindLines(in)
  \cup ThreadLines(in) \cup EjectedLines(in)

DecomposedPending(in) == CheckPending(in) \cup QueueLines(in) \cup ComputingLines(in)

-----------------------------------------------------------------------------
(* BLOCKED with nothing visible: ready to enqueue, or the residual blocker. *)

\* A bug the runs tell apart: what is only waiting counts as invisible.
NoBlockerVisible(in, blockers, pending) ==
  in.mergeState = "BLOCKED" /\ blockers = {}

NothingVisible(in, blockers, pending) ==
  in.mergeState = "BLOCKED" /\ blockers = {} /\ pending = {}

ReadyToEnqueue(in, blockers, pending) ==
  /\ NothingVisible(in, blockers, pending)
  /\ in.queueEnabled
  /\ in.reviewDecision \in {"", "APPROVED"}
  /\ ~Queued(in)

ResidualLines(in, blockers, pending) ==
  If(NothingVisible(in, blockers, pending) /\ ~ReadyToEnqueue(in, blockers, pending),
     {Plain(Prec.blocked, <<"cause not visible", in.unresolvedThreads>>)})

\* A bug the runs tell apart: rule 6 sets the computing entry aside, and rule
\* 7, which was to take it up, is missing.
StateWithoutRule7(in, blockers, pending) ==
  IF in.queue.state = "UNMERGEABLE" THEN "BLOCKED"
  ELSE IF Queued(in) THEN "QUEUED"
  ELSE IF blockers # {} THEN "BLOCKED"
  ELSE IF ~(pending \subseteq {Computing}) THEN "PENDING"
  ELSE IF in.mergeState = "UNSTABLE" THEN "UNSTABLE"
  ELSE "CLEAN"

\* First match wins.
StateOf(in, blockers, pending) ==
  IF in.queue.state = "UNMERGEABLE" THEN "BLOCKED"
  ELSE IF Queued(in) THEN "QUEUED"
  ELSE IF blockers # {} THEN "BLOCKED"
  ELSE IF in.mergeable = "UNKNOWN" /\ pending \subseteq {Computing} THEN "UNKNOWN"
  ELSE IF pending # {} THEN "PENDING"
  ELSE IF in.mergeable = "UNKNOWN" THEN "UNKNOWN"
  ELSE IF in.mergeState = "UNSTABLE" THEN "UNSTABLE"
  ELSE "CLEAN"

QueueOut(in, ready) ==
  [state |-> in.queue.state, position |-> in.queue.position,
   eta |-> IF in.queue.eta > 0 THEN in.queue.eta ELSE 0, required |-> ready]

\* The tokens finish() appends to those the fetch recorded.
FinishTokens(in) ==
  If(~in.threadsKnown, {"threads"})
  \cup If(~in.requiredKnown /\ in.contexts # {}, {"required"})

-----------------------------------------------------------------------------
(* The fingerprint. *)

\* How often each value of f occurs: a sorted list of them, up to order.
Tally(f) == [v \in {f[l] : l \in DOMAIN f} |->
               Cardinality({l \in DOMAIN f : f[l] = v})]

\* Bugs the runs tell apart: a behind line is hashed with its count; leaving
\* the merge queue goes unnoticed.
VerbatimBlocker(l) == l.text
CoarseState(state) == IF state \in {"UNSTABLE", "QUEUED"} THEN "CLEAN" ELSE state

\* UNSTABLE differs from CLEAN by optional checks only.
HashedState(state) == IF state = "UNSTABLE" THEN "CLEAN" ELSE state

NormBlocker(l) == IF l.prec = Prec.behind THEN <<"behind">> ELSE l.text

Fingerprint(in, state, blockers, pending, degraded) ==
  [pr |-> in.pr,
   state |-> HashedState(state),
   blockers |-> Tally([l \in blockers |-> NormBlocker(l)]),
   pending |-> Tally([l \in {p \in pending : p.prec = Prec.check} |-> l.key]),
   review |-> in.reviewDecision,
   mergeable |-> IF in.mergeable = "" \/ in.prState # "OPEN"
                 THEN "MERGEABLE" ELSE in.mergeable,
   threads |-> in.unresolvedThreads,
   degraded |-> degraded]

-----------------------------------------------------------------------------
(* The report. *)

\* A merged or closed pull request: stale merge facts are ignored entirely.
TerminalReport(in) ==
  LET blockers == If(in.prState = "CLOSED", {Plain(Prec.closed, <<"closed">>)})
      degraded == in.degraded \cup FinishTokens(in)
  IN  [pr |-> in.pr, state |-> in.prState, blockers |-> blockers, pending |-> {},
       nonBlocking |-> {}, checks |-> NoChecks,
       unresolvedThreads |-> IF in.threadsKnown THEN in.unresolvedThreads ELSE 0,
       behindBy |-> 0, ci |-> IF in.rollupPresent THEN in.rollupState ELSE "",
       review |-> in.reviewDecision, mergeable |-> "", mergeState |-> "",
       queue |-> QueueOut([in EXCEPT !.queue = NoQueue], FALSE),
       degraded |-> degraded, final |-> TRUE,
       fp |-> Fingerprint(in, in.prState, blockers, {}, degraded)]

OpenReport(in) ==
  LET decomposed == DecomposedBlockers(in)
      pending == DecomposedPending(in)
      ready == ReadyToEnqueue(in, decomposed, pending)
      blockers == decomposed \cup ResidualLines(in, decomposed, pending)
      state == StateOf(in, blockers, pending)
      degraded == in.degraded \cup FinishTokens(in)
                  \cup If(IsBehind(in) /\ in.behindBy <= 0, {"behind"})
  IN  [pr |-> in.pr, state |-> state, blockers |-> blockers, pending |-> pending,
       nonBlocking |-> CheckNotes(in)
                       \cup If(ready, {Plain(Prec.note, <<"ready to enqueue">>)}),
       checks |-> IF in.requiredKnown THEN Checks(in) ELSE NoChecks,
       unresolvedThreads |-> IF in.threadsKnown THEN in.unresolvedThreads ELSE 0,
       behindBy |-> IF in.behindBy > 0 THEN in.behindBy ELSE 0,
       ci |-> IF in.rollupPresent THEN in.rollupState
              ELSE IF state = "BLOCKED" THEN "NONE" ELSE "",
       review |-> in.reviewDecision,
       mergeable |-> IF in.mergeable = "MERGEABLE" THEN "" ELSE in.mergeable,
       mergeState |-> IF in.mergeState = state THEN "" ELSE in.mergeState,
       queue |-> QueueOut(in, ready), degraded |-> degraded, final |-> FALSE,
       fp |-> Fingerprint(in, state, blockers, pending, degraded)]

Synthesize(in) ==
  IF in.prState \in {"MERGED", "CLOSED"} THEN TerminalReport(in) ELSE OpenReport(in)

\* A bug the runs tell apart: a degraded verdict is as good as any.
ExitWithoutSoft3(r) ==
  IF r.state \in {"BLOCKED", "CLOSED"} THEN 1
  ELSE IF r.state \in {"PENDING", "QUEUED", "UNKNOWN"} THEN 2
  ELSE 0

\* A degraded green or waiting verdict is not certifiable.
ExitForReport(r) ==
  IF r.state \in {"BLOCKED", "CLOSED"} THEN 1
  ELSE IF r.degraded # {} /\ ~r.final THEN 3
  ELSE IF r.state \in {"PENDING", "QUEUED", "UNKNOWN"} THEN 2
  ELSE 0

=============================================================================
