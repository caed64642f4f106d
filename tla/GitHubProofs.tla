---------------------------- MODULE GitHubProofs ----------------------------
(***************************************************************************)
(* What one answer says of one pull request: the types of the operators    *)
(* between the two, and why an exit 0 that rests on an answer which lost   *)
(* nothing of weight is deserved.                                          *)
(***************************************************************************)
EXTENDS GitHub, SynthProofs, WellFoundedInduction

-----------------------------------------------------------------------------
(* The types of the operators the models are built from.                   *)

LEMMA PartialType ==
  ASSUME NEW l \in SUBSET Losses
  PROVE  Partial(ErrorFields(l)) \subseteq
           {"threads", "checks", "required", "merge_state"}
<1>1. DOMAIN OptionalFields =
        {"reviewThreads", "statusCheckRollup", "contexts", "isRequired",
         "mergeQueueEntry", "compare", "baseRef", "reviewRequests"}
  BY DEF OptionalFields
<1>2. /\ OptionalFields["reviewThreads"] = "threads"
      /\ OptionalFields["statusCheckRollup"] = "checks"
      /\ OptionalFields["contexts"] = "checks"
      /\ OptionalFields["isRequired"] = "required"
      /\ OptionalFields["mergeQueueEntry"] = "merge_state"
      /\ OptionalFields["compare"] = "" /\ OptionalFields["baseRef"] = ""
      /\ OptionalFields["reviewRequests"] = ""
  BY DEF OptionalFields
<1>3. \A x \in l : FieldOf(x) \in DOMAIN OptionalFields
  BY <1>1 DEF FieldOf, Losses
<1>. QED BY <1>1, <1>2, <1>3 DEF Partial, ErrorFields

LEMMA ThreadsAnswerType ==
  ASSUME NEW w \in World, NEW n \in Nat, NEW l
  PROVE  ThreadsAnswer(w, n, l) \in ThreadPage
<1>1. w.threads \in Seq(Nat)
  BY DEF World
<1>2. n \in DOMAIN w.threads => w.threads[n] \in Nat
  BY <1>1
<1>. QED BY <1>1, <1>2 DEF ThreadsAnswer, ThreadPage, NoThreads

LEMMA ContextIsNode == Context \subseteq CtxNode
BY DEF Context, CtxNode, ContextOf

LEMMA ContextsAnswerType ==
  ASSUME NEW w \in World, NEW n \in Nat, NEW l
  PROVE  ContextsAnswer(w, n, l) \in ContextPage
<1>1. w.checks \in Seq(SUBSET Context)
  BY DEF World
<1>. DEFINE nodes == IF n \in DOMAIN w.checks THEN w.checks[n] ELSE {}
            shown == IF "isRequiredNode" \in l THEN {[c EXCEPT !.kind = ""] : c \in nodes}
                     ELSE IF "isRequired" \in l
                          THEN {[c EXCEPT !.required = FALSE] : c \in nodes}
                          ELSE nodes
            more == n < Len(w.checks)
<1>2. nodes \in SUBSET CtxNode
  BY <1>1, ContextIsNode
<1>. HIDE DEF nodes
<1>3. {[c EXCEPT !.kind = ""] : c \in nodes} \in SUBSET CtxNode
  BY <1>2 DEF CtxNode, ContextOf
<1>4. {[c EXCEPT !.required = FALSE] : c \in nodes} \in SUBSET CtxNode
  BY <1>2 DEF CtxNode, ContextOf
<1>5. NoContexts \in ContextPage
  BY DEF NoContexts, ContextPage
<1>6. shown \in SUBSET CtxNode
  BY <1>2, <1>3, <1>4
<1>7. more \in BOOLEAN
  OBVIOUS
<1>. HIDE DEF shown, more
<1>8. [nodes |-> shown, hasNext |-> more] \in ContextPage
  BY <1>6, <1>7 DEF ContextPage
<1>. QED BY <1>5, <1>8 DEF ContextsAnswer, shown, more, nodes

LEMMA FullAnswerType ==
  ASSUME NEW w \in World, NEW l
  PROVE  FullAnswer(w, l) \in PRNode
<1>1. /\ ThreadsAnswer(w, 1, l) \in ThreadPage
      /\ ContextsAnswer(w, 1, l) \in ContextPage
  BY ThreadsAnswerType, ContextsAnswerType
<1>2. Mergeable(w) \in {"MERGEABLE", "CONFLICTING", "UNKNOWN", ""}
  BY DEF Mergeable
<1>3. MergeStateStatus(w) \in MergeStates
  BY DEF MergeStateStatus, MergeStates
<1>4. RollupState(w) \in StatusStates \cup {""}
  BY DEF RollupState, StatusStates
<1>5. /\ w.pr \in PRs /\ w.state \in {"OPEN", "CLOSED", "MERGED"}
      /\ w.draft \in BOOLEAN /\ w.review \in Decisions /\ w.queueEnabled \in BOOLEAN
      /\ w.canUpdate \in BOOLEAN /\ w.queue \in Queue /\ w.codeOwners \in BOOLEAN
      /\ w.behindBy \in Nat /\ w.conversations \in BOOLEAN
      /\ w.required \in SUBSET Names /\ w.bprReadable \in BOOLEAN /\ w.rollup \in BOOLEAN
  BY DEF World
<1>6. NoQueue \in Queue
  BY DEF NoQueue, Queue
<1>. QED BY <1>1, <1>2, <1>3, <1>4, <1>5, <1>6 DEF FullAnswer, PRNode, If

LEMMA NormalizeType ==
  ASSUME NEW node \in PRNode
  PROVE  Normalize(node) \in Input
<1>1. node.statusCheckRollup.contexts.nodes \in SUBSET CtxNode
  BY DEF PRNode, ContextPage
<1>2. AppendContexts({}, node.statusCheckRollup.contexts.nodes) \in SUBSET Context
  BY <1>1 DEF AppendContexts, CtxNode, Context, ContextOf
<1>3. node.reviewThreads.nodes \in Nat
  BY DEF PRNode, ThreadPage
<1>4. (TRUE \in node.reviewRequests) \in BOOLEAN
  OBVIOUS
<1>5. /\ node.baseRef.compare \in Nat \cup {-1} /\ node.baseRef.conversations \in BOOLEAN
      /\ node.baseRef.required \in SUBSET Names
      /\ node.statusCheckRollup.present \in BOOLEAN
      /\ node.statusCheckRollup.state \in StatusStates \cup {""}
  BY DEF PRNode
<1>6. /\ node.pr \in PRs /\ node.state \in {"OPEN", "CLOSED", "MERGED"}
      /\ node.isDraft \in BOOLEAN
      /\ node.mergeable \in {"MERGEABLE", "CONFLICTING", "UNKNOWN", ""}
      /\ node.mergeStateStatus \in MergeStates /\ node.reviewDecision \in Decisions
      /\ node.isMergeQueueEnabled \in BOOLEAN /\ node.viewerCanUpdateBranch \in BOOLEAN
      /\ node.mergeQueueEntry \in Queue
  BY DEF PRNode
<1>. DEFINE with(owners, contexts) ==
       [pr |-> node.pr, prState |-> node.state, isDraft |-> node.isDraft,
        mergeable |-> node.mergeable, mergeState |-> node.mergeStateStatus,
        reviewDecision |-> node.reviewDecision, codeOwnerWait |-> owners,
        behindBy |-> node.baseRef.compare, canUpdate |-> node.viewerCanUpdateBranch,
        queueEnabled |-> node.isMergeQueueEnabled, queue |-> node.mergeQueueEntry,
        rollupPresent |-> node.statusCheckRollup.present,
        rollupState |-> node.statusCheckRollup.state, contexts |-> contexts,
        requiredKnown |-> TRUE, missingRequired |-> node.baseRef.required,
        convResolution |-> node.baseRef.conversations,
        unresolvedThreads |-> node.reviewThreads.nodes, threadsKnown |-> TRUE,
        degraded |-> {}]
<1>7. \A owners \in BOOLEAN, contexts \in SUBSET Context :
        with(owners, contexts) \in Input
  BY <1>3, <1>5, <1>6 DEF Input
<1>8. Normalize(node) = with(TRUE \in node.reviewRequests,
                             AppendContexts({}, node.statusCheckRollup.contexts.nodes))
  BY Zenon DEF Normalize
<1>. HIDE DEF with
<1>. QED BY <1>2, <1>4, <1>7, <1>8

LEMMA DegradeType ==
  ASSUME NEW i \in Input, NEW tokens \in SUBSET Tokens
  PROVE  Degrade(i, tokens) \in Input
<1>1. /\ i.degraded \cup tokens \in SUBSET Tokens
      /\ i.unresolvedThreads \in Nat
  BY DEF Input
<1>. DEFINE known == i.requiredKnown /\ "required" \notin tokens
            read == i.threadsKnown /\ "threads" \notin tokens
            threads == IF "threads" \in tokens THEN 0 ELSE i.unresolvedThreads
<1>2. known \in BOOLEAN /\ read \in BOOLEAN
  OBVIOUS
<1>3. threads \in Nat
  BY <1>1
<1>. HIDE DEF known, read, threads
<1>4. [i EXCEPT !.degraded = @ \cup tokens, !.requiredKnown = known,
                !.threadsKnown = read, !.unresolvedThreads = threads] \in Input
  BY <1>1, <1>2, <1>3 DEF Input
<1>. QED BY <1>4 DEF Degrade, known, read, threads

LEMMA ContextsExtendType ==
  ASSUME NEW i \in Input, NEW page \in ContextPage
  PROVE  [i EXCEPT !.contexts = AppendContexts(@, page.nodes)] \in Input
<1>1. page.nodes \in SUBSET CtxNode /\ i.contexts \in SUBSET Context
  BY DEF ContextPage, Input
<1>2. AppendContexts(i.contexts, page.nodes) \in SUBSET Context
  BY <1>1 DEF AppendContexts, CtxNode, Context, ContextOf
<1>. QED BY <1>2 DEF Input

LEMMA ThreadsExtendType ==
  ASSUME NEW i \in Input, NEW page \in ThreadPage
  PROVE  [i EXCEPT !.unresolvedThreads = @ + page.nodes] \in Input
<1>1. i.unresolvedThreads \in Nat /\ page.nodes \in Nat
  BY DEF ThreadPage, Input
<1>2. i.unresolvedThreads + page.nodes \in Nat
  BY <1>1
<1>. QED BY <1>2 DEF Input

LEMMA TokensExtendType ==
  ASSUME NEW i \in Input, NEW tokens \in SUBSET Tokens
  PROVE  [i EXCEPT !.degraded = @ \cup tokens] \in Input
<1>1. i.degraded \cup tokens \in SUBSET Tokens
  BY DEF Input
<1>. QED BY <1>1 DEF Input

LEMMA HasNextMeansMore ==
  ASSUME NEW w \in World, NEW l
  PROVE  /\ FullAnswer(w, l).reviewThreads.hasNext => 2 <= Len(w.threads)
         /\ FullAnswer(w, l).statusCheckRollup.contexts.hasNext => 2 <= Len(w.checks)
<1>1. Len(w.threads) \in Nat /\ Len(w.checks) \in Nat
  BY DEF World
<1>2. ThreadsAnswer(w, 1, l).hasNext => 1 < Len(w.threads)
  BY DEF ThreadsAnswer, NoThreads
<1>3. ContextsAnswer(w, 1, l).hasNext => 1 < Len(w.checks)
  BY DEF ContextsAnswer, NoContexts
<1>4. /\ FullAnswer(w, l).reviewThreads = ThreadsAnswer(w, 1, l)
      /\ FullAnswer(w, l).statusCheckRollup.contexts = ContextsAnswer(w, 1, l)
  BY DEF FullAnswer
<1>5. (1 < Len(w.threads) => 2 <= Len(w.threads)) /\ (1 < Len(w.checks) => 2 <= Len(w.checks))
  BY <1>1
<1>. QED BY <1>2, <1>3, <1>4, <1>5, Zenon

-----------------------------------------------------------------------------
(* Of several contexts of one name the worst stands for all.               *)

LEMMA LeastOf ==
  ASSUME NEW T \in SUBSET Nat, T # {}
  PROVE  \E x \in T : \A y \in T : x <= y
<1>. DEFINE R == {ss \in Nat \X Nat : ss[1] < ss[2]}
<1>1. IsWellFoundedOn(R, Nat)
  BY NatLessThanWellFounded DEF OpToRel
<1>. HIDE DEF R
<1>2. PICK x \in T : \A y \in T : ~(<<y, x>> \in R)
  BY <1>1, WFMin
<1>3. \A m, n \in Nat : <<m, n>> \in R <=> m < n
  BY DEF R
<1>. HIDE DEF R
<1>4. \A m, n \in Nat : ~(m < n) => n <= m
  OBVIOUS
<1>. QED BY <1>2, <1>3, <1>4

\* Whatever a context says, an entry of its name that is as bad or worse is
\* what the rows of the report are made from (the dedup of analyzeContexts).
LEMMA BestCovers ==
  ASSUME NEW S \in SUBSET Context, NEW c \in S
  PROVE  \E d \in Best(S) : SameKey(c, d) /\ Rank(d) >= Rank(c)
<1>. DEFINE K == {d \in S : SameKey(c, d)}
<1>1. c \in K
  BY DEF SameKey
<1>2. \A d \in K : Rank(d) \in 0..2
  BY DEF Rank
<1>3. PICK r \in 0..2 : /\ \E d \in K : Rank(d) = r
                        /\ \A d \in K : Rank(d) <= r
  <2>1. CASE \E d \in K : Rank(d) = 2
    BY <1>2, <2>1
  <2>2. CASE (\A d \in K : Rank(d) # 2) /\ \E d \in K : Rank(d) = 1
    BY <1>2, <2>2
  <2>3. CASE (\A d \in K : Rank(d) # 2) /\ (\A d \in K : Rank(d) # 1)
    BY <1>1, <1>2, <2>3
  <2>. QED BY <2>1, <2>2, <2>3
<1>. DEFINE W == {d \in K : Rank(d) = r}
<1>4. \A d \in W : d.at \in Nat
  BY DEF Context, ContextOf
<1>5. PICK d \in W : \A e \in W : d.at <= e.at
  <2>. DEFINE T == {e.at : e \in W}
  <2>1. T \in SUBSET Nat /\ T # {}
    BY <1>3, <1>4
  <2>2. PICK x \in T : \A y \in T : x <= y
    BY <2>1, LeastOf
  <2>. QED BY <2>2
<1>6. d \in Best(S)
  <2>. SUFFICES ASSUME NEW e \in S, Shadows(e, d) PROVE FALSE
    BY DEF Best
  <2>1. e \in K
    BY DEF Shadows, SameKey
  <2>2. Rank(e) <= r /\ Rank(d) = r /\ Rank(e) \in 0..2
    BY <1>2, <1>3, <2>1
  <2>3. Rank(e) = Rank(d) /\ e.at < d.at
    BY <2>2 DEF Shadows
  <2>4. d.at <= e.at /\ d.at \in Nat /\ e.at \in Nat
    BY <1>4, <1>5, <2>1, <2>2, <2>3
  <2>. QED BY <2>3, <2>4
<1>7. SameKey(c, d) /\ Rank(d) >= Rank(c)
  BY <1>1, <1>2, <1>3
<1>. QED BY <1>6, <1>7

NamesakesAgree(S) == \A c, d \in S : SameKey(c, d) => c.required = d.required

\* With nothing in the way every required context of the input is done,
\* those behind a namesake included.
LEMMA RequiredAreDone ==
  ASSUME NEW i \in Input, NothingInTheWay(i), NamesakesAgree(i.contexts)
  PROVE  \A c \in i.contexts : c.required => Rank(c) = 0
<1>. SUFFICES ASSUME NEW c \in i.contexts, c.required PROVE Rank(c) = 0
  OBVIOUS
<1>1. i.contexts \in SUBSET Context
  BY DEF Input
<1>2. PICK d \in Best(i.contexts) : SameKey(c, d) /\ Rank(d) >= Rank(c)
  BY <1>1, BestCovers
<1>3. d \in i.contexts /\ d.required
  BY <1>2 DEF Best, NamesakesAgree
<1>4. i.requiredKnown
  BY DEF NothingInTheWay
<1>5. d \in Required(i)
  BY <1>2, <1>3, <1>4 DEF Required, CountsAsRequired
<1>6. Rank(d) = 0
  BY <1>5 DEF NothingInTheWay
<1>7. Rank(c) \in 0..2
  BY DEF Rank
<1>. QED BY <1>2, <1>6, <1>7

-----------------------------------------------------------------------------
(* What an answer that lost nothing of weight says of the pull request.    *)

\* The losses that no token tells of.
Weightless(l) == Partial(ErrorFields(l)) = {} /\ "baseRef" \notin l

LEMMA NothingOfWeight ==
  ASSUME NEW l \in SUBSET Losses, Weightless(l)
  PROVE  /\ {"reviewThreads", "threadNode", "statusCheckRollup", "contexts",
             "isRequired", "isRequiredNode", "mergeQueueEntry"} \cap l = {}
         /\ "baseRef" \notin l
<1>1. /\ OptionalFields["reviewThreads"] = "threads"
      /\ OptionalFields["statusCheckRollup"] = "checks"
      /\ OptionalFields["contexts"] = "checks"
      /\ OptionalFields["isRequired"] = "required"
      /\ OptionalFields["mergeQueueEntry"] = "merge_state"
  BY DEF OptionalFields
<1>2. \A x \in l : OptionalFields[FieldOf(x)] = ""
  BY DEF Weightless, Partial, ErrorFields
<1>. QED BY <1>1, <1>2 DEF FieldOf, Weightless

\* The facts of an answer the verdict depends on, as the pull request has them.
Describes(p, v) ==
  /\ p.state = v.state /\ p.isDraft = v.draft /\ p.mergeable = Mergeable(v)
  /\ p.reviewDecision = v.review /\ p.isMergeQueueEnabled = v.queueEnabled
  /\ p.mergeQueueEntry = v.queue
  /\ p.baseRef.conversations = (v.bprReadable /\ v.conversations)
  /\ p.baseRef.required = If(v.bprReadable, v.required)
  /\ /\ v.queueEnabled /\ v.queue.state = NoQueue.state
     /\ p.mergeable = "MERGEABLE" /\ p.mergeStateStatus # "UNKNOWN"
     => p.mergeStateStatus = "BLOCKED"

LEMMA FullAnswerDescribes ==
  ASSUME NEW w \in World, NEW l \in SUBSET Losses, Weightless(l)
  PROVE  /\ Describes(FullAnswer(w, l), w)
         /\ FullAnswer(w, l).mergeStateStatus = MergeStateStatus(w)
         /\ FullAnswer(w, l).reviewThreads = ThreadsAnswer(w, 1, {})
         /\ FullAnswer(w, l).statusCheckRollup.contexts = ContextsAnswer(w, 1, {})
<1>. DEFINE p == FullAnswer(w, l)
<1>1. /\ p.state = w.state /\ p.isDraft = w.draft /\ p.mergeable = Mergeable(w)
      /\ p.mergeStateStatus = MergeStateStatus(w)
      /\ p.reviewDecision = w.review /\ p.isMergeQueueEnabled = w.queueEnabled
      /\ p.reviewThreads = ThreadsAnswer(w, 1, l)
      /\ p.statusCheckRollup.contexts = ContextsAnswer(w, 1, l)
  BY DEF FullAnswer
<1>2. /\ p.mergeQueueEntry = w.queue
      /\ p.baseRef.conversations = (w.bprReadable /\ w.conversations)
      /\ p.baseRef.required = If(w.bprReadable, w.required)
  <2>1. /\ "mergeQueueEntry" \notin l /\ "baseRef" \notin l
        /\ w.bprReadable \in BOOLEAN /\ w.conversations \in BOOLEAN
    BY NothingOfWeight DEF World
  <2>2. /\ p.mergeQueueEntry = IF "mergeQueueEntry" \in l THEN NoQueue ELSE w.queue
        /\ p.baseRef.conversations = ((w.bprReadable /\ "baseRef" \notin l) /\ w.conversations)
        /\ p.baseRef.required = If(w.bprReadable /\ "baseRef" \notin l, w.required)
    BY DEF FullAnswer
  <2>. QED BY <2>1, <2>2 DEF If
<1>3. ThreadsAnswer(w, 1, l) = ThreadsAnswer(w, 1, {})
  BY NothingOfWeight DEF ThreadsAnswer
<1>4. ContextsAnswer(w, 1, l) = ContextsAnswer(w, 1, {})
  BY NothingOfWeight DEF ContextsAnswer
<1>5. /\ w.queueEnabled /\ w.queue.state = NoQueue.state
      /\ Mergeable(w) = "MERGEABLE" /\ MergeStateStatus(w) # "UNKNOWN"
      => MergeStateStatus(w) = "BLOCKED"
  BY DEF Mergeable, MergeStateStatus
<1>. HIDE DEF p
<1>6. Describes(p, w)
  BY <1>1, <1>2, <1>5 DEF Describes
<1>. QED BY <1>1, <1>3, <1>4, <1>6 DEF p

\* The facts of the input that stay what the answer made them, whatever
\* threads and contexts are read and tokens added after it.
Facts(i) ==
  <<i.prState, i.isDraft, i.mergeable, i.mergeState, i.reviewDecision,
    i.queueEnabled, i.queue, i.missingRequired, i.convResolution>>

FactsOf(p) ==
  <<p.state, p.isDraft, p.mergeable, p.mergeStateStatus, p.reviewDecision,
    p.isMergeQueueEnabled, p.mergeQueueEntry, p.baseRef.required, p.baseRef.conversations>>

LEMMA EqualFacts ==
  ASSUME NEW i, NEW p, Facts(i) = FactsOf(p)
  PROVE  /\ i.prState = p.state /\ i.isDraft = p.isDraft /\ i.mergeable = p.mergeable
         /\ i.mergeState = p.mergeStateStatus /\ i.reviewDecision = p.reviewDecision
         /\ i.queueEnabled = p.isMergeQueueEnabled /\ i.queue = p.mergeQueueEntry
         /\ i.missingRequired = p.baseRef.required
         /\ i.convResolution = p.baseRef.conversations
BY DEF Facts, FactsOf

\* Without a merge queue exit 0 takes a merge state GitHub gives only of a
\* pull request it would merge (the state switch, the residual rule).
LEMMA GreenOfGitHub ==
  ASSUME NEW i \in Input, NothingInTheWay(i), i.prState = "OPEN",
         NEW w \in World, NEW l \in SUBSET Losses, Weightless(l),
         Facts(i) = FactsOf(FullAnswer(w, l)),
         ~w.queueEnabled, i.mergeState # "UNKNOWN"
  PROVE  Green(w)
<1>. DEFINE p == FullAnswer(w, l)
<1>1. Describes(p, w) /\ p.mergeStateStatus = MergeStateStatus(w)
  BY FullAnswerDescribes
<1>. HIDE DEF p
<1>2. /\ w.state = "OPEN" /\ i.mergeable = Mergeable(w) /\ i.mergeState = MergeStateStatus(w)
      /\ i.queueEnabled = w.queueEnabled /\ i.queue = w.queue
  BY <1>1, EqualFacts DEF Describes, p
<1>3. /\ i.mergeable \notin {"CONFLICTING", "UNKNOWN"}
      /\ i.mergeState \notin {"DIRTY", "BEHIND", "BLOCKED"} /\ ~Queued(i)
  BY <1>2 DEF NothingInTheWay
<1>4. ~w.conflict /\ "mergeable" \notin w.computing
  BY <1>2, <1>3 DEF Mergeable
<1>5. MergeStateStatus(w) \notin {"UNKNOWN", "DIRTY", "BEHIND", "BLOCKED"}
  BY <1>2, <1>3
<1>6. ~Forbidden(w) /\ ~(w.strict /\ w.behindBy > 0)
  BY <1>5 DEF MergeStateStatus
<1>7. w.behindBy \in Nat
  BY DEF World
<1>8. ~w.strict \/ w.behindBy = 0
  BY <1>6, <1>7
<1>9. w.queue.state = NoQueue.state
  BY <1>2, <1>3 DEF Queued, NoQueue
<1>. QED BY <1>2, <1>4, <1>6, <1>8, <1>9 DEF Green

\* Under a merge queue, where BLOCKED says nothing, the code has to see for
\* itself: all that the token can read, on all pages.
LEMMA GreenOfQueue ==
  ASSUME NEW i \in Input, NothingInTheWay(i), i.prState = "OPEN",
         NEW v \in World, NEW p, Describes(p, v), Facts(i) = FactsOf(p),
         v.queueEnabled, i.mergeState # "UNKNOWN",
         i.contexts = Walk(v), NamesakesAgree(Walk(v)),
         i.unresolvedThreads = 0 => ~Unresolved(v)
  PROVE  Green(Shown(v))
<1>. DEFINE s == Shown(v)
<1>1. s = [v EXCEPT !.hidden = FALSE, !.conversations = @ /\ v.bprReadable,
                    !.required = If(v.bprReadable, @)]
  BY DEF Shown
<1>2. /\ s.state = v.state /\ s.conflict = v.conflict /\ s.computing = v.computing
      /\ s.draft = v.draft /\ s.review = v.review /\ s.queueEnabled = v.queueEnabled
      /\ s.queue = v.queue /\ s.threads = v.threads /\ s.rollup = v.rollup
      /\ s.checks = v.checks
      /\ s.hidden = FALSE /\ s.conversations = (v.conversations /\ v.bprReadable)
      /\ s.required = If(v.bprReadable, v.required)
  BY <1>1 DEF World
<1>. HIDE DEF s
<1>3. /\ v.state = "OPEN" /\ i.isDraft = v.draft /\ i.mergeable = Mergeable(v)
      /\ i.reviewDecision = v.review /\ i.queue = v.queue
      /\ i.convResolution = (v.bprReadable /\ v.conversations)
      /\ i.missingRequired = If(v.bprReadable, v.required)
      /\ v.queue.state = NoQueue.state /\ i.mergeable = "MERGEABLE" => i.mergeState = "BLOCKED"
  BY EqualFacts DEF Describes
<1>4. Mergeable(v) = "MERGEABLE"
  BY <1>3 DEF NothingInTheWay, Mergeable
<1>5. ~v.conflict /\ "mergeable" \notin v.computing
  BY <1>4 DEF Mergeable
<1>6. ~v.draft /\ ReviewDone(v) /\ v.queue.state = NoQueue.state
  BY <1>3 DEF NothingInTheWay, ReviewDone, Queued, NoQueue
<1>7. Walk(s) = Walk(v) /\ Unresolved(s) = Unresolved(v)
  BY <1>2 DEF Walk, Unresolved
<1>8. \A c \in Walk(v) : c.required => Rank(c) = 0
  BY RequiredAreDone
<1>9. i.missingRequired \subseteq {c.name : c \in Walk(v)}
  BY <1>3, <1>4, <1>6 DEF NothingInTheWay
<1>10. RequiredDone(s)
  BY <1>2, <1>3, <1>7, <1>8, <1>9 DEF RequiredDone
<1>11. ~(s.conversations /\ Unresolved(s))
  BY <1>2, <1>3, <1>7 DEF NothingInTheWay
<1>12. ~Forbidden(s)
  BY <1>2, <1>6, <1>10, <1>11 DEF Forbidden, ReviewDone
<1>13. Green(s)
  BY <1>2, <1>3, <1>5, <1>6, <1>12 DEF Green
<1>. QED BY <1>13 DEF s

\* A page of contexts adds what it lists: no entry of a complete answer is
\* without a kind (appendContexts).
LEMMA PageIsAppended ==
  ASSUME NEW w \in World, w.rollup, NEW n \in Nat, NEW T
  PROVE  AppendContexts(T, ContextsAnswer(w, n, {}).nodes)
           = T \cup (IF n \in DOMAIN w.checks THEN w.checks[n] ELSE {})
<1>. DEFINE nodes == IF n \in DOMAIN w.checks THEN w.checks[n] ELSE {}
<1>1. ContextsAnswer(w, n, {}).nodes = nodes
  BY DEF ContextsAnswer
<1>2. w.checks \in Seq(SUBSET Context)
  BY DEF World
<1>3. nodes \in SUBSET Context
  BY <1>2
<1>. HIDE DEF nodes
<1>4. \A c \in nodes : c.kind # ""
  BY <1>3 DEF Context, ContextOf
<1>5. AppendContexts(T, nodes) = T \cup nodes
  BY <1>4 DEF AppendContexts
<1>. QED BY <1>1, <1>5 DEF nodes

\* What an answer says of a pull request does not hang on its later pages.
LEMMA LaterPagesAreDescribed ==
  ASSUME NEW v \in World, NEW x, NEW p, Describes(p, v)
  PROVE  /\ Describes(p, [v EXCEPT !.threads = x])
         /\ Describes(p, [v EXCEPT !.checks = x])
<1>. DEFINE Same(u) ==
       /\ u.state = v.state /\ u.draft = v.draft /\ u.computing = v.computing
       /\ u.conflict = v.conflict /\ u.review = v.review
       /\ u.queueEnabled = v.queueEnabled /\ u.queue = v.queue
       /\ u.bprReadable = v.bprReadable /\ u.conversations = v.conversations
       /\ u.required = v.required
<1>1. ASSUME NEW u, Same(u) PROVE Describes(p, u)
  <2>1. Mergeable(u) = Mergeable(v)
    BY <1>1 DEF Mergeable
  <2>. QED BY <1>1, <2>1 DEF Describes
<1>2. Same([v EXCEPT !.threads = x]) /\ Same([v EXCEPT !.checks = x])
  BY DEF World
<1>. QED BY <1>1, <1>2

=============================================================================
