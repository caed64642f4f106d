----------------------------- MODULE GreenProofs -----------------------------
(***************************************************************************)
(* An exit 0 is deserved, for every set of pull-request states, losses,    *)
(* budgets, latencies and every timeout, wherever no known gap is met.     *)
(***************************************************************************)
EXTENDS FetchProofs

-----------------------------------------------------------------------------
(* The pages read so far.                                                  *)

PagesBefore(pages, n) == {k \in DOMAIN pages : k < n}
ReadUpTo(checks, n) == UNION {checks[k] : k \in PagesBefore(checks, n)}

\* Page n read anew: the pages before it stay, page n is the one answered.
LEMMA RereadPages ==
  ASSUME NEW S, NEW read \in Seq(S), NEW pages \in Seq(S),
         NEW n \in Nat, n >= 1, n - 1 <= Len(read)
  PROVE  LET r == Reread(read, n, pages)
         IN  /\ \A k \in 1..(n - 1) : k \in DOMAIN read /\ k \in DOMAIN r /\ r[k] = read[k]
             /\ n \in DOMAIN r <=> n \in DOMAIN pages
             /\ n \in DOMAIN pages => r[n] = pages[n]
             /\ n >= Len(pages) => Len(r) <= n
<1>. DEFINE front == SubSeq(read, 1, n - 1)
            rear == SubSeq(pages, n, Len(pages))
            r == front \o rear
<1>1. /\ front \in Seq(S) /\ Len(front) = n - 1
      /\ \A k \in 1..(n - 1) : front[k] = read[k]
  OBVIOUS
<1>2. /\ rear \in Seq(S)
      /\ n \in DOMAIN pages => Len(rear) >= 1 /\ rear[1] = pages[n]
      /\ n \notin DOMAIN pages => Len(rear) = 0
      /\ n >= Len(pages) => Len(rear) <= 1
  OBVIOUS
<1>. HIDE DEF front, rear
<1>3. /\ r \in Seq(S) /\ Len(r) = Len(front) + Len(rear)
      /\ \A k \in 1..(n - 1) : r[k] = front[k]
      /\ Len(rear) >= 1 => r[n] = rear[1]
  <2>1. r \in Seq(S) /\ Len(r) = Len(front) + Len(rear)
    <3>1. front \in Seq(S) /\ rear \in Seq(S)
      BY <1>1, <1>2
    <3>. QED BY <3>1
  <2>2. \A k \in 1..Len(front) : r[k] = front[k]
    BY <1>1, <1>2
  <2>3. \A k \in 1..Len(rear) : r[Len(front) + k] = rear[k]
    BY <1>1, <1>2
  <2>4. Len(rear) >= 1 => 1 \in 1..Len(rear) /\ Len(front) + 1 = n
    BY <1>1, <1>2
  <2>. HIDE DEF r
  <2>. QED BY <1>1, <2>1, <2>2, <2>3, <2>4
<1>. HIDE DEF r
<1>4. \A k \in 1..(n - 1) : k \in DOMAIN read /\ k \in DOMAIN r /\ r[k] = read[k]
  BY <1>1, <1>2, <1>3
<1>5. /\ n \in DOMAIN r <=> n \in DOMAIN pages
      /\ n \in DOMAIN pages => r[n] = pages[n]
      /\ n >= Len(pages) => Len(r) <= n
  BY <1>1, <1>2, <1>3
<1>. QED BY <1>4, <1>5 DEF r, front, rear, Reread

LEMMA ReadOneMore ==
  ASSUME NEW S, NEW read \in Seq(SUBSET S), NEW pages \in Seq(SUBSET S),
         NEW n \in Nat, n >= 1, n - 1 <= Len(read)
  PROVE  ReadUpTo(Reread(read, n, pages), n + 1)
           = ReadUpTo(read, n) \cup (IF n \in DOMAIN pages THEN pages[n] ELSE {})
<1>. DEFINE r == Reread(read, n, pages)
            rest == IF n \in DOMAIN pages THEN pages[n] ELSE {}
<1>1. /\ \A k \in 1..(n - 1) : k \in DOMAIN read /\ k \in DOMAIN r /\ r[k] = read[k]
      /\ n \in DOMAIN r <=> n \in DOMAIN pages
      /\ n \in DOMAIN pages => r[n] = pages[n]
  BY RereadPages
<1>2. r \in Seq(SUBSET S)
  BY RereadType
<1>. HIDE DEF r
<1>3. PagesBefore(read, n) = 1..(n - 1)
  BY <1>1 DEF PagesBefore
<1>4. PagesBefore(r, n + 1) = 1..(n - 1) \cup If(n \in DOMAIN pages, {n})
  BY <1>1, <1>2 DEF PagesBefore, If
<1>5. \A c : c \in ReadUpTo(r, n + 1) <=>
               \/ \E k \in 1..(n - 1) : c \in r[k]
               \/ n \in DOMAIN pages /\ c \in r[n]
  BY <1>4 DEF ReadUpTo, If
<1>6. \A c : c \in ReadUpTo(read, n) <=> \E k \in 1..(n - 1) : c \in r[k]
  BY <1>1, <1>3 DEF ReadUpTo
<1>7. \A c : c \in rest <=> n \in DOMAIN pages /\ c \in r[n]
  BY <1>1
<1>. HIDE DEF rest
<1>8. ReadUpTo(r, n + 1) = ReadUpTo(read, n) \cup rest
  BY <1>5, <1>6, <1>7
<1>. QED BY <1>8 DEF r, rest

-----------------------------------------------------------------------------
(* The inductive invariant: the input says what the answer held says, and  *)
(* has every thread and every context of the pages read so far, as the     *)
(* pull request of history "view" has them.                                *)

ThreadsRead ==
  /\ in.unresolvedThreads = 0 =>
       \A k \in DOMAIN view.threads : k < tp.page => view.threads[k] = 0
  /\ ~tp.hasNext => Len(view.threads) < tp.page

ContextsRead ==
  /\ in.contexts = If(view.rollup, ReadUpTo(view.checks, cp.page))
  /\ view.rollup /\ ~cp.hasNext => Len(view.checks) < cp.page
  /\ cp.hasNext => view.rollup

InputSaysWhatIsRead ==
  /\ Facts(in) = FactsOf(pr)
  /\ pr.state = view.state /\ pr.isMergeQueueEnabled = view.queueEnabled
  /\ Weightless(lost) => Describes(pr, view) /\ ThreadsRead /\ ContextsRead

GreenInv ==
  /\ pc \in {"ladder", "probe", "refetch", "normalize"} => pr = FullAnswer(view, lost)
  /\ pc \in {"threads", "contexts", "report"} => InputSaysWhatIsRead
  /\ NoFalseGreen

LEMMA GreenInit == Init => GreenInv
BY DEF Init, GreenInv, NoFalseGreen, Finished

\* Before there is an exit code of 0, none is undeserved.
LEMMA NoExitYet ==
  ASSUME pc' # "done" \/ out'.exit # 0
  PROVE  NoFalseGreen'
BY DEF NoFalseGreen, Finished

\* normalize and the flag flips keep what the answer says, and the first pages.
LEMMA SettleReads ==
  ASSUME TypeOK, FactsInv, GreenInv, Settle
  PROVE  InputSaysWhatIsRead'
<1>. DEFINE n == Normalize(pr)
<1>1. /\ pr \in PRNode /\ view \in World /\ lost \in SUBSET Losses
      /\ pr = FullAnswer(view, lost)
      /\ in' = Degrade(n, degraded)
      /\ tp' = [page |-> 2, hasNext |-> pr.reviewThreads.hasNext]
      /\ cp' = [page |-> 2, hasNext |-> pr.statusCheckRollup.contexts.hasNext]
      /\ UNCHANGED <<pr, view, lost>>
  BY FetchAssumption DEF Settle, TypeOK, GreenInv, history
<1>2. /\ Facts(n) = FactsOf(pr)
      /\ n.unresolvedThreads = pr.reviewThreads.nodes
      /\ n.contexts = AppendContexts({}, pr.statusCheckRollup.contexts.nodes)
  BY DEF Normalize, Facts, FactsOf
<1>3. n \in Input
  BY <1>1, NormalizeType
<1>. HIDE DEF n
<1>4. Facts(in') = Facts(n) /\ in'.contexts = n.contexts
      /\ (degraded = {} => in'.unresolvedThreads = n.unresolvedThreads)
  BY <1>1, <1>3 DEF Degrade, Input, Facts
<1>5. pr.state = view.state /\ pr.isMergeQueueEnabled = view.queueEnabled
  BY <1>1 DEF FullAnswer
<1>6. ASSUME Weightless(lost)
      PROVE  Describes(pr, view) /\ ThreadsRead' /\ ContextsRead'
  <2>1. /\ Describes(pr, view)
        /\ pr.reviewThreads = ThreadsAnswer(view, 1, {})
        /\ pr.statusCheckRollup.contexts = ContextsAnswer(view, 1, {})
    BY <1>1, <1>6, FullAnswerDescribes
  <2>2. degraded = {}
    BY <1>6 DEF FactsInv, Weightless
  <2>3. view.threads \in Seq(Nat) /\ view.checks \in Seq(SUBSET Context)
    BY <1>1 DEF World
  <2>4. ThreadsRead'
    <3>. DEFINE page == ThreadsAnswer(view, 1, {})
    <3>0. /\ page.nodes = (IF 1 \in DOMAIN view.threads THEN view.threads[1] ELSE 0) + 0
          /\ page.hasNext <=> 1 < Len(view.threads)
      BY DEF ThreadsAnswer
    <3>. HIDE DEF page
    <3>1. /\ in'.unresolvedThreads = (IF 1 \in DOMAIN view.threads THEN view.threads[1] ELSE 0) + 0
          /\ (tp'.hasNext <=> 1 < Len(view.threads)) /\ tp'.page = 2
      BY <1>1, <1>2, <1>4, <2>1, <2>2, <3>0 DEF page
    <3>2. in'.unresolvedThreads = 0 =>
            \A k \in DOMAIN view.threads : k < 2 => view.threads[k] = 0
      BY <2>3, <3>1
    <3>3. ~tp'.hasNext => Len(view.threads) < 2
      BY <2>3, <3>1
    <3>. QED BY <1>1, <3>1, <3>2, <3>3 DEF ThreadsRead
  <2>5. ContextsRead'
    <3>1. cp'.page = 2 /\ in'.contexts = AppendContexts({}, ContextsAnswer(view, 1, {}).nodes)
          /\ cp'.hasNext = ContextsAnswer(view, 1, {}).hasNext
      BY <1>1, <1>2, <1>4, <2>1
    <3>2. CASE view.rollup
      <4>1. in'.contexts = IF 1 \in DOMAIN view.checks THEN view.checks[1] ELSE {}
        <5>1. AppendContexts({}, ContextsAnswer(view, 1, {}).nodes)
                = {} \cup (IF 1 \in DOMAIN view.checks THEN view.checks[1] ELSE {})
          BY <1>1, <3>2, PageIsAppended
        <5>. QED BY <3>1, <5>1
      <4>2. PagesBefore(view.checks, 2) = If(1 \in DOMAIN view.checks, {1})
        BY <2>3 DEF PagesBefore, If
      <4>3. ReadUpTo(view.checks, 2) = in'.contexts
        BY <4>1, <4>2 DEF ReadUpTo, If
      <4>4. cp'.hasNext <=> 1 < Len(view.checks)
        BY <3>1, <3>2 DEF ContextsAnswer
      <4>5. ~cp'.hasNext => Len(view.checks) < 2
        BY <2>3, <4>4
      <4>. QED BY <1>1, <3>1, <3>2, <4>3, <4>5 DEF ContextsRead, If
    <3>3. CASE ~view.rollup
      <4>1. /\ ContextsAnswer(view, 1, {}).nodes = {}
            /\ ContextsAnswer(view, 1, {}).hasNext = FALSE
        BY <3>3 DEF ContextsAnswer, NoContexts
      <4>2. in'.contexts = {} /\ ~cp'.hasNext
        BY <3>1, <4>1 DEF AppendContexts
      <4>. QED BY <1>1, <3>3, <4>2 DEF ContextsRead, If
    <3>. QED BY <3>2, <3>3
  <2>. QED BY <2>1, <2>4, <2>5
<1>. QED BY <1>1, <1>2, <1>4, <1>5, <1>6 DEF InputSaysWhatIsRead

LEMMA ThreadPageIsRead ==
  ASSUME TypeInv, InputSaysWhatIsRead, ThreadsAnswers
  PROVE  InputSaysWhatIsRead'
<1>. DEFINE n == tp.page
            page == ThreadsAnswer(world, n, {})
            threads == Reread(view.threads, n, world.threads)
<1>0. world \in World /\ view \in World /\ in \in Input /\ tp.page \in Nat
  BY FetchAssumption DEF ThreadsAnswers, AsksThreads, TypeInv, TypeOK
<1>1. /\ world \in World /\ view \in World /\ in \in Input /\ n \in Nat /\ n >= 1
      /\ view.threads \in Seq(Nat) /\ world.threads \in Seq(Nat)
      /\ n - 1 <= Len(view.threads)
  <2>1. view.threads \in Seq(Nat) /\ world.threads \in Seq(Nat)
    BY <1>0 DEF World
  <2>2. n >= 2 /\ n <= Len(view.threads)
    BY DEF ThreadsAnswers, AsksThreads, TypeInv, StepInv
  <2>. QED BY <1>0, <2>1, <2>2
<1>2. /\ in' = [in EXCEPT !.unresolvedThreads = in.unresolvedThreads + page.nodes]
      /\ tp' = [page |-> n + 1, hasNext |-> page.hasNext]
      /\ view' = [view EXCEPT !.threads = threads]
      /\ UNCHANGED <<pr, lost, cp>>
  BY DEF ThreadsAnswers
<1>3. /\ page.nodes = (IF n \in DOMAIN world.threads THEN world.threads[n] ELSE 0) + 0
      /\ page.hasNext <=> n < Len(world.threads)
  BY DEF ThreadsAnswer
<1>4. /\ \A k \in 1..(n - 1) : k \in DOMAIN view.threads /\ threads[k] = view.threads[k]
      /\ n \in DOMAIN threads <=> n \in DOMAIN world.threads
      /\ n \in DOMAIN world.threads => threads[n] = world.threads[n]
      /\ n >= Len(world.threads) => Len(threads) <= n
  <2>1. PICK read \in Seq(Nat), pages \in Seq(Nat), m \in Nat :
          read = view.threads /\ pages = world.threads /\ m = n
    BY <1>1
  <2>2. m >= 1 /\ m - 1 <= Len(read)
    BY <1>1, <2>1
  <2>3. /\ \A k \in 1..(m - 1) : /\ k \in DOMAIN read /\ k \in DOMAIN Reread(read, m, pages)
                               /\ Reread(read, m, pages)[k] = read[k]
        /\ m \in DOMAIN Reread(read, m, pages) <=> m \in DOMAIN pages
        /\ m \in DOMAIN pages => Reread(read, m, pages)[m] = pages[m]
        /\ m >= Len(pages) => Len(Reread(read, m, pages)) <= m
    BY <2>2, RereadPages
  <2>. QED BY <2>1, <2>3
<1>5. threads \in Seq(Nat)
  BY <1>1, RereadType
<1>. HIDE DEF page, threads
<1>6. /\ Facts(in') = Facts(in) /\ in'.contexts = in.contexts
      /\ in'.unresolvedThreads = in.unresolvedThreads + page.nodes
      /\ view'.threads = threads /\ view'.checks = view.checks /\ view'.rollup = view.rollup
      /\ view'.state = view.state /\ view'.queueEnabled = view.queueEnabled
  BY <1>1, <1>2 DEF Input, Facts, World
<1>7. ASSUME Weightless(lost)
      PROVE  Describes(pr, view') /\ ThreadsRead' /\ ContextsRead'
  <2>1. Describes(pr, view) /\ ThreadsRead /\ ContextsRead
    BY <1>7 DEF InputSaysWhatIsRead
  <2>2. Describes(pr, view')
    BY <1>1, <1>2, <2>1, LaterPagesAreDescribed
  <2>3. ContextsRead'
    BY <1>2, <1>6, <2>1 DEF ContextsRead
  <2>4. in.unresolvedThreads \in Nat /\ page.nodes \in Nat
    <3>1. in.unresolvedThreads \in Nat
      BY <1>1 DEF Input
    <3>2. n \in DOMAIN world.threads => world.threads[n] \in Nat
      BY <1>1
    <3>. QED BY <1>3, <3>1, <3>2
  <2>5. ASSUME in'.unresolvedThreads = 0, NEW k \in DOMAIN threads, k < n + 1
        PROVE  threads[k] = 0
    <3>1. in.unresolvedThreads = 0 /\ page.nodes = 0
      BY <1>6, <2>4, <2>5
    <3>2. CASE k = n
      BY <1>1, <1>3, <1>4, <3>1, <3>2
    <3>3. CASE k # n
      <4>1. k \in 1..(n - 1)
        BY <1>1, <1>5, <2>5, <3>3
      <4>2. k \in DOMAIN view.threads /\ k < tp.page /\ threads[k] = view.threads[k]
        BY <1>1, <1>4, <4>1
      <4>. QED BY <2>1, <3>1, <4>2 DEF ThreadsRead
    <3>. QED BY <3>2, <3>3
  <2>6. ~tp'.hasNext => Len(threads) < n + 1
    <3>1. n >= Len(world.threads) => Len(threads) <= n
      BY <1>4
    <3>2. ~(n < Len(world.threads)) => n >= Len(world.threads)
      BY <1>1
    <3>3. Len(threads) <= n => Len(threads) < n + 1
      BY <1>1, <1>5
    <3>. QED BY <1>2, <1>3, <3>1, <3>2, <3>3
  <2>7. ThreadsRead'
    BY <1>2, <1>6, <2>5, <2>6 DEF ThreadsRead
  <2>. QED BY <2>2, <2>3, <2>7
<1>. QED BY <1>2, <1>6, <1>7 DEF InputSaysWhatIsRead

LEMMA ContextPageIsRead ==
  ASSUME TypeInv, InputSaysWhatIsRead, ContextsAnswers
  PROVE  InputSaysWhatIsRead'
<1>. DEFINE n == cp.page
            page == ContextsAnswer(world, n, {})
            checks == Reread(view.checks, n, world.checks)
            new == IF n \in DOMAIN world.checks THEN world.checks[n] ELSE {}
<1>0. world \in World /\ view \in World /\ in \in Input /\ cp.page \in Nat
  BY FetchAssumption DEF ContextsAnswers, AsksContexts, TypeInv, TypeOK
<1>1. /\ world \in World /\ view \in World /\ in \in Input /\ n \in Nat /\ n >= 1
      /\ view.checks \in Seq(SUBSET Context) /\ world.checks \in Seq(SUBSET Context)
      /\ n - 1 <= Len(view.checks) /\ world.rollup /\ cp.hasNext
  <2>1. view.checks \in Seq(SUBSET Context) /\ world.checks \in Seq(SUBSET Context)
    BY <1>0 DEF World
  <2>2. n >= 2 /\ n <= Len(view.checks) /\ world.rollup /\ cp.hasNext
    BY DEF ContextsAnswers, AsksContexts, TypeInv, StepInv
  <2>. QED BY <1>0, <2>1, <2>2
<1>2. /\ in' = [in EXCEPT !.contexts = AppendContexts(in.contexts, page.nodes)]
      /\ cp' = [page |-> n + 1, hasNext |-> page.hasNext]
      /\ view' = [view EXCEPT !.checks = checks]
      /\ UNCHANGED <<pr, lost, tp>>
  BY DEF ContextsAnswers
<1>3. AppendContexts(in.contexts, page.nodes) = in.contexts \cup new
  BY <1>1, PageIsAppended
<1>4. page.hasNext <=> n < Len(world.checks)
  BY <1>1 DEF ContextsAnswer
<1>5. /\ checks \in Seq(SUBSET Context)
      /\ n >= Len(world.checks) => Len(checks) <= n
      /\ ReadUpTo(checks, n + 1) = ReadUpTo(view.checks, n) \cup new
  <2>1. checks \in Seq(SUBSET Context)
    BY <1>1, RereadType
  <2>2. n >= Len(world.checks) => Len(checks) <= n
    BY <1>1, RereadPages
  <2>3. ReadUpTo(checks, n + 1) = ReadUpTo(view.checks, n) \cup new
    <3>1. PICK read \in Seq(SUBSET Context), pages \in Seq(SUBSET Context), m \in Nat :
            read = view.checks /\ pages = world.checks /\ m = n
      BY <1>1
    <3>2. m >= 1 /\ m - 1 <= Len(read)
      BY <1>1, <3>1
    <3>3. ReadUpTo(Reread(read, m, pages), m + 1)
            = ReadUpTo(read, m) \cup (IF m \in DOMAIN pages THEN pages[m] ELSE {})
      BY <3>2, ReadOneMore
    <3>. QED BY <3>1, <3>3
  <2>. QED BY <2>1, <2>2, <2>3
<1>. HIDE DEF page, checks, new
<1>6. /\ Facts(in') = Facts(in) /\ in'.unresolvedThreads = in.unresolvedThreads
      /\ in'.contexts = in.contexts \cup new
      /\ view'.checks = checks /\ view'.threads = view.threads /\ view'.rollup = view.rollup
      /\ view'.state = view.state /\ view'.queueEnabled = view.queueEnabled
  BY <1>1, <1>2, <1>3 DEF Input, Facts, World
<1>7. ASSUME Weightless(lost)
      PROVE  Describes(pr, view') /\ ThreadsRead' /\ ContextsRead'
  <2>1. Describes(pr, view) /\ ThreadsRead /\ ContextsRead
    BY <1>7 DEF InputSaysWhatIsRead
  <2>2. Describes(pr, view')
    BY <1>1, <1>2, <2>1, LaterPagesAreDescribed
  <2>3. ThreadsRead'
    BY <1>2, <1>6, <2>1 DEF ThreadsRead
  <2>4. view.rollup /\ in.contexts = ReadUpTo(view.checks, n)
    BY <1>1, <2>1 DEF ContextsRead, If
  <2>5. in'.contexts = ReadUpTo(checks, n + 1)
    BY <1>5, <1>6, <2>4
  <2>6. ~cp'.hasNext => Len(checks) < n + 1
    <3>1. n >= Len(world.checks) => Len(checks) <= n
      BY <1>5
    <3>2. ~(n < Len(world.checks)) => n >= Len(world.checks)
      BY <1>1
    <3>3. Len(checks) <= n => Len(checks) < n + 1
      BY <1>1, <1>5
    <3>. QED BY <1>2, <1>4, <3>1, <3>2, <3>3
  <2>7. ContextsRead'
    BY <1>2, <1>6, <2>4, <2>5, <2>6 DEF ContextsRead, If
  <2>. QED BY <2>2, <2>3, <2>7
<1>. QED BY <1>2, <1>6, <1>7 DEF InputSaysWhatIsRead

-----------------------------------------------------------------------------
(* What is not read is told: with no token in the input and no blank page  *)
(* the input has every context and every thread of the pull request.       *)

LEMMA AllIsRead ==
  ASSUME view \in World, InputSaysWhatIsRead, Weightless(lost), ~tp.hasNext, ~cp.hasNext,
         tp.page \in Nat, cp.page \in Nat
  PROVE  /\ in.contexts = Walk(view)
         /\ in.unresolvedThreads = 0 => ~Unresolved(view)
<1>1. ThreadsRead /\ ContextsRead
  BY DEF InputSaysWhatIsRead
<1>2. view.threads \in Seq(Nat) /\ view.checks \in Seq(SUBSET Context)
  BY DEF World
<1>3. in.unresolvedThreads = 0 => ~Unresolved(view)
  <2>1. Len(view.threads) < tp.page
    BY <1>1 DEF ThreadsRead
  <2>2. \A k \in DOMAIN view.threads : k < tp.page
    BY <1>2, <2>1
  <2>3. in.unresolvedThreads = 0 => \A k \in DOMAIN view.threads : view.threads[k] = 0
    BY <1>1, <2>2 DEF ThreadsRead
  <2>. QED BY <2>3 DEF Unresolved
<1>4. in.contexts = Walk(view)
  <2>1. CASE view.rollup
    <3>1. Len(view.checks) < cp.page /\ in.contexts = ReadUpTo(view.checks, cp.page)
      BY <1>1, <2>1 DEF ContextsRead, If
    <3>2. PagesBefore(view.checks, cp.page) = DOMAIN view.checks
      BY <1>2, <3>1 DEF PagesBefore
    <3>. QED BY <2>1, <3>1, <3>2 DEF ReadUpTo, Walk, Pages
  <2>2. CASE ~view.rollup
    BY <1>1, <2>2 DEF ContextsRead, If, Walk
  <2>. QED BY <2>1, <2>2
<1>. QED BY <1>3, <1>4

\* An exit 0 on an open pull request is deserved.
LEMMA OpenGreenIsDeserved ==
  ASSUME TypeOK, FactsInv, GreenInv, pc = "report", pr.state = "OPEN", ~KnownGap,
         NEW j \in Input, NothingInTheWay(j), Facts(j) = Facts(in),
         j.contexts = in.contexts, j.unresolvedThreads = in.unresolvedThreads,
         in.degraded = {}
  PROVE  \/ Green(Shown(view))
         \/ ~view.queueEnabled /\ Vouched /\ (blank \/ NothingReadAgainst)
<1>1. /\ view \in World /\ lost \in SUBSET Losses /\ tp.page \in Nat /\ cp.page \in Nat
      /\ InputSaysWhatIsRead
  BY FetchAssumption DEF TypeOK, GreenInv
<1>2. Weightless(lost)
  BY DEF FactsInv, InputInv, Weightless, KnownGap
<1>3. Describes(pr, view) /\ Facts(j) = FactsOf(pr)
  BY <1>1, <1>2 DEF InputSaysWhatIsRead
<1>4. /\ j.prState = pr.state /\ j.mergeState = pr.mergeStateStatus
      /\ j.convResolution = pr.baseRef.conversations
  BY <1>3, EqualFacts
<1>5. j.prState = "OPEN" /\ j.mergeState # "UNKNOWN"
  BY <1>4 DEF KnownGap
<1>6. NamesakesAgree(Walk(view))
  BY DEF KnownGap, NamesakesAgree
<1>7. ASSUME ~blank
      PROVE  /\ j.contexts = Walk(view)
             /\ j.unresolvedThreads = 0 => ~Unresolved(view)
  <2>1. ~tp.hasNext /\ ~cp.hasNext
    BY <1>7 DEF FactsInv
  <2>. QED BY <1>1, <1>2, <2>1, AllIsRead
<1>8. CASE view.queueEnabled
  <2>1. ~blank
    BY <1>8 DEF KnownGap
  <2>. QED BY <1>1, <1>3, <1>5, <1>6, <1>7, <1>8, <2>1, GreenOfQueue
<1>9. CASE ~view.queueEnabled
  <2>1. Vouched
    <3>. SUFFICES ASSUME NEW w \in Worlds, FullAnswer(w, lost) = pr PROVE Green(w)
      BY DEF Vouched
    <3>1. w \in World
      BY FetchAssumption
    <3>2. pr.isMergeQueueEnabled = w.queueEnabled
      BY DEF FullAnswer
    <3>3. ~w.queueEnabled
      BY <1>1, <1>9, <3>2 DEF InputSaysWhatIsRead
    <3>. QED BY <1>1, <1>2, <1>3, <1>5, <3>1, <3>3, GreenOfGitHub
  <2>2. ASSUME ~blank PROVE NothingReadAgainst
    <3>1. \A c \in Walk(view) : c.required => Rank(c) = 0
      <4>1. j.contexts = Walk(view)
        BY <1>7, <2>2
      <4>. QED BY <1>6, <4>1, RequiredAreDone
    <3>2. j.convResolution => j.unresolvedThreads = 0
      BY DEF NothingInTheWay
    <3>3. view.bprReadable /\ view.conversations => j.convResolution
      BY <1>3, <1>4 DEF Describes
    <3>. QED BY <1>7, <2>2, <3>1, <3>2, <3>3 DEF NothingReadAgainst
  <2>. QED BY <1>9, <2>1, <2>2
<1>. QED BY <1>8, <1>9

LEMMA ReportIsDeserved ==
  ASSUME TypeOK, FactsInv, GreenInv, Report
  PROVE  NoFalseGreen'
<1>. DEFINE j == [in EXCEPT !.degraded = @ \cup If(ghes, {"ghes"})]
            r == Synthesize(j)
<1>1. /\ in \in Input /\ pc = "report" /\ InputSaysWhatIsRead
      /\ out' = [exit |-> ExitForReport(r), report |-> r]
      /\ UNCHANGED <<pr, view, lost, blank>>
  BY DEF Report, TypeOK, GreenInv, history
<1>2. j \in Input /\ j.degraded = in.degraded \cup If(ghes, {"ghes"})
  <2>1. If(ghes, {"ghes"}) \in SUBSET Tokens
    BY DEF If, Tokens
  <2>2. j \in Input
    BY <1>1, <2>1, TokensExtendType
  <2>. QED BY <1>1, <2>2 DEF Input
<1>3. /\ Facts(j) = Facts(in) /\ j.prState = in.prState
      /\ j.contexts = in.contexts /\ j.unresolvedThreads = in.unresolvedThreads
  BY <1>1 DEF Input, Facts
<1>4. j.prState = pr.state /\ pr.state = view.state
  BY <1>1, <1>3, EqualFacts DEF InputSaysWhatIsRead
<1>. HIDE DEF j
<1>5. out'.exit = ExitForReport(r)
  BY <1>1
<1>6. (Finished /\ out.exit = 0 /\ ~KnownGap)' => ExitForReport(r) = 0 /\ ~KnownGap
  BY <1>1, <1>5 DEF KnownGap
<1>7. ASSUME \/ Green(Shown(view))
             \/ ~view.queueEnabled /\ Vouched /\ (blank \/ NothingReadAgainst)
      PROVE  NoFalseGreen'
  BY <1>1, <1>7 DEF NoFalseGreen, Vouched, NothingReadAgainst
<1>8. CASE pr.state = "CLOSED"
  <2>1. r.state = "CLOSED"
    BY <1>4, <1>8 DEF Synthesize, TerminalReport
  <2>2. ExitForReport(r) = 1
    BY <2>1 DEF ExitForReport
  <2>. QED BY <1>6, <2>2 DEF NoFalseGreen
<1>9. CASE pr.state = "MERGED"
  <2>1. Shown(view).state = view.state
    BY DEF Shown, World
  <2>2. Green(Shown(view))
    BY <1>4, <1>9, <2>1 DEF Green
  <2>. QED BY <1>7, <2>2
<1>10. CASE pr.state = "OPEN"
  <2>1. ExitForReport(r) = 0 => NothingInTheWay(j)
    BY <1>2, <1>4, <1>10, ExitZeroIsEarned
  <2>2. NothingInTheWay(j) => in.degraded = {}
    BY <1>2 DEF NothingInTheWay
  <2>3. NothingInTheWay(j) /\ ~KnownGap =>
          \/ Green(Shown(view))
          \/ ~view.queueEnabled /\ Vouched /\ (blank \/ NothingReadAgainst)
    BY <1>1, <1>2, <1>3, <1>10, <2>2, OpenGreenIsDeserved
  <2>. QED BY <1>6, <1>7, <2>1, <2>3 DEF NoFalseGreen
<1>11. pr.state \in {"OPEN", "CLOSED", "MERGED"}
  BY <1>1 DEF TypeOK, PRNode
<1>. QED BY <1>8, <1>9, <1>10, <1>11

-----------------------------------------------------------------------------
(* Every step keeps the invariant.                                         *)

\* A step that leaves the pull request read and the facts of the input alone.
LEMMA ReadingKept ==
  ASSUME InputSaysWhatIsRead, UNCHANGED <<pr, view, lost, tp, cp>>,
         Facts(in') = Facts(in), in'.contexts = in.contexts,
         in'.unresolvedThreads = in.unresolvedThreads
  PROVE  InputSaysWhatIsRead'
<1>1. ThreadsRead => ThreadsRead'
  BY DEF ThreadsRead
<1>2. ContextsRead => ContextsRead'
  BY DEF ContextsRead
<1>. QED BY <1>1, <1>2 DEF InputSaysWhatIsRead

LEMMA GreenStep == TypeInv /\ FactsInv /\ GreenInv /\ [Next]_vars => GreenInv'
<1>. SUFFICES ASSUME TypeInv, FactsInv, GreenInv, [Next]_vars PROVE GreenInv'
  OBVIOUS
<1>0. TypeOK
  BY DEF TypeInv
<1>1. CASE FullAnswers \/ RefetchAnswers
  <2>1. /\ Answered /\ pc' \in {"ladder", "normalize"}
    BY <1>1 DEF FullAnswers, RefetchAnswers
  <2>2. pr' = FullAnswer(view', lost')
    BY <2>1 DEF Answered
  <2>. QED BY <2>1, <2>2, NoExitYet DEF GreenInv
<1>2. CASE FullFails
  <2>1. pc' = "done" /\ out'.exit # 0
    BY <1>2 DEF FullFails, ClassifiedExits
  <2>. QED BY <2>1, NoExitYet DEF GreenInv
<1>3. CASE Sleep \/ LadderEnds \/ ProbeAnswers \/ ProbeFails \/ RefetchFails
  <2>1. /\ pc \in {"ladder", "probe", "refetch"}
        /\ pc' \in {"probe", "refetch", "ladder", "normalize"}
        /\ UNCHANGED <<pr, view, lost>>
    BY <1>3 DEF Sleep, LadderEnds, ProbeAnswers, ProbeFails, RefetchFails, history
  <2>. QED BY <2>1, NoExitYet DEF GreenInv
<1>4. CASE Settle
  <2>1. pc' = "threads"
    BY <1>4 DEF Settle
  <2>. QED BY <1>0, <1>4, <2>1, SettleReads, NoExitYet DEF GreenInv
<1>5. CASE ThreadsAnswers
  <2>1. pc' = "threads" /\ InputSaysWhatIsRead
    BY <1>5 DEF ThreadsAnswers, AsksThreads, GreenInv
  <2>. QED BY <1>5, <2>1, ThreadPageIsRead, NoExitYet DEF GreenInv
<1>6. CASE ContextsAnswers
  <2>1. pc' = "contexts" /\ InputSaysWhatIsRead
    BY <1>6 DEF ContextsAnswers, AsksContexts, GreenInv
  <2>. QED BY <1>6, <2>1, ContextPageIsRead, NoExitYet DEF GreenInv
<1>7. CASE ThreadsFail \/ ThreadsEnd \/ ContextsFail \/ ContextsEnd
  <2>1. /\ pc \in {"threads", "contexts"} /\ pc' \in {"contexts", "report"}
        /\ UNCHANGED <<pr, view, lost, tp, cp>>
        /\ \E t : in' = [in EXCEPT !.degraded = @ \cup t]
    BY <1>7 DEF ThreadsFail, ThreadsEnd, AsksThreads, ContextsFail, ContextsEnd,
       AsksContexts, history
  <2>2. InputSaysWhatIsRead /\ in \in Input
    BY <1>0, <2>1 DEF GreenInv, TypeOK
  <2>3. /\ Facts(in') = Facts(in) /\ in'.contexts = in.contexts
        /\ in'.unresolvedThreads = in.unresolvedThreads
    BY <2>1, <2>2 DEF Input, Facts
  <2>. QED BY <2>1, <2>2, <2>3, ReadingKept, NoExitYet DEF GreenInv
<1>8. CASE ThreadsNull \/ ContextsNull
  <2>1. /\ pc \in {"threads", "contexts"} /\ pc' \in {"contexts", "report"}
        /\ UNCHANGED <<pr, view, lost, tp, cp, in>>
    BY <1>8 DEF ThreadsNull, AsksThreads, ContextsNull, AsksContexts
  <2>2. InputSaysWhatIsRead
    BY <2>1 DEF GreenInv
  <2>. QED BY <2>1, <2>2, ReadingKept, NoExitYet DEF GreenInv
<1>9. CASE Report
  <2>1. pc' = "done"
    BY <1>9 DEF Report
  <2>. QED BY <1>0, <1>9, <2>1, ReportIsDeserved DEF GreenInv
<1>10. CASE WorldMoves \/ UNCHANGED vars
  <2>1. UNCHANGED <<code, history>>
    BY <1>10 DEF WorldMoves, vars
  <2>2. UNCHANGED <<pc, pr, view, lost, tp, cp, in, out, blank>>
    BY <2>1 DEF code, history
  <2>3. InputSaysWhatIsRead => InputSaysWhatIsRead'
    BY <2>2, ReadingKept
  <2>4. NoFalseGreen => NoFalseGreen'
    BY <2>2 DEF NoFalseGreen, Finished, KnownGap, Vouched, NothingReadAgainst
  <2>. QED BY <2>2, <2>3, <2>4 DEF GreenInv
<1>. QED
  BY <1>1, <1>2, <1>3, <1>4, <1>5, <1>6, <1>7, <1>8, <1>9, <1>10 DEF Next, Step

\* An exit 0 is deserved: whatever moves, fails, is lost, is cut short or
\* takes time on the way, the pull request as it was read can be merged or
\* enqueued, or GitHub's answer said so and no page read since speaks against
\* it; the known gaps apart (PR, normalize, paginate, Synthesize,
\* exitForReport).
THEOREM GreenIsDeserved == Spec => []NoFalseGreen
<1>1. GreenInv => NoFalseGreen
  BY DEF GreenInv
<1>. QED
  BY TypeInit, TypeStep, TypeCorrect, FactsHold, GreenInit, GreenStep, <1>1, PTL DEF Spec

=============================================================================
