---------------------------- MODULE WatchProofs ----------------------------
(***************************************************************************)
(* A loop that polls prq, for every life a pull request may have, every    *)
(* loss and every order of its checks:                                     *)
(*   BeliefInv   asleep while the fingerprint stands still, it misses      *)
(*               nothing                                                   *)
(*   TypeInv     the pull request stays one, what is remembered a report    *)
(*   PollInv     no loss makes an exit 0 of a pull request that is not     *)
(*               green                                                     *)
(*   ExitInv     a complete answer gets the exit code that says what to do *)
(*   StillInv    noise leaves the fingerprint as it is                     *)
(***************************************************************************)
EXTENDS Watch, GitHubProofs, FiniteSetTheorems

\* What a report calls for, read off its fingerprint.
DecisionOf(fp) ==
  [exit |-> ExitOf(fp), final |-> FinalOf(fp), review |-> fp.review,
   blockers |-> DOMAIN fp.blockers, waits |-> DOMAIN fp.pending]

\* The fingerprint of a report tells everything the loop decides by.
LEMMA FingerprintDecides ==
  ASSUME NEW in
  PROVE  Decision(Synthesize(in)) = DecisionOf(Synthesize(in).fp)
<1>. DEFINE r == Synthesize(in)
<1>1. ExitForReport(r) = ExitOf(r.fp) /\ r.final = FinalOf(r.fp)
  BY FingerprintDeterminesExit
<1>2. /\ {NormBlocker(l) : l \in r.blockers} = DOMAIN r.fp.blockers
      /\ {l.key : l \in {p \in r.pending : p.prec = Prec.check}} = DOMAIN r.fp.pending
      /\ r.review = r.fp.review
  BY FingerprintKeepsLists
<1>. HIDE DEF r
<1>3. Decision(r) = DecisionOf(r.fp)
  BY <1>1, <1>2 DEF Decision, DecisionOf
<1>. QED BY <1>3 DEF r

\* The inductive invariant: what the loop acted on is what the fingerprint it
\* remembers stands for.
BeliefInv ==
  /\ belief # Unpolled => belief.decision = DecisionOf(belief.fp)
  /\ NothingSleptThrough

\* Nothing that happens on GitHub changes what the loop knows.
LEMMA LifeKeepsPolls ==
  ASSUME \/ CheckReports \/ RollupAppears \/ ReviewChanges \/ DraftFlips
         \/ ConflictFlips \/ ThreadsMove \/ BaseAdvances \/ UpdateBranch
         \/ Recomputes \/ QueueTakes \/ QueueMoves \/ QueueEjects \/ MergesOrCloses
  PROVE  UNCHANGED <<last, belief>>
BY DEF CheckReports, RollupAppears, ReviewChanges, DraftFlips, ConflictFlips,
   ThreadsMove, BaseAdvances, UpdateBranch, Recomputes, QueueTakes, QueueMoves,
   QueueEjects, MergesOrCloses, Changes, Becomes

LEMMA BeliefInit == Init => BeliefInv
BY DEF Init, BeliefInv, NothingSleptThrough, Polled

LEMMA BeliefStep == BeliefInv /\ [Next]_vars => BeliefInv'
<1>. SUFFICES ASSUME BeliefInv, [Next]_vars PROVE BeliefInv'
  OBVIOUS
<1>1. CASE UNCHANGED <<last, belief>>
  BY <1>1 DEF BeliefInv, NothingSleptThrough, Polled
<1>2. CASE Poll
  <2>1. PICK l, in : LET r == Synthesize(in)
                     IN  /\ last' = [fp |-> r.fp, decision |-> Decision(r), lost |-> l]
                         /\ belief' = IF belief # Unpolled /\ belief.fp = r.fp
                                      THEN belief ELSE last'
    BY <1>2 DEF Poll
  <2>. DEFINE r == Synthesize(in)
  <2>2. Decision(r) = DecisionOf(r.fp)
    BY FingerprintDecides
  <2>. HIDE DEF r
  <2>3. last'.fp = r.fp /\ last'.decision = DecisionOf(r.fp)
    BY <2>1, <2>2 DEF r
  <2>4. CASE belief # Unpolled /\ belief.fp = r.fp
    <3>1. belief' = belief
      BY <2>1, <2>4 DEF r
    <3>. QED BY <2>3, <2>4, <3>1 DEF BeliefInv, NothingSleptThrough, Polled
  <2>5. CASE ~(belief # Unpolled /\ belief.fp = r.fp)
    <3>1. belief' = last'
      BY <2>1, <2>5 DEF r
    <3>. QED BY <2>3, <3>1 DEF BeliefInv, NothingSleptThrough, Polled
  <2>. QED BY <2>4, <2>5
<1>3. CASE UNCHANGED vars
  BY <1>1, <1>3 DEF vars
<1>. QED BY <1>1, <1>2, <1>3, LifeKeepsPolls DEF Next

\* A loop that acts only when the fingerprint changes has always acted on
\* what the latest report calls for: its exit code, its blockers but for the
\* commit count of a behind line, the checks it waits for, the review
\* decision (fingerprint, exitForReport).
THEOREM LoopMissesNothing == Spec => []NothingSleptThrough
<1>1. BeliefInv => NothingSleptThrough
  BY DEF BeliefInv
<1>. QED BY BeliefInit, BeliefStep, <1>1, PTL DEF Spec

-----------------------------------------------------------------------------
(* Types, whatever the size of the lists and whatever is lost.             *)

LEMMA ReportIsCheck ==
  ASSUME NEW c \in Context, NEW o \in Outcomes
  PROVE  Reports(c, o) \in Context
<1>1. /\ o.status \in CheckStatuses \cup {"COMPLETED", ""}
      /\ o.conclusion \in FailedRuns \cup PassedRuns \cup StatusStates \cup {""}
      /\ o.run \in Nat
  BY WatchAssumption
<1>. QED BY <1>1 DEF Reports, Context, ContextOf

\* Whatever happens to it, a pull request stays one, the same one; a report
\* changes its checks alone, and nothing else changes these.
LEMMA LifeKeepsWorld ==
  ASSUME world \in World,
         \/ CheckReports \/ RollupAppears \/ ReviewChanges \/ DraftFlips
         \/ ConflictFlips \/ ThreadsMove \/ BaseAdvances \/ UpdateBranch
         \/ Recomputes \/ QueueTakes \/ QueueMoves \/ QueueEjects \/ MergesOrCloses
  PROVE  /\ world' \in World /\ world'.pr = world.pr
         /\ world'.threads = world.threads \/ Len(world'.threads) = 1
         /\ "mergeState" \in world'.computing => "mergeState" \in world.computing
         /\ CheckReports \/ world'.checks = world.checks
<1>1. world \in World
  OBVIOUS
<1>2. CASE CheckReports
  <2>1. PICK p \in DOMAIN world.checks : \E c \in world.checks[p], o \in Outcomes :
          world' = [world EXCEPT !.checks[p] = (@ \ {c}) \cup {Reports(c, o)}]
    BY <1>2 DEF CheckReports, Becomes
  <2>2. PICK c \in world.checks[p], o \in Outcomes :
          world' = [world EXCEPT !.checks[p] = (@ \ {c}) \cup {Reports(c, o)}]
    BY <2>1
  <2>. DEFINE T == (world.checks[p] \ {c}) \cup {Reports(c, o)}
              checks == [world.checks EXCEPT ![p] = T]
  <2>3. world.checks \in Seq(SUBSET Context)
    BY <1>1 DEF World
  <2>4. T \in SUBSET Context
    <3>1. world.checks[p] \in SUBSET Context
      BY <2>3
    <3>. QED BY <3>1, ReportIsCheck
  <2>5. world' = [world EXCEPT !.checks = checks]
    BY <1>1, <2>2 DEF World
  <2>. HIDE DEF T
  <2>6. checks \in Seq(SUBSET Context)
    BY <2>3, <2>4
  <2>. HIDE DEF checks
  <2>7. /\ world' \in World /\ world'.pr = world.pr
        /\ world'.threads = world.threads /\ world'.computing = world.computing
    BY <1>1, <2>5, <2>6 DEF World
  <2>. QED BY <1>2, <2>7
<1>3. ASSUME world' \in World, world'.checks = world.checks, world'.pr = world.pr,
             world'.threads = world.threads \/ Len(world'.threads) = 1,
             "mergeState" \in world'.computing => "mergeState" \in world.computing
      PROVE  /\ world' \in World /\ world'.pr = world.pr
             /\ world'.threads = world.threads \/ Len(world'.threads) = 1
             /\ "mergeState" \in world'.computing => "mergeState" \in world.computing
             /\ CheckReports \/ world'.checks = world.checks
  BY <1>3
<1>5. CASE RollupAppears \/ DraftFlips \/ ConflictFlips
  <2>1. \/ world' = [world EXCEPT !.rollup = ~@]
        \/ world' = [world EXCEPT !.draft = ~@]
        \/ world' = [world EXCEPT !.conflict = ~@]
    BY <1>5 DEF RollupAppears, DraftFlips, ConflictFlips, Changes, Becomes
  <2>2. /\ world' \in World /\ world'.checks = world.checks /\ world'.pr = world.pr
        /\ world'.threads = world.threads /\ world'.computing = world.computing
    BY <1>1, <2>1 DEF World
  <2>. QED BY <1>3, <2>2
<1>6. CASE ReviewChanges
  <2>1. PICK d \in Decisions : world' = [world EXCEPT !.review = d]
    BY <1>6 DEF ReviewChanges, Changes, Becomes
  <2>2. /\ world' \in World /\ world'.checks = world.checks /\ world'.pr = world.pr
        /\ world'.threads = world.threads /\ world'.computing = world.computing
    BY <1>1, <2>1 DEF World
  <2>. QED BY <1>3, <2>2
<1>7. CASE ThreadsMove
  <2>1. PICK n \in 0..MaxThreads : world' = [world EXCEPT !.threads = <<n>>]
    BY <1>7 DEF ThreadsMove, Changes, Becomes
  <2>2. n \in Nat /\ <<n>> \in Seq(Nat) /\ Len(<<n>>) = 1
    <3>1. MaxThreads \in Nat
      BY WatchAssumption
    <3>. QED BY <3>1
  <2>3. /\ world' \in World /\ world'.checks = world.checks /\ world'.pr = world.pr
        /\ world'.threads = <<n>> /\ world'.computing = world.computing
    BY <1>1, <2>1, <2>2 DEF World
  <2>. QED BY <1>3, <2>2, <2>3
<1>8. CASE BaseAdvances \/ UpdateBranch
  <2>1. \/ world' = [world EXCEPT !.behindBy = @ + 1]
        \/ world' = [world EXCEPT !.behindBy = 0]
    BY <1>8 DEF BaseAdvances, UpdateBranch, Changes, Becomes
  <2>2. world.behindBy + 1 \in Nat
    BY <1>1 DEF World
  <2>3. /\ world' \in World /\ world'.checks = world.checks /\ world'.pr = world.pr
        /\ world'.threads = world.threads /\ world'.computing = world.computing
    BY <1>1, <2>1, <2>2 DEF World
  <2>. QED BY <1>3, <2>3
<1>9. CASE Recomputes
  <2>1. PICK S \in {{}, {"mergeable"}} : world' = [world EXCEPT !.computing = S]
    BY <1>9 DEF Recomputes, Changes, Becomes
  <2>2. /\ world' \in World /\ world'.checks = world.checks /\ world'.pr = world.pr
        /\ world'.threads = world.threads /\ world'.computing = S
    BY <1>1, <2>1 DEF World
  <2>. QED BY <1>3, <2>2
<1>10. CASE QueueTakes \/ QueueMoves \/ QueueEjects
  <2>1. PICK q \in Queue : world' = [world EXCEPT !.queue = q]
    <3>1. CASE QueueTakes
      BY <3>1 DEF QueueTakes, Changes, Becomes, Queue, QueueStates
    <3>2. CASE QueueMoves
      BY <3>2 DEF QueueMoves, Becomes, Queue, QueueStates
    <3>3. CASE QueueEjects
      <4>1. \/ world' = [world EXCEPT !.queue.state = "UNMERGEABLE"]
            \/ world' = [world EXCEPT !.queue = NoQueue]
        BY <3>3 DEF QueueEjects, Changes, Becomes
      <4>2. /\ NoQueue \in Queue
            /\ [world.queue EXCEPT !.state = "UNMERGEABLE"] \in Queue
        BY <1>1 DEF World, Queue, QueueStates, NoQueue
      <4>. QED BY <1>1, <4>1, <4>2 DEF World
    <3>. QED BY <1>10, <3>1, <3>2, <3>3
  <2>2. /\ world' \in World /\ world'.checks = world.checks /\ world'.pr = world.pr
        /\ world'.threads = world.threads /\ world'.computing = world.computing
    BY <1>1, <2>1 DEF World
  <2>. QED BY <1>3, <2>2
<1>11. CASE MergesOrCloses
  <2>1. PICK st \in {"MERGED", "CLOSED"} :
          world' = [world EXCEPT !.state = st, !.queue = NoQueue]
    BY <1>11 DEF MergesOrCloses, Changes, Becomes
  <2>2. NoQueue \in Queue
    BY DEF Queue, NoQueue
  <2>3. /\ world' \in World /\ world'.checks = world.checks /\ world'.pr = world.pr
        /\ world'.threads = world.threads /\ world'.computing = world.computing
    BY <1>1, <2>1, <2>2 DEF World
  <2>. QED BY <1>3, <2>3
<1>. QED BY <1>2, <1>5, <1>6, <1>7, <1>8, <1>9, <1>10, <1>11

\* The inductive invariant of the types: a loop that was polled acted.
TypeInv ==
  /\ TypeOK
  /\ Polled => belief # Unpolled
  /\ belief # Unpolled => belief.decision.exit \in 0..3

\* What a poll remembers of its report is a report, whatever was lost and
\* wherever the contexts stood.
LEMMA PollIsTyped ==
  ASSUME TypeInv, Poll
  PROVE  /\ last'.lost \in LossSets[world.pr]
         /\ last'.decision.exit \in 0..3 /\ last'.fp.degraded \subseteq Tokens
<1>1. PICK l \in LossSets[world.pr] :
        \E w : LET r == Synthesize(Degrade(Normalize(FullAnswer(w, l)), Partial(ErrorFields(l))))
               IN  last' = [fp |-> r.fp, decision |-> Decision(r), lost |-> l]
  BY DEF Poll
<1>2. PICK w :
        LET r == Synthesize(Degrade(Normalize(FullAnswer(w, l)), Partial(ErrorFields(l))))
        IN  last' = [fp |-> r.fp, decision |-> Decision(r), lost |-> l]
  BY <1>1
<1>. DEFINE n == Normalize(FullAnswer(w, l))
            tokens == Partial(ErrorFields(l))
            i == Degrade(n, tokens)
            r == Synthesize(i)
<1>3. tokens \subseteq Tokens
  <2>1. world.pr \in PRs
    BY DEF TypeInv, TypeOK, World
  <2>2. l \in SUBSET Losses
    BY <2>1, WatchAssumption
  <2>. QED BY <2>2, PartialType DEF Tokens
<1>. HIDE DEF tokens
<1>4. i.degraded = tokens
  BY DEF Degrade, Normalize
<1>. HIDE DEF i
<1>5. r.degraded \subseteq Tokens
  <2>1. r.degraded \subseteq i.degraded \cup FinishTokens(i) \cup {"behind"}
    BY ReportTokens
  <2>2. FinishTokens(i) \subseteq Tokens /\ "behind" \in Tokens
    BY DEF FinishTokens, If, Tokens
  <2>. HIDE DEF r
  <2>. QED BY <1>3, <1>4, <2>1, <2>2
<1>6. r.fp.degraded = r.degraded
  BY DEF Synthesize, TerminalReport, OpenReport, Fingerprint
<1>. HIDE DEF r
<1>7. Decision(r).exit \in 0..3
  BY DEF Decision, ExitForReport
<1>8. last' = [fp |-> r.fp, decision |-> Decision(r), lost |-> l]
  BY <1>2 DEF r, i, n, tokens
<1>. QED BY <1>5, <1>6, <1>7, <1>8

LEMMA TypeStep == TypeInv /\ [Next]_vars => TypeInv'
<1>. SUFFICES ASSUME TypeInv, [Next]_vars PROVE TypeInv'
  OBVIOUS
<1>1. world \in World
  BY DEF TypeInv, TypeOK
<1>2. CASE Poll
  <2>1. /\ last'.lost \in LossSets[world.pr]
        /\ last'.decision.exit \in 0..3 /\ last'.fp.degraded \subseteq Tokens
    BY <1>2, PollIsTyped
  <2>2. /\ world' = world /\ since' = "nothing"
        /\ \/ belief' = belief /\ belief # Unpolled
           \/ belief' = last'
    BY <1>2 DEF Poll
  <2>. QED BY <1>1, <2>1, <2>2 DEF TypeInv, TypeOK, Polled
<1>3. CASE \/ CheckReports \/ RollupAppears \/ ReviewChanges \/ DraftFlips
           \/ ConflictFlips \/ ThreadsMove \/ BaseAdvances \/ UpdateBranch
           \/ Recomputes \/ QueueTakes \/ QueueMoves \/ QueueEjects \/ MergesOrCloses
  <2>1. UNCHANGED <<last, belief>>
    BY <1>3, LifeKeepsPolls
  <2>2. world' \in World /\ world'.pr = world.pr
    BY <1>1, <1>3, LifeKeepsWorld
  <2>3. since' \in {"noise", "change"}
    BY <1>3 DEF CheckReports, RollupAppears, ReviewChanges, DraftFlips, ConflictFlips,
       ThreadsMove, BaseAdvances, UpdateBranch, Recomputes, QueueTakes, QueueMoves,
       QueueEjects, MergesOrCloses, Changes, Becomes
  <2>. QED BY <2>1, <2>2, <2>3 DEF TypeInv, TypeOK, Polled
<1>4. CASE UNCHANGED vars
  BY <1>4 DEF vars, TypeInv, TypeOK, Polled
<1>. QED BY <1>2, <1>3, <1>4 DEF Next

\* The pull request stays one, and what is remembered of a poll a report, for
\* every life, loss, order and length of the lists (Watch's state).
THEOREM LoopTypeCorrect == Spec => []TypeOK
<1>1. Init => TypeInv
  BY WatchAssumption DEF Init, TypeInv, TypeOK, Polled
<1>2. TypeInv => TypeOK
  BY DEF TypeInv
<1>. QED BY <1>1, TypeStep, <1>2, PTL DEF Spec

-----------------------------------------------------------------------------
(* The known gaps stay out of this part: lists fit on one page, GitHub     *)
(* decides mergeStateStatus with mergeable, namesakes are required alike.  *)

Tame(w) ==
  /\ w \in World
  /\ Len(w.threads) <= 1 /\ Len(w.checks) <= 1
  /\ "mergeState" \notin w.computing
  /\ NamesakesAgree(Pages(w.checks))
  /\ \A c \in Pages(w.checks), order \in Orders : order[c.at] \in Nat

TameBirths == \A w \in Births : Tame(w)

\* The branch protection rule is lost without a token: FetchSilent is about it.
RulesAreRead == \A number \in PRs : \A l \in LossSets[number] : "baseRef" \notin l

\* Whatever a check reports, its name and what it is required for stay.
LEMMA ReportKeepsNames ==
  ASSUME NEW S \in SUBSET Context, NamesakesAgree(S),
         \A c \in S, order \in Orders : order[c.at] \in Nat,
         NEW c \in S, NEW o \in Outcomes
  PROVE  LET T == (S \ {c}) \cup {Reports(c, o)}
         IN  /\ T \in SUBSET Context /\ NamesakesAgree(T)
             /\ \A d \in T, order \in Orders : order[d.at] \in Nat
<1>. DEFINE d == Reports(c, o)
<1>1. c \in Context
  OBVIOUS
<1>2. d \in Context
  BY <1>1, ReportIsCheck
<1>3. d.kind = c.kind /\ d.name = c.name /\ d.required = c.required /\ d.at = c.at
  BY <1>1 DEF Reports, Context, ContextOf
<1>. HIDE DEF d
<1>4. (S \ {c}) \cup {d} \in SUBSET Context
  BY <1>2
<1>5. NamesakesAgree((S \ {c}) \cup {d})
  BY <1>3 DEF NamesakesAgree, SameKey
<1>6. \A e \in (S \ {c}) \cup {d}, order \in Orders : order[e.at] \in Nat
  BY <1>3
<1>. QED BY <1>4, <1>5, <1>6 DEF d

LEMMA OnePage ==
  ASSUME NEW S, NEW s \in Seq(SUBSET S), Len(s) <= 1
  PROVE  /\ Pages(s) = IF 1 \in DOMAIN s THEN s[1] ELSE {}
         /\ DOMAIN s \subseteq {1}
<1>1. DOMAIN s = 1..Len(s) /\ Len(s) \in Nat
  OBVIOUS
<1>2. DOMAIN s \subseteq {1}
  BY <1>1
<1>. QED BY <1>2 DEF Pages

\* A report replaces one check of the rollup and nothing else.
LEMMA CheckIsReported ==
  ASSUME Tame(world), CheckReports
  PROVE  \E c \in Pages(world.checks), o \in Outcomes :
           /\ Pages(world'.checks) = (Pages(world.checks) \ {c}) \cup {Reports(c, o)}
           /\ world' = [world EXCEPT !.checks = world'.checks]
           /\ since' = IF ~c.required /\ since # "change" THEN "noise" ELSE "change"
           /\ world' \in World /\ Len(world'.checks) <= 1
<1>0. PICK p \in DOMAIN world.checks : \E c \in world.checks[p], o \in Outcomes :
        /\ world' = [world EXCEPT !.checks[p] = (@ \ {c}) \cup {Reports(c, o)}]
        /\ since' = IF ~c.required /\ since # "change" THEN "noise" ELSE "change"
  BY DEF CheckReports, Becomes
<1>1. PICK c \in world.checks[p], o \in Outcomes :
        /\ world' = [world EXCEPT !.checks[p] = (@ \ {c}) \cup {Reports(c, o)}]
        /\ since' = IF ~c.required /\ since # "change" THEN "noise" ELSE "change"
  BY <1>0
<1>. DEFINE S == world.checks[p]
            T == (S \ {c}) \cup {Reports(c, o)}
            checks == [world.checks EXCEPT ![p] = T]
<1>2. world \in World /\ world.checks \in Seq(SUBSET Context) /\ Len(world.checks) <= 1
  BY DEF Tame, World
<1>3. p = 1 /\ Pages(world.checks) = S /\ S \in SUBSET Context
  <2>1. /\ DOMAIN world.checks \subseteq {1}
        /\ Pages(world.checks) = IF 1 \in DOMAIN world.checks THEN world.checks[1] ELSE {}
    BY <1>2, OnePage
  <2>2. p = 1 /\ p \in DOMAIN world.checks
    BY <2>1
  <2>. QED BY <1>2, <2>1, <2>2
<1>4. /\ NamesakesAgree(S) /\ \A d \in S, order \in Orders : order[d.at] \in Nat
  BY <1>3 DEF Tame
<1>5. T \in SUBSET Context
  BY <1>1, <1>3, <1>4, ReportKeepsNames
<1>. HIDE DEF T
<1>6. checks \in Seq(SUBSET Context) /\ Len(checks) <= 1 /\ 1 \in DOMAIN checks /\ checks[1] = T
  BY <1>1, <1>2, <1>3, <1>5
<1>. HIDE DEF checks
<1>7. Pages(checks) = T
  BY <1>6, OnePage
<1>8. world' = [world EXCEPT !.checks = checks]
  BY <1>1, <1>2 DEF checks, T, World
<1>9. world'.checks = checks /\ world' \in World
  BY <1>2, <1>6, <1>8 DEF World
<1>. QED BY <1>1, <1>3, <1>6, <1>7, <1>8, <1>9 DEF T

LEMMA ReportsKeepTame ==
  ASSUME Tame(world), CheckReports
  PROVE  Tame(world')
<1>. DEFINE S == Pages(world.checks)
<1>1. world \in World /\ "mergeState" \notin world.computing /\ Len(world.threads) <= 1
  BY DEF Tame
<1>2. PICK c \in S, o \in Outcomes :
        /\ Pages(world'.checks) = (S \ {c}) \cup {Reports(c, o)}
        /\ world' = [world EXCEPT !.checks = world'.checks]
        /\ world' \in World /\ Len(world'.checks) <= 1
  BY CheckIsReported
<1>3. S \in SUBSET Context
  <2>1. world.checks \in Seq(SUBSET Context)
    BY <1>1 DEF World
  <2>2. \A p \in DOMAIN world.checks : world.checks[p] \in SUBSET Context
    BY <2>1
  <2>. QED BY <2>2 DEF Pages
<1>4. NamesakesAgree(S) /\ \A d \in S, order \in Orders : order[d.at] \in Nat
  BY DEF Tame
<1>. HIDE DEF S
<1>. DEFINE T == (S \ {c}) \cup {Reports(c, o)}
<1>5. NamesakesAgree(T) /\ \A d \in T, order \in Orders : order[d.at] \in Nat
  BY <1>3, <1>4, ReportKeepsNames
<1>6. world'.threads = world.threads /\ world'.computing = world.computing
  BY <1>1, <1>2 DEF World
<1>7. Pages(world'.checks) = T
  BY <1>2
<1>. HIDE DEF T
<1>. QED BY <1>1, <1>2, <1>5, <1>6, <1>7 DEF Tame

LEMMA LifeKeepsTame ==
  ASSUME Tame(world),
         \/ CheckReports \/ RollupAppears \/ ReviewChanges \/ DraftFlips
         \/ ConflictFlips \/ ThreadsMove \/ BaseAdvances \/ UpdateBranch
         \/ Recomputes \/ QueueTakes \/ QueueMoves \/ QueueEjects \/ MergesOrCloses
  PROVE  Tame(world') /\ world'.pr = world.pr
<1>1. world \in World /\ Len(world.threads) <= 1 /\ "mergeState" \notin world.computing
  BY DEF Tame
<1>2. /\ world' \in World /\ world'.pr = world.pr
      /\ world'.threads = world.threads \/ Len(world'.threads) = 1
      /\ "mergeState" \in world'.computing => "mergeState" \in world.computing
      /\ CheckReports \/ world'.checks = world.checks
  BY <1>1, LifeKeepsWorld
<1>3. CASE CheckReports
  BY <1>2, <1>3, ReportsKeepTame
<1>4. CASE world'.checks = world.checks
  <2>1. Len(world'.threads) <= 1
    <3>1. CASE world'.threads = world.threads
      BY <1>1, <3>1
    <3>2. CASE Len(world'.threads) = 1
      BY ONLY <3>2
    <3>. QED BY <1>2, <3>1, <3>2
  <2>2. "mergeState" \notin world'.computing
    BY <1>1, <1>2
  <2>. QED BY <1>2, <1>4, <2>1, <2>2 DEF Tame
<1>. QED BY <1>2, <1>3, <1>4

-----------------------------------------------------------------------------
(* A poll of a pull request in any order is a poll of that pull request.   *)

LEMMA ArrangedIsTame ==
  ASSUME NEW w, Tame(w), NEW order \in Orders
  PROVE  LET u == Arranged(w, order)
         IN  /\ u \in World /\ Len(u.threads) <= 1 /\ Len(u.checks) <= 1
             /\ NamesakesAgree(Pages(u.checks)) /\ "mergeState" \notin u.computing
             /\ u.state = w.state /\ u.pr = w.pr
             /\ Green(Shown(u)) => Green(Shown(w))
<1>. DEFINE u == Arranged(w, order)
            Moved(c) == [c EXCEPT !.at = order[c.at]]
            checks == [p \in DOMAIN w.checks |-> {Moved(c) : c \in w.checks[p]}]
<1>1. /\ w \in World /\ w.checks \in Seq(SUBSET Context) /\ Len(w.checks) <= 1
      /\ Len(w.threads) <= 1 /\ "mergeState" \notin w.computing
  BY DEF Tame, World
<1>2. /\ Pages(w.checks) = IF 1 \in DOMAIN w.checks THEN w.checks[1] ELSE {}
      /\ DOMAIN w.checks \subseteq {1}
  BY <1>1, OnePage
<1>3. Pages(w.checks) \in SUBSET Context
  BY <1>1, <1>2
<1>4. \A c \in Pages(w.checks) :
        /\ Moved(c) \in Context /\ Moved(c).kind = c.kind /\ Moved(c).name = c.name
        /\ Moved(c).required = c.required /\ Moved(c).status = c.status
        /\ Moved(c).conclusion = c.conclusion
  <2>. SUFFICES ASSUME NEW c \in Pages(w.checks)
                PROVE  /\ Moved(c) \in Context
                       /\ Moved(c).kind = c.kind /\ Moved(c).name = c.name
                       /\ Moved(c).required = c.required /\ Moved(c).status = c.status
                       /\ Moved(c).conclusion = c.conclusion
    OBVIOUS
  <2>1. c \in Context /\ order[c.at] \in Nat
    BY <1>3 DEF Tame
  <2>. QED BY <2>1 DEF Context, ContextOf
<1>5. \A c \in Pages(w.checks) : Rank(Moved(c)) = Rank(c)
  BY <1>4 DEF Rank, Failing, Waiting
<1>6. u = [w EXCEPT !.checks = checks]
  BY <1>1 DEF Arranged, World
<1>. HIDE DEF Moved
<1>7. /\ checks \in Seq(SUBSET Context) /\ Len(checks) <= 1 /\ DOMAIN checks = DOMAIN w.checks
      /\ 1 \in DOMAIN checks => checks[1] = {Moved(c) : c \in Pages(w.checks)}
  <2>1. /\ DOMAIN checks = DOMAIN w.checks
        /\ 1 \in DOMAIN checks => checks[1] = {Moved(c) : c \in Pages(w.checks)}
    BY <1>2
  <2>2. PICK n \in Nat : DOMAIN w.checks = 1..n /\ Len(w.checks) = n
    BY <1>1
  <2>3. \A p \in 1..n : checks[p] \in SUBSET Context
    BY <1>2, <1>4, <2>1, <2>2
  <2>. HIDE DEF checks
  <2>4. checks = [p \in 1..n |-> checks[p]]
    BY <2>1, <2>2 DEF checks
  <2>5. checks \in [1..n -> SUBSET Context]
    BY <2>3, <2>4
  <2>6. checks \in Seq(SUBSET Context) /\ Len(checks) = n
    BY <2>1, <2>2, <2>5
  <2>. QED BY <1>1, <2>1, <2>2, <2>6
<1>. HIDE DEF checks
<1>8. Pages(checks) = {Moved(c) : c \in Pages(w.checks)}
  <2>1. Pages(checks) = IF 1 \in DOMAIN checks THEN checks[1] ELSE {}
    BY <1>7, OnePage
  <2>. QED BY <1>2, <1>7, <2>1
<1>9. /\ u \in World /\ u.checks = checks /\ u.threads = w.threads
      /\ u.computing = w.computing /\ u.state = w.state /\ u.pr = w.pr
  BY <1>1, <1>6, <1>7 DEF World
<1>10. NamesakesAgree(Pages(checks))
  BY <1>4, <1>8 DEF Tame, NamesakesAgree, SameKey
<1>11. ASSUME Green(Shown(u)) PROVE Green(Shown(w))
  <2>. DEFINE s == Shown(u)
              t == Shown(w)
  <2>1. /\ s.state = t.state /\ s.conflict = t.conflict /\ s.computing = t.computing
        /\ s.draft = t.draft /\ s.hidden = t.hidden /\ s.review = t.review
        /\ s.conversations = t.conversations /\ s.threads = t.threads
        /\ s.required = t.required /\ s.rollup = t.rollup /\ s.queue = t.queue
        /\ s.queueEnabled = t.queueEnabled /\ s.strict = t.strict /\ s.behindBy = t.behindBy
    BY <1>1, <1>6, <1>7 DEF Shown, World
  <2>2. s.checks = checks /\ t.checks = w.checks
    BY <1>1, <1>6, <1>7 DEF Shown, World
  <2>. HIDE DEF s, t
  <2>3. Unresolved(s) = Unresolved(t) /\ ReviewDone(s) = ReviewDone(t)
    BY <2>1 DEF Unresolved, ReviewDone
  <2>4. Walk(s) = {Moved(c) : c \in Walk(t)} /\ Walk(t) \subseteq Pages(w.checks)
    BY <1>8, <2>1, <2>2 DEF Walk
  <2>5. {c.name : c \in Walk(s)} = {c.name : c \in Walk(t)}
    BY <1>4, <2>4
  <2>6. (\A c \in Walk(s) : c.required => Rank(c) = 0) =>
          \A c \in Walk(t) : c.required => Rank(c) = 0
    BY <1>4, <1>5, <2>4
  <2>7. RequiredDone(s) => RequiredDone(t)
    BY <2>1, <2>5, <2>6 DEF RequiredDone
  <2>8. Forbidden(t) => Forbidden(s)
    BY <2>1, <2>3, <2>7 DEF Forbidden
  <2>9. Green(s)
    BY <1>11 DEF s
  <2>10. Green(t)
    BY <2>1, <2>8, <2>9 DEF Green
  <2>. QED BY <2>10 DEF t
<1>. HIDE DEF u
<1>12. /\ u \in World /\ Len(u.threads) <= 1 /\ Len(u.checks) <= 1
       /\ NamesakesAgree(Pages(u.checks)) /\ "mergeState" \notin u.computing
       /\ u.state = w.state /\ u.pr = w.pr
       /\ Green(Shown(u)) => Green(Shown(w))
  BY <1>1, <1>7, <1>9, <1>10, <1>11
<1>. QED BY <1>12 DEF u

\* An exit 0 that rests on one page of everything is deserved, whatever the
\* answer lost but the rules.
LEMMA PollIsDeserved ==
  ASSUME NEW u \in World, Len(u.threads) <= 1, Len(u.checks) <= 1,
         NamesakesAgree(Pages(u.checks)), "mergeState" \notin u.computing,
         NEW l \in SUBSET Losses, "baseRef" \notin l,
         ExitForReport(Synthesize(Degrade(Normalize(FullAnswer(u, l)),
                                          Partial(ErrorFields(l))))) = 0
  PROVE  Green(Shown(u))
<1>. DEFINE p == FullAnswer(u, l)
            n == Normalize(p)
            tokens == Partial(ErrorFields(l))
            i == Degrade(n, tokens)
<1>1. p \in PRNode /\ p.state = u.state /\ p.isMergeQueueEnabled = u.queueEnabled
  <2>1. p \in PRNode
    BY FullAnswerType
  <2>. QED BY <2>1 DEF FullAnswer
<1>2. /\ n \in Input /\ Facts(n) = FactsOf(p) /\ n.prState = p.state
      /\ n.contexts = AppendContexts({}, p.statusCheckRollup.contexts.nodes)
      /\ n.unresolvedThreads = p.reviewThreads.nodes
  <2>1. n \in Input
    BY <1>1, NormalizeType
  <2>. QED BY <2>1 DEF Normalize, Facts, FactsOf
<1>3. tokens \in SUBSET Tokens
  BY PartialType DEF Tokens
<1>. HIDE DEF n, tokens
<1>4. /\ i \in Input /\ Facts(i) = Facts(n) /\ i.prState = n.prState
      /\ i.contexts = n.contexts /\ tokens \subseteq i.degraded
      /\ tokens = {} => i.unresolvedThreads = n.unresolvedThreads
  <2>1. i \in Input
    BY <1>2, <1>3, DegradeType
  <2>2. Facts(i) = Facts(n) /\ i.prState = n.prState /\ i.contexts = n.contexts
    BY <1>2 DEF Degrade, Input, Facts
  <2>3. /\ i.degraded = n.degraded \cup tokens
        /\ i.unresolvedThreads = IF "threads" \in tokens THEN 0 ELSE n.unresolvedThreads
    BY <1>2 DEF Degrade, Input
  <2>. HIDE DEF i
  <2>. QED BY <2>1, <2>2, <2>3
<1>. HIDE DEF i
<1>5. ExitForReport(Synthesize(i)) = 0
  BY DEF i, n, tokens
<1>6. CASE u.state = "CLOSED"
  <2>1. Synthesize(i).state = "CLOSED"
    BY <1>1, <1>2, <1>4, <1>6 DEF Synthesize, TerminalReport
  <2>2. ExitForReport(Synthesize(i)) = 1
    BY <2>1 DEF ExitForReport
  <2>. QED BY <1>5, <2>2
<1>7. CASE u.state = "MERGED"
  <2>1. Shown(u).state = u.state
    BY DEF Shown, World
  <2>. QED BY <1>7, <2>1 DEF Green
<1>8. CASE u.state = "OPEN"
  <2>1. i.prState = "OPEN"
    BY <1>1, <1>2, <1>4, <1>8
  <2>2. NothingInTheWay(i)
    BY <1>4, <1>5, <2>1, ExitZeroIsEarned
  <2>3. tokens = {}
    BY <1>4, <2>2 DEF NothingInTheWay
  <2>4. Weightless(l)
    BY <2>3 DEF Weightless, tokens
  <2>5. /\ Describes(p, u) /\ p.mergeStateStatus = MergeStateStatus(u)
        /\ p.reviewThreads = ThreadsAnswer(u, 1, {})
        /\ p.statusCheckRollup.contexts = ContextsAnswer(u, 1, {})
    BY <2>4, FullAnswerDescribes
  <2>6. Facts(i) = FactsOf(p)
    BY <1>2, <1>4
  <2>7. /\ i.mergeable = Mergeable(u) /\ i.mergeState = MergeStateStatus(u)
    BY <2>5, <2>6, EqualFacts DEF Describes
  <2>8. i.mergeState # "UNKNOWN"
    BY <2>2, <2>7 DEF NothingInTheWay, MergeStateStatus
  <2>9. CASE ~u.queueEnabled
    <3>1. Green(u)
      BY <1>4, <2>1, <2>2, <2>4, <2>6, <2>8, <2>9, GreenOfGitHub
    <3>. QED BY <2>9, <3>1 DEF Shown
  <2>10. CASE u.queueEnabled
    <3>1. u.checks \in Seq(SUBSET Context) /\ u.threads \in Seq(Nat)
      BY DEF World
    <3>2. Pages(u.checks) = IF 1 \in DOMAIN u.checks THEN u.checks[1] ELSE {}
      BY <3>1, OnePage
    <3>3. i.contexts = Walk(u)
      <4>1. i.contexts = AppendContexts({}, ContextsAnswer(u, 1, {}).nodes)
        BY <1>2, <1>4, <2>5
      <4>2. CASE u.rollup
        <5>1. AppendContexts({}, ContextsAnswer(u, 1, {}).nodes)
                = {} \cup (IF 1 \in DOMAIN u.checks THEN u.checks[1] ELSE {})
          BY <4>2, PageIsAppended
        <5>. QED BY <3>2, <4>1, <4>2, <5>1 DEF Walk
      <4>3. CASE ~u.rollup
        BY <4>1, <4>3 DEF ContextsAnswer, NoContexts, AppendContexts, Walk
      <4>. QED BY <4>2, <4>3
    <3>4. NamesakesAgree(Walk(u))
      BY DEF NamesakesAgree, Walk
    <3>5. i.unresolvedThreads = 0 => ~Unresolved(u)
      <4>1. i.unresolvedThreads = ThreadsAnswer(u, 1, {}).nodes
        BY <1>2, <1>4, <2>3, <2>5
      <4>2. ThreadsAnswer(u, 1, {}).nodes
              = (IF 1 \in DOMAIN u.threads THEN u.threads[1] ELSE 0) + 0
        BY DEF ThreadsAnswer
      <4>3. \A k \in DOMAIN u.threads : k = 1 /\ u.threads[k] \in Nat
        BY <3>1
      <4>. QED BY <4>1, <4>2, <4>3 DEF Unresolved
    <3>. QED BY <1>4, <2>1, <2>2, <2>5, <2>6, <2>8, <2>10, <3>3, <3>4, <3>5, GreenOfQueue
  <2>. QED BY <2>9, <2>10
<1>9. u.state \in {"OPEN", "CLOSED", "MERGED"}
  BY DEF World
<1>. QED BY <1>6, <1>7, <1>8, <1>9

-----------------------------------------------------------------------------
(* The inductive invariant: the pull request stays tame, and what the last *)
(* poll said of it is deserved until something changes.                    *)

PollInv == Tame(world) /\ TypeInv /\ LossNeverGreens

LEMMA PollInit == TameBirths /\ Init => PollInv
BY WatchAssumption DEF TameBirths, Init, PollInv, TypeInv, TypeOK, Polled, LossNeverGreens, Fresh

\* What a poll remembers of its report is deserved.
LEMMA PollRemembers ==
  ASSUME Tame(world), RulesAreRead, Poll
  PROVE  last'.decision.exit = 0 => Green(Shown(world))
<1>1. PICK l \in LossSets[world.pr], order \in Orders :
        LET r == Synthesize(Degrade(Normalize(FullAnswer(Arranged(world, order), l)),
                                    Partial(ErrorFields(l))))
        IN  last' = [fp |-> r.fp, decision |-> Decision(r), lost |-> l]
  BY DEF Poll
<1>. DEFINE u == Arranged(world, order)
            r == Synthesize(Degrade(Normalize(FullAnswer(u, l)), Partial(ErrorFields(l))))
<1>2. world.pr \in PRs
  BY DEF Tame, World
<1>3. l \in SUBSET Losses /\ "baseRef" \notin l
  BY <1>2, WatchAssumption DEF RulesAreRead
<1>4. /\ u \in World /\ Len(u.threads) <= 1 /\ Len(u.checks) <= 1
      /\ NamesakesAgree(Pages(u.checks)) /\ "mergeState" \notin u.computing
      /\ Green(Shown(u)) => Green(Shown(world))
  BY ArrangedIsTame
<1>. HIDE DEF u
<1>5. ExitForReport(r) = 0 => Green(Shown(u))
  BY <1>3, <1>4, PollIsDeserved
<1>. HIDE DEF r
<1>6. last' = [fp |-> r.fp, decision |-> Decision(r), lost |-> l]
  BY <1>1 DEF r, u
<1>7. Decision(r).exit = ExitForReport(r)
  BY DEF Decision
<1>. QED BY <1>4, <1>5, <1>6, <1>7

LEMMA PollStep == RulesAreRead /\ PollInv /\ [Next]_vars => PollInv'
<1>. SUFFICES ASSUME RulesAreRead, PollInv, [Next]_vars PROVE PollInv'
  OBVIOUS
<1>1. Tame(world) /\ TypeInv'
  BY TypeStep DEF PollInv
<1>2. CASE Poll
  <2>1. last'.decision.exit = 0 => Green(Shown(world))
    BY <1>1, <1>2, PollRemembers
  <2>2. world' = world
    BY <1>2 DEF Poll
  <2>. QED BY <1>1, <2>1, <2>2 DEF PollInv, LossNeverGreens
<1>3. CASE \/ CheckReports \/ RollupAppears \/ ReviewChanges \/ DraftFlips
           \/ ConflictFlips \/ ThreadsMove \/ BaseAdvances \/ UpdateBranch
           \/ Recomputes \/ QueueTakes \/ QueueMoves \/ QueueEjects \/ MergesOrCloses
  <2>1. Tame(world')
    BY <1>1, <1>3, LifeKeepsTame
  <2>2. since' # "nothing"
    BY <1>3 DEF CheckReports, RollupAppears, ReviewChanges, DraftFlips, ConflictFlips,
       ThreadsMove, BaseAdvances, UpdateBranch, Recomputes, QueueTakes, QueueMoves,
       QueueEjects, MergesOrCloses, Changes, Becomes
  <2>. QED BY <1>1, <2>1, <2>2 DEF PollInv, LossNeverGreens, Fresh
<1>4. CASE UNCHANGED vars
  BY <1>1, <1>4 DEF vars, PollInv, LossNeverGreens, Fresh
<1>. QED BY <1>2, <1>3, <1>4 DEF Next

\* No partial answer makes an exit 0 of a pull request that is not green,
\* whatever its life, whatever is lost and in whatever order checks come, as
\* long as threads and checks fit on one page, GitHub decides mergeStateStatus
\* together with mergeable, checks of one name are required alike, and baseRef
\* is not lost (normalize, PR's known-flags, exitForReport).
THEOREM LossNeverMakesGreen ==
  ASSUME TameBirths, RulesAreRead
  PROVE  Spec => []LossNeverGreens
<1>1. Init => PollInv
  BY PollInit
<1>2. PollInv /\ [Next]_vars => PollInv'
  BY PollStep
<1>3. PollInv => LossNeverGreens
  BY DEF PollInv
<1>. QED BY <1>1, <1>2, <1>3, PTL DEF Spec

-----------------------------------------------------------------------------
(* A complete answer tells all there is to tell of a tame pull request but *)
(* the order of its contexts.                                              *)

Alike(c, d) ==
  /\ c.kind = d.kind /\ c.name = d.name /\ c.required = d.required
  /\ c.status = d.status /\ c.conclusion = d.conclusion

SameSuites(S, T) ==
  /\ \A c \in S : \E d \in T : Alike(c, d)
  /\ \A d \in T : \E c \in S : Alike(c, d)

LEMMA AlikeIsAsBad ==
  ASSUME NEW c, NEW d, Alike(c, d)
  PROVE  Rank(c) = Rank(d) /\ (Failing(c) <=> Failing(d)) /\ (Waiting(c) <=> Waiting(d))
BY DEF Alike, Rank, Failing, Waiting

\* What GitHub makes of a pull request does not depend on that order.
LEMMA OrderIsNotMerit ==
  ASSUME NEW u, NEW w, SameSuites(Walk(u), Walk(w)),
         u.state = w.state, u.draft = w.draft, u.conflict = w.conflict,
         u.computing = w.computing, u.review = w.review, u.hidden = w.hidden,
         u.queueEnabled = w.queueEnabled, u.conversations = w.conversations,
         u.required = w.required, u.threads = w.threads, u.strict = w.strict,
         u.behindBy = w.behindBy, u.hooks = w.hooks, u.queue = w.queue
  PROVE  Mergeable(u) = Mergeable(w) /\ MergeStateStatus(u) = MergeStateStatus(w)
<1>1. Mergeable(u) = Mergeable(w)
  BY DEF Mergeable
<1>2. {c.name : c \in Walk(u)} = {c.name : c \in Walk(w)}
  BY DEF SameSuites, Alike
<1>3. (\A c \in Walk(u) : c.required => Rank(c) = 0)
        <=> (\A c \in Walk(w) : c.required => Rank(c) = 0)
  <2>1. \A c, d : Alike(c, d) => c.required = d.required /\ Rank(c) = Rank(d)
    BY AlikeIsAsBad DEF Alike
  <2>. QED BY <2>1 DEF SameSuites
<1>4. (\E c \in Walk(u) : Rank(c) > 0) <=> (\E c \in Walk(w) : Rank(c) > 0)
  <2>1. \A c, d : Alike(c, d) => Rank(c) = Rank(d)
    BY AlikeIsAsBad
  <2>. QED BY <2>1 DEF SameSuites
<1>5. RequiredDone(u) <=> RequiredDone(w)
  BY <1>2, <1>3 DEF RequiredDone
<1>6. Forbidden(u) <=> Forbidden(w)
  BY <1>5 DEF Forbidden, ReviewDone, Unresolved
<1>. QED BY <1>1, <1>4, <1>6 DEF MergeStateStatus

Seen(i, w) ==
  /\ i \in Input /\ w \in World
  /\ i.prState = w.state /\ i.isDraft = w.draft /\ i.reviewDecision = w.review
  /\ i.mergeable = Mergeable(w) /\ i.mergeState = MergeStateStatus(w)
  /\ i.queueEnabled = w.queueEnabled /\ i.queue = w.queue
  /\ i.missingRequired = If(w.bprReadable, w.required)
  /\ i.convResolution = (w.bprReadable /\ w.conversations)
  /\ i.unresolvedThreads = 0 <=> ~Unresolved(w)
  /\ SameSuites(i.contexts, Walk(w)) /\ NamesakesAgree(i.contexts)
  /\ i.requiredKnown = TRUE /\ i.threadsKnown = TRUE /\ i.degraded = {}

LEMMA ArrangedIsAlike ==
  ASSUME NEW w, Tame(w), NEW order \in Orders
  PROVE  LET u == Arranged(w, order)
         IN  /\ SameSuites(Walk(u), Walk(w))
             /\ u = [w EXCEPT !.checks = u.checks]
<1>. DEFINE u == Arranged(w, order)
            Moved(c) == [c EXCEPT !.at = order[c.at]]
            checks == [p \in DOMAIN w.checks |-> {Moved(c) : c \in w.checks[p]}]
<1>1. w \in World /\ w.checks \in Seq(SUBSET Context) /\ Len(w.checks) <= 1
  BY DEF Tame, World
<1>2. u = [w EXCEPT !.checks = checks]
  BY <1>1 DEF Arranged, World
<1>3. u.checks = checks /\ u.rollup = w.rollup
  BY <1>1, <1>2 DEF World
<1>4. \A p \in DOMAIN w.checks : w.checks[p] \in SUBSET Context
  BY <1>1
<1>5. \A c \in Context : Alike(Moved(c), c)
  BY DEF Alike, Context, ContextOf
<1>. HIDE DEF Moved, u
<1>6. SameSuites(Pages(checks), Pages(w.checks))
  <2>1. ASSUME NEW c \in Pages(checks) PROVE \E d \in Pages(w.checks) : Alike(c, d)
    <3>1. PICK p \in DOMAIN checks : c \in checks[p]
      BY <2>1 DEF Pages
    <3>2. PICK d \in w.checks[p] : c = Moved(d)
      BY <3>1
    <3>3. p \in DOMAIN w.checks
      BY <3>1
    <3>. QED BY <1>4, <1>5, <3>2, <3>3 DEF Pages
  <2>2. ASSUME NEW d \in Pages(w.checks) PROVE \E c \in Pages(checks) : Alike(c, d)
    <3>1. PICK p \in DOMAIN w.checks : d \in w.checks[p]
      BY <2>2 DEF Pages
    <3>2. Moved(d) \in checks[p] /\ p \in DOMAIN checks
      BY <3>1
    <3>. HIDE DEF checks
    <3>. QED BY <1>4, <1>5, <3>1, <3>2 DEF Pages
  <2>. QED BY <2>1, <2>2 DEF SameSuites
<1>7. SameSuites(Walk(u), Walk(w))
  <2>. HIDE DEF checks
  <2>. QED BY <1>3, <1>6 DEF Walk, SameSuites
<1>. QED BY <1>2, <1>3, <1>7 DEF u

LEMMA CompleteAnswerIsSeen ==
  ASSUME NEW w, Tame(w), NEW order \in Orders
  PROVE  Seen(Degrade(Normalize(FullAnswer(Arranged(w, order), {})), Partial(ErrorFields({}))), w)
<1>. DEFINE u == Arranged(w, order)
            p == FullAnswer(u, {})
            n == Normalize(p)
            i == Degrade(n, Partial(ErrorFields({})))
<1>1. /\ u \in World /\ Len(u.threads) <= 1 /\ Len(u.checks) <= 1
      /\ NamesakesAgree(Pages(u.checks)) /\ w \in World
  BY ArrangedIsTame DEF Tame
<1>2. SameSuites(Walk(u), Walk(w)) /\ u = [w EXCEPT !.checks = u.checks]
  BY ArrangedIsAlike
<1>. HIDE DEF u
<1>3. /\ u.state = w.state /\ u.draft = w.draft /\ u.conflict = w.conflict
      /\ u.computing = w.computing /\ u.review = w.review /\ u.hidden = w.hidden
      /\ u.queueEnabled = w.queueEnabled /\ u.conversations = w.conversations
      /\ u.required = w.required /\ u.threads = w.threads /\ u.strict = w.strict
      /\ u.behindBy = w.behindBy /\ u.hooks = w.hooks /\ u.queue = w.queue
      /\ u.bprReadable = w.bprReadable /\ u.rollup = w.rollup
  <2>1. w \in World
    BY <1>1
  <2>. QED BY <1>2, <2>1 DEF World
<1>4. Mergeable(u) = Mergeable(w) /\ MergeStateStatus(u) = MergeStateStatus(w)
  BY <1>2, <1>3, OrderIsNotMerit
<1>5. p \in PRNode
  BY <1>1, FullAnswerType
<1>6. /\ Describes(p, u) /\ p.mergeStateStatus = MergeStateStatus(u)
      /\ p.reviewThreads = ThreadsAnswer(u, 1, {})
      /\ p.statusCheckRollup.contexts = ContextsAnswer(u, 1, {})
  <2>1. Weightless({}) /\ {} \in SUBSET Losses
    BY DEF Weightless, Partial, ErrorFields
  <2>. QED BY <1>1, <2>1, FullAnswerDescribes
<1>. HIDE DEF p
<1>7. /\ n \in Input /\ n.prState = p.state /\ n.isDraft = p.isDraft
      /\ n.reviewDecision = p.reviewDecision
      /\ n.mergeable = p.mergeable /\ n.mergeState = p.mergeStateStatus
      /\ n.queueEnabled = p.isMergeQueueEnabled /\ n.queue = p.mergeQueueEntry
      /\ n.missingRequired = p.baseRef.required
      /\ n.convResolution = p.baseRef.conversations
      /\ n.unresolvedThreads = p.reviewThreads.nodes
      /\ n.contexts = AppendContexts({}, p.statusCheckRollup.contexts.nodes)
      /\ n.requiredKnown = TRUE /\ n.threadsKnown = TRUE /\ n.degraded = {}
  <2>1. n \in Input
    BY <1>5, NormalizeType
  <2>. QED BY <2>1 DEF Normalize
<1>. HIDE DEF n
<1>8. Partial(ErrorFields({})) = {}
  BY DEF Partial, ErrorFields
<1>9. /\ i \in Input /\ i.prState = n.prState /\ i.isDraft = n.isDraft
      /\ i.reviewDecision = n.reviewDecision
      /\ i.mergeable = n.mergeable /\ i.mergeState = n.mergeState
      /\ i.queueEnabled = n.queueEnabled /\ i.queue = n.queue
      /\ i.missingRequired = n.missingRequired
      /\ i.convResolution = n.convResolution
      /\ i.unresolvedThreads = n.unresolvedThreads
      /\ i.contexts = n.contexts
      /\ i.requiredKnown = TRUE /\ i.threadsKnown = TRUE /\ i.degraded = {}
  <2>1. i \in Input
    BY <1>7, <1>8, DegradeType
  <2>2. i = [n EXCEPT !.degraded = @ \cup {}, !.requiredKnown = @ /\ "required" \notin {},
                      !.threadsKnown = @ /\ "threads" \notin {},
                      !.unresolvedThreads = IF "threads" \in {} THEN 0 ELSE @]
    BY <1>8 DEF Degrade
  <2>3. n \in Input
    BY <1>7
  <2>. HIDE DEF i
  <2>4. /\ i.prState = n.prState /\ i.isDraft = n.isDraft
        /\ i.reviewDecision = n.reviewDecision
        /\ i.mergeable = n.mergeable /\ i.mergeState = n.mergeState
        /\ i.queueEnabled = n.queueEnabled /\ i.queue = n.queue
        /\ i.missingRequired = n.missingRequired
        /\ i.convResolution = n.convResolution
        /\ i.unresolvedThreads = n.unresolvedThreads
        /\ i.contexts = n.contexts /\ i.degraded = n.degraded
        /\ i.requiredKnown = n.requiredKnown /\ i.threadsKnown = n.threadsKnown
    BY <2>2, <2>3 DEF Input
  <2>. QED BY <1>7, <2>1, <2>4
<1>. HIDE DEF i
<1>10. i.contexts = Walk(u)
  <2>1. Pages(u.checks) = IF 1 \in DOMAIN u.checks THEN u.checks[1] ELSE {}
    <3>1. u.checks \in Seq(SUBSET Context)
      BY <1>1 DEF World
    <3>. QED BY <1>1, <3>1, OnePage
  <2>2. i.contexts = AppendContexts({}, ContextsAnswer(u, 1, {}).nodes)
    BY <1>6, <1>7, <1>9
  <2>3. CASE u.rollup
    <3>1. AppendContexts({}, ContextsAnswer(u, 1, {}).nodes)
            = {} \cup (IF 1 \in DOMAIN u.checks THEN u.checks[1] ELSE {})
      BY <1>1, <2>3, PageIsAppended
    <3>. QED BY <2>1, <2>2, <2>3, <3>1 DEF Walk
  <2>4. CASE ~u.rollup
    BY <2>2, <2>4 DEF ContextsAnswer, NoContexts, AppendContexts, Walk
  <2>. QED BY <2>3, <2>4
<1>11. i.unresolvedThreads = 0 <=> ~Unresolved(w)
  <2>1. i.unresolvedThreads = ThreadsAnswer(u, 1, {}).nodes
    BY <1>6, <1>7, <1>9
  <2>2. ThreadsAnswer(u, 1, {}).nodes
          = (IF 1 \in DOMAIN u.threads THEN u.threads[1] ELSE 0) + 0
    BY DEF ThreadsAnswer
  <2>3. \A k \in DOMAIN u.threads : k = 1 /\ u.threads[k] \in Nat
    <3>1. u.threads \in Seq(Nat)
      BY <1>1 DEF World
    <3>. QED BY <1>1, <3>1
  <2>4. i.unresolvedThreads = 0 <=> ~Unresolved(u)
    BY <2>1, <2>2, <2>3 DEF Unresolved
  <2>. QED BY <1>3, <2>4 DEF Unresolved
<1>12. NamesakesAgree(i.contexts)
  BY <1>1, <1>10 DEF NamesakesAgree, Walk
<1>13. Seen(i, w)
  BY <1>1, <1>2, <1>3, <1>4, <1>6, <1>7, <1>9, <1>10, <1>11, <1>12 DEF Seen, Describes
<1>. QED BY <1>13 DEF i, n, p, u

\* What is green is called green: nothing the verdict looks at speaks against it.
LEMMA GreenIsCalledGreen ==
  ASSUME NEW i, NEW w, Seen(i, w), w.state = "OPEN", Green(w)
  PROVE  NothingInTheWay(i)
<1>1. /\ ~w.conflict /\ "mergeable" \notin w.computing /\ ~Forbidden(w)
      /\ w.queue.state = "NONE" /\ (w.queueEnabled \/ ~w.strict \/ w.behindBy = 0)
  BY DEF Green, NoQueue
<1>2. /\ ~w.draft /\ ReviewDone(w) /\ RequiredDone(w)
      /\ ~(w.conversations /\ Unresolved(w))
  BY <1>1 DEF Forbidden
<1>3. Mergeable(w) = "MERGEABLE"
  BY <1>1 DEF Mergeable
<1>4. /\ MergeStateStatus(w) \notin {"DIRTY", "BEHIND", ""}
      /\ MergeStateStatus(w) = "BLOCKED" => w.queueEnabled
  <2>1. w.strict \in BOOLEAN /\ w.behindBy \in Nat /\ w.queueEnabled \in BOOLEAN
    BY DEF Seen, World
  <2>2. w.queueEnabled \/ ~(w.strict /\ w.behindBy > 0)
    BY <1>1, <2>1
  <2>. QED BY <1>1, <1>3, <2>2 DEF MergeStateStatus
<1>5. \A c \in Required(i) : Rank(c) = 0
  <2>. SUFFICES ASSUME NEW c \in Required(i) PROVE Rank(c) = 0
    OBVIOUS
  <2>1. c \in i.contexts /\ c.required
    BY DEF Required, Best, CountsAsRequired, OverBlocks, Seen
  <2>2. PICK d \in Walk(w) : Alike(c, d)
    BY <2>1 DEF Seen, SameSuites
  <2>3. d.required
    BY <2>1, <2>2 DEF Alike
  <2>4. Rank(d) = 0
    BY <1>2, <2>3 DEF RequiredDone
  <2>. QED BY <2>2, <2>4, AlikeIsAsBad
<1>6. i.missingRequired \subseteq {c.name : c \in i.contexts}
  <2>1. w.required \subseteq {c.name : c \in Walk(w)}
    BY <1>2 DEF RequiredDone
  <2>2. {c.name : c \in Walk(w)} \subseteq {c.name : c \in i.contexts}
    BY DEF Seen, SameSuites, Alike
  <2>. QED BY <2>1, <2>2 DEF Seen, If
<1>7. i.convResolution => i.unresolvedThreads = 0
  BY <1>2 DEF Seen
<1>8. i.queue.state = "NONE"
  BY <1>1 DEF Seen
<1>. QED BY <1>2, <1>3, <1>4, <1>5, <1>6, <1>7, <1>8 DEF NothingInTheWay, Seen, ReviewDone, Queued

\* The verdict on an open pull request that nothing but waiting keeps.
LEMMA WaitsForSomething ==
  ASSUME NEW i, NEW w, Seen(i, w), ExitForReport(Synthesize(i)) = 2
  PROVE  SomethingWaits(w)
<1>. DEFINE D == DecomposedBlockers(i)
            P == DecomposedPending(i)
            B == D \cup ResidualLines(i, D, P)
            r == Synthesize(i)
<1>1. CASE i.prState \in {"MERGED", "CLOSED"}
  <2>1. r.state \in {"MERGED", "CLOSED"}
    BY <1>1 DEF Synthesize, TerminalReport
  <2>2. r.state \notin {"PENDING", "QUEUED", "UNKNOWN"}
    BY <2>1
  <2>3. ExitForReport(r) = 2
    OBVIOUS
  <2>. HIDE DEF r
  <2>. QED BY <2>2, <2>3 DEF ExitForReport
<1>2. CASE i.prState \notin {"MERGED", "CLOSED"}
  <2>1. r.state = StateOf(i, B, P)
    BY <1>2 DEF Synthesize, OpenReport
  <2>2. ExitForReport(r) = 2
    OBVIOUS
  <2>3. r.state \in {"PENDING", "QUEUED", "UNKNOWN"}
    <3>. HIDE DEF r
    <3>. QED BY <2>2 DEF ExitForReport
  <2>4. Queued(i) \/ i.mergeable = "UNKNOWN" \/ P # {}
    <3>. HIDE DEF r, B, P
    <3>. QED BY <2>1, <2>3 DEF StateOf
  <2>5. i \in Input
    BY DEF Seen
  <2>6. \/ Queued(i) \/ i.mergeable = "UNKNOWN"
        \/ \E c \in Required(i) : Waiting(c)
    BY <2>4, <2>5, NoPending
  <2>7. CASE Queued(i)
    BY <2>7 DEF Queued, Seen, SomethingWaits, NoQueue
  <2>8. CASE i.mergeable = "UNKNOWN"
    <3>1. w.state # "MERGED" /\ Mergeable(w) = "UNKNOWN"
      BY <1>2, <2>8 DEF Seen
    <3>2. "mergeable" \in w.computing
      BY <3>1 DEF Mergeable
    <3>. QED BY <3>2 DEF SomethingWaits
  <2>9. CASE \E c \in Required(i) : Waiting(c)
    <3>1. PICK c \in Required(i) : Waiting(c)
      BY <2>9
    <3>2. c \in i.contexts /\ c.required
      BY DEF Required, Best, CountsAsRequired, OverBlocks, Seen
    <3>3. PICK d \in Walk(w) : Alike(c, d)
      BY <3>2 DEF Seen, SameSuites
    <3>4. d.required /\ Waiting(d)
      BY <3>1, <3>2, <3>3, AlikeIsAsBad DEF Alike
    <3>. QED BY <3>4 DEF SomethingWaits
  <2>. QED BY <2>6, <2>7, <2>8, <2>9
<1>. QED BY <1>1, <1>2

\* What waiting does to a check.
After(c) == IF Waiting(c) THEN [c EXCEPT !.status = "COMPLETED", !.conclusion = "SUCCESS"] ELSE c

LEMMA SettledFacts ==
  ASSUME NEW w \in World
  PROVE  LET s == Settled(w)
         IN  /\ s.state = w.state /\ s.draft = w.draft /\ s.conflict = w.conflict
             /\ s.review = w.review /\ s.hidden = w.hidden
             /\ s.queueEnabled = w.queueEnabled /\ s.conversations = w.conversations
             /\ s.required = w.required /\ s.threads = w.threads /\ s.strict = w.strict
             /\ s.behindBy = w.behindBy
             /\ s.queue = IF w.queue.state = "UNMERGEABLE" THEN w.queue ELSE NoQueue
             /\ Walk(s) = {After(c) : c \in Walk(w)}
<1>. DEFINE s == Settled(w)
            checks == [p \in DOMAIN w.checks |-> {After(c) : c \in w.checks[p]}]
<1>1. s = [w EXCEPT !.computing = {},
                    !.queue = IF w.queue.state = "UNMERGEABLE" THEN w.queue ELSE NoQueue,
                    !.checks = checks]
  BY DEF Settled, After, World
<1>. HIDE DEF s, checks
<1>2. /\ s.state = w.state /\ s.draft = w.draft /\ s.conflict = w.conflict
      /\ s.review = w.review /\ s.hidden = w.hidden
      /\ s.queueEnabled = w.queueEnabled /\ s.conversations = w.conversations
      /\ s.required = w.required /\ s.threads = w.threads /\ s.strict = w.strict
      /\ s.behindBy = w.behindBy /\ s.rollup = w.rollup /\ s.checks = checks
      /\ s.queue = IF w.queue.state = "UNMERGEABLE" THEN w.queue ELSE NoQueue
  BY <1>1 DEF World
<1>3. Pages(checks) = {After(c) : c \in Pages(w.checks)}
  <2>1. /\ DOMAIN checks = DOMAIN w.checks
        /\ \A p \in DOMAIN w.checks : checks[p] = {After(c) : c \in w.checks[p]}
    BY DEF checks
  <2>2. ASSUME NEW x \in Pages(checks) PROVE x \in {After(c) : c \in Pages(w.checks)}
    <3>1. PICK p \in DOMAIN w.checks : x \in checks[p]
      BY <2>1, <2>2 DEF Pages
    <3>2. PICK c \in w.checks[p] : x = After(c)
      BY <2>1, <3>1
    <3>3. c \in Pages(w.checks)
      BY <3>1, <3>2 DEF Pages
    <3>. QED BY <3>2, <3>3
  <2>3. ASSUME NEW c \in Pages(w.checks) PROVE After(c) \in Pages(checks)
    <3>1. PICK p \in DOMAIN w.checks : c \in w.checks[p]
      BY <2>3 DEF Pages
    <3>2. After(c) \in checks[p]
      BY <2>1, <3>1
    <3>. QED BY <2>1, <3>1, <3>2 DEF Pages
  <2>. QED BY <2>2, <2>3
<1>4. Walk(s) = {After(c) : c \in Walk(w)}
  BY <1>2, <1>3 DEF Walk
<1>. QED BY <1>2, <1>4 DEF s

\* A pull request that only waiting keeps from green is waited for.
LEMMA OnlyWaitingIsWaitedFor ==
  ASSUME NEW i, NEW w, Seen(i, w), w.state = "OPEN", ~Green(w), Green(Settled(w))
  PROVE  ExitForReport(Synthesize(i)) = 2
<1>. DEFINE s == Settled(w)
            D == DecomposedBlockers(i)
            P == DecomposedPending(i)
            B == D \cup ResidualLines(i, D, P)
            r == Synthesize(i)
<1>1. w \in World /\ i \in Input /\ i.prState = "OPEN"
  BY DEF Seen
<1>2. /\ s.state = w.state /\ s.draft = w.draft /\ s.conflict = w.conflict
      /\ s.review = w.review /\ s.hidden = w.hidden
      /\ s.queueEnabled = w.queueEnabled /\ s.conversations = w.conversations
      /\ s.required = w.required /\ s.threads = w.threads /\ s.strict = w.strict
      /\ s.behindBy = w.behindBy
      /\ s.queue = IF w.queue.state = "UNMERGEABLE" THEN w.queue ELSE NoQueue
      /\ Walk(s) = {After(c) : c \in Walk(w)}
  BY <1>1, SettledFacts
<1>. HIDE DEF s
<1>3. Green(s)
  BY DEF s
<1>4. /\ ~w.conflict /\ ~w.draft /\ ~w.hidden /\ ReviewDone(w)
      /\ ~(w.conversations /\ Unresolved(w)) /\ RequiredDone(s)
      /\ w.queueEnabled \/ ~w.strict \/ w.behindBy = 0
      /\ w.queue.state # "UNMERGEABLE"
  <2>1. ~Forbidden(s) /\ ~s.conflict /\ s.queue.state = "NONE"
        /\ (s.queueEnabled \/ ~s.strict \/ s.behindBy = 0)
    BY <1>2, <1>3 DEF Green, NoQueue
  <2>2. w.queue.state # "UNMERGEABLE"
    BY <1>2, <2>1
  <2>. QED BY <1>2, <2>1, <2>2 DEF Forbidden, ReviewDone, Unresolved
<1>5. \A c \in Walk(w) : After(c).name = c.name /\ After(c).required = c.required
  <2>. SUFFICES ASSUME NEW c \in Walk(w)
                PROVE  After(c).name = c.name /\ After(c).required = c.required
    OBVIOUS
  <2>1. w.checks \in Seq(SUBSET Context)
    BY <1>1 DEF World
  <2>2. PICK p \in DOMAIN w.checks : c \in w.checks[p]
    BY DEF Walk, Pages
  <2>3. c \in Context
    BY <2>1, <2>2
  <2>. QED BY <2>3 DEF After, Context, ContextOf
<1>6. \A c \in Walk(w) : c.required => ~Failing(c)
  <2>. SUFFICES ASSUME NEW c \in Walk(w), c.required, Failing(c) PROVE FALSE
    OBVIOUS
  <2>1. ~Waiting(c)
    BY DEF Failing, Waiting
  <2>2. After(c) = c
    BY <2>1 DEF After
  <2>3. Rank(c) = 0
    BY <1>2, <1>4, <2>2 DEF RequiredDone
  <2>. QED BY <2>3 DEF Rank
<1>7. w.required \subseteq {c.name : c \in Walk(w)}
  BY <1>2, <1>4, <1>5 DEF RequiredDone
<1>8. \A c \in i.contexts : \E d \in Walk(w) : Alike(c, d)
  BY DEF Seen, SameSuites
<1>9. \A c \in i.contexts : c.required => ~Failing(c)
  BY <1>6, <1>8, AlikeIsAsBad DEF Alike
<1>10. \A c \in Required(i) : c \in i.contexts /\ c.required
  BY DEF Required, Best, CountsAsRequired, OverBlocks, Seen
<1>11. ~IsBehind(i)
  <2>1. w.strict \in BOOLEAN /\ w.behindBy \in Nat /\ w.queueEnabled \in BOOLEAN
    BY <1>1 DEF World
  <2>2. w.queueEnabled \/ ~(w.strict /\ w.behindBy > 0)
    BY <1>4, <2>1
  <2>3. MergeStateStatus(w) # "BEHIND"
    BY <2>2 DEF MergeStateStatus
  <2>. QED BY <2>3 DEF IsBehind, Seen
<1>12. i.mergeable # "CONFLICTING" /\ i.mergeState # "DIRTY"
  BY <1>4 DEF Seen, Mergeable, MergeStateStatus
<1>13. ~(i.unresolvedThreads > 0 /\ i.convResolution)
  <2>1. i.unresolvedThreads \in Nat
    BY <1>1 DEF Input
  <2>2. i.convResolution => i.unresolvedThreads = 0
    BY <1>4 DEF Seen
  <2>3. i.unresolvedThreads = 0 => ~(i.unresolvedThreads > 0)
    BY <2>1
  <2>. QED BY <2>2, <2>3
<1>14. i.missingRequired \subseteq {c.name : c \in i.contexts}
  <2>1. {c.name : c \in Walk(w)} \subseteq {c.name : c \in i.contexts}
    BY DEF Seen, SameSuites, Alike
  <2>. QED BY <1>7, <2>1 DEF Seen, If
<1>15. D = {}
  <2>1. ~i.isDraft /\ i.reviewDecision \in {"", "APPROVED"} /\ i.queue.state # "UNMERGEABLE"
    BY <1>4 DEF Seen, ReviewDone
  <2>. QED BY <1>1, <1>9, <1>10, <1>11, <1>12, <1>13, <1>14, <2>1, NoBlockers
<1>16. w.queue.state # "NONE" \/ "mergeable" \in w.computing \/ ~RequiredDone(w)
  BY <1>4 DEF Green, Forbidden, NoQueue
<1>17. Queued(i) \/ i.mergeable = "UNKNOWN" \/ \E c \in Required(i) : Waiting(c)
  <2>1. CASE w.queue.state # "NONE"
    BY <2>1 DEF Queued, Seen
  <2>2. CASE "mergeable" \in w.computing
    BY <2>2 DEF Mergeable, Seen
  <2>3. CASE ~RequiredDone(w)
    <3>1. PICK c \in Walk(w) : c.required /\ Rank(c) # 0
      BY <1>7, <2>3 DEF RequiredDone
    <3>2. PICK d \in i.contexts : Alike(d, c)
      BY DEF Seen, SameSuites
    <3>3. d.required /\ Rank(d) # 0
      BY <3>1, <3>2, AlikeIsAsBad DEF Alike
    <3>4. i.contexts \in SUBSET Context
      BY <1>1 DEF Input
    <3>5. PICK e \in Best(i.contexts) : SameKey(d, e) /\ Rank(e) >= Rank(d)
      BY <3>4, BestCovers
    <3>6. e \in i.contexts
      BY DEF Best
    <3>7. e.required
      BY <3>3, <3>5, <3>6 DEF Seen, NamesakesAgree
    <3>8. Rank(e) # 0
      BY <3>3, <3>5 DEF Rank
    <3>9. Waiting(e)
      BY <1>9, <3>6, <3>7, <3>8 DEF Rank
    <3>10. e \in Required(i)
      BY <3>7 DEF Required, CountsAsRequired, Seen
    <3>. QED BY <3>9, <3>10
  <2>. QED BY <1>16, <2>1, <2>2, <2>3
<1>18. P # {}
  <2>1. i.queue.state # "UNMERGEABLE"
    BY <1>4 DEF Seen
  <2>. QED BY <1>1, <1>17, <2>1, NoPending
<1>19. B = {}
  <2>. HIDE DEF D, P
  <2>. QED BY <1>15, <1>18 DEF ResidualLines, NothingVisible, If
<1>20. /\ r.state = StateOf(i, B, P) /\ r.final = FALSE
       /\ r.degraded = i.degraded \cup FinishTokens(i)
                         \cup If(IsBehind(i) /\ i.behindBy <= 0, {"behind"})
  BY <1>1 DEF Synthesize, OpenReport
<1>21. r.state \in {"PENDING", "QUEUED", "UNKNOWN"}
  <2>1. i.queue.state # "UNMERGEABLE"
    BY <1>4 DEF Seen
  <2>. HIDE DEF B, P, r
  <2>. QED BY <1>18, <1>19, <1>20, <2>1 DEF StateOf
<1>22. r.degraded = {}
  <2>. HIDE DEF r
  <2>. QED BY <1>11, <1>20 DEF Seen, FinishTokens, If
<1>. HIDE DEF r
<1>23. ExitForReport(r) = 2
  BY <1>21, <1>22 DEF ExitForReport
<1>. QED BY <1>23 DEF r

\* The inductive invariant: the pull request stays tame, and until something
\* changes the last poll of it that lost nothing means what it says.
ExitInv == Tame(world) /\ since \in {"nothing", "noise", "change"} /\ ExitMeansWhatItSays

LEMMA CompletePollMeansIt ==
  ASSUME Tame(world), Poll, last'.lost = {}, Shown(world) = world
  PROVE  /\ last'.decision.exit = 0 <=> Green(world)
         /\ ~Green(world) /\ world.state = "OPEN" /\ Green(Settled(world)) =>
              last'.decision.exit = 2
         /\ last'.decision.exit = 2 => SomethingWaits(world)
<1>1. PICK l \in LossSets[world.pr], order \in Orders :
        LET r == Synthesize(Degrade(Normalize(FullAnswer(Arranged(world, order), l)),
                                    Partial(ErrorFields(l))))
        IN  last' = [fp |-> r.fp, decision |-> Decision(r), lost |-> l]
  BY DEF Poll
<1>. DEFINE u == Arranged(world, order)
            i == Degrade(Normalize(FullAnswer(u, {})), Partial(ErrorFields({})))
            r == Synthesize(i)
<1>2. l = {}
  BY <1>1
<1>3. last'.decision.exit = ExitForReport(r)
  BY <1>1, <1>2 DEF Decision
<1>4. Seen(i, world)
  BY CompleteAnswerIsSeen
<1>5. ExitForReport(r) = 0 => Green(world)
  <2>1. /\ u \in World /\ Len(u.threads) <= 1 /\ Len(u.checks) <= 1
        /\ NamesakesAgree(Pages(u.checks)) /\ "mergeState" \notin u.computing
        /\ Green(Shown(u)) => Green(Shown(world))
    BY ArrangedIsTame
  <2>. HIDE DEF u
  <2>2. {} \in SUBSET Losses /\ "baseRef" \notin {}
    OBVIOUS
  <2>. QED BY <2>1, <2>2, PollIsDeserved
<1>. HIDE DEF i
<1>6. world \in World /\ i \in Input /\ i.prState = world.state
  BY <1>4 DEF Seen
<1>7. Green(world) => ExitForReport(r) = 0
  <2>1. CASE world.state = "OPEN" /\ Green(world)
    <3>1. NothingInTheWay(i)
      BY <1>4, <2>1, GreenIsCalledGreen
    <3>. QED BY <1>6, <2>1, <3>1, ExitZeroIsEarned
  <2>2. CASE world.state = "MERGED"
    <3>1. r.state = "MERGED" /\ r.final = TRUE
      BY <1>6, <2>2 DEF Synthesize, TerminalReport
    <3>. HIDE DEF r
    <3>. QED BY <3>1 DEF ExitForReport
  <2>3. Green(world) => world.state \in {"OPEN", "MERGED"}
    BY DEF Green
  <2>. QED BY <2>1, <2>2, <2>3
<1>8. ~Green(world) /\ world.state = "OPEN" /\ Green(Settled(world)) => ExitForReport(r) = 2
  BY <1>4, OnlyWaitingIsWaitedFor
<1>9. ExitForReport(r) = 2 => SomethingWaits(world)
  BY <1>4, WaitsForSomething
<1>. HIDE DEF r
<1>. QED BY <1>3, <1>5, <1>7, <1>8, <1>9

LEMMA ExitStep == ExitInv /\ [Next]_vars => ExitInv'
<1>. SUFFICES ASSUME ExitInv, [Next]_vars PROVE ExitInv'
  OBVIOUS
<1>1. Tame(world)
  BY DEF ExitInv
<1>2. CASE Poll
  <2>1. world' = world /\ since' = "nothing"
    BY <1>2 DEF Poll
  <2>2. last'.lost = {} /\ Shown(world) = world =>
          /\ last'.decision.exit = 0 <=> Green(world)
          /\ ~Green(world) /\ world.state = "OPEN" /\ Green(Settled(world)) =>
               last'.decision.exit = 2
          /\ last'.decision.exit = 2 => SomethingWaits(world)
    BY <1>1, <1>2, CompletePollMeansIt
  <2>. QED BY <1>1, <2>1, <2>2 DEF ExitInv, ExitMeansWhatItSays
<1>3. CASE \/ CheckReports \/ RollupAppears \/ ReviewChanges \/ DraftFlips
           \/ ConflictFlips \/ ThreadsMove \/ BaseAdvances \/ UpdateBranch
           \/ Recomputes \/ QueueTakes \/ QueueMoves \/ QueueEjects \/ MergesOrCloses
  <2>1. Tame(world')
    BY <1>1, <1>3, LifeKeepsTame
  <2>2. since' \in {"noise", "change"}
    BY <1>3 DEF CheckReports, RollupAppears, ReviewChanges, DraftFlips, ConflictFlips,
       ThreadsMove, BaseAdvances, UpdateBranch, Recomputes, QueueTakes, QueueMoves,
       QueueEjects, MergesOrCloses, Changes, Becomes
  <2>. QED BY <2>1, <2>2 DEF ExitInv, ExitMeansWhatItSays, Fresh
<1>4. CASE UNCHANGED vars
  BY <1>4 DEF vars, ExitInv, ExitMeansWhatItSays, Fresh
<1>. QED BY <1>2, <1>3, <1>4 DEF Next

\* A complete answer gets exactly the exit code that tells a loop what to do:
\* 0 for a pull request that is green, 2 for one that only waiting keeps from
\* it, and 2 for none that nothing will change; whatever its life, however
\* many its checks and in whatever order they come, as long as threads and
\* checks fit on one page, GitHub decides mergeStateStatus together with
\* mergeable, and checks of one name are required alike (decompose,
\* Synthesize, exitForReport).
THEOREM ExitSaysWhatToDo ==
  ASSUME TameBirths
  PROVE  Spec => []ExitMeansWhatItSays
<1>1. Init => ExitInv
  BY DEF TameBirths, Init, ExitInv, ExitMeansWhatItSays, Fresh
<1>2. ExitInv /\ [Next]_vars => ExitInv'
  BY ExitStep
<1>3. ExitInv => ExitMeansWhatItSays
  BY DEF ExitInv
<1>. QED BY <1>1, <1>2, <1>3, PTL DEF Spec

-----------------------------------------------------------------------------
(* What the fingerprint does not tell apart.                               *)

\* Two inputs that differ in nothing a fingerprint is to tell: in optional
\* checks, in the place in the queue, in how many commits they are behind.
Murmurs(i, j) ==
  /\ i.pr = j.pr /\ i.prState = j.prState /\ i.isDraft = j.isDraft
  /\ i.mergeable = j.mergeable /\ i.reviewDecision = j.reviewDecision
  /\ i.codeOwnerWait = j.codeOwnerWait /\ i.queueEnabled = j.queueEnabled
  /\ i.missingRequired = j.missingRequired /\ i.convResolution = j.convResolution
  /\ i.unresolvedThreads = j.unresolvedThreads /\ i.threadsKnown = j.threadsKnown
  /\ i.requiredKnown = j.requiredKnown /\ i.degraded = j.degraded
  /\ {c.name : c \in i.contexts} = {c.name : c \in j.contexts}
  /\ i.mergeState = j.mergeState \/ (MergeableState(i) /\ MergeableState(j))
  /\ \/ i.queue.state = j.queue.state
     \/ {i.queue.state, j.queue.state} \subseteq QueueStates \ {"UNMERGEABLE"}
  /\ IsBehind(i) => (i.behindBy > 0 <=> j.behindBy > 0)
  /\ CheckBlockers(i) = CheckBlockers(j) /\ CheckPending(i) = CheckPending(j)

\* The blockers but for those that say how far behind the base it is.
OtherBlockers(in) ==
  DraftLines(in) \cup ReviewLines(in) \cup CheckBlockers(in)
  \cup MissingLines(in) \cup ConflictLines(in)
  \cup ThreadLines(in) \cup EjectedLines(in)

LEMMA LineParts ==
  ASSUME NEW l, NEW prec, NEW src, NEW key, NEW text, l = Line(prec, src, key, text)
  PROVE  l.prec = prec /\ l.text = text
BY DEF Line

\* No other blocker reads as one of those.
LEMMA OthersAreNotBehind ==
  ASSUME NEW in \in Input, NEW l \in OtherBlockers(in)
  PROVE  NormBlocker(l) # <<"behind">>
<1>1. l.prec # Prec.behind /\ l.text[1] # "behind"
  <2>1. CASE l \in DraftLines(in) \cup ConflictLines(in) \cup EjectedLines(in)
    <3>1. \E text \in {<<"draft">>, <<"conflict">>, <<"ejected">>} :
            \/ l = Line(Prec.draft, "", "", text)
            \/ l = Line(Prec.conflict, "", "", text)
            \/ l = Line(Prec.queue, "", "", text)
      BY <2>1 DEF DraftLines, ConflictLines, EjectedLines, If, Plain
    <3>2. PICK text \in {<<"draft">>, <<"conflict">>, <<"ejected">>} :
            l.prec \in {Prec.draft, Prec.conflict, Prec.queue} /\ l.text = text
      BY LineParts, <3>1
    <3>. QED BY <3>2 DEF Prec
  <2>2. CASE l \in ReviewLines(in)
    <3>1. PICK owners : l = Line(Prec.review, "", "", <<in.reviewDecision, owners>>)
      BY <2>2 DEF ReviewLines, If, Plain
    <3>2. in.reviewDecision # "behind"
      BY DEF Input, Decisions
    <3>3. l.prec = Prec.review /\ l.text = <<in.reviewDecision, owners>>
      BY <3>1 DEF Line
    <3>. QED BY <3>2, <3>3 DEF Prec
  <2>3. CASE l \in ThreadLines(in)
    <3>1. l = Line(Prec.threads, "", "", <<"threads", in.unresolvedThreads>>)
      BY <2>3 DEF ThreadLines, If, Plain
    <3>2. l.prec = Prec.threads /\ l.text = <<"threads", in.unresolvedThreads>>
      BY <3>1 DEF Line
    <3>. QED BY <3>2 DEF Prec
  <2>4. CASE l \in MissingLines(in)
    <3>1. PICK n : l = Line(Prec.check, "missing", n, <<"MISSING", n>>)
      BY <2>4 DEF MissingLines, If
    <3>2. l.prec = Prec.check /\ l.text = <<"MISSING", n>>
      BY LineParts, <3>1
    <3>. QED BY <3>2 DEF Prec
  <2>5. CASE l \in CheckBlockers(in)
    <3>1. PICK c \in Required(in) : Failing(c) /\ l = FailedLine(Prec.check, c, Mark(in))
      BY <2>5 DEF CheckBlockers
    <3>2. c \in Context
      BY DEF Required, Best, Input
    <3>3. c.conclusion # "behind"
      BY <3>2 DEF Context, ContextOf, FailedRuns, PassedRuns, StatusStates
    <3>4. Verb(c) # "behind"
      BY <3>3 DEF Verb
    <3>5. l.prec = Prec.check /\ l.text = FailedText(c, Mark(in))
      BY <3>1 DEF FailedLine, Line
    <3>6. FailedText(c, Mark(in))[1] # "behind"
      BY <3>3, <3>4 DEF FailedText
    <3>. QED BY <3>5, <3>6 DEF Prec
  <2>. QED BY <2>1, <2>2, <2>3, <2>4, <2>5 DEF OtherBlockers
<1>. QED BY <1>1 DEF NormBlocker

\* A tally of norms is one of sets: it does not see which line of two that
\* read alike there is.
LEMMA BehindCountsOnce ==
  ASSUME NEW R, NEW x, NEW y, NormBlocker(x) = <<"behind">>, NormBlocker(y) = <<"behind">>,
         \A l \in R : NormBlocker(l) # <<"behind">>
  PROVE  Tally([l \in R \cup {x} |-> NormBlocker(l)]) = Tally([l \in R \cup {y} |-> NormBlocker(l)])
<1>. DEFINE f == [l \in R \cup {x} |-> NormBlocker(l)]
            g == [l \in R \cup {y} |-> NormBlocker(l)]
            V == {NormBlocker(l) : l \in R} \cup {<<"behind">>}
<1>1. {f[l] : l \in DOMAIN f} = V /\ {g[l] : l \in DOMAIN g} = V
  OBVIOUS
<1>2. \A v \in V : Cardinality({l \in DOMAIN f : f[l] = v})
                     = Cardinality({l \in DOMAIN g : g[l] = v})
  <2>. SUFFICES ASSUME NEW v \in V
                PROVE  Cardinality({l \in DOMAIN f : f[l] = v})
                         = Cardinality({l \in DOMAIN g : g[l] = v})
    OBVIOUS
  <2>1. CASE v = <<"behind">>
    <3>1. {l \in DOMAIN f : f[l] = v} = {x} /\ {l \in DOMAIN g : g[l] = v} = {y}
      BY <2>1
    <3>. QED BY <3>1, FS_Singleton
  <2>2. CASE v # <<"behind">>
    <3>1. {l \in DOMAIN f : f[l] = v} = {l \in DOMAIN g : g[l] = v}
      BY <2>2
    <3>. QED BY <3>1
  <2>. QED BY <2>1, <2>2
<1>. HIDE DEF f, g
<1>3. Tally(f) = Tally(g)
  BY <1>1, <1>2 DEF Tally
<1>. QED BY <1>3 DEF f, g

LEMMA SameDecomposition ==
  ASSUME NEW i \in Input, NEW j \in Input, Murmurs(i, j)
  PROVE  /\ OtherBlockers(i) = OtherBlockers(j)
         /\ IsBehind(i) <=> IsBehind(j)
         /\ Queued(i) <=> Queued(j)
         /\ i.queue.state = "UNMERGEABLE" <=> j.queue.state = "UNMERGEABLE"
         /\ i.mergeState = "BLOCKED" <=> j.mergeState = "BLOCKED"
         /\ DecomposedPending(i) = {} <=> DecomposedPending(j) = {}
         /\ ~Queued(i) => DecomposedPending(i) = DecomposedPending(j)
<1>1. /\ Queued(i) <=> Queued(j)
      /\ i.queue.state = "UNMERGEABLE" <=> j.queue.state = "UNMERGEABLE"
  BY DEF Murmurs, Queued, QueueStates
<1>2. \A s \in {"BLOCKED", "", "DIRTY", "BEHIND"} : i.mergeState = s <=> j.mergeState = s
  BY DEF Murmurs, MergeableState
<1>3. IsBehind(i) <=> IsBehind(j)
  BY <1>1, <1>2 DEF IsBehind
<1>4. OtherBlockers(i) = OtherBlockers(j)
  <2>1. DraftLines(i) = DraftLines(j)
    BY DEF Murmurs, DraftLines
  <2>2. ReviewLines(i) = ReviewLines(j)
    BY DEF Murmurs, ReviewLines
  <2>3. MissingLines(i) = MissingLines(j)
    <3>1. i.mergeState \in {"BLOCKED", ""} <=> j.mergeState \in {"BLOCKED", ""}
      BY <1>2
    <3>2. i.missingRequired \ {c.name : c \in i.contexts}
            = j.missingRequired \ {c.name : c \in j.contexts}
      BY DEF Murmurs
    <3>. QED BY <3>1, <3>2 DEF MissingLines, If
  <2>4. ConflictLines(i) = ConflictLines(j)
    <3>1. i.mergeState = "DIRTY" <=> j.mergeState = "DIRTY"
      BY <1>2
    <3>. QED BY <3>1 DEF Murmurs, ConflictLines, If
  <2>5. ThreadLines(i) = ThreadLines(j)
    BY DEF Murmurs, ThreadLines
  <2>6. EjectedLines(i) = EjectedLines(j)
    BY <1>1 DEF EjectedLines, If
  <2>7. CheckBlockers(i) = CheckBlockers(j)
    BY DEF Murmurs
  <2>. QED BY <2>1, <2>2, <2>3, <2>4, <2>5, <2>6, <2>7 DEF OtherBlockers
<1>5. /\ CheckPending(i) = CheckPending(j)
      /\ ComputingLines(i) = ComputingLines(j)
  BY DEF Murmurs, ComputingLines
<1>6. QueueLines(i) = {} <=> QueueLines(j) = {}
  BY <1>1, NoLines
<1>7. ~Queued(i) => QueueLines(i) = {} /\ QueueLines(j) = {}
  BY <1>1, NoLines
<1>8. /\ DecomposedPending(i) = {} <=> DecomposedPending(j) = {}
      /\ ~Queued(i) => DecomposedPending(i) = DecomposedPending(j)
  BY <1>5, <1>6, <1>7 DEF DecomposedPending
<1>9. i.mergeState = "BLOCKED" <=> j.mergeState = "BLOCKED"
  BY <1>2
<1>. QED BY <1>1, <1>3, <1>4, <1>8, <1>9

\* The blockers of an open pull request, the residual one included.
BlockersOf(in) ==
  DecomposedBlockers(in)
  \cup ResidualLines(in, DecomposedBlockers(in), DecomposedPending(in))

LEMMA SameBlockers ==
  ASSUME NEW i \in Input, NEW j \in Input, Murmurs(i, j)
  PROVE  /\ BlockersOf(i) = {} <=> BlockersOf(j) = {}
         /\ Tally([l \in BlockersOf(i) |-> NormBlocker(l)])
              = Tally([l \in BlockersOf(j) |-> NormBlocker(l)])
<1>. DEFINE Rest(in) == ResidualLines(in, DecomposedBlockers(in), DecomposedPending(in))
            R == OtherBlockers(i) \cup Rest(i)
<1>1. /\ OtherBlockers(i) = OtherBlockers(j)
      /\ IsBehind(i) <=> IsBehind(j)
      /\ Queued(i) <=> Queued(j)
      /\ i.mergeState = "BLOCKED" <=> j.mergeState = "BLOCKED"
      /\ DecomposedPending(i) = {} <=> DecomposedPending(j) = {}
  BY SameDecomposition
<1>2. \A in : DecomposedBlockers(in) = OtherBlockers(in) \cup BehindLines(in)
  BY DEF DecomposedBlockers, OtherBlockers
<1>3. BehindLines(i) = {} <=> BehindLines(j) = {}
  BY <1>1, NoLines
<1>4. DecomposedBlockers(i) = {} <=> DecomposedBlockers(j) = {}
  BY <1>1, <1>2, <1>3
<1>5. Rest(i) = Rest(j)
  <2>1. i.queueEnabled = j.queueEnabled /\ i.reviewDecision = j.reviewDecision
        /\ i.unresolvedThreads = j.unresolvedThreads
    BY DEF Murmurs
  <2>. QED BY <1>1, <1>4, <2>1 DEF ResidualLines, NothingVisible, ReadyToEnqueue, If
<1>6. \A l \in R : NormBlocker(l) # <<"behind">>
  <2>1. \A l \in OtherBlockers(i) : NormBlocker(l) # <<"behind">>
    BY OthersAreNotBehind
  <2>2. ASSUME NEW l \in Rest(i) PROVE NormBlocker(l) # <<"behind">>
    <3>1. l = Line(Prec.blocked, "", "", <<"cause not visible", i.unresolvedThreads>>)
      BY <2>2 DEF ResidualLines, If, Plain
    <3>2. l.prec = Prec.blocked /\ l.text = <<"cause not visible", i.unresolvedThreads>>
      BY <3>1 DEF Line
    <3>3. Prec.blocked # Prec.behind
      BY DEF Prec
    <3>4. NormBlocker(l) = <<"cause not visible", i.unresolvedThreads>>
      BY <3>2, <3>3 DEF NormBlocker
    <3>5. <<"cause not visible", i.unresolvedThreads>>[1] # <<"behind">>[1]
      OBVIOUS
    <3>. QED BY ONLY <3>4, <3>5
  <2>. QED BY <2>1, <2>2
<1>7. /\ BlockersOf(i) = R \cup BehindLines(i)
      /\ BlockersOf(j) = R \cup BehindLines(j)
  BY <1>1, <1>2, <1>5 DEF BlockersOf
<1>. HIDE DEF R
<1>8. CASE IsBehind(i)
  <2>1. PICK x : BehindLines(i) = {x} /\ NormBlocker(x) = <<"behind">>
    <3>1. PICK t : BehindLines(i) = {Line(Prec.behind, "", "", t)}
      BY <1>8 DEF BehindLines, If, Plain
    <3>2. NormBlocker(Line(Prec.behind, "", "", t)) = <<"behind">>
      BY DEF NormBlocker, Line
    <3>. QED BY <3>1, <3>2
  <2>2. PICK y : BehindLines(j) = {y} /\ NormBlocker(y) = <<"behind">>
    <3>1. PICK t : BehindLines(j) = {Line(Prec.behind, "", "", t)}
      BY <1>1, <1>8 DEF BehindLines, If, Plain
    <3>2. NormBlocker(Line(Prec.behind, "", "", t)) = <<"behind">>
      BY DEF NormBlocker, Line
    <3>. QED BY <3>1, <3>2
  <2>3. Tally([l \in R \cup {x} |-> NormBlocker(l)]) = Tally([l \in R \cup {y} |-> NormBlocker(l)])
    BY <1>6, <2>1, <2>2, BehindCountsOnce
  <2>. QED BY <1>7, <2>1, <2>2, <2>3
<1>9. CASE ~IsBehind(i)
  <2>1. BehindLines(i) = {} /\ BehindLines(j) = {}
    BY <1>1, <1>9, NoLines
  <2>2. BlockersOf(i) = BlockersOf(j)
    BY <1>7, <2>1
  <2>. QED BY <2>2
<1>. QED BY <1>8, <1>9

\* What the fingerprint is not to tell apart it does not.
LEMMA MurmursAreNotHashed ==
  ASSUME NEW i \in Input, NEW j \in Input, Murmurs(i, j)
  PROVE  Synthesize(i).fp = Synthesize(j).fp
<1>1. /\ i.pr = j.pr /\ i.prState = j.prState /\ i.reviewDecision = j.reviewDecision
      /\ i.mergeable = j.mergeable /\ i.unresolvedThreads = j.unresolvedThreads
      /\ i.degraded = j.degraded
  BY DEF Murmurs
<1>2. FinishTokens(i) = FinishTokens(j)
  <2>1. i.contexts = {} <=> j.contexts = {}
    <3>1. {c.name : c \in i.contexts} = {c.name : c \in j.contexts}
      BY DEF Murmurs
    <3>. QED BY <3>1
  <2>. QED BY <2>1 DEF FinishTokens, If, Murmurs
<1>3. CASE i.prState \in {"MERGED", "CLOSED"}
  BY <1>1, <1>2, <1>3 DEF Synthesize, TerminalReport, Fingerprint
<1>4. CASE i.prState \notin {"MERGED", "CLOSED"}
  <2>. DEFINE Pi == DecomposedPending(i)
              Pj == DecomposedPending(j)
              Bi == BlockersOf(i)
              Bj == BlockersOf(j)
              Ti == i.degraded \cup FinishTokens(i) \cup If(IsBehind(i) /\ i.behindBy <= 0, {"behind"})
              Tj == j.degraded \cup FinishTokens(j) \cup If(IsBehind(j) /\ j.behindBy <= 0, {"behind"})
  <2>1. /\ Synthesize(i).fp = Fingerprint(i, StateOf(i, Bi, Pi), Bi, Pi, Ti)
        /\ Synthesize(j).fp = Fingerprint(j, StateOf(j, Bj, Pj), Bj, Pj, Tj)
    BY <1>1, <1>4 DEF Synthesize, OpenReport, BlockersOf
  <2>2. /\ IsBehind(i) <=> IsBehind(j)
        /\ Queued(i) <=> Queued(j)
        /\ i.queue.state = "UNMERGEABLE" <=> j.queue.state = "UNMERGEABLE"
        /\ Pi = {} <=> Pj = {}
        /\ ~Queued(i) => Pi = Pj
    BY SameDecomposition
  <2>3. Ti = Tj
    <3>0. i.behindBy \in Nat \cup {-1} /\ j.behindBy \in Nat \cup {-1}
      BY DEF Input
    <3>1. i.behindBy \in Int /\ j.behindBy \in Int
      BY ONLY <3>0
    <3>2. IsBehind(i) /\ i.behindBy <= 0 <=> IsBehind(j) /\ j.behindBy <= 0
      BY <2>2, <3>1 DEF Murmurs
    <3>. QED BY <1>1, <1>2, <3>2 DEF If
  <2>4. /\ Bi = {} <=> Bj = {}
        /\ Tally([l \in Bi |-> NormBlocker(l)]) = Tally([l \in Bj |-> NormBlocker(l)])
    BY SameBlockers
  <2>5. Tally([l \in {p \in Pi : p.prec = Prec.check} |-> l.key])
          = Tally([l \in {p \in Pj : p.prec = Prec.check} |-> l.key])
    <3>1. \A in : {p \in DecomposedPending(in) : p.prec = Prec.check} = CheckPending(in)
      <4>. SUFFICES ASSUME NEW in
                    PROVE  {p \in DecomposedPending(in) : p.prec = Prec.check} = CheckPending(in)
        OBVIOUS
      <4>1. \A l \in CheckPending(in) : l.prec = Prec.check
        BY DEF CheckPending, Line
      <4>2. ASSUME NEW l \in QueueLines(in) PROVE l.prec = Prec.queue
        <5>1. PICK t : l = Line(Prec.queue, "", "", t)
          BY <4>2 DEF QueueLines, If, Plain
        <5>. QED BY <5>1, LineParts
      <4>3. ASSUME NEW l \in ComputingLines(in) PROVE l.prec = Prec.blocked
        <5>1. l = Line(Prec.blocked, "", "", <<"computing">>)
          BY <4>3 DEF ComputingLines, Computing, If, Plain
        <5>. QED BY <5>1, LineParts
      <4>4. Prec.check # Prec.queue /\ Prec.check # Prec.blocked
        BY DEF Prec
      <4>. QED BY <4>1, <4>2, <4>3, <4>4 DEF DecomposedPending
    <3>2. CheckPending(i) = CheckPending(j)
      BY DEF Murmurs
    <3>. QED BY <3>1, <3>2
  <2>6. HashedState(StateOf(i, Bi, Pi)) = HashedState(StateOf(j, Bj, Pj))
    <3>1. i.mergeState = "UNSTABLE" /\ j.mergeState # "UNSTABLE" => MergeableState(j)
      BY DEF Murmurs
    <3>. HIDE DEF Bi, Bj, Pi, Pj
    <3>. QED BY <1>1, <2>2, <2>4 DEF StateOf, HashedState
  <2>. HIDE DEF Bi, Bj, Pi, Pj, Ti, Tj
  <2>. QED BY <1>1, <2>1, <2>3, <2>4, <2>5, <2>6 DEF Fingerprint
<1>. QED BY <1>3, <1>4

-----------------------------------------------------------------------------
(* Which lines the checks give, whatever order they come in.               *)

\* The two print the same line where they are as bad.  WatchOrder is about
\* two runs of one check that do not.
ReadsAlike(c, d) ==
  /\ Failing(c) /\ Failing(d) =>
       c.conclusion = d.conclusion /\ c.run = d.run /\ c.url = d.url
  /\ Waiting(c) /\ Waiting(d) => WaitWord(c) = WaitWord(d)

NamesakesReadAlike(S) == \A c, d \in S : SameKey(c, d) => ReadsAlike(c, d)

\* The lines of the required checks of S.
FailedIn(S) == {FailedLine(Prec.check, c, "") : c \in {d \in S : d.required /\ Failing(d)}}

AwaitedIn(S) ==
  {Line(Prec.check, c.kind, c.name, <<WaitWord(c), c.name, "">>) :
     c \in {d \in S : /\ d.required /\ Waiting(d)
                      /\ \A e \in S : SameKey(d, e) => ~Failing(e)}}

LEMMA SameFailure ==
  ASSUME NEW c, NEW d, SameKey(c, d), ReadsAlike(c, d), Failing(c), Failing(d)
  PROVE  FailedLine(Prec.check, c, "") = FailedLine(Prec.check, d, "")
<1>1. /\ c.kind = d.kind /\ c.name = d.name /\ c.conclusion = d.conclusion
      /\ c.run = d.run /\ c.url = d.url
  BY DEF SameKey, ReadsAlike
<1>2. Verb(c) = Verb(d) /\ NextAction(c) = NextAction(d)
  BY <1>1 DEF Verb, NextAction
<1>3. FailedText(c, "") = FailedText(d, "")
  BY <1>1, <1>2 DEF FailedText
<1>. QED BY <1>1, <1>3 DEF FailedLine

LEMMA LinesOfChecks ==
  ASSUME NEW i \in Input, i.requiredKnown = TRUE, NamesakesAgree(i.contexts),
         NamesakesReadAlike(i.contexts)
  PROVE  CheckBlockers(i) = FailedIn(i.contexts) /\ CheckPending(i) = AwaitedIn(i.contexts)
<1>. DEFINE S == i.contexts
<1>1. Mark(i) = "" /\ \A c : c \in Required(i) <=> c \in Best(S) /\ c.required
  BY DEF Mark, OverBlocks, Required, CountsAsRequired, Best
<1>2. S \in SUBSET Context
  BY DEF Input
<1>3. \A c \in S : \E d \in Best(S) : SameKey(c, d) /\ Rank(d) >= Rank(c)
  BY <1>2, BestCovers
<1>4. \A c \in Best(S) : c \in S
  BY DEF Best
<1>5. \A c : /\ Failing(c) <=> Rank(c) = 2
             /\ Waiting(c) => Rank(c) \in {1, 2}
             /\ ~Failing(c) /\ Rank(c) # 0 => Waiting(c)
             /\ Rank(c) \in 0..2
  BY DEF Rank
<1>6. \A c : Waiting(c) => ~Failing(c)
  BY DEF Waiting, Failing
<1>7. \A c, d \in S : SameKey(c, d) => c.required = d.required /\ ReadsAlike(c, d)
  BY DEF NamesakesAgree, NamesakesReadAlike
<1>8. \A c, d : SameKey(c, d) => SameKey(d, c) /\ c.kind = d.kind /\ c.name = d.name
  BY DEF SameKey
<1>. HIDE DEF S
<1>9. CheckBlockers(i) = FailedIn(S)
  <2>1. ASSUME NEW l \in CheckBlockers(i) PROVE l \in FailedIn(S)
    <3>1. PICK c \in Required(i) : Failing(c) /\ l = FailedLine(Prec.check, c, "")
      BY <1>1, <2>1 DEF CheckBlockers
    <3>2. c \in S /\ c.required
      BY <1>1, <1>4
    <3>. QED BY <3>1, <3>2 DEF FailedIn
  <2>2. ASSUME NEW l \in FailedIn(S) PROVE l \in CheckBlockers(i)
    <3>1. PICK c \in S : c.required /\ Failing(c) /\ l = FailedLine(Prec.check, c, "")
      BY <2>2 DEF FailedIn
    <3>2. PICK d \in Best(S) : SameKey(c, d) /\ Rank(d) >= Rank(c)
      BY <1>3
    <3>3. d \in S /\ d.required /\ ReadsAlike(c, d)
      BY <1>4, <1>7, <3>1, <3>2
    <3>4. Rank(c) = 2 /\ Rank(d) \in 0..2
      BY <1>5, <3>1
    <3>5. Failing(d)
      BY <1>5, <3>2, <3>4
    <3>6. l = FailedLine(Prec.check, d, "")
      BY <3>1, <3>2, <3>3, <3>5, SameFailure
    <3>. QED BY <1>1, <3>3, <3>5, <3>6 DEF CheckBlockers
  <2>. QED BY <2>1, <2>2
<1>10. CheckPending(i) = AwaitedIn(S)
  <2>1. ASSUME NEW l \in CheckPending(i) PROVE l \in AwaitedIn(S)
    <3>1. PICK c \in Required(i) :
            Waiting(c) /\ l = Line(Prec.check, c.kind, c.name, <<WaitWord(c), c.name, "">>)
      BY <1>1, <2>1 DEF CheckPending
    <3>2. c \in Best(S) /\ c \in S /\ c.required
      BY <1>1, <1>4
    <3>3. \A e \in S : SameKey(c, e) => ~Failing(e)
      <4>. SUFFICES ASSUME NEW e \in S, SameKey(c, e), Failing(e) PROVE FALSE
        OBVIOUS
      <4>1. Rank(e) = 2 /\ ~Failing(c) /\ Rank(c) \in 0..2 /\ Rank(c) # 2
        BY <1>5, <1>6, <3>1
      <4>2. Rank(e) > Rank(c)
        BY <4>1
      <4>3. SameKey(e, c)
        BY <1>8
      <4>4. Shadows(e, c)
        BY <4>2, <4>3 DEF Shadows
      <4>. QED BY <3>2, <4>4 DEF Best
    <3>. QED BY <3>1, <3>2, <3>3 DEF AwaitedIn
  <2>2. ASSUME NEW l \in AwaitedIn(S) PROVE l \in CheckPending(i)
    <3>1. PICK c \in S :
            /\ c.required /\ Waiting(c) /\ \A e \in S : SameKey(c, e) => ~Failing(e)
            /\ l = Line(Prec.check, c.kind, c.name, <<WaitWord(c), c.name, "">>)
      BY <2>2 DEF AwaitedIn
    <3>2. PICK d \in Best(S) : SameKey(c, d) /\ Rank(d) >= Rank(c)
      BY <1>3
    <3>3. d \in S /\ d.required /\ ReadsAlike(c, d) /\ ~Failing(d)
      BY <1>4, <1>7, <3>1, <3>2
    <3>4. Rank(c) \in {1, 2} /\ Rank(d) \in 0..2
      BY <1>5, <3>1
    <3>5. Rank(d) # 0
      BY <3>2, <3>4
    <3>6. Waiting(d)
      BY <1>5, <3>3, <3>5
    <3>7. WaitWord(c) = WaitWord(d) /\ c.kind = d.kind /\ c.name = d.name
      BY <1>8, <3>1, <3>2, <3>3, <3>6 DEF ReadsAlike
    <3>8. l = Line(Prec.check, d.kind, d.name, <<WaitWord(d), d.name, "">>)
      BY <3>1, <3>7
    <3>. QED BY <1>1, <3>3, <3>6, <3>8 DEF CheckPending
  <2>. QED BY <2>1, <2>2
<1>. QED BY <1>9, <1>10 DEF S

\* The same report, at whatever place of the walk.
SameReport(c, d) == Alike(c, d) /\ c.run = d.run /\ c.url = d.url

\* Two rollups that differ in optional checks and in order.
Heard(S, T) ==
  /\ {c.name : c \in S} = {d.name : d \in T}
  /\ \A c \in S : c.required => \E d \in T : SameReport(c, d)
  /\ \A d \in T : d.required => \E c \in S : SameReport(c, d)

LEMMA SameReportSame ==
  ASSUME NEW c, NEW d, SameReport(c, d)
  PROVE  /\ c.required = d.required /\ Rank(c) = Rank(d)
         /\ (Failing(c) <=> Failing(d)) /\ (Waiting(c) <=> Waiting(d))
         /\ FailedLine(Prec.check, c, "") = FailedLine(Prec.check, d, "")
         /\ Line(Prec.check, c.kind, c.name, <<WaitWord(c), c.name, "">>)
              = Line(Prec.check, d.kind, d.name, <<WaitWord(d), d.name, "">>)
<1>1. Alike(c, d) /\ c.run = d.run /\ c.url = d.url
  BY DEF SameReport
<1>2. /\ c.kind = d.kind /\ c.name = d.name /\ c.required = d.required
      /\ c.conclusion = d.conclusion
  BY <1>1 DEF Alike
<1>3. Verb(c) = Verb(d) /\ NextAction(c) = NextAction(d) /\ WaitWord(c) = WaitWord(d)
  BY <1>1, <1>2 DEF Verb, NextAction, WaitWord
<1>4. FailedText(c, "") = FailedText(d, "")
  BY <1>2, <1>3 DEF FailedText
<1>. QED BY <1>1, <1>2, <1>3, <1>4, AlikeIsAsBad DEF FailedLine

LEMMA HeardIsSymmetric ==
  ASSUME NEW S, NEW T, Heard(S, T)
  PROVE  Heard(T, S)
<1>1. \A c, d : SameReport(c, d) <=> SameReport(d, c)
  BY DEF SameReport, Alike
<1>. QED BY <1>1 DEF Heard

LEMMA HeardIsTransitive ==
  ASSUME NEW S, NEW T, NEW U, Heard(S, T), Heard(T, U)
  PROVE  Heard(S, U)
<1>1. \A c, d, e : SameReport(c, d) /\ SameReport(d, e) => SameReport(c, e)
  BY DEF SameReport, Alike
<1>2. \A c, d : SameReport(c, d) => c.required = d.required
  BY DEF SameReport, Alike
<1>. QED BY <1>1, <1>2 DEF Heard

\* They print the same lines.
LEMMA HeardPrintsAlike ==
  ASSUME NEW S, NEW T, Heard(S, T), NamesakesAgree(S), NamesakesAgree(T)
  PROVE  FailedIn(S) = FailedIn(T) /\ AwaitedIn(S) = AwaitedIn(T)
<1>1. ASSUME NEW A, NEW B, Heard(A, B), NamesakesAgree(A), NamesakesAgree(B)
      PROVE  FailedIn(A) \subseteq FailedIn(B) /\ AwaitedIn(A) \subseteq AwaitedIn(B)
  <2>1. ASSUME NEW l \in FailedIn(A) PROVE l \in FailedIn(B)
    <3>1. PICK c \in A : c.required /\ Failing(c) /\ l = FailedLine(Prec.check, c, "")
      BY <2>1 DEF FailedIn
    <3>2. PICK d \in B : SameReport(c, d)
      BY <1>1, <3>1 DEF Heard
    <3>3. d.required /\ Failing(d) /\ l = FailedLine(Prec.check, d, "")
      BY <3>1, <3>2, SameReportSame
    <3>. QED BY <3>3 DEF FailedIn
  <2>2. ASSUME NEW l \in AwaitedIn(A) PROVE l \in AwaitedIn(B)
    <3>1. PICK c \in A :
            /\ c.required /\ Waiting(c) /\ \A e \in A : SameKey(c, e) => ~Failing(e)
            /\ l = Line(Prec.check, c.kind, c.name, <<WaitWord(c), c.name, "">>)
      BY <2>2 DEF AwaitedIn
    <3>2. PICK d \in B : SameReport(c, d)
      BY <1>1, <3>1 DEF Heard
    <3>3. /\ d.required /\ Waiting(d)
          /\ l = Line(Prec.check, d.kind, d.name, <<WaitWord(d), d.name, "">>)
      BY <3>1, <3>2, SameReportSame
    <3>4. ASSUME NEW e \in B, SameKey(d, e) PROVE ~Failing(e)
      <4>1. e.required
        BY <1>1, <3>3, <3>4 DEF NamesakesAgree
      <4>2. PICK f \in A : SameReport(f, e)
        BY <1>1, <4>1 DEF Heard
      <4>3. SameKey(c, f)
        BY <3>2, <3>4, <4>2 DEF SameKey, SameReport, Alike
      <4>4. ~Failing(f)
        BY <3>1, <4>3
      <4>. QED BY <4>2, <4>4, SameReportSame
    <3>. QED BY <3>3, <3>4 DEF AwaitedIn
  <2>. QED BY <2>1, <2>2
<1>2. Heard(T, S)
  BY HeardIsSymmetric
<1>3. FailedIn(S) \subseteq FailedIn(T) /\ AwaitedIn(S) \subseteq AwaitedIn(T)
  BY <1>1
<1>4. FailedIn(T) \subseteq FailedIn(S) /\ AwaitedIn(T) \subseteq AwaitedIn(S)
  BY <1>1, <1>2
<1>. QED BY <1>3, <1>4

-----------------------------------------------------------------------------
(* Two pull requests between which nothing but noise happened.             *)

Hushed(v, w) ==
  /\ v.pr = w.pr /\ v.state = w.state /\ v.draft = w.draft /\ v.conflict = w.conflict
  /\ v.computing = w.computing /\ v.review = w.review /\ v.codeOwners = w.codeOwners
  /\ v.queueEnabled = w.queueEnabled /\ v.conversations = w.conversations
  /\ v.required = w.required /\ v.bprReadable = w.bprReadable /\ v.hidden = w.hidden
  /\ v.strict = w.strict /\ v.threads = w.threads /\ v.rollup = w.rollup
  /\ \/ v.queue.state = w.queue.state
     \/ {v.queue.state, w.queue.state} \subseteq QueueStates \ {"UNMERGEABLE"}
  /\ v.strict => (v.behindBy > 0 <=> w.behindBy > 0)
  /\ Heard(Walk(v), Walk(w))

LEMMA HeardIsDoneAlike ==
  ASSUME NEW v, NEW w, Hushed(v, w)
  PROVE  RequiredDone(v) => RequiredDone(w)
<1>. SUFFICES ASSUME RequiredDone(v) PROVE RequiredDone(w)
  OBVIOUS
<1>1. w.required \subseteq {c.name : c \in Walk(w)}
  BY DEF RequiredDone, Hushed, Heard
<1>2. ASSUME NEW d \in Walk(w), d.required PROVE Rank(d) = 0
  <2>1. PICK c \in Walk(v) : SameReport(c, d)
    BY <1>2 DEF Hushed, Heard
  <2>2. c.required /\ Rank(c) = Rank(d)
    BY <1>2, <2>1, SameReportSame
  <2>. QED BY <2>2 DEF RequiredDone
<1>. QED BY <1>1, <1>2 DEF RequiredDone

LEMMA HushedIsSymmetric ==
  ASSUME NEW v, NEW w, Hushed(v, w)
  PROVE  Hushed(w, v)
<1>1. Heard(Walk(w), Walk(v))
  BY HeardIsSymmetric DEF Hushed
<1>2. /\ w.pr = v.pr /\ w.state = v.state /\ w.draft = v.draft /\ w.conflict = v.conflict
      /\ w.computing = v.computing /\ w.review = v.review /\ w.codeOwners = v.codeOwners
      /\ w.queueEnabled = v.queueEnabled /\ w.conversations = v.conversations
      /\ w.required = v.required /\ w.bprReadable = v.bprReadable /\ w.hidden = v.hidden
      /\ w.strict = v.strict /\ w.threads = v.threads /\ w.rollup = v.rollup
  BY DEF Hushed
<1>3. \/ w.queue.state = v.queue.state
      \/ {w.queue.state, v.queue.state} \subseteq QueueStates \ {"UNMERGEABLE"}
  BY DEF Hushed
<1>4. w.strict => (w.behindBy > 0 <=> v.behindBy > 0)
  BY DEF Hushed
<1>. QED BY <1>1, <1>2, <1>3, <1>4 DEF Hushed

\* GitHub's own verdict changes between two states that differ in optional
\* checks only.
Passable == {"CLEAN", "HAS_HOOKS", "UNSTABLE"}

LEMMA MeritIsHushed ==
  ASSUME NEW v \in World, NEW w \in World, Hushed(v, w)
  PROVE  /\ Mergeable(v) = Mergeable(w)
         /\ \/ MergeStateStatus(v) = MergeStateStatus(w)
            \/ {MergeStateStatus(v), MergeStateStatus(w)} \subseteq Passable
         /\ MergeStateStatus(v) = "BEHIND" => (v.behindBy > 0 <=> w.behindBy > 0)
<1>1. /\ v.state = w.state /\ v.computing = w.computing /\ v.conflict = w.conflict
      /\ v.draft = w.draft /\ v.hidden = w.hidden /\ v.review = w.review
      /\ v.conversations = w.conversations /\ v.threads = w.threads
      /\ v.queueEnabled = w.queueEnabled /\ v.strict = w.strict
      /\ v.queue.state = NoQueue.state <=> w.queue.state = NoQueue.state
      /\ v.strict => (v.behindBy > 0 <=> w.behindBy > 0)
  BY DEF Hushed, NoQueue, QueueStates
<1>2. Mergeable(v) = Mergeable(w)
  BY <1>1 DEF Mergeable
<1>3. RequiredDone(v) <=> RequiredDone(w)
  <2>1. Hushed(w, v)
    BY HushedIsSymmetric
  <2>. QED BY <2>1, HeardIsDoneAlike
<1>4. Forbidden(v) <=> Forbidden(w)
  BY <1>1, <1>3 DEF Forbidden, ReviewDone, Unresolved
<1>5. v.strict /\ v.behindBy > 0 <=> w.strict /\ w.behindBy > 0
  BY <1>1
<1>6. \/ MergeStateStatus(v) = MergeStateStatus(w)
      \/ {MergeStateStatus(v), MergeStateStatus(w)} \subseteq Passable
  BY <1>1, <1>2, <1>4, <1>5 DEF MergeStateStatus, Passable
<1>7. MergeStateStatus(v) = "BEHIND" => v.strict
  BY DEF MergeStateStatus, Mergeable
<1>. QED BY <1>1, <1>2, <1>6, <1>7

\* The facts an answer gives the verdict, in terms of the pull request.
Told(i, w, l) ==
  /\ i \in Input /\ i.pr = w.pr /\ i.prState = w.state /\ i.isDraft = w.draft
  /\ i.mergeable = Mergeable(w) /\ i.mergeState = MergeStateStatus(w)
  /\ i.reviewDecision = w.review /\ i.queueEnabled = w.queueEnabled
  /\ i.codeOwnerWait = (TRUE \in IF "reviewRequests" \in l THEN {} ELSE {w.codeOwners})
  /\ i.behindBy = IF {"compare", "baseRef"} \cap l = {} THEN w.behindBy ELSE -1
  /\ i.queue = IF "mergeQueueEntry" \in l THEN NoQueue ELSE w.queue
  /\ i.missingRequired = If(w.bprReadable /\ "baseRef" \notin l, w.required)
  /\ i.convResolution = ((w.bprReadable /\ "baseRef" \notin l) /\ w.conversations)
  /\ i.unresolvedThreads = IF "threads" \in Partial(ErrorFields(l)) THEN 0
                           ELSE ThreadsAnswer(w, 1, l).nodes
  /\ i.threadsKnown = ("threads" \notin Partial(ErrorFields(l)))
  /\ i.requiredKnown = ("required" \notin Partial(ErrorFields(l)))
  /\ i.degraded = Partial(ErrorFields(l))
  /\ i.contexts = AppendContexts({}, ContextsAnswer(w, 1, l).nodes)

LEMMA AnswerTells ==
  ASSUME NEW w \in World, NEW l \in SUBSET Losses
  PROVE  Told(Degrade(Normalize(FullAnswer(w, l)), Partial(ErrorFields(l))), w, l)
<1>. DEFINE p == FullAnswer(w, l)
            n == Normalize(p)
            tokens == Partial(ErrorFields(l))
            i == Degrade(n, tokens)
<1>1. p \in PRNode
  BY FullAnswerType
<1>2. /\ p.pr = w.pr /\ p.state = w.state /\ p.isDraft = w.draft
      /\ p.mergeable = Mergeable(w) /\ p.mergeStateStatus = MergeStateStatus(w)
      /\ p.reviewDecision = w.review /\ p.isMergeQueueEnabled = w.queueEnabled
      /\ p.reviewThreads = ThreadsAnswer(w, 1, l)
      /\ p.statusCheckRollup.contexts = ContextsAnswer(w, 1, l)
  BY DEF FullAnswer
<1>3. /\ p.reviewRequests = IF "reviewRequests" \in l THEN {} ELSE {w.codeOwners}
      /\ p.mergeQueueEntry = IF "mergeQueueEntry" \in l THEN NoQueue ELSE w.queue
  BY DEF FullAnswer
<1>4. /\ p.baseRef.compare = IF {"compare", "baseRef"} \cap l = {} THEN w.behindBy ELSE -1
      /\ p.baseRef.required = If(w.bprReadable /\ "baseRef" \notin l, w.required)
      /\ p.baseRef.conversations = ((w.bprReadable /\ "baseRef" \notin l) /\ w.conversations)
  BY DEF FullAnswer
<1>. HIDE DEF p
<1>5. n \in Input
  BY <1>1, NormalizeType
<1>6. /\ n.pr = p.pr /\ n.prState = p.state /\ n.isDraft = p.isDraft
      /\ n.mergeable = p.mergeable /\ n.mergeState = p.mergeStateStatus
      /\ n.reviewDecision = p.reviewDecision /\ n.queueEnabled = p.isMergeQueueEnabled
      /\ n.codeOwnerWait = (TRUE \in p.reviewRequests)
      /\ n.behindBy = p.baseRef.compare /\ n.queue = p.mergeQueueEntry
      /\ n.missingRequired = p.baseRef.required
      /\ n.convResolution = p.baseRef.conversations
      /\ n.unresolvedThreads = p.reviewThreads.nodes
      /\ n.contexts = AppendContexts({}, p.statusCheckRollup.contexts.nodes)
      /\ n.threadsKnown = TRUE /\ n.requiredKnown = TRUE /\ n.degraded = {}
  BY DEF Normalize
<1>. HIDE DEF n
<1>7. tokens \in SUBSET Tokens
  BY PartialType DEF Tokens
<1>. HIDE DEF tokens
<1>8. i \in Input
  BY <1>5, <1>7, DegradeType
<1>9. /\ i.pr = n.pr /\ i.prState = n.prState /\ i.isDraft = n.isDraft
      /\ i.mergeable = n.mergeable /\ i.mergeState = n.mergeState
      /\ i.reviewDecision = n.reviewDecision /\ i.queueEnabled = n.queueEnabled
      /\ i.codeOwnerWait = n.codeOwnerWait /\ i.behindBy = n.behindBy
      /\ i.queue = n.queue /\ i.missingRequired = n.missingRequired
      /\ i.convResolution = n.convResolution /\ i.contexts = n.contexts
  BY <1>5 DEF Degrade, Input
<1>10. /\ i.unresolvedThreads = IF "threads" \in tokens THEN 0 ELSE n.unresolvedThreads
       /\ i.degraded = n.degraded \cup tokens
  BY <1>5 DEF Degrade, Input
<1>11. /\ i.threadsKnown = (n.threadsKnown /\ "threads" \notin tokens)
       /\ i.requiredKnown = (n.requiredKnown /\ "required" \notin tokens)
  BY <1>5 DEF Degrade, Input
<1>. HIDE DEF i
<1>12. i.threadsKnown = ("threads" \notin tokens) /\ i.requiredKnown = ("required" \notin tokens)
  BY <1>6, <1>11
<1>13. i.degraded = tokens
  BY <1>6, <1>10
<1>14. i.codeOwnerWait = (TRUE \in IF "reviewRequests" \in l THEN {} ELSE {w.codeOwners})
  BY <1>3, <1>6, <1>9
<1>15. i.unresolvedThreads = IF "threads" \in tokens THEN 0 ELSE ThreadsAnswer(w, 1, l).nodes
  BY <1>2, <1>6, <1>10
<1>16. Told(i, w, l)
  BY <1>2, <1>3, <1>4, <1>6, <1>8, <1>9, <1>12, <1>13, <1>14, <1>15 DEF Told, tokens
<1>. QED BY <1>16 DEF i, n, p, tokens

\* The contexts an answer tells of are those of the pull request, or none.
LEMMA ToldContexts ==
  ASSUME NEW w \in World, Len(w.checks) <= 1, NEW l,
         {"isRequired", "isRequiredNode"} \cap l = {}
  PROVE  AppendContexts({}, ContextsAnswer(w, 1, l).nodes)
           = IF {"statusCheckRollup", "contexts"} \cap l # {} THEN {} ELSE Walk(w)
<1>1. Pages(w.checks) = IF 1 \in DOMAIN w.checks THEN w.checks[1] ELSE {}
  <2>1. w.checks \in Seq(SUBSET Context)
    BY DEF World
  <2>. QED BY <2>1, OnePage
<1>2. CASE {"statusCheckRollup", "contexts"} \cap l # {}
  BY <1>2 DEF ContextsAnswer, NoContexts, AppendContexts
<1>3. CASE {"statusCheckRollup", "contexts"} \cap l = {}
  <2>1. ContextsAnswer(w, 1, l) = ContextsAnswer(w, 1, {})
    BY <1>3 DEF ContextsAnswer
  <2>2. CASE w.rollup
    <3>1. AppendContexts({}, ContextsAnswer(w, 1, {}).nodes)
            = {} \cup (IF 1 \in DOMAIN w.checks THEN w.checks[1] ELSE {})
      BY <2>2, PageIsAppended
    <3>. QED BY <1>1, <1>3, <2>1, <2>2, <3>1 DEF Walk
  <2>3. CASE ~w.rollup
    BY <1>3, <2>1, <2>3 DEF ContextsAnswer, NoContexts, AppendContexts, Walk
  <2>. QED BY <2>2, <2>3
<1>. QED BY <1>2, <1>3

LEMMA RequiredIsRead ==
  ASSUME NEW l \in SUBSET Losses, {"isRequired", "isRequiredNode"} \cap l = {}
  PROVE  "required" \notin Partial(ErrorFields(l))
<1>1. \A x \in l : x \in DOMAIN OptionalFields \cup {"threadNode", "isRequiredNode"}
  BY DEF Losses
<1>2. \A x \in l : FieldOf(x) \in DOMAIN OptionalFields \ {"isRequired"}
  <2>1. "reviewThreads" \in DOMAIN OptionalFields
    BY DEF OptionalFields
  <2>. QED BY <1>1, <2>1 DEF FieldOf
<1>3. \A f \in DOMAIN OptionalFields \ {"isRequired"} : OptionalFields[f] # "required"
  <2>1. DOMAIN OptionalFields =
          {"reviewThreads", "statusCheckRollup", "contexts", "isRequired",
           "mergeQueueEntry", "compare", "baseRef", "reviewRequests"}
    BY DEF OptionalFields
  <2>2. /\ OptionalFields["reviewThreads"] = "threads"
        /\ OptionalFields["statusCheckRollup"] = "checks"
        /\ OptionalFields["contexts"] = "checks"
        /\ OptionalFields["mergeQueueEntry"] = "merge_state"
        /\ OptionalFields["compare"] = "" /\ OptionalFields["baseRef"] = ""
        /\ OptionalFields["reviewRequests"] = ""
    BY DEF OptionalFields
  <2>. QED BY <2>1, <2>2
<1>. QED BY <1>2, <1>3 DEF Partial, ErrorFields

\* Answers about two such pull requests murmur.
LEMMA HushedIsMurmured ==
  ASSUME NEW v \in World, NEW w \in World, Len(v.checks) <= 1, Len(w.checks) <= 1,
         Hushed(v, w), NamesakesAgree(Walk(v)), NamesakesAgree(Walk(w)),
         NamesakesReadAlike(Walk(v)), NamesakesReadAlike(Walk(w)),
         NEW l \in SUBSET Losses, {"isRequired", "isRequiredNode"} \cap l = {},
         NEW i, NEW j, Told(i, v, l), Told(j, w, l)
  PROVE  Murmurs(i, j)
<1>1. /\ v.pr = w.pr /\ v.state = w.state /\ v.draft = w.draft
      /\ v.review = w.review /\ v.codeOwners = w.codeOwners
      /\ v.queueEnabled = w.queueEnabled /\ v.conversations = w.conversations
      /\ v.required = w.required /\ v.bprReadable = w.bprReadable
      /\ v.threads = w.threads /\ Heard(Walk(v), Walk(w))
  BY DEF Hushed
<1>2. /\ Mergeable(v) = Mergeable(w)
      /\ \/ MergeStateStatus(v) = MergeStateStatus(w)
         \/ {MergeStateStatus(v), MergeStateStatus(w)} \subseteq Passable
      /\ MergeStateStatus(v) = "BEHIND" => (v.behindBy > 0 <=> w.behindBy > 0)
  BY MeritIsHushed
<1>3. ThreadsAnswer(v, 1, l) = ThreadsAnswer(w, 1, l)
  BY <1>1 DEF ThreadsAnswer
<1>4. /\ i.pr = j.pr /\ i.prState = j.prState /\ i.isDraft = j.isDraft
      /\ i.mergeable = j.mergeable /\ i.reviewDecision = j.reviewDecision
      /\ i.codeOwnerWait = j.codeOwnerWait /\ i.queueEnabled = j.queueEnabled
      /\ i.missingRequired = j.missingRequired /\ i.convResolution = j.convResolution
      /\ i.unresolvedThreads = j.unresolvedThreads /\ i.threadsKnown = j.threadsKnown
      /\ i.requiredKnown = j.requiredKnown /\ i.degraded = j.degraded
  BY <1>1, <1>2, <1>3 DEF Told
<1>5. i.mergeState = j.mergeState \/ (MergeableState(i) /\ MergeableState(j))
  <2>1. i.mergeState = MergeStateStatus(v) /\ j.mergeState = MergeStateStatus(w)
    BY DEF Told
  <2>2. CASE {MergeStateStatus(v), MergeStateStatus(w)} \subseteq Passable
    BY <2>1, <2>2 DEF MergeableState, Passable
  <2>. QED BY <1>2, <2>1, <2>2
<1>6. \/ i.queue.state = j.queue.state
      \/ {i.queue.state, j.queue.state} \subseteq QueueStates \ {"UNMERGEABLE"}
  BY DEF Told, Hushed
<1>7. IsBehind(i) => (i.behindBy > 0 <=> j.behindBy > 0)
  BY <1>2 DEF Told, IsBehind
<1>8. \/ i.contexts = {} /\ j.contexts = {}
      \/ i.contexts = Walk(v) /\ j.contexts = Walk(w)
  BY ToldContexts DEF Told
<1>9. /\ Heard(i.contexts, j.contexts)
      /\ NamesakesAgree(i.contexts) /\ NamesakesAgree(j.contexts)
      /\ NamesakesReadAlike(i.contexts) /\ NamesakesReadAlike(j.contexts)
  BY <1>1, <1>8 DEF Heard, NamesakesAgree, NamesakesReadAlike
<1>10. i \in Input /\ j \in Input /\ i.requiredKnown = TRUE /\ j.requiredKnown = TRUE
  BY RequiredIsRead DEF Told
<1>11. /\ CheckBlockers(i) = FailedIn(i.contexts) /\ CheckPending(i) = AwaitedIn(i.contexts)
       /\ CheckBlockers(j) = FailedIn(j.contexts) /\ CheckPending(j) = AwaitedIn(j.contexts)
  BY <1>9, <1>10, LinesOfChecks
<1>12. CheckBlockers(i) = CheckBlockers(j) /\ CheckPending(i) = CheckPending(j)
  BY <1>9, <1>11, HeardPrintsAlike
<1>13. {c.name : c \in i.contexts} = {c.name : c \in j.contexts}
  BY <1>9 DEF Heard
<1>. QED BY <1>4, <1>5, <1>6, <1>7, <1>12, <1>13 DEF Murmurs

LEMMA HushedIsTransitive ==
  ASSUME NEW u, NEW v, NEW w, Hushed(u, v), Hushed(v, w)
  PROVE  Hushed(u, w)
<1>1. /\ u.pr = w.pr /\ u.state = w.state /\ u.draft = w.draft /\ u.conflict = w.conflict
      /\ u.computing = w.computing /\ u.review = w.review /\ u.codeOwners = w.codeOwners
      /\ u.queueEnabled = w.queueEnabled /\ u.conversations = w.conversations
      /\ u.required = w.required /\ u.bprReadable = w.bprReadable /\ u.hidden = w.hidden
      /\ u.strict = w.strict /\ u.threads = w.threads /\ u.rollup = w.rollup
  BY DEF Hushed
<1>2. \/ u.queue.state = w.queue.state
      \/ {u.queue.state, w.queue.state} \subseteq QueueStates \ {"UNMERGEABLE"}
  BY DEF Hushed
<1>3. u.strict => (u.behindBy > 0 <=> w.behindBy > 0)
  BY DEF Hushed
<1>4. Heard(Walk(u), Walk(w))
  BY HeardIsTransitive DEF Hushed
<1>. QED BY <1>1, <1>2, <1>3, <1>4 DEF Hushed

-----------------------------------------------------------------------------
(* Pull requests without the gap WatchOrder shows: two checks of one name  *)
(* never fail or wait in two ways.                                         *)

\* What a check may read as.
May(c) == {c} \cup {Reports(c, o) : o \in Outcomes}

Quiet(w) ==
  /\ Tame(w)
  /\ w.queue.state = "NONE" => w.queue = NoQueue
  /\ \A c, d \in Pages(w.checks) : SameKey(c, d) /\ c # d =>
       \A x \in May(c), y \in May(d) : ReadsAlike(x, y)

QuietBirths == \A w \in Births : Quiet(w)

LEMMA QuietReadsAlike ==
  ASSUME NEW w, Quiet(w)
  PROVE  /\ NamesakesReadAlike(Pages(w.checks)) /\ NamesakesReadAlike(Walk(w))
         /\ NamesakesAgree(Walk(w))
<1>1. \A c, d \in Pages(w.checks) : SameKey(c, d) => ReadsAlike(c, d)
  <2>1. \A c : ReadsAlike(c, c) /\ c \in May(c)
    BY DEF ReadsAlike, May
  <2>2. \A c, d \in Pages(w.checks) : SameKey(c, d) /\ c # d =>
          \A x \in May(c), y \in May(d) : ReadsAlike(x, y)
    BY DEF Quiet
  <2>. QED BY <2>1, <2>2
<1>2. Walk(w) \subseteq Pages(w.checks)
  BY DEF Walk
<1>3. NamesakesAgree(Pages(w.checks))
  BY DEF Quiet, Tame
<1>. QED BY <1>1, <1>2, <1>3 DEF NamesakesReadAlike, NamesakesAgree

\* In another order it is the same pull request.
LEMMA ArrangedIsHushed ==
  ASSUME NEW w, Quiet(w), NEW order \in Orders
  PROVE  LET u == Arranged(w, order)
         IN  /\ u \in World /\ Len(u.checks) <= 1 /\ Hushed(u, w)
             /\ NamesakesAgree(Walk(u)) /\ NamesakesReadAlike(Walk(u))
<1>. DEFINE u == Arranged(w, order)
            Moved(c) == [c EXCEPT !.at = order[c.at]]
            checks == [p \in DOMAIN w.checks |-> {Moved(c) : c \in w.checks[p]}]
<1>1. Tame(w) /\ w \in World /\ w.checks \in Seq(SUBSET Context)
  BY DEF Quiet, Tame, World
<1>2. /\ u \in World /\ Len(u.checks) <= 1 /\ NamesakesAgree(Pages(u.checks))
  BY <1>1, ArrangedIsTame
<1>3. u = [w EXCEPT !.checks = checks]
  BY <1>1 DEF Arranged, World
<1>4. /\ u.checks = checks /\ u.rollup = w.rollup /\ u.queue = w.queue
      /\ u.pr = w.pr /\ u.state = w.state /\ u.draft = w.draft /\ u.conflict = w.conflict
      /\ u.computing = w.computing /\ u.review = w.review /\ u.codeOwners = w.codeOwners
      /\ u.queueEnabled = w.queueEnabled /\ u.conversations = w.conversations
      /\ u.required = w.required /\ u.bprReadable = w.bprReadable /\ u.hidden = w.hidden
      /\ u.strict = w.strict /\ u.threads = w.threads /\ u.behindBy = w.behindBy
  BY <1>1, <1>3 DEF World
<1>5. \A p \in DOMAIN w.checks : w.checks[p] \in SUBSET Context
  BY <1>1
<1>6. \A c \in Context : SameReport(Moved(c), c)
  BY DEF SameReport, Alike, Context, ContextOf
<1>. HIDE DEF Moved, u
<1>7. /\ \A c \in Pages(checks) : \E d \in Pages(w.checks) : SameReport(c, d)
      /\ \A d \in Pages(w.checks) : \E c \in Pages(checks) : SameReport(c, d)
  <2>1. ASSUME NEW c \in Pages(checks) PROVE \E d \in Pages(w.checks) : SameReport(c, d)
    <3>1. PICK p \in DOMAIN checks : c \in checks[p]
      BY <2>1 DEF Pages
    <3>2. PICK d \in w.checks[p] : c = Moved(d)
      BY <3>1
    <3>3. p \in DOMAIN w.checks
      BY <3>1
    <3>. QED BY <1>5, <1>6, <3>2, <3>3 DEF Pages
  <2>2. ASSUME NEW d \in Pages(w.checks) PROVE \E c \in Pages(checks) : SameReport(c, d)
    <3>1. PICK p \in DOMAIN w.checks : d \in w.checks[p]
      BY <2>2 DEF Pages
    <3>2. Moved(d) \in checks[p] /\ p \in DOMAIN checks
      BY <3>1
    <3>. HIDE DEF checks
    <3>. QED BY <1>5, <1>6, <3>1, <3>2 DEF Pages
  <2>. QED BY <2>1, <2>2
<1>. HIDE DEF checks
<1>8. /\ \A c \in Walk(u) : \E d \in Walk(w) : SameReport(c, d)
      /\ \A d \in Walk(w) : \E c \in Walk(u) : SameReport(c, d)
  BY <1>4, <1>7 DEF Walk
<1>9. Heard(Walk(u), Walk(w))
  <2>1. {c.name : c \in Walk(u)} = {d.name : d \in Walk(w)}
    BY <1>8 DEF SameReport, Alike
  <2>. QED BY <1>8, <2>1 DEF Heard
<1>10. Hushed(u, w)
  BY <1>4, <1>9 DEF Hushed
<1>11. NamesakesReadAlike(Walk(u))
  <2>. SUFFICES ASSUME NEW c \in Walk(u), NEW d \in Walk(u), SameKey(c, d)
                PROVE  ReadsAlike(c, d)
    BY DEF NamesakesReadAlike
  <2>1. PICK x \in Walk(w) : SameReport(c, x)
    BY <1>8
  <2>2. PICK y \in Walk(w) : SameReport(d, y)
    BY <1>8
  <2>3. SameKey(x, y)
    BY <2>1, <2>2 DEF SameKey, SameReport, Alike
  <2>4. ReadsAlike(x, y)
    BY <2>3, QuietReadsAlike DEF NamesakesReadAlike
  <2>5. /\ (Failing(c) <=> Failing(x)) /\ (Failing(d) <=> Failing(y))
        /\ (Waiting(c) <=> Waiting(x)) /\ (Waiting(d) <=> Waiting(y))
        /\ WaitWord(c) = WaitWord(x) /\ WaitWord(d) = WaitWord(y)
    <3>1. Alike(c, x) /\ Alike(d, y)
      BY <2>1, <2>2 DEF SameReport
    <3>2. WaitWord(c) = WaitWord(x) /\ WaitWord(d) = WaitWord(y)
      BY <3>1 DEF Alike, WaitWord
    <3>. QED BY <3>1, <3>2, AlikeIsAsBad
  <2>6. /\ c.conclusion = x.conclusion /\ c.run = x.run /\ c.url = x.url
        /\ d.conclusion = y.conclusion /\ d.run = y.run /\ d.url = y.url
    BY <2>1, <2>2 DEF SameReport, Alike
  <2>. QED BY <2>4, <2>5, <2>6 DEF ReadsAlike
<1>12. NamesakesAgree(Walk(u))
  BY <1>2 DEF Walk, NamesakesAgree
<1>. QED BY <1>2, <1>10, <1>11, <1>12 DEF u

\* Two polls between which nothing but noise happened have one fingerprint.
LEMMA HushedPollsAlike ==
  ASSUME NEW v, NEW w, Quiet(v), Quiet(w), Hushed(v, w),
         NEW p \in Orders, NEW q \in Orders,
         NEW l \in SUBSET Losses, {"isRequired", "isRequiredNode"} \cap l = {}
  PROVE  Ask(Arranged(v, p), l).fp = Ask(Arranged(w, q), l).fp
<1>. DEFINE a == Arranged(v, p)
            b == Arranged(w, q)
            i == Degrade(Normalize(FullAnswer(a, l)), Partial(ErrorFields(l)))
            j == Degrade(Normalize(FullAnswer(b, l)), Partial(ErrorFields(l)))
<1>1. /\ a \in World /\ Len(a.checks) <= 1 /\ Hushed(a, v)
      /\ NamesakesAgree(Walk(a)) /\ NamesakesReadAlike(Walk(a))
  BY ArrangedIsHushed
<1>2. /\ b \in World /\ Len(b.checks) <= 1 /\ Hushed(b, w)
      /\ NamesakesAgree(Walk(b)) /\ NamesakesReadAlike(Walk(b))
  BY ArrangedIsHushed
<1>. HIDE DEF a, b
<1>3. Hushed(a, b)
  <2>1. Hushed(a, w)
    BY <1>1, HushedIsTransitive
  <2>2. Hushed(w, b)
    BY <1>2, HushedIsSymmetric
  <2>. QED BY <2>1, <2>2, HushedIsTransitive
<1>4. Told(i, a, l)
  BY <1>1, AnswerTells
<1>5. Told(j, b, l)
  BY <1>2, AnswerTells
<1>. HIDE DEF i, j
<1>6. Murmurs(i, j)
  BY <1>1, <1>2, <1>3, <1>4, <1>5, HushedIsMurmured
<1>7. i \in Input /\ j \in Input
  BY <1>4, <1>5 DEF Told
<1>8. Synthesize(i).fp = Synthesize(j).fp
  BY <1>6, <1>7, MurmursAreNotHashed
<1>. QED BY <1>8 DEF Ask, a, b, i, j

LEMMA ReportsKeepQuiet ==
  ASSUME Quiet(world), CheckReports
  PROVE  Quiet(world')
<1>1. Tame(world) /\ world \in World
  BY DEF Quiet, Tame
<1>2. PICK c \in Pages(world.checks), o \in Outcomes :
        /\ Pages(world'.checks) = (Pages(world.checks) \ {c}) \cup {Reports(c, o)}
        /\ world' = [world EXCEPT !.checks = world'.checks]
  BY <1>1, CheckIsReported
<1>. DEFINE r == Reports(c, o)
            S == Pages(world.checks)
<1>3. Tame(world')
  BY <1>1, ReportsKeepTame
<1>4. world'.queue = world.queue
  BY <1>1, <1>2 DEF World
<1>5. S \in SUBSET Context
  <2>1. world.checks \in Seq(SUBSET Context)
    BY <1>1 DEF World
  <2>2. \A p \in DOMAIN world.checks : world.checks[p] \in SUBSET Context
    BY <2>1
  <2>. QED BY <2>2 DEF Pages
<1>6. /\ r.kind = c.kind /\ r.name = c.name
      /\ \A n : Reports(r, n) = Reports(c, n)
  BY <1>5 DEF Reports, Context, ContextOf
<1>7. May(r) \subseteq May(c)
  BY <1>6 DEF May
<1>8. \A x, y \in S : SameKey(x, y) /\ x # y =>
        \A a \in May(x), b \in May(y) : ReadsAlike(a, b)
  BY DEF Quiet
<1>. HIDE DEF r, S
<1>9. \A x, y \in (S \ {c}) \cup {r} : SameKey(x, y) /\ x # y =>
        \A a \in May(x), b \in May(y) : ReadsAlike(a, b)
  <2>. SUFFICES ASSUME NEW x \in (S \ {c}) \cup {r}, NEW y \in (S \ {c}) \cup {r},
                       SameKey(x, y), x # y,
                       NEW a \in May(x), NEW b \in May(y)
                PROVE  ReadsAlike(a, b)
    OBVIOUS
  <2>1. c \in S
    BY DEF S
  <2>2. CASE x = r
    <3>1. y \in S /\ y # c /\ a \in May(c)
      BY <1>7, <2>2
    <3>2. SameKey(c, y)
      BY <1>6, <2>2 DEF SameKey
    <3>. QED BY <1>8, <2>1, <3>1, <3>2
  <2>3. CASE y = r /\ x # r
    <3>1. x \in S /\ x # c /\ b \in May(c)
      BY <1>7, <2>3
    <3>2. SameKey(x, c)
      BY <1>6, <2>3 DEF SameKey
    <3>. QED BY <1>8, <2>1, <3>1, <3>2
  <2>4. CASE x # r /\ y # r
    BY <1>8, <2>4
  <2>. QED BY <2>2, <2>3, <2>4
<1>10. Pages(world'.checks) = (S \ {c}) \cup {r}
  BY <1>2 DEF S, r
<1>11. world'.queue.state = "NONE" => world'.queue = NoQueue
  BY <1>4 DEF Quiet
<1>. QED BY <1>3, <1>9, <1>10, <1>11 DEF Quiet

\* Whatever happens to it, a pull request stays one of these.
LEMMA LifeKeepsQuiet ==
  ASSUME Quiet(world),
         \/ CheckReports \/ RollupAppears \/ ReviewChanges \/ DraftFlips
         \/ ConflictFlips \/ ThreadsMove \/ BaseAdvances \/ UpdateBranch
         \/ Recomputes \/ QueueTakes \/ QueueMoves \/ QueueEjects \/ MergesOrCloses
  PROVE  Quiet(world') /\ world'.pr = world.pr
<1>1. Tame(world) /\ world \in World
  BY DEF Quiet, Tame
<1>2. Tame(world') /\ world'.pr = world.pr
  BY <1>1, LifeKeepsTame
<1>3. CASE CheckReports
  BY <1>2, <1>3, ReportsKeepQuiet
<1>4. ASSUME world'.checks = world.checks,
             world'.queue.state = "NONE" => world'.queue = NoQueue
      PROVE  Quiet(world')
  BY <1>2, <1>4 DEF Quiet
<1>5. world.queue.state = "NONE" => world.queue = NoQueue
  BY DEF Quiet
<1>6. CASE \/ RollupAppears \/ ReviewChanges \/ DraftFlips \/ ConflictFlips
           \/ ThreadsMove \/ BaseAdvances \/ UpdateBranch \/ Recomputes
  <2>1. world'.checks = world.checks /\ world'.queue = world.queue
    BY <1>1, <1>6 DEF RollupAppears, ReviewChanges, DraftFlips, ConflictFlips,
       ThreadsMove, BaseAdvances, UpdateBranch, Recomputes, Changes, Becomes, World
  <2>. QED BY <1>2, <1>4, <1>5, <2>1
<1>7. CASE QueueTakes \/ QueueMoves \/ QueueEjects
  <2>1. PICK q \in Queue : world' = [world EXCEPT !.queue = q] /\ (q.state = "NONE" => q = NoQueue)
    <3>1. CASE QueueTakes
      <4>. DEFINE t == [state |-> "QUEUED", position |-> 2, eta |-> -1]
      <4>1. world' = [world EXCEPT !.queue = t]
        BY <3>1 DEF QueueTakes, Changes, Becomes
      <4>2. t \in Queue /\ t.state # "NONE"
        BY DEF Queue, QueueStates
      <4>. QED BY <4>1, <4>2
    <3>2. CASE QueueMoves
      <4>1. PICK s \in QueueStates \ {"UNMERGEABLE"} :
              world' = [world EXCEPT !.queue = [state |-> s, position |-> 1,
                                                eta |-> IF s = "LOCKED" THEN 61 ELSE -1]]
        BY <3>2 DEF QueueMoves, Becomes
      <4>. DEFINE t == [state |-> s, position |-> 1, eta |-> IF s = "LOCKED" THEN 61 ELSE -1]
      <4>2. t \in Queue /\ t.state # "NONE"
        BY DEF Queue, QueueStates
      <4>. QED BY <4>1, <4>2
    <3>3. CASE QueueEjects
      <4>1. \/ world' = [world EXCEPT !.queue.state = "UNMERGEABLE"]
            \/ world' = [world EXCEPT !.queue = NoQueue]
        BY <3>3 DEF QueueEjects, Changes, Becomes
      <4>2. /\ NoQueue \in Queue
            /\ [world.queue EXCEPT !.state = "UNMERGEABLE"] \in Queue
            /\ [world.queue EXCEPT !.state = "UNMERGEABLE"].state # "NONE"
        BY <1>1 DEF World, Queue, QueueStates, NoQueue
      <4>. QED BY <1>1, <4>1, <4>2 DEF World
    <3>. QED BY <1>7, <3>1, <3>2, <3>3
  <2>2. world'.checks = world.checks /\ world'.queue = q
    BY <1>1, <2>1 DEF World
  <2>. QED BY <1>2, <1>4, <2>1, <2>2
<1>8. CASE MergesOrCloses
  <2>1. world'.checks = world.checks /\ world'.queue = NoQueue
    BY <1>1, <1>8 DEF MergesOrCloses, Changes, Becomes, World
  <2>. QED BY <1>2, <1>4, <2>1
<1>. QED BY <1>2, <1>3, <1>6, <1>7, <1>8

\* What the loop is not to wake up for leaves the pull request hushed.
LEMMA NoiseIsHushed ==
  ASSUME Quiet(world), since \in {"nothing", "noise", "change"},
         \/ CheckReports \/ RollupAppears \/ ReviewChanges \/ DraftFlips
         \/ ConflictFlips \/ ThreadsMove \/ BaseAdvances \/ UpdateBranch
         \/ Recomputes \/ QueueTakes \/ QueueMoves \/ QueueEjects \/ MergesOrCloses,
         since' # "change"
  PROVE  Hushed(world, world') /\ since # "change"
<1>1. Tame(world) /\ world \in World
  BY DEF Quiet, Tame
<1>2. CheckReports \/ BaseAdvances \/ QueueMoves
  BY DEF RollupAppears, ReviewChanges, DraftFlips, ConflictFlips, ThreadsMove,
     UpdateBranch, Recomputes, QueueTakes, QueueEjects, MergesOrCloses, Changes, Becomes
<1>3. \A S : Heard(S, S)
  BY DEF Heard, SameReport, Alike
<1>4. CASE CheckReports
  <2>1. PICK c \in Pages(world.checks), o \in Outcomes :
          /\ Pages(world'.checks) = (Pages(world.checks) \ {c}) \cup {Reports(c, o)}
          /\ world' = [world EXCEPT !.checks = world'.checks]
          /\ since' = IF ~c.required /\ since # "change" THEN "noise" ELSE "change"
    BY <1>1, <1>4, CheckIsReported
  <2>. DEFINE r == Reports(c, o)
              S == Pages(world.checks)
              T == Pages(world'.checks)
  <2>2. ~c.required /\ since # "change"
    BY <2>1
  <2>3. c \in Context
    <3>1. world.checks \in Seq(SUBSET Context)
      BY <1>1 DEF World
    <3>2. \A p \in DOMAIN world.checks : world.checks[p] \in SUBSET Context
      BY <3>1
    <3>. QED BY <3>2 DEF Pages
  <2>4. r.name = c.name /\ r.required = c.required
    BY <2>3 DEF Reports, Context, ContextOf
  <2>5. T = (S \ {c}) \cup {r} /\ c \in S
    BY <2>1
  <2>. HIDE DEF r, S, T
  <2>6. Heard(S, T)
    <3>1. {x.name : x \in S} = {y.name : y \in T}
      BY <2>4, <2>5
    <3>2. \A x \in S : x.required => x \in T
      BY <2>2, <2>5
    <3>3. \A y \in T : y.required => y \in S
      BY <2>2, <2>4, <2>5
    <3>4. \A x : SameReport(x, x)
      BY DEF SameReport, Alike
    <3>. QED BY <3>1, <3>2, <3>3, <3>4 DEF Heard
  <2>7. /\ world.pr = world'.pr /\ world.state = world'.state /\ world.draft = world'.draft
        /\ world.conflict = world'.conflict /\ world.computing = world'.computing
        /\ world.review = world'.review /\ world.codeOwners = world'.codeOwners
        /\ world.queueEnabled = world'.queueEnabled
        /\ world.conversations = world'.conversations /\ world.required = world'.required
        /\ world.bprReadable = world'.bprReadable /\ world.hidden = world'.hidden
        /\ world.strict = world'.strict /\ world.threads = world'.threads
        /\ world.rollup = world'.rollup /\ world.queue = world'.queue
        /\ world.behindBy = world'.behindBy
    BY <1>1, <2>1 DEF World
  <2>8. Heard(Walk(world), Walk(world'))
    BY <1>3, <2>6, <2>7 DEF Walk, S, T
  <2>. QED BY <2>2, <2>7, <2>8 DEF Hushed
<1>5. CASE BaseAdvances
  <2>1. /\ world' = [world EXCEPT !.behindBy = @ + 1]
        /\ ~world.strict \/ world.behindBy > 0
        /\ since # "change"
    BY <1>5 DEF BaseAdvances, Becomes
  <2>2. /\ world.pr = world'.pr /\ world.state = world'.state /\ world.draft = world'.draft
        /\ world.conflict = world'.conflict /\ world.computing = world'.computing
        /\ world.review = world'.review /\ world.codeOwners = world'.codeOwners
        /\ world.queueEnabled = world'.queueEnabled
        /\ world.conversations = world'.conversations /\ world.required = world'.required
        /\ world.bprReadable = world'.bprReadable /\ world.hidden = world'.hidden
        /\ world.strict = world'.strict /\ world.threads = world'.threads
        /\ world.rollup = world'.rollup /\ world.queue = world'.queue
        /\ world.checks = world'.checks
        /\ world.behindBy \in Nat /\ world'.behindBy = world.behindBy + 1
    BY <1>1, <2>1 DEF World
  <2>3. world.strict => (world.behindBy > 0 <=> world'.behindBy > 0)
    BY <2>1, <2>2
  <2>4. Heard(Walk(world), Walk(world'))
    BY <1>3, <2>2 DEF Walk
  <2>. QED BY <2>1, <2>2, <2>3, <2>4 DEF Hushed
<1>6. CASE QueueMoves
  <2>1. PICK s \in QueueStates \ {"UNMERGEABLE"} :
          /\ world' = [world EXCEPT !.queue = [state |-> s, position |-> 1,
                                               eta |-> IF s = "LOCKED" THEN 61 ELSE -1]]
          /\ world.queue.state # "UNMERGEABLE" /\ world.queue # NoQueue
          /\ since # "change"
    BY <1>6 DEF QueueMoves, Becomes
  <2>2. /\ world.pr = world'.pr /\ world.state = world'.state /\ world.draft = world'.draft
        /\ world.conflict = world'.conflict /\ world.computing = world'.computing
        /\ world.review = world'.review /\ world.codeOwners = world'.codeOwners
        /\ world.queueEnabled = world'.queueEnabled
        /\ world.conversations = world'.conversations /\ world.required = world'.required
        /\ world.bprReadable = world'.bprReadable /\ world.hidden = world'.hidden
        /\ world.strict = world'.strict /\ world.threads = world'.threads
        /\ world.rollup = world'.rollup /\ world.behindBy = world'.behindBy
        /\ world.checks = world'.checks /\ world'.queue.state = s
    BY <1>1, <2>1 DEF World
  <2>3. world.queue.state \in QueueStates \ {"UNMERGEABLE"}
    BY <1>1, <2>1 DEF Quiet, World, Queue
  <2>4. Heard(Walk(world), Walk(world'))
    BY <1>3, <2>2 DEF Walk
  <2>5. {world.queue.state, world'.queue.state} \subseteq QueueStates \ {"UNMERGEABLE"}
    BY <2>1, <2>2, <2>3
  <2>. QED BY <2>1, <2>2, <2>4, <2>5 DEF Hushed
<1>. QED BY <1>2, <1>4, <1>5, <1>6

\* The inductive invariant: as long as nothing but noise happens, the same
\* query, answered in any order, would get the fingerprint the last one got.
StillInv ==
  /\ Quiet(world) /\ since \in {"nothing", "noise", "change"}
  /\ Polled /\ since # "change" /\ {"isRequired", "isRequiredNode"} \cap last.lost = {} =>
       /\ last.lost \in LossSets[world.pr]
       /\ \A q \in Orders : Ask(Arranged(world, q), last.lost).fp = last.fp

LEMMA StillInit == QuietBirths /\ Init => StillInv
BY DEF QuietBirths, Init, StillInv

LEMMA PollIsAsked ==
  ASSUME Poll
  PROVE  /\ world' = world /\ since' = "nothing"
         /\ last'.lost \in LossSets[world.pr]
         /\ \E order \in Orders : last'.fp = Ask(Arranged(world, order), last'.lost).fp
<1>1. PICK l \in LossSets[world.pr], order \in Orders :
        LET r == Synthesize(Degrade(Normalize(FullAnswer(Arranged(world, order), l)),
                                    Partial(ErrorFields(l))))
        IN  last' = [fp |-> r.fp, decision |-> Decision(r), lost |-> l]
  BY DEF Poll
<1>2. last'.lost = l /\ last'.fp = Ask(Arranged(world, order), l).fp
  BY <1>1 DEF Ask
<1>3. world' = world /\ since' = "nothing"
  BY DEF Poll
<1>. QED BY <1>2, <1>3

LEMMA LossesAreLosses ==
  ASSUME Quiet(world), NEW l \in LossSets[world.pr]
  PROVE  l \in SUBSET Losses
<1>1. world.pr \in PRs
  BY DEF Quiet, Tame, World
<1>. QED BY <1>1, WatchAssumption

LEMMA StillStep == StillInv /\ [Next]_vars => StillInv'
<1>. SUFFICES ASSUME StillInv, [Next]_vars PROVE StillInv'
  OBVIOUS
<1>1. Quiet(world) /\ since \in {"nothing", "noise", "change"}
  BY DEF StillInv
<1>2. CASE Poll
  <2>1. /\ world' = world /\ since' = "nothing"
        /\ last'.lost \in LossSets[world.pr]
    BY <1>2, PollIsAsked
  <2>2. PICK p \in Orders : last'.fp = Ask(Arranged(world, p), last'.lost).fp
    BY <1>2, PollIsAsked
  <2>3. last'.lost \in SUBSET Losses
    BY <1>1, <2>1, LossesAreLosses
  <2>4. Hushed(world, world)
    BY DEF Hushed, Heard, SameReport, Alike
  <2>5. {"isRequired", "isRequiredNode"} \cap last'.lost = {} =>
          \A q \in Orders : Ask(Arranged(world, q), last'.lost).fp = last'.fp
    BY <1>1, <2>2, <2>3, <2>4, HushedPollsAlike
  <2>. QED BY <1>1, <2>1, <2>5 DEF StillInv
<1>3. CASE \/ CheckReports \/ RollupAppears \/ ReviewChanges \/ DraftFlips
           \/ ConflictFlips \/ ThreadsMove \/ BaseAdvances \/ UpdateBranch
           \/ Recomputes \/ QueueTakes \/ QueueMoves \/ QueueEjects \/ MergesOrCloses
  <2>1. last' = last
    BY <1>3, LifeKeepsPolls
  <2>2. Quiet(world') /\ world'.pr = world.pr
    BY <1>1, <1>3, LifeKeepsQuiet
  <2>3. since' \in {"noise", "change"}
    BY <1>3 DEF CheckReports, RollupAppears, ReviewChanges, DraftFlips, ConflictFlips,
       ThreadsMove, BaseAdvances, UpdateBranch, Recomputes, QueueTakes, QueueMoves,
       QueueEjects, MergesOrCloses, Changes, Becomes
  <2>4. ASSUME Polled, since' # "change", {"isRequired", "isRequiredNode"} \cap last.lost = {},
               NEW q \in Orders
        PROVE  Ask(Arranged(world', q), last.lost).fp = last.fp
    <3>1. Hushed(world, world') /\ since # "change"
      BY <1>1, <1>3, <2>4, NoiseIsHushed
    <3>2. /\ last.lost \in LossSets[world.pr]
          /\ Ask(Arranged(world, q), last.lost).fp = last.fp
      BY <2>4, <3>1 DEF StillInv
    <3>3. last.lost \in SUBSET Losses
      BY <1>1, <3>2, LossesAreLosses
    <3>4. Ask(Arranged(world, q), last.lost).fp = Ask(Arranged(world', q), last.lost).fp
      BY <1>1, <2>2, <2>4, <3>1, <3>3, HushedPollsAlike
    <3>. QED BY <3>2, <3>4
  <2>5. Polled /\ since' # "change" /\ {"isRequired", "isRequiredNode"} \cap last.lost = {} =>
          last.lost \in LossSets[world'.pr]
    BY <1>1, <1>3, <2>2, NoiseIsHushed DEF StillInv
  <2>6. Polled' = Polled
    BY <2>1 DEF Polled
  <2>. QED BY <2>1, <2>2, <2>3, <2>4, <2>5, <2>6 DEF StillInv
<1>4. CASE UNCHANGED vars
  BY <1>4 DEF vars, StillInv, Polled
<1>. QED BY <1>2, <1>3, <1>4 DEF Next

\* A poll the loop is not to wake up for repeats the fingerprint.
LEMMA StillPollRepeats ==
  ASSUME StillInv, Poll, Polled, since # "change", last'.lost = last.lost,
         {"isRequired", "isRequiredNode"} \cap last.lost = {}
  PROVE  last'.fp = last.fp
<1>1. PICK order \in Orders : last'.fp = Ask(Arranged(world, order), last'.lost).fp
  BY PollIsAsked
<1>. QED BY <1>1 DEF StillInv

\* Noise wakes no loop: optional checks, a commit more behind the base and a
\* place in the merge queue leave the fingerprint as it is, as does the order
\* contexts come in, for every life, loss and number of checks, as long as
\* threads and checks fit on one page, GitHub decides mergeStateStatus together
\* with mergeable, checks of one name are required alike, a pull request in no
\* queue has no place in one, and no two checks of one kind and name fail, or
\* wait, in two ways, which WatchOrder is about (fingerprint's exclusions
\* and normalisations, the dedup of analyzeContexts).
THEOREM NoiseNeverWakes ==
  ASSUME QuietBirths
  PROVE  Spec => NoiseWakesNobody
<1>1. Init => StillInv
  BY StillInit
<1>2. StillInv /\ [Next]_vars => StillInv'
  BY StillStep
<1>3. StillInv /\ [Next]_vars =>
        [Polled /\ since # "change" /\ last'.lost = last.lost
         /\ {"isRequired", "isRequiredNode"} \cap last.lost = {}
         => last'.fp = last.fp]_last
  <2>. SUFFICES ASSUME StillInv, [Next]_vars, last' # last,
                       Polled, since # "change", last'.lost = last.lost,
                       {"isRequired", "isRequiredNode"} \cap last.lost = {}
                PROVE  last'.fp = last.fp
    OBVIOUS
  <2>1. Poll
    BY LifeKeepsPolls DEF Next, vars
  <2>. QED BY <2>1, StillPollRepeats
<1>. QED BY <1>1, <1>2, <1>3, PTL DEF Spec, NoiseWakesNobody

=============================================================================
