---------------------------- MODULE SynthProofs ----------------------------
(***************************************************************************)
(* What holds of the verdict for every input.                              *)
(***************************************************************************)
EXTENDS Synth, TLAPS

-----------------------------------------------------------------------------
(* The fingerprint says enough. *)

\* The exit code and the finality of a report, read off its fingerprint.
FinalOf(fp) == fp.state \in {"MERGED", "CLOSED"}
ExitOf(fp) ==
  IF fp.state \in {"BLOCKED", "CLOSED"} THEN 1
  ELSE IF fp.degraded # {} /\ fp.state # "MERGED" THEN 3
  ELSE IF fp.state \in {"PENDING", "QUEUED", "UNKNOWN"} THEN 2
  ELSE 0

\* The verdict of an open pull request is one of the six open states
\* (the state switch of Synthesize).
LEMMA OpenStates ==
  ASSUME NEW in, NEW blockers, NEW pending
  PROVE  StateOf(in, blockers, pending) \in
           {"BLOCKED", "QUEUED", "UNKNOWN", "PENDING", "UNSTABLE", "CLEAN"}
BY DEF StateOf

\* The exit code is a function of the fingerprint: two polls with equal
\* fingerprints have equal exit codes and are both final or both not
\* (fingerprint against exitForReport).
THEOREM FingerprintDeterminesExit ==
  ASSUME NEW in
  PROVE  LET r == Synthesize(in)
         IN  ExitForReport(r) = ExitOf(r.fp) /\ r.final = FinalOf(r.fp)
<1>1. CASE in.prState \in {"MERGED", "CLOSED"}
  <2>1. /\ Synthesize(in).state = in.prState
        /\ Synthesize(in).final = TRUE
        /\ Synthesize(in).fp.state = in.prState
        /\ Synthesize(in).fp.degraded = Synthesize(in).degraded
    BY <1>1 DEF Synthesize, TerminalReport, Fingerprint, HashedState
  <2>. QED BY <1>1, <2>1 DEF ExitForReport, ExitOf, FinalOf
<1>2. CASE in.prState \notin {"MERGED", "CLOSED"}
  <2>1. Synthesize(in).state \in
          {"BLOCKED", "QUEUED", "UNKNOWN", "PENDING", "UNSTABLE", "CLEAN"}
    BY <1>2, OpenStates DEF Synthesize, OpenReport
  <2>2. /\ Synthesize(in).final = FALSE
        /\ Synthesize(in).fp.state = HashedState(Synthesize(in).state)
        /\ Synthesize(in).fp.degraded = Synthesize(in).degraded
    BY <1>2 DEF Synthesize, OpenReport, Fingerprint
  <2>. DEFINE r == Synthesize(in)
  <2>3. /\ r.state \in {"BLOCKED", "QUEUED", "UNKNOWN", "PENDING", "UNSTABLE", "CLEAN"}
        /\ r.final = FALSE
        /\ r.fp.state = IF r.state = "UNSTABLE" THEN "CLEAN" ELSE r.state
        /\ r.fp.degraded = r.degraded
    BY <2>1, <2>2 DEF HashedState
  <2>. HIDE DEF r
  <2>4. ExitForReport(r) = ExitOf(r.fp)
    BY <2>3 DEF ExitForReport, ExitOf
  <2>5. FinalOf(r.fp) = FALSE
    BY <2>3 DEF FinalOf
  <2>. QED BY <2>3, <2>4, <2>5 DEF r
<1>. QED BY <1>1, <1>2

\* So are the blockers, but for the commit count of a behind line, the checks
\* that are waited for and the review decision (fingerprint's parts).
THEOREM FingerprintKeepsLists ==
  ASSUME NEW in
  PROVE  LET r == Synthesize(in)
         IN  /\ {NormBlocker(l) : l \in r.blockers} = DOMAIN r.fp.blockers
             /\ {l.key : l \in {p \in r.pending : p.prec = Prec.check}}
                  = DOMAIN r.fp.pending
             /\ r.review = r.fp.review
<1>. DEFINE r == Synthesize(in)
<1>1. /\ r.fp.blockers = Tally([l \in r.blockers |-> NormBlocker(l)])
      /\ r.fp.pending = Tally([l \in {p \in r.pending : p.prec = Prec.check} |-> l.key])
      /\ r.review = r.fp.review
  <2>1. CASE in.prState \in {"MERGED", "CLOSED"}
    BY <2>1 DEF Synthesize, TerminalReport, Fingerprint
  <2>2. CASE in.prState \notin {"MERGED", "CLOSED"}
    BY <2>2 DEF Synthesize, OpenReport, Fingerprint
  <2>. QED BY <2>1, <2>2
<1>. HIDE DEF r
<1>2. DOMAIN r.fp.blockers = {NormBlocker(l) : l \in r.blockers}
  BY <1>1 DEF Tally
<1>3. DOMAIN r.fp.pending = {l.key : l \in {p \in r.pending : p.prec = Prec.check}}
  BY <1>1 DEF Tally
<1>. QED BY <1>1, <1>2, <1>3 DEF r

-----------------------------------------------------------------------------
(* What an exit 0 means. *)

\* Everything the verdict on an open pull request must have seen, and seen
\* completely, before it is green.
NothingInTheWay(in) ==
  /\ ~in.isDraft
  /\ in.reviewDecision \in {"", "APPROVED"}
  /\ in.mergeable \notin {"CONFLICTING", "UNKNOWN"}
  /\ in.mergeState \notin {"DIRTY", "BEHIND"}
  /\ ~Queued(in)
  /\ \A c \in Required(in) : Rank(c) = 0
  /\ in.mergeState \in {"BLOCKED", ""} =>
       in.missingRequired \subseteq {c.name : c \in in.contexts}
  /\ in.convResolution => in.unresolvedThreads = 0
  /\ in.mergeState = "BLOCKED" => in.queueEnabled
  /\ in.degraded = {} /\ in.threadsKnown
  /\ in.requiredKnown \/ in.contexts = {}

\* A union of sets of lines is empty where each of them is.
LEMMA NoLines ==
  ASSUME NEW in \in Input
  PROVE  /\ DraftLines(in) = {} <=> ~in.isDraft
         /\ ReviewLines(in) = {} <=> in.reviewDecision \in {"", "APPROVED"}
         /\ ConflictLines(in) = {}
              <=> in.mergeable # "CONFLICTING" /\ in.mergeState # "DIRTY"
         /\ BehindLines(in) = {} <=> ~IsBehind(in)
         /\ ThreadLines(in) = {} <=> ~(in.unresolvedThreads > 0 /\ in.convResolution)
         /\ EjectedLines(in) = {} <=> in.queue.state # "UNMERGEABLE"
         /\ QueueLines(in) = {} <=> ~Queued(in) \/ in.queue.state = "UNMERGEABLE"
         /\ ComputingLines(in) = {} <=> in.mergeable # "UNKNOWN"
<1>1. in.reviewDecision \in Decisions
  BY DEF Input
<1>. QED
  BY <1>1 DEF If, DraftLines, ReviewLines, ConflictLines, BehindLines, ThreadLines,
     EjectedLines, QueueLines, ComputingLines, Decisions

LEMMA NoCheckLines ==
  ASSUME NEW in
  PROVE  /\ CheckBlockers(in) = {} <=> \A c \in Required(in) : ~Failing(c)
         /\ CheckPending(in) = {} <=> \A c \in Required(in) : ~Waiting(c)
         /\ MissingLines(in) = {} <=>
              (in.mergeState \in {"BLOCKED", ""} =>
                in.missingRequired \subseteq {c.name : c \in in.contexts})
BY DEF CheckBlockers, CheckPending, MissingLines, If

LEMMA NoBlockers ==
  ASSUME NEW in \in Input
  PROVE  DecomposedBlockers(in) = {} <=>
           /\ ~in.isDraft
           /\ in.reviewDecision \in {"", "APPROVED"}
           /\ in.mergeable # "CONFLICTING" /\ in.mergeState # "DIRTY"
           /\ ~IsBehind(in)
           /\ ~(in.unresolvedThreads > 0 /\ in.convResolution)
           /\ in.queue.state # "UNMERGEABLE"
           /\ \A c \in Required(in) : ~Failing(c)
           /\ in.mergeState \in {"BLOCKED", ""} =>
                in.missingRequired \subseteq {c.name : c \in in.contexts}
<1>1. DecomposedBlockers(in) = {} <=>
        /\ DraftLines(in) = {} /\ ReviewLines(in) = {} /\ CheckBlockers(in) = {}
        /\ MissingLines(in) = {} /\ ConflictLines(in) = {} /\ BehindLines(in) = {}
        /\ ThreadLines(in) = {} /\ EjectedLines(in) = {}
  BY DEF DecomposedBlockers
<1>. QED BY <1>1, NoLines, NoCheckLines

LEMMA NoPending ==
  ASSUME NEW in \in Input
  PROVE  DecomposedPending(in) = {} <=>
           /\ \A c \in Required(in) : ~Waiting(c)
           /\ ~Queued(in) \/ in.queue.state = "UNMERGEABLE"
           /\ in.mergeable # "UNKNOWN"
<1>1. DecomposedPending(in) = {} <=>
        CheckPending(in) = {} /\ QueueLines(in) = {} /\ ComputingLines(in) = {}
  BY DEF DecomposedPending
<1>. QED BY <1>1, NoLines, NoCheckLines

\* Exit 0 on an open pull request is earned and never withheld: the code is 0
\* exactly where nothing stands in the way and every fact the verdict rests
\* on was read completely (Synthesize, finish, exitForReport).
THEOREM ExitZeroIsEarned ==
  ASSUME NEW in \in Input, in.prState = "OPEN"
  PROVE  ExitForReport(Synthesize(in)) = 0 <=> NothingInTheWay(in)
<1>. DEFINE D == DecomposedBlockers(in)
            P == DecomposedPending(in)
            B == D \cup ResidualLines(in, D, P)
            r == Synthesize(in)
            Complete == /\ in.degraded = {} /\ in.threadsKnown
                        /\ in.requiredKnown \/ in.contexts = {}
<1>1. /\ r.state = StateOf(in, B, P)
      /\ r.final = FALSE
      /\ r.degraded = in.degraded \cup FinishTokens(in)
                        \cup If(IsBehind(in) /\ in.behindBy <= 0, {"behind"})
  BY DEF Synthesize, OpenReport
<1>2. ExitForReport(r) = 0 <=> r.state \in {"CLEAN", "UNSTABLE"} /\ r.degraded = {}
  <2>1. r.state \in {"BLOCKED", "QUEUED", "UNKNOWN", "PENDING", "UNSTABLE", "CLEAN"}
    BY <1>1, OpenStates
  <2>. HIDE DEF r
  <2>. QED BY <1>1, <2>1 DEF ExitForReport
<1>3. r.state \in {"CLEAN", "UNSTABLE"} <=>
        B = {} /\ P = {} /\ ~Queued(in) /\ in.mergeable # "UNKNOWN"
  <2>1. P = {} => in.mergeable # "UNKNOWN"
    BY NoPending
  <2>2. in.queue.state = "UNMERGEABLE" => Queued(in)
    BY DEF Queued
  <2>. HIDE DEF B, P, r
  <2>. QED BY <1>1, <2>1, <2>2 DEF StateOf
<1>4. B = {} /\ P = {} <=>
        D = {} /\ P = {} /\ (in.mergeState = "BLOCKED" => ReadyToEnqueue(in, D, P))
  <2>. HIDE DEF D, P
  <2>. QED BY DEF ResidualLines, NothingVisible, If
<1>5. in.threadsKnown \in BOOLEAN /\ in.requiredKnown \in BOOLEAN
  BY DEF Input
<1>6. r.degraded = {} <=> Complete /\ ~(IsBehind(in) /\ in.behindBy <= 0)
  <2>. HIDE DEF r
  <2>. QED BY <1>1, <1>5 DEF FinishTokens, If
<1>7. \A c \in Required(in) : Rank(c) = 0 <=> ~Failing(c) /\ ~Waiting(c)
  BY DEF Rank
<1>8. ~(in.unresolvedThreads > 0 /\ in.convResolution)
        <=> (in.convResolution => in.unresolvedThreads = 0)
  <2>1. in.unresolvedThreads > 0 <=> in.unresolvedThreads # 0
    <3>1. in.unresolvedThreads \in Nat
      BY DEF Input
    <3>. QED BY <3>1
  <2>. QED BY <2>1, Zenon
<1>9. ReadyToEnqueue(in, D, P) <=>
        /\ in.mergeState = "BLOCKED" /\ D = {} /\ P = {} /\ in.queueEnabled
        /\ in.reviewDecision \in {"", "APPROVED"} /\ ~Queued(in)
  BY DEF ReadyToEnqueue, NothingVisible
<1>10. ExitForReport(r) = 0 <=>
         /\ D = {} /\ P = {} /\ (in.mergeState = "BLOCKED" => ReadyToEnqueue(in, D, P))
         /\ ~Queued(in) /\ in.mergeable # "UNKNOWN"
         /\ Complete /\ ~(IsBehind(in) /\ in.behindBy <= 0)
  <2>. HIDE DEF B, D, P, r, Complete
  <2>. QED BY <1>2, <1>3, <1>4, <1>6
<1>11. ExitForReport(r) = 0 => NothingInTheWay(in)
  <2>. SUFFICES ASSUME ExitForReport(r) = 0 PROVE NothingInTheWay(in)
    OBVIOUS
  <2>1. D = {} /\ P = {} /\ ~Queued(in) /\ in.mergeable # "UNKNOWN" /\ Complete
    BY <1>10
  <2>2. in.mergeState = "BLOCKED" => in.queueEnabled
    BY <1>9, <1>10
  <2>3. in.mergeState # "BEHIND"
    BY <2>1, NoBlockers DEF IsBehind
  <2>4. ~(in.unresolvedThreads > 0 /\ in.convResolution)
    BY <2>1, NoBlockers
  <2>5. \A c \in Required(in) : Rank(c) = 0
    BY <1>7, <2>1, NoBlockers, NoPending
  <2>. QED BY <1>8, <2>1, <2>2, <2>3, <2>4, <2>5, NoBlockers DEF NothingInTheWay
<1>12. NothingInTheWay(in) => ExitForReport(r) = 0
  <2>. SUFFICES ASSUME NothingInTheWay(in) PROVE ExitForReport(r) = 0
    OBVIOUS
  <2>1. ~IsBehind(in) /\ in.queue.state # "UNMERGEABLE"
    BY DEF NothingInTheWay, IsBehind, Queued
  <2>2. \A c \in Required(in) : ~Failing(c) /\ ~Waiting(c)
    BY <1>7 DEF NothingInTheWay
  <2>3. ~(in.unresolvedThreads > 0 /\ in.convResolution)
    BY <1>8, Zenon DEF NothingInTheWay
  <2>4. D = {}
    BY <2>1, <2>2, <2>3, NoBlockers DEF NothingInTheWay
  <2>5. P = {}
    BY <2>2, NoPending DEF NothingInTheWay
  <2>6. in.mergeState = "BLOCKED" => ReadyToEnqueue(in, D, P)
    BY <1>9, <2>4, <2>5 DEF NothingInTheWay
  <2>7. ~Queued(in) /\ in.mergeable # "UNKNOWN" /\ Complete
    BY DEF NothingInTheWay
  <2>. HIDE DEF D, P, r, Complete
  <2>. QED BY <1>10, <2>1, <2>4, <2>5, <2>6, <2>7
<1>. QED BY <1>11, <1>12

-----------------------------------------------------------------------------
(* What the invocation relies on. *)

\* An open pull request whose mergeability is not decided is never green,
\* whatever else its report says (the computing entry, rules 6 and 7).
LEMMA UndecidedIsNotGreen ==
  ASSUME NEW in, in.prState = "OPEN", in.mergeable = "UNKNOWN"
  PROVE  ExitForReport(Synthesize(in)) # 0
<1>. DEFINE D == DecomposedBlockers(in)
            P == DecomposedPending(in)
            B == D \cup ResidualLines(in, D, P)
            r == Synthesize(in)
<1>1. r.state = StateOf(in, B, P) /\ r.final = FALSE
  BY DEF Synthesize, OpenReport
<1>2. P # {}
  BY DEF DecomposedPending, ComputingLines, If
<1>3. r.state \in {"BLOCKED", "QUEUED", "UNKNOWN", "PENDING"}
  <2>. HIDE DEF B, P, r
  <2>. QED BY <1>1, <1>2 DEF StateOf
<1>. HIDE DEF r
<1>4. ExitForReport(r) # 0
  BY <1>1, <1>3 DEF ExitForReport
<1>. QED BY <1>4 DEF r

\* The report adds to the tokens of the fetch those of the unknown facts it
\* rests on, and "behind" at most (finish, the behind row of decompose).
LEMMA ReportTokens ==
  ASSUME NEW in
  PROVE  /\ in.degraded \cup FinishTokens(in) \subseteq Synthesize(in).degraded
         /\ Synthesize(in).degraded
              \subseteq in.degraded \cup FinishTokens(in) \cup {"behind"}
<1>1. CASE in.prState \in {"MERGED", "CLOSED"}
  <2>1. Synthesize(in).degraded = in.degraded \cup FinishTokens(in)
    BY <1>1 DEF Synthesize, TerminalReport
  <2>. QED BY <2>1
<1>2. CASE in.prState \notin {"MERGED", "CLOSED"}
  <2>1. Synthesize(in).degraded =
          in.degraded \cup FinishTokens(in)
          \cup If(IsBehind(in) /\ in.behindBy <= 0, {"behind"})
    BY <1>2 DEF Synthesize, OpenReport
  <2>. QED BY <2>1 DEF If
<1>. QED BY <1>1, <1>2

=============================================================================
