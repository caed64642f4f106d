-------------------------------- MODULE Watch --------------------------------
(***************************************************************************)
(* A babysit loop over prq: one pull request lives on GitHub while a loop  *)
(* polls it, compares fingerprints and acts again only when the            *)
(* fingerprint changed.  A poll is fetch.PR on facts of one instant, then  *)
(* Synthesize and exitForReport; Fetch looks inside it.                    *)
(***************************************************************************)
EXTENDS GitHub

CONSTANTS Births,       \* the states a pull request may be in at first
          Facets,       \* what may change afterwards, by pull request: names of actions
          Outcomes,     \* [status, conclusion, run] a check may report
          MaxThreads, MaxBehind,
          OneRound,     \* bound: nothing changes any more after the first poll
          LossSets,     \* what a partial answer may lose, by pull request
          Orders        \* permutations of 1..n: the order contexts come in

ASSUME WatchAssumption ==
  /\ Births \subseteq World
  /\ LossSets \in [PRs -> SUBSET SUBSET Losses]
  /\ DOMAIN Facets = PRs
  /\ Outcomes \subseteq
       [status : CheckStatuses \cup {"COMPLETED", ""},
        conclusion : FailedRuns \cup PassedRuns \cup StatusStates \cup {""}, run : Nat]
  /\ MaxThreads \in Nat /\ MaxBehind \in Nat /\ OneRound \in BOOLEAN

VARIABLES
  world,    \* the pull request on GitHub
  since,    \* what happened since the last poll: "nothing", "noise", "change"
  last,     \* the last poll: its fingerprint, what it calls for, what it lost
  belief    \* the poll the loop last acted on

vars == <<world, since, last, belief>>

Unpolled == [decision |-> [exit |-> -1]]

Init ==
  /\ world \in Births
  /\ since = "change"
  /\ last = Unpolled /\ belief = Unpolled

-----------------------------------------------------------------------------
(* Life on GitHub.  w is the pull request after the change; noise tells a  *)
(* change that design section 1.4 wants no loop to wake up for.            *)

Becomes(facet, noise, w) ==
  /\ facet \in Facets[world.pr]
  /\ world.state = "OPEN" /\ w # world
  /\ last = Unpolled \/ ~OneRound
  /\ world' = w
  /\ since' = IF noise /\ since # "change" THEN "noise" ELSE "change"
  /\ UNCHANGED <<last, belief>>

Changes(facet, w) == Becomes(facet, FALSE, w)

Reports(c, o) ==
  [c EXCEPT !.status = o.status, !.conclusion = o.conclusion, !.run = o.run]

CheckReports == \E p \in DOMAIN world.checks : \E c \in world.checks[p], o \in Outcomes :
  Becomes(IF c.required THEN "required" ELSE "optional", ~c.required,
          [world EXCEPT !.checks[p] = (@ \ {c}) \cup {Reports(c, o)}])

RollupAppears ==
  Changes("rollup", [world EXCEPT !.rollup = ~@])

ReviewChanges == \E d \in Decisions :
  Changes("review", [world EXCEPT !.review = d])

DraftFlips == Changes("draft", [world EXCEPT !.draft = ~@])

ConflictFlips == Changes("conflict", [world EXCEPT !.conflict = ~@])

ThreadsMove == \E n \in 0..MaxThreads :
  Changes("threads", [world EXCEPT !.threads = <<n>>])

\* The base branch advances, or the head branch is brought up to date.
BaseAdvances ==
  /\ world.behindBy < MaxBehind
  /\ Becomes("base", ~world.strict \/ world.behindBy > 0,
             [world EXCEPT !.behindBy = @ + 1])

UpdateBranch == Changes("update", [world EXCEPT !.behindBy = 0])

Recomputes ==
  Changes("computing", [world EXCEPT !.computing =
                          IF @ = {} THEN {"mergeable"} ELSE {}])

\* The merge queue takes the pull request, moves it up, ejects or loses it.
QueueTakes ==
  /\ world.queueEnabled /\ world.queue = NoQueue /\ Green(world)
  /\ Changes("queue", [world EXCEPT !.queue =
                         [state |-> "QUEUED", position |-> 2, eta |-> -1]])

QueueMoves ==
  /\ world.queue # NoQueue
  /\ \E s \in QueueStates \ {"UNMERGEABLE"} :
       Becomes("queue", world.queue.state # "UNMERGEABLE",
               [world EXCEPT !.queue = [state |-> s, position |-> 1,
                                        eta |-> IF s = "LOCKED" THEN 61 ELSE -1]])

QueueEjects ==
  /\ world.queue # NoQueue
  /\ \/ Changes("queue", [world EXCEPT !.queue.state = "UNMERGEABLE"])
     \/ Changes("queue", [world EXCEPT !.queue = NoQueue])

MergesOrCloses == \E s \in {"MERGED", "CLOSED"} :
  Changes("ends", [world EXCEPT !.state = s, !.queue = NoQueue])

-----------------------------------------------------------------------------
(* A poll. *)

Arranged(w, order) ==
  [w EXCEPT !.checks = [p \in DOMAIN @ |->
     {[c EXCEPT !.at = order[c.at]] : c \in @[p]}]]

\* What a loop does about a report: the exit code, the blockers but for the
\* commit count of a behind line, the checks it waits for.
Decision(r) ==
  [exit |-> ExitForReport(r), final |-> r.final, review |-> r.review,
   blockers |-> {NormBlocker(l) : l \in r.blockers},
   waits |-> {l.key : l \in {p \in r.pending : p.prec = Prec.check}}]

\* The loop takes a report in; it acts on it if the fingerprint is new.
Poll == \E l \in LossSets[world.pr], order \in Orders :
  \E node \in {FullAnswer(Arranged(world, order), l)} :
  \E in \in {Degrade(Normalize(node), Partial(ErrorFields(l)))} :
  \E r \in {Synthesize(in)} :
      /\ last' = [fp |-> r.fp, decision |-> Decision(r), lost |-> l]
      /\ belief' = IF belief # Unpolled /\ belief.fp = r.fp THEN belief ELSE last'
      /\ since' = "nothing"
      /\ UNCHANGED world

Next ==
  \/ CheckReports \/ RollupAppears \/ ReviewChanges \/ DraftFlips
  \/ ConflictFlips \/ ThreadsMove \/ BaseAdvances \/ UpdateBranch
  \/ Recomputes \/ QueueTakes \/ QueueMoves \/ QueueEjects \/ MergesOrCloses
  \/ Poll

Spec == Init /\ [][Next]_vars

\* The loop keeps polling.
FairSpec == Spec /\ WF_vars(Poll)

-----------------------------------------------------------------------------
(* Properties. *)

Polled == last # Unpolled

\* The last poll is about the pull request as it is now.
Fresh == since = "nothing"

\* The pull request and the last poll are well formed.
TypeOK ==
  /\ world \in World /\ since \in {"nothing", "noise", "change"}
  /\ Polled => /\ last.lost \in LossSets[world.pr]
               /\ last.decision.exit \in 0..3 /\ belief.decision.exit \in 0..3
               /\ last.fp.degraded \subseteq Tokens

\* A loop that sleeps while the fingerprint stands still misses nothing: what
\* it last acted on, however long ago, is what the latest report calls for
\* (fingerprint against exitForReport and the lists of the report).
NothingSleptThrough == Polled => belief.decision = last.decision

\* Noise wakes nobody: while nothing but noise happens between two polls, and
\* both answers lose the same parts, and required-ness is known, the
\* fingerprint stays, in whatever order the contexts come (fingerprint's
\* exclusions and normalisations, the dedup of analyzeContexts).
NoiseWakesNobody ==
  [][ Polled /\ since # "change" /\ last'.lost = last.lost
      /\ {"isRequired", "isRequiredNode"} \cap last.lost = {}
      => last'.fp = last.fp ]_last

\* Waiting alone brings the pull request to green.
Settled(w) ==
  [w EXCEPT !.computing = {},
            !.queue = IF @.state = "UNMERGEABLE" THEN @ ELSE NoQueue,
            !.checks = [p \in DOMAIN @ |->
              {IF Waiting(c) THEN [c EXCEPT !.status = "COMPLETED", !.conclusion = "SUCCESS"]
               ELSE c : c \in @[p]}]]

SomethingWaits(w) ==
  \/ w.computing # {} \/ w.queue # NoQueue
  \/ \E c \in Walk(w) : c.required /\ Waiting(c)

\* A complete answer about a pull request whose rules the token can read
\* exits 0 exactly if it is green, 2 if all it takes is to wait, and 2 only
\* if there is something to wait for (Synthesize and exitForReport).
ExitMeansWhatItSays ==
  Fresh /\ last.lost = {} /\ Shown(world) = world =>
    /\ last.decision.exit = 0 <=> Green(world)
    /\ ~Green(world) /\ world.state = "OPEN" /\ Green(Settled(world)) => last.decision.exit = 2
    /\ last.decision.exit = 2 => SomethingWaits(world)

\* A partial answer never makes an exit 0 of a pull request that is not green
\* (the known-flags PR flips, the degraded tokens, exitForReport's soft 3).
LossNeverGreens == Fresh /\ last.decision.exit = 0 => Green(Shown(world))

\* The report on w, had it been polled now.
Ask(w, l) == Synthesize(Degrade(Normalize(FullAnswer(w, l)), Partial(ErrorFields(l))))

\* A loop that keeps polling, and whose answers are complete in the end, acts
\* on the green a pull request settles in.
GreenIsActedOn ==
  <>[]Green(world) /\ <>[](Polled => last.lost = {}) => <>[](belief.decision.exit = 0)

-----------------------------------------------------------------------------
(* What docs and comments say and the code does not do. *)

\* design.md 1.4: the fingerprint is invariant under pagination order.  Of two
\* contexts equal in kind, name and badness the one met first is reported,
\* with its run id.
OrderNeverWakes ==
  \A p, q \in Orders : Ask(Arranged(world, p), {}).fp = Ask(Arranged(world, q), {}).fp

\* design.md 2.2: a required CheckRun with conclusion FAILURE is a blocker.
\* The dedup compares badness alone, so an optional namesake can stand for it.
RequiredFailureIsListed ==
  world.state = "OPEN" =>
    \A c \in Walk(world) : c.required /\ Failing(c) =>
      \E l \in Ask(world, {}).blockers : l.prec = Prec.check /\ l.key = c.name

=============================================================================
