------------------------------- MODULE GitHub -------------------------------
(***************************************************************************)
(* What prq talks to: the pull request as GitHub knows it, and the answers *)
(* the queries of internal/fetch/fetch.go get.  Nothing here is prq's own  *)
(* code; the shape follows the queries and the way fetch.go reads them.    *)
(***************************************************************************)
EXTENDS Node, Sequences

(***************************************************************************)
(* threads and checks are lists of pages; a context's "at" grows along the *)
(* pages.  computing says which of mergeable and mergeStateStatus GitHub   *)
(* has not decided yet; hidden, a rule the token cannot see blocks the     *)
(* merge; bprReadable, the branch protection rule is readable.             *)
(***************************************************************************)
World ==
  [pr : PRs, state : {"OPEN", "CLOSED", "MERGED"}, draft : BOOLEAN,
   conflict : BOOLEAN, computing : SUBSET {"mergeable", "mergeState"},
   review : Decisions, codeOwners : BOOLEAN, queueEnabled : BOOLEAN,
   queue : Queue, conversations : BOOLEAN, required : SUBSET Names,
   bprReadable : BOOLEAN, hidden : BOOLEAN, hooks : BOOLEAN, strict : BOOLEAN,
   behindBy : Nat, canUpdate : BOOLEAN, threads : Seq(Nat),
   rollup : BOOLEAN, checks : Seq(SUBSET Context)]

Pages(s) == UNION {s[i] : i \in DOMAIN s}
Walk(w) == IF w.rollup THEN Pages(w.checks) ELSE {}

Unresolved(w) == \E i \in DOMAIN w.threads : w.threads[i] > 0

RequiredDone(w) ==
  /\ \A c \in Walk(w) : c.required => Rank(c) = 0
  /\ w.required \subseteq {c.name : c \in Walk(w)}

ReviewDone(w) == w.review \in {"", "APPROVED"}

\* What still forbids the merge, computed by GitHub from everything it knows.
Forbidden(w) ==
  \/ w.draft
  \/ w.hidden
  \/ ~ReviewDone(w)
  \/ ~RequiredDone(w)
  \/ w.conversations /\ Unresolved(w)

Mergeable(w) ==
  IF w.state = "MERGED" \/ "mergeable" \in w.computing THEN "UNKNOWN"
  ELSE IF w.conflict THEN "CONFLICTING" ELSE "MERGEABLE"

\* A merge queue forbids the direct merge, so GitHub says BLOCKED until it has
\* taken the pull request, and it brings the branch up to date itself
\* (design.md, live checks 1 and 3).
MergeStateStatus(w) ==
  IF Mergeable(w) = "UNKNOWN" \/ "mergeState" \in w.computing THEN "UNKNOWN"
  ELSE IF w.conflict THEN "DIRTY"
  ELSE IF Forbidden(w) \/ (w.queueEnabled /\ w.queue.state = NoQueue.state) THEN "BLOCKED"
  ELSE IF w.strict /\ w.behindBy > 0 /\ ~w.queueEnabled THEN "BEHIND"
  ELSE IF \E c \in Walk(w) : Rank(c) > 0 THEN "UNSTABLE"
  ELSE IF w.hooks THEN "HAS_HOOKS" ELSE "CLEAN"

\* The pull request can be merged, or enqueued, as it stands.
Green(w) ==
  \/ w.state = "MERGED"
  \/ /\ w.state = "OPEN"
     /\ ~w.conflict
     /\ "mergeable" \notin w.computing
     /\ ~Forbidden(w)
     /\ w.queue.state = NoQueue.state
     /\ w.queueEnabled \/ ~w.strict \/ w.behindBy = 0

\* w without what no answer to this token shows.  Where there is no merge
\* queue BLOCKED by itself forbids the green, whatever its cause; where there
\* is one, BLOCKED is the normal state of a pull request ready to enqueue.
Shown(w) ==
  IF ~w.queueEnabled THEN w
  ELSE [w EXCEPT !.hidden = FALSE,
                 !.conversations = @ /\ w.bprReadable,
                 !.required = If(w.bprReadable, @)]

-----------------------------------------------------------------------------
(* Partial answers.  A loss names what an error item nulled; FieldOf gives *)
(* the last optional field of that item's path.                            *)

Losses == DOMAIN OptionalFields \cup {"threadNode", "isRequiredNode"}

FieldOf(l) == IF l = "threadNode" THEN "reviewThreads"
              ELSE IF l = "isRequiredNode" THEN "isRequired" ELSE l

ErrorFields(lost) == {FieldOf(l) : l \in lost}

RollupState(w) == IF \E c \in Walk(w) : Failing(c) THEN "FAILURE"
                  ELSE IF \E c \in Walk(w) : Waiting(c) THEN "PENDING"
                  ELSE "SUCCESS"

\* An errored thread decodes to one that is not resolved; an errored
\* isRequired is nulled alone or takes its whole node with it.
ThreadsAnswer(w, n, lost) ==
  IF "reviewThreads" \in lost THEN NoThreads
  ELSE [nodes |-> (IF n \in DOMAIN w.threads THEN w.threads[n] ELSE 0)
                  + (IF "threadNode" \in lost THEN 1 ELSE 0),
        hasNext |-> n < Len(w.threads)]

ContextsAnswer(w, n, lost) ==
  IF ~w.rollup \/ {"statusCheckRollup", "contexts"} \cap lost # {} THEN NoContexts
  ELSE LET nodes == IF n \in DOMAIN w.checks THEN w.checks[n] ELSE {}
       IN  [nodes |-> IF "isRequiredNode" \in lost
                      THEN {[c EXCEPT !.kind = ""] : c \in nodes}
                      ELSE IF "isRequired" \in lost
                           THEN {[c EXCEPT !.required = FALSE] : c \in nodes}
                           ELSE nodes,
            hasNext |-> n < Len(w.checks)]

FullAnswer(w, lost) ==
  LET rollup == w.rollup /\ "statusCheckRollup" \notin lost
      rule == w.bprReadable /\ "baseRef" \notin lost
  IN  [pr |-> w.pr, state |-> w.state, isDraft |-> w.draft,
       mergeable |-> Mergeable(w), mergeStateStatus |-> MergeStateStatus(w),
       reviewDecision |-> w.review, isMergeQueueEnabled |-> w.queueEnabled,
       viewerCanUpdateBranch |-> w.canUpdate,
       mergeQueueEntry |-> IF "mergeQueueEntry" \in lost THEN NoQueue ELSE w.queue,
       reviewRequests |-> IF "reviewRequests" \in lost THEN {} ELSE {w.codeOwners},
       reviewThreads |-> ThreadsAnswer(w, 1, lost),
       baseRef |->
         [compare |-> IF {"compare", "baseRef"} \cap lost = {} THEN w.behindBy ELSE -1,
          conversations |-> rule /\ w.conversations,
          required |-> If(rule, w.required)],
       statusCheckRollup |->
         [present |-> rollup, state |-> IF rollup THEN RollupState(w) ELSE "",
          contexts |-> ContextsAnswer(w, 1, lost)]]

=============================================================================
