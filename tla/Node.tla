-------------------------------- MODULE Node --------------------------------
(***************************************************************************)
(* The answer to the full query (prNode of internal/fetch/fetch.go), the   *)
(* tokens a partial GraphQL error leaves behind (internal/gh/client.go),   *)
(* and normalize, which turns the answer into the synthesizer's Input.     *)
(***************************************************************************)
EXTENDS Synth

\* A rollup node; kind "" is a nulled one, which decodes to no __typename.
\* A required-ness the answer does not carry (nil) is FALSE.
CtxNode == ContextOf({"check", "status", ""})

\* A page of threads is the number of its nodes not marked resolved.
ThreadPage == [nodes : Nat, hasNext : BOOLEAN]
ContextPage == [nodes : SUBSET CtxNode, hasNext : BOOLEAN]
NoThreads == [nodes |-> 0, hasNext |-> FALSE]
NoContexts == [nodes |-> {}, hasNext |-> FALSE]

\* compare is -1 where the answer has no comparison; an unreadable branch
\* protection rule is one that asks for nothing.
PRNode ==
  [pr : PRs, state : {"OPEN", "CLOSED", "MERGED"}, isDraft : BOOLEAN,
   mergeable : {"MERGEABLE", "CONFLICTING", "UNKNOWN", ""},
   mergeStateStatus : MergeStates, reviewDecision : Decisions,
   isMergeQueueEnabled : BOOLEAN, viewerCanUpdateBranch : BOOLEAN,
   mergeQueueEntry : Queue, reviewRequests : SUBSET BOOLEAN,
   reviewThreads : ThreadPage,
   baseRef : [compare : Nat \cup {-1}, conversations : BOOLEAN,
              required : SUBSET Names],
   statusCheckRollup : [present : BOOLEAN, state : StatusStates \cup {""},
                        contexts : ContextPage]]

-----------------------------------------------------------------------------
\* The fields prq can answer without, and the token their loss leaves.
OptionalFields ==
  [reviewThreads |-> "threads", statusCheckRollup |-> "checks",
   contexts |-> "checks", isRequired |-> "required",
   mergeQueueEntry |-> "merge_state", compare |-> "", baseRef |-> "",
   reviewRequests |-> ""]

\* A bug the runs tell apart: silent losses leave the empty token.
PartialWithSilent(fields) == {OptionalFields[f] : f \in fields}

\* fields: for each error item, the last optional field of its path.
Partial(fields) == {OptionalFields[f] : f \in fields} \ {""}

-----------------------------------------------------------------------------
AppendContexts(dst, nodes) == dst \cup {n \in nodes : n.kind # ""}

Normalize(node) ==
  [pr |-> node.pr, prState |-> node.state, isDraft |-> node.isDraft,
   mergeable |-> node.mergeable, mergeState |-> node.mergeStateStatus,
   reviewDecision |-> node.reviewDecision,
   codeOwnerWait |-> TRUE \in node.reviewRequests,
   behindBy |-> node.baseRef.compare, canUpdate |-> node.viewerCanUpdateBranch,
   queueEnabled |-> node.isMergeQueueEnabled, queue |-> node.mergeQueueEntry,
   rollupPresent |-> node.statusCheckRollup.present,
   rollupState |-> node.statusCheckRollup.state,
   contexts |-> AppendContexts({}, node.statusCheckRollup.contexts.nodes),
   requiredKnown |-> TRUE, missingRequired |-> node.baseRef.required,
   convResolution |-> node.baseRef.conversations,
   unresolvedThreads |-> node.reviewThreads.nodes, threadsKnown |-> TRUE,
   degraded |-> {}]

\* A bug the runs tell apart: the flags flip and the tokens are dropped.
DegradeFlagsOnly(in, tokens) ==
  [in EXCEPT !.requiredKnown = @ /\ "required" \notin tokens,
             !.threadsKnown = @ /\ "threads" \notin tokens,
             !.unresolvedThreads = IF "threads" \in tokens THEN 0 ELSE @]

\* The facts a partial error reached are missing, not merely thin.
Degrade(in, tokens) ==
  [in EXCEPT !.degraded = @ \cup tokens,
             !.requiredKnown = @ /\ "required" \notin tokens,
             !.threadsKnown = @ /\ "threads" \notin tokens,
             !.unresolvedThreads = IF "threads" \in tokens THEN 0 ELSE @]

=============================================================================
