-------------------------------- MODULE Mine --------------------------------
(***************************************************************************)
(* prq --mine: fetch.Mine (internal/fetch/mine.go) request by request, one *)
(* search for the caller's pull requests and one query per chunk of those  *)
(* whose checks matter, then the rows and the exit code of runMine         *)
(* (cmd/prq/run.go).  Pull requests move between two requests; requests    *)
(* fail or answer in part; writing a row may fail.                         *)
(*                                                                         *)
(* A pull request is its rank in the order of the rows: repository, then   *)
(* number.  Rank 0 is a search node that decodes to no pull request.       *)
(***************************************************************************)
EXTENDS GitHub, Lists

CONSTANTS Boards,       \* what the search may find, in the order it finds it
          Worlds,       \* the states a pull request may move to
          Limit,        \* --limit
          ChunkSize,    \* aliases per detail query
          ErrorSets,    \* the error items a search may come with
          DetailLosses, \* what a detail answer may lose of one pull request
          MaxMoves      \* bound: how often a pull request moves during a poll

NoPR == [pr |-> 0]

\* at: the search node the error item is about, 0 for none; loss: what it
\* nulled; climbs: the null took the whole node; thread: the thread it names.
ErrorItem == [at : Nat, loss : Losses, climbs : BOOLEAN, thread : Nat]

\* The search lists a pull request once.
OnceEach(b) ==
  \A i, j \in DOMAIN b : b[i].pr # 0 /\ b[i].pr = b[j].pr => i = j

ASSUME MineAssumption ==
  /\ PRs \subseteq Nat \ {0}
  /\ Worlds \subseteq World
  /\ Boards \subseteq Seq(Worlds \cup {NoPR})
  /\ \A b \in Boards : OnceEach(b)
  /\ Limit \in Nat /\ ChunkSize \in Nat \ {0} /\ MaxMoves \in Nat
  /\ ErrorSets \subseteq SUBSET ErrorItem
  /\ DetailLosses \subseteq SUBSET Losses

VARIABLES
  board,      \* the pull requests on GitHub, in the order of the search
  pc,         \* the next step of the invocation
  inputs,     \* the synthesizer's inputs
  idx,        \* the positions in inputs whose detail is still to be asked for
  rows,       \* the rows written, with the exit code of each
  worst,      \* the worst exit code so far, then the final one
  cut,        \* the line that says the board was truncated is written
  view,       \* history: each input's pull request, as the answers describe it
  searched,   \* history: the inputs' pull requests, as the search found them
  errors,     \* history: the error items of the search
  unread,     \* history: pull requests whose detail could not be had
  maimed,     \* history: pull requests whose detail came with an error item
  moved,      \* history: how often a pull request has moved since the search
  asked       \* history: the chunks asked for, as sets of pull requests

code == <<pc, inputs, idx, rows, worst, cut>>
history == <<view, searched, errors, unread, maimed, moved, asked>>
vars == <<board, code, history>>

Init ==
  /\ board \in Boards
  /\ pc = "search" /\ inputs = <<>> /\ idx = <<>>
  /\ rows = <<>> /\ worst = 0 /\ cut = FALSE
  /\ view = <<>> /\ searched = {} /\ errors = {} /\ unread = {} /\ maimed = {}
  /\ moved = 0 /\ asked = <<>>

-----------------------------------------------------------------------------
(* The search and its partial errors. *)

Smaller(m, n) == IF m < n THEN m ELSE n

Found == SubSeq(board, 1, Smaller(Limit, Len(board)))

\* The search asks for no comparison, no rule, no review request and no check.
SearchNode(w, lost) ==
  [FullAnswer(w, lost) EXCEPT
     !.viewerCanUpdateBranch = FALSE, !.mergeQueueEntry.eta = -1,
     !.reviewRequests = {},
     !.baseRef = [compare |-> -1, conversations |-> FALSE, required |-> {}],
     !.statusCheckRollup.contexts = NoContexts]

SearchNodes(errs) ==
  [i \in DOMAIN Found |->
     LET mine == {e \in errs : e.at = i}
     IN  IF Found[i].pr = 0 \/ \E e \in mine : e.climbs THEN NoPR
         ELSE SearchNode(Found[i], {e.loss : e \in mine})]

IsPR(node) == node.pr # 0
PRNodes(nodes) == {i \in DOMAIN nodes : IsPR(nodes[i])}

Coarse(node) ==
  [Normalize(node) EXCEPT
     !.requiredKnown = FALSE,
     !.degraded = If(node.reviewThreads.hasNext, {"threads_truncated"})]

\* nodeToInput: where node i of the search ends up among the inputs.
NodeToInput(nodes, i) == Cardinality({j \in 1..i : IsPR(nodes[j])})

\* The node a path names: the innermost index that follows a "nodes".
ItemNode(e) == IF e.loss = "threadNode" THEN e.thread ELSE e.at

\* A bug the runs tell apart: nodes and inputs are taken to be the same list.
HitsByPosition(nodes, e, i) == ItemNode(e) \in {0, i}

Hits(nodes, e, i) ==
  \/ ItemNode(e) = 0
  \/ /\ ItemNode(e) \in DOMAIN nodes /\ IsPR(nodes[ItemNode(e)])
     /\ NodeToInput(nodes, ItemNode(e)) = i

Attributed(nodes, errs) ==
  LET found == Filtered(nodes, PRNodes(nodes))
  IN  [i \in DOMAIN found |->
         Degrade(Coarse(found[i]),
                 Partial({FieldOf(e.loss) : e \in {f \in errs : Hits(nodes, f, i)}}))]

NeedsDetail(in) ==
  in.rollupPresent /\ (in.rollupState # "SUCCESS" \/ in.mergeState = "BLOCKED")

\* A bug the runs tell apart: positions of the list before it was filtered.
SelectedOffByOne(ins) == InOrder({i + 1 : i \in {n \in DOMAIN ins : NeedsDetail(ins[n])}})

Selected(ins) == InOrder({i \in DOMAIN ins : NeedsDetail(ins[i])})

\* The search asked node e.at for what the item is about.
Possible(e) == e.at # 0 => e.at \in DOMAIN Found /\ IsPR(Found[e.at])

SearchAnswers ==
  /\ pc = "search"
  /\ \E errs \in {E \in ErrorSets : \A e \in E : Possible(e)} :
       LET nodes == SearchNodes(errs)
       IN  /\ errors' = errs
           /\ inputs' = Attributed(nodes, errs)
           /\ idx' = Selected(inputs')
           /\ view' = Filtered(Found, PRNodes(nodes))
           /\ searched' = {Found[i] : i \in PRNodes(nodes)}
  /\ pc' = "detail"
  /\ UNCHANGED <<board, rows, worst, cut, unread, maimed, moved, asked>>

SearchFails ==
  /\ pc = "search"
  /\ worst' \in {3, 4}
  /\ pc' = "done"
  /\ UNCHANGED <<board, inputs, idx, rows, cut, history>>

-----------------------------------------------------------------------------
(* resolveDetail: one query per chunk. *)

\* A bug the runs tell apart: the last alias of a chunk is asked for again.
ChunkOverlapping == {idx[k] : k \in 1..Smaller(ChunkSize + 1, Len(idx))}

Chunk == {idx[k] : k \in 1..Smaller(ChunkSize, Len(idx))}

Asks ==
  /\ pc = "detail" /\ idx # <<>>
  /\ idx' = SubSeq(idx, ChunkSize + 1, Len(idx))
  /\ asked' = Append(asked, {inputs[i].pr : i \in Chunk})

Now(pr) == CHOOSE w \in {board[i] : i \in DOMAIN board} : w.pr = pr

Without(in) == [in EXCEPT !.degraded = @ \cup {"required"}]

\* A bug the runs tell apart: the contexts are filled in and their
\* required-ness is still taken for unknown.
DetailedFlagForgotten(in, page) ==
  [in EXCEPT !.contexts = AppendContexts({}, page.nodes),
             !.degraded = @ \cup If(page.hasNext, {"checks_truncated"})]

Detailed(in, page) ==
  [in EXCEPT !.contexts = AppendContexts({}, page.nodes),
             !.requiredKnown = TRUE,
             !.degraded = @ \cup If(page.hasNext, {"checks_truncated"})]

\* A lost connection of contexts takes the rollup with it, whose field may not
\* be null (design.md 3.1), and a rollup that is nil is what the code tests.
DetailAnswers ==
  /\ Asks
  /\ \E lost \in [Chunk -> DetailLosses] :
       LET now(i) == Now(inputs[i].pr)
           gone(i) == ~now(i).rollup
                      \/ {"statusCheckRollup", "contexts"} \cap lost[i] # {}
           read == {i \in Chunk : ~gone(i)}
       IN  /\ inputs' = [i \in DOMAIN inputs |->
                           IF i \notin Chunk THEN inputs[i]
                           ELSE IF i \in read
                           THEN Detailed(inputs[i], ContextsAnswer(now(i), 1, lost[i]))
                           ELSE Without(inputs[i])]
           /\ view' = [i \in DOMAIN view |->
                         IF i \in read
                         THEN [view[i] EXCEPT !.checks = now(i).checks] ELSE view[i]]
           /\ unread' = unread \cup {inputs[i].pr : i \in Chunk \ read}
           /\ maimed' = maimed \cup {inputs[i].pr : i \in {c \in read : lost[c] # {}}}
  /\ UNCHANGED <<board, pc, rows, worst, cut, searched, errors, moved>>

\* A bug the runs tell apart: a failed chunk leaves no token.
DetailFailsSilently ==
  /\ Asks
  /\ unread' = unread \cup {inputs[i].pr : i \in Chunk}
  /\ UNCHANGED <<board, pc, inputs, rows, worst, cut, view, searched, errors, maimed,
                 moved>>

DetailFails ==
  /\ Asks
  /\ inputs' = [i \in DOMAIN inputs |->
                  IF i \in Chunk THEN Without(inputs[i]) ELSE inputs[i]]
  /\ unread' = unread \cup {inputs[i].pr : i \in Chunk}
  /\ UNCHANGED <<board, pc, rows, worst, cut, view, searched, errors, maimed, moved>>

\* The positions in inputs by repository and number; the sort is stable.
Lower(i, j) == \/ inputs[i].pr < inputs[j].pr
               \/ inputs[i].pr = inputs[j].pr /\ i < j
RowOrder ==
  Ranked(DOMAIN inputs, {p \in (DOMAIN inputs) \X (DOMAIN inputs) : Lower(p[1], p[2])})

Arrange ==
  /\ pc = "detail" /\ idx = <<>>
  /\ inputs' = [k \in DOMAIN RowOrder |-> inputs[RowOrder[k]]]
  /\ view' = [k \in DOMAIN RowOrder |-> view[RowOrder[k]]]
  /\ pc' = "rows"
  /\ UNCHANGED <<board, idx, rows, worst, cut, searched, errors, unread, maimed, moved,
                 asked>>

-----------------------------------------------------------------------------
(* runMine: the rows, the truncation line, the exit code. *)

Summarize(in) ==
  [Synthesize(in) EXCEPT !.nonBlocking = {}, !.checks = NoChecks, !.queue.eta = 0]

\* A bug the runs tell apart: the worst exit code is the greatest.
RankByNumber(exit) == exit

RollupRank(exit) == CASE exit = 3 -> 3 [] exit = 1 -> 2 [] exit = 2 -> 1 [] OTHER -> 0

WriteRow ==
  /\ pc = "rows" /\ Len(rows) < Len(inputs)
  /\ LET row == Summarize(inputs[Len(rows) + 1])
         exit == ExitForReport(row)
     IN  /\ rows' = Append(rows, [exit |-> exit, report |-> row])
         /\ worst' = IF RollupRank(exit) > RollupRank(worst) THEN exit ELSE worst
  /\ UNCHANGED <<board, pc, inputs, idx, cut, history>>

\* A bug the runs tell apart: only the limit cuts a board.
CutByLimit == Len(board) > Limit

\* res.Truncated compares what the search counted with the inputs it gave.
Truncated == Len(board) > Len(inputs)

WriteLastLine ==
  /\ pc = "rows" /\ Len(rows) = Len(inputs)
  /\ cut' = Truncated
  /\ pc' = "done"
  /\ UNCHANGED <<board, inputs, idx, rows, worst, history>>

\* Rows already written stay written.
WriteFails ==
  /\ pc = "rows" /\ (Len(rows) < Len(inputs) \/ Truncated)
  /\ worst' = 4
  /\ pc' = "done"
  /\ UNCHANGED <<board, inputs, idx, rows, cut, history>>

-----------------------------------------------------------------------------
\* Between the search and the last query a pull request changes.
WorldMoves ==
  /\ pc = "detail" /\ idx # <<>> /\ moved < MaxMoves
  /\ \E i \in DOMAIN board :
       \E w \in {v \in Worlds : v.pr = board[i].pr /\ v # board[i]} :
         board' = [board EXCEPT ![i] = w]
  /\ moved' = moved + 1
  /\ UNCHANGED <<code, view, searched, errors, unread, maimed, asked>>

Step == \/ SearchAnswers \/ SearchFails
        \/ DetailAnswers \/ DetailFails \/ Arrange
        \/ WriteRow \/ WriteLastLine \/ WriteFails

\* Nothing is left to do; anywhere else the poll can go on.
Stop == pc = "done" /\ UNCHANGED vars

Next == Step \/ WorldMoves \/ Stop

Spec == Init /\ [][Next]_vars

-----------------------------------------------------------------------------
(* Properties. *)

Written == DOMAIN rows

\* Every variable holds a value of its kind at every step of the poll.
TypeOK ==
  /\ pc \in {"search", "detail", "rows", "done"}
  /\ inputs \in Seq(Input) /\ idx \in Seq(DOMAIN inputs)
  /\ view \in Seq(World) /\ Len(view) = Len(inputs) /\ searched \subseteq Worlds
  /\ worst \in 0..4 /\ cut \in BOOLEAN /\ moved \in 0..MaxMoves
  /\ errors \in ErrorSets \cup {{}}
  /\ unread \subseteq PRs /\ maimed \subseteq PRs

\* What the search and the detail queries never ask for: under a merge queue
\* nothing but the rule says what it requires.
ShownOnBoard(w) ==
  IF ~w.queueEnabled THEN w
  ELSE [w EXCEPT !.hidden = FALSE, !.conversations = FALSE, !.required = {}]

\* Where one pull request asked for alone may be called green and is not, a
\* row may be, too (KnownGap of Fetch): GitHub had not computed its merge
\* state, two checks of one name differ in what they are required for.
RowGap(w) ==
  \/ w.state = "OPEN" /\ MergeStateStatus(w) = "UNKNOWN"
  \/ \E c, d \in Walk(w) : SameKey(c, d) /\ c.required # d.required

\* The search found w green, whose number is v's; w's checks may have been read
\* later.
Vouched(w) == \E v \in searched : Green(v) /\ w = [v EXCEPT !.checks = w.checks]

\* A row that says exit 0 is deserved, whatever moved, whatever chunk failed
\* and whatever the search lost: the pull request, as the search and the detail
\* query describe it, can be merged or enqueued; or it could be when the search
\* found it, and no required check read since speaks against it (Mine,
\* resolveDetail, exitForReport).  The exceptions are the known ones and that
\* LostDetailIsTold is about, a detail answer with an error item.
RowGreenIsDeserved ==
  \A k \in Written :
    rows[k].exit = 0 /\ rows[k].report.pr \notin maimed /\ ~RowGap(view[k]) =>
      \/ Green(ShownOnBoard(view[k]))
      \/ /\ ~view[k].queueEnabled /\ Vouched(view[k])
         /\ \A c \in Walk(view[k]) : c.required => Rank(c) = 0

\* The pull request an error item was meant for.
About(k, e) == e.at # 0 => board[e.at].pr = rows[k].report.pr

\* An error item of the search degrades the pull request it names and no
\* other, though nodes without a pull request shift the inputs; what a detail
\* query failed to give degrades the pull requests of its chunk and no other
\* (Mine's attribution, resolveDetail).  Items inside a thread list carry a
\* second index and are left out: see the README.
ErrorsDegradeTheirOwn ==
  (\A e \in errors : e.loss # "threadNode") =>
    \A k \in Written :
      LET own == Partial({FieldOf(e.loss) : e \in {f \in errors : About(k, f)}})
      IN  rows[k].report.degraded \ {"behind", "threads_truncated", "checks_truncated"}
            = own \cup If(rows[k].report.pr \in unread, {"required"})

\* Certifiability before blockedness before pendingness.
Rollup(exits) == IF 3 \in exits THEN 3 ELSE IF 1 \in exits THEN 1
                 ELSE IF 2 \in exits THEN 2 ELSE 0

\* Unless the search or a write failed, the exit code is that of the worst
\* row in that order, whatever came before or after it (runMine).
WorstRowDecides ==
  pc = "done" /\ worst # 4 =>
    \/ worst = 3 /\ rows = <<>>
    \/ worst = Rollup({rows[k].exit : k \in Written})

\* An exit code below 3 speaks for the whole board: every pull request the
\* search gave has its row, once, in order, and the last line tells when the
\* search knows of more, be it only of a node an error took whole (runMine).
WholeBoardWritten ==
  pc = "done" /\ worst < 3 =>
    /\ \A j, k \in Written : j < k => rows[j].report.pr < rows[k].report.pr
    /\ cut <=> Len(board) > Len(rows)
    /\ \A i \in DOMAIN Found :
         \/ Found[i].pr = 0
         \/ \E e \in errors : e.at = i /\ e.climbs
         \/ \E k \in Written : rows[k].report.pr = Found[i].pr

\* The exit code prq gives that pull request when it is asked for alone.
Alone(w) == ExitForReport(Synthesize(Normalize(FullAnswer(w, {}))))

OnePage(w) == Len(w.threads) = 1 /\ (w.rollup => Len(w.checks) = 1)

\* On a board where nothing moved, was lost or failed, a row is green exactly
\* when the pull request asked for alone is: one query that reads everything
\* and two that read little agree (Mine, needsDetail).  A rule behind a merge
\* queue is read by the first alone.
GreenAgrees ==
  moved = 0 /\ errors = {} /\ unread = {} /\ maimed = {} =>
    \A k \in Written :
      OnePage(view[k]) /\ ShownOnBoard(view[k]) = Shown(view[k]) /\ ~RowGap(view[k])
        => (rows[k].exit = 0 <=> Alone(view[k]) = 0)

\* Every pull request whose checks matter is asked for once, whatever chunk
\* failed before it, and no request is spent on another (resolveDetail).
AskedOnce ==
  pc \in {"rows", "done"} /\ inputs # <<>> =>
    /\ \A j, k \in DOMAIN asked : j # k => asked[j] \cap asked[k] = {}
    /\ UNION {asked[j] : j \in DOMAIN asked}
         = {inputs[i].pr : i \in {n \in DOMAIN inputs : NeedsDetail(inputs[n])}}
    /\ ChunkSize * (Len(asked) - 1) < Len(inputs)

-----------------------------------------------------------------------------
\* mine.go, resolveDetail: failures degrade the affected pull requests.  The
\* error items of an answer that could be kept are dropped.
LostDetailIsTold ==
  \A k \in Written :
    rows[k].report.pr \in maimed => "required" \in rows[k].report.degraded

=============================================================================
