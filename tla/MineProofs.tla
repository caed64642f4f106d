----------------------------- MODULE MineProofs -----------------------------
(***************************************************************************)
(* The board, for boards of every size and order, whatever GitHub says of  *)
(* the pull requests, loses or fails at, and however often they move.      *)
(* One inductive invariant per section, each on top of those before it:    *)
(*   TypeInv        what the variables hold, and that no one is in twice   *)
(*   AskedInv       what was asked for and what is still to be asked for   *)
(*   RowsAreInputs, BoardWritten   a row is an input, and none is missing  *)
(*   TokensInv      an input is degraded by the items about it alone       *)
(*   DescribedInv   an input describes a pull request the search found     *)
(*   RowsInv        the exit code is the worst of the rows so far          *)
(***************************************************************************)
EXTENDS Mine, GitHubProofs, ListsProofs

-----------------------------------------------------------------------------
(* What the answers of the board become.                                   *)

\* A node of the search is one the fetch would accept, without its checks.
LEMMA SearchNodeType ==
  ASSUME NEW w \in World, NEW l
  PROVE  /\ SearchNode(w, l) \in PRNode
         /\ SearchNode(w, l).pr = w.pr
         /\ SearchNode(w, l).statusCheckRollup.contexts = NoContexts
<1>. DEFINE full == FullAnswer(w, l)
            base == [compare |-> -1, conversations |-> FALSE, required |-> {}]
            queue == [full.mergeQueueEntry EXCEPT !.eta = -1]
            rollup == [full.statusCheckRollup EXCEPT !.contexts = NoContexts]
            node == [full EXCEPT !.viewerCanUpdateBranch = FALSE, !.mergeQueueEntry = queue,
                                 !.reviewRequests = {}, !.baseRef = base,
                                 !.statusCheckRollup = rollup]
<1>1. full \in PRNode /\ full.pr = w.pr
  BY FullAnswerType DEF FullAnswer
<1>2. full.mergeQueueEntry \in Queue
  BY <1>1 DEF PRNode
<1>3. queue \in Queue
  BY <1>2 DEF Queue
<1>4. NoContexts \in ContextPage
  BY DEF NoContexts, ContextPage
<1>5. /\ rollup \in [present : BOOLEAN, state : StatusStates \cup {""}, contexts : ContextPage]
      /\ rollup.contexts = NoContexts
  BY <1>1, <1>4 DEF PRNode
<1>6. base \in [compare : Nat \cup {-1}, conversations : BOOLEAN, required : SUBSET Names]
  OBVIOUS
<1>7. SearchNode(w, l) = node
  BY Zenon DEF SearchNode
<1>. HIDE DEF full, queue, base, rollup
<1>8. node \in PRNode /\ node.pr = w.pr /\ node.statusCheckRollup = rollup
  BY <1>1, <1>3, <1>5, <1>6 DEF PRNode
<1>. QED BY <1>5, <1>7, <1>8

\* normalize makes an input of it, for the coarse reading of Mine.
LEMMA CoarseType ==
  ASSUME NEW node \in PRNode
  PROVE  /\ Coarse(node) \in Input
         /\ Coarse(node).pr = node.pr
         /\ ~Coarse(node).requiredKnown /\ Coarse(node).threadsKnown
         /\ Coarse(node).degraded \subseteq {"threads_truncated"}
         /\ node.statusCheckRollup.contexts = NoContexts => Coarse(node).contexts = {}
<1>. DEFINE full == Normalize(node)
            mark == If(node.reviewThreads.hasNext, {"threads_truncated"})
<1>1. full \in Input
  BY NormalizeType
<1>2. mark \subseteq {"threads_truncated"} /\ mark \in SUBSET Tokens
  BY DEF If, Tokens
<1>3. /\ full.pr = node.pr /\ full.threadsKnown
      /\ full.contexts = AppendContexts({}, node.statusCheckRollup.contexts.nodes)
  BY DEF Normalize
<1>4. node.statusCheckRollup.contexts = NoContexts => full.contexts = {}
  BY <1>3 DEF NoContexts, AppendContexts
<1>. DEFINE coarse == [full EXCEPT !.requiredKnown = FALSE, !.degraded = mark]
<1>5. Coarse(node) = coarse
  BY DEF Coarse
<1>. HIDE DEF full, mark
<1>6. /\ coarse \in Input /\ coarse.pr = full.pr /\ coarse.requiredKnown = FALSE
      /\ coarse.threadsKnown = full.threadsKnown /\ coarse.degraded = mark
      /\ coarse.contexts = full.contexts
  BY <1>1, <1>2 DEF Input
<1>. HIDE DEF coarse
<1>. QED BY <1>2, <1>3, <1>4, <1>5, <1>6

\* What a detail adds leaves an input an input, of the same pull request.
LEMMA DetailedType ==
  ASSUME NEW i \in Input, NEW page \in ContextPage
  PROVE  /\ Detailed(i, page) \in Input
         /\ Detailed(i, page).pr = i.pr
         /\ NeedsDetail(Detailed(i, page)) <=> NeedsDetail(i)
         /\ Detailed(i, page).requiredKnown
         /\ Detailed(i, page).threadsKnown = i.threadsKnown
         /\ Detailed(i, page).degraded = i.degraded \cup If(page.hasNext, {"checks_truncated"})
<1>. DEFINE contexts == AppendContexts({}, page.nodes)
            tokens == i.degraded \cup If(page.hasNext, {"checks_truncated"})
            j == [i EXCEPT !.contexts = contexts, !.requiredKnown = TRUE, !.degraded = tokens]
<1>1. contexts \in SUBSET Context
  BY DEF ContextPage, AppendContexts, CtxNode, Context, ContextOf
<1>2. tokens \in SUBSET Tokens
  BY DEF Input, If, Tokens
<1>3. Detailed(i, page) = j
  BY DEF Detailed
<1>. HIDE DEF contexts
<1>4. /\ j \in Input /\ j.pr = i.pr /\ j.requiredKnown /\ j.threadsKnown = i.threadsKnown
      /\ j.degraded = tokens
      /\ j.rollupPresent = i.rollupPresent /\ j.rollupState = i.rollupState
      /\ j.mergeState = i.mergeState
  BY <1>1, <1>2 DEF Input
<1>. HIDE DEF j
<1>. QED BY <1>3, <1>4 DEF NeedsDetail

\* What a read of the details removes leaves a world a world.
LEMMA WithoutType ==
  ASSUME NEW i \in Input
  PROVE  /\ Without(i) \in Input
         /\ Without(i).pr = i.pr
         /\ NeedsDetail(Without(i)) <=> NeedsDetail(i)
         /\ Without(i).requiredKnown = i.requiredKnown
         /\ Without(i).threadsKnown = i.threadsKnown
         /\ Without(i).contexts = i.contexts
         /\ Without(i).degraded = i.degraded \cup {"required"}
<1>1. i.degraded \cup {"required"} \in SUBSET Tokens
  BY DEF Input, Tokens
<1>. QED BY <1>1 DEF Without, Input, NeedsDetail

\* Degrade adds its tokens and marks, and touches nothing else.
LEMMA DegradeKeeps ==
  ASSUME NEW i \in Input, NEW tokens \in SUBSET Tokens
  PROVE  /\ Degrade(i, tokens).pr = i.pr
         /\ Degrade(i, tokens).contexts = i.contexts
         /\ Degrade(i, tokens).degraded = i.degraded \cup tokens
         /\ Degrade(i, tokens).requiredKnown = (i.requiredKnown /\ "required" \notin tokens)
         /\ Degrade(i, tokens).threadsKnown = (i.threadsKnown /\ "threads" \notin tokens)
         /\ Degrade(i, tokens).unresolvedThreads
              = IF "threads" \in tokens THEN 0 ELSE i.unresolvedThreads
  BY DEF Degrade, Input

-----------------------------------------------------------------------------
(* What the search finds.                                                  *)

BoardInv == board \in Seq(Worlds \cup {NoPR}) /\ OnceEach(board)

\* The search finds a part of the board, in its order.
LEMMA FoundOnBoard ==
  ASSUME BoardInv
  PROVE  /\ Len(board) \in Nat /\ Found \in Seq(Worlds \cup {NoPR})
         /\ DOMAIN Found \subseteq DOMAIN board /\ DOMAIN Found \subseteq Int
         /\ \A m \in DOMAIN Found : Found[m] = board[m]
         /\ \A m \in DOMAIN board : board[m].pr # 0 => board[m] \in World /\ board[m] \in Worlds
<1>. DEFINE n == Smaller(Limit, Len(board))
<1>1. board \in Seq(Worlds \cup {NoPR}) /\ Len(board) \in Nat /\ DOMAIN board = 1..Len(board)
  BY DEF BoardInv
<1>2. n \in Nat /\ n <= Len(board)
  BY <1>1, MineAssumption DEF Smaller
<1>. HIDE DEF n
<1>3. /\ SubSeq(board, 1, n) \in Seq(Worlds \cup {NoPR})
      /\ DOMAIN SubSeq(board, 1, n) = 1..n
      /\ \A m \in 1..n : SubSeq(board, 1, n)[m] = board[m]
  BY <1>1, <1>2
<1>4. ASSUME NEW m \in DOMAIN board, board[m].pr # 0
      PROVE  board[m] \in World /\ board[m] \in Worlds
  <2>1. board[m] \in Worlds \cup {NoPR}
    BY <1>1, <1>4
  <2>2. board[m] # NoPR
    BY <1>4 DEF NoPR
  <2>. QED BY <2>1, <2>2, MineAssumption
<1>. QED BY <1>1, <1>2, <1>3, <1>4 DEF Found, n

LossesAt(errs, m) == {e.loss : e \in {f \in errs : f.at = m}}
Taken(errs, m) == \E e \in errs : e.at = m /\ e.climbs

\* The inputs are the nodes that decode to a pull request, in the order of the
\* search; kept says which, and NodeToInput finds the way back.
LEMMA KeptNodes ==
  ASSUME BoardInv, NEW errs, NEW nodes, nodes = SearchNodes(errs),
         NEW S, S = PRNodes(nodes), NEW kept, kept = InOrder(S), NEW n, n = Cardinality(S)
  PROVE  /\ DOMAIN nodes = DOMAIN Found
         /\ n \in Nat /\ n <= Len(board) /\ kept \in [1..n -> DOMAIN Found]
         /\ \A m \in DOMAIN Found :
              m \in S <=> Found[m].pr # 0 /\ ~Taken(errs, m)
         /\ \A m \in S : \E k \in 1..n : kept[k] = m
         /\ \A k \in 1..n : /\ kept[k] \in S
                            /\ Found[kept[k]] \in World /\ Found[kept[k]].pr # 0
                            /\ nodes[kept[k]]
                                 = SearchNode(Found[kept[k]], LossesAt(errs, kept[k]))
                            /\ NodeToInput(nodes, kept[k]) = k
         /\ \A j, k \in 1..n : kept[j] = kept[k] => j = k
<1>1. /\ Found \in Seq(Worlds \cup {NoPR}) /\ DOMAIN Found = 1..Len(Found)
      /\ Len(Found) \in Nat /\ Len(Found) <= Len(board)
      /\ \A m \in DOMAIN Found : Found[m].pr # 0 => Found[m] \in World
  <2>1. Len(Found) <= Len(board) /\ DOMAIN board = 1..Len(board) /\ DOMAIN Found = 1..Len(Found)
    BY FoundOnBoard DEF BoardInv
  <2>. QED BY <2>1, FoundOnBoard
<1>2. DOMAIN nodes = DOMAIN Found
  BY DEF SearchNodes
<1>3. ASSUME NEW m \in DOMAIN Found
      PROVE  /\ nodes[m] = IF Found[m].pr = 0 \/ Taken(errs, m) THEN NoPR
                           ELSE SearchNode(Found[m], LossesAt(errs, m))
             /\ m \in S <=> Found[m].pr # 0 /\ ~Taken(errs, m)
  <2>1. nodes[m] = IF Found[m].pr = 0 \/ Taken(errs, m) THEN NoPR
                   ELSE SearchNode(Found[m], LossesAt(errs, m))
    <3>1. {e \in errs : e.at = m} = {f \in errs : f.at = m}
      OBVIOUS
    <3>2. (\E e \in {f \in errs : f.at = m} : e.climbs) <=> Taken(errs, m)
      BY DEF Taken
    <3>. QED BY <3>1, <3>2 DEF SearchNodes, LossesAt
  <2>2. CASE Found[m].pr = 0 \/ Taken(errs, m)
    BY <1>2, <2>1, <2>2 DEF PRNodes, IsPR, NoPR
  <2>3. CASE ~(Found[m].pr = 0 \/ Taken(errs, m))
    <3>1. nodes[m].pr = Found[m].pr
      BY <1>1, <2>1, <2>3, SearchNodeType
    <3>. QED BY <1>2, <2>1, <2>3, <3>1 DEF PRNodes, IsPR
  <2>. QED BY <2>1, <2>2, <2>3
<1>4. S \in SUBSET DOMAIN Found /\ S \in SUBSET Int
  BY <1>1, <1>2 DEF PRNodes
<1>5. IsFiniteSet(S) /\ n \in Nat /\ n <= Len(Found)
  BY <1>1, <1>4, FilteredLists
<1>6. /\ DOMAIN kept = 1..n
      /\ \A k \in 1..n : kept[k] \in S
      /\ \A k \in 1..n : Cardinality(Below(S, kept[k])) = k - 1
      /\ kept \in [1..n -> S]
      /\ \A m \in S : \E k \in 1..n : kept[k] = m
      /\ \A j, k \in 1..n : kept[j] = kept[k] => j = k
  <2>1. S \in SUBSET Int /\ IsFiniteSet(S) /\ kept = InOrder(S) /\ n = Cardinality(S)
    BY <1>4, <1>5
  <2>. QED BY ONLY <2>1, InOrderLists
<1>7. kept \in [1..n -> DOMAIN Found]
  BY <1>4, <1>6
<1>8. ASSUME NEW k \in 1..n
      PROVE  /\ Found[kept[k]] \in World /\ Found[kept[k]].pr # 0
             /\ nodes[kept[k]] = SearchNode(Found[kept[k]], LossesAt(errs, kept[k]))
  <2>1. kept[k] \in S /\ kept[k] \in DOMAIN Found
    BY <1>4, <1>6
  <2>. QED BY <1>1, <1>3, <2>1
<1>9. ASSUME NEW k \in 1..n PROVE NodeToInput(nodes, kept[k]) = k
  <2>. DEFINE m == kept[k]
              L == Below(S, m)
  <2>1. m \in S /\ m \in Nat
    BY <1>1, <1>4, <1>6
  <2>2. {j \in 1..m : IsPR(nodes[j])} = L \cup {m}
    <3>1. ASSUME NEW j \in 1..m, IsPR(nodes[j]) PROVE j \in L \cup {m}
      <4>1. j \in DOMAIN Found
        BY <1>1, <1>4, <2>1
      <4>2. j \in S
        BY <1>2, <3>1, <4>1 DEF PRNodes
      <4>. QED BY <2>1, <4>2 DEF Below
    <3>2. ASSUME NEW j \in L \cup {m} PROVE j \in 1..m /\ IsPR(nodes[j])
      <4>1. j \in S /\ j <= m
        BY <2>1, <1>4 DEF Below
      <4>. QED BY <1>1, <1>4, <2>1, <4>1 DEF PRNodes
    <3>. QED BY <3>1, <3>2
  <2>3. L \in SUBSET S /\ m \notin L
    BY <2>1 DEF Below
  <2>4. IsFiniteSet(L)
    BY <1>5, <2>3, FS_Subset
  <2>5. Cardinality(L \cup {m}) = Cardinality(L) + 1
    BY <2>3, <2>4, FS_AddElement
  <2>6. Cardinality(L) = k - 1
    BY <1>6
  <2>7. (k - 1) + 1 = k
    OBVIOUS
  <2>. QED BY <2>2, <2>5, <2>6, <2>7, Zenon DEF NodeToInput
<1>10. n <= Len(board)
  BY <1>1, <1>5, FoundOnBoard
<1>. QED BY <1>2, <1>3, <1>5, <1>6, <1>7, <1>8, <1>9, <1>10

HitTokens(nodes, errs, k) ==
  Partial({FieldOf(e.loss) : e \in {f \in errs : Hits(nodes, f, k)}})

\* The tokens of items about a search node are the four of optionalFields.
LEMMA TokensOfItems ==
  ASSUME NEW errs, \A e \in errs : e.loss \in Losses
  PROVE  Partial({FieldOf(e.loss) : e \in errs})
           \subseteq {"threads", "checks", "required", "merge_state"}
<1>1. {e.loss : e \in errs} \in SUBSET Losses
  OBVIOUS
<1>2. {FieldOf(e.loss) : e \in errs} = ErrorFields({e.loss : e \in errs})
  BY DEF ErrorFields
<1>. QED BY <1>1, <1>2, PartialType

\* What the search makes of its nodes: one input for every node kept.
LEMMA SearchedInputs ==
  ASSUME BoardInv, NEW errs \in ErrorSets, NEW nodes, nodes = SearchNodes(errs),
         NEW S, S = PRNodes(nodes), NEW kept, kept = InOrder(S), NEW n, n = Cardinality(S),
         NEW ins, ins = Attributed(nodes, errs), NEW v, v = Filtered(Found, S)
  PROVE  /\ ins \in Seq(Input) /\ Len(ins) = n /\ DOMAIN ins = 1..n
         /\ v \in Seq(World) /\ Len(v) = n /\ DOMAIN v = 1..n
         /\ \A k \in 1..n :
              /\ v[k] = Found[kept[k]] /\ ins[k].pr = v[k].pr
              /\ ins[k] = Degrade(Coarse(SearchNode(v[k], LossesAt(errs, kept[k]))),
                                  HitTokens(nodes, errs, k))
<1>1. /\ DOMAIN nodes = DOMAIN Found /\ n \in Nat
      /\ \A k \in 1..n : /\ kept[k] \in S
                         /\ Found[kept[k]] \in World
                         /\ nodes[kept[k]] = SearchNode(Found[kept[k]], LossesAt(errs, kept[k]))
  BY KeptNodes
<1>2. /\ Found \in Seq(Worlds \cup {NoPR}) /\ DOMAIN Found \subseteq Int
      /\ DOMAIN Found = 1..Len(Found)
  BY FoundOnBoard
<1>3. S \in SUBSET DOMAIN Found /\ S \in SUBSET Int
  BY <1>1, <1>2 DEF PRNodes
<1>4. IsFiniteSet(S) /\ DOMAIN kept = 1..n
  <2>1. S \in SUBSET DOMAIN Found /\ kept = InOrder(S) /\ n = Cardinality(S)
    BY <1>3
  <2>. QED BY ONLY <1>2, <2>1, FilteredLists
<1>5. Filtered(nodes, S) = [k \in 1..n |-> nodes[kept[k]]]
  BY <1>4 DEF Filtered
<1>6. v = [k \in 1..n |-> Found[kept[k]]]
  BY <1>4 DEF Filtered
<1>7. ins = [k \in 1..n |-> Degrade(Coarse(nodes[kept[k]]), HitTokens(nodes, errs, k))]
  BY <1>5 DEF Attributed, HitTokens
<1>8. ASSUME NEW k \in 1..n
      PROVE  /\ v[k] \in World /\ v[k] = Found[kept[k]]
             /\ ins[k] \in Input /\ ins[k].pr = v[k].pr
             /\ ins[k] = Degrade(Coarse(SearchNode(v[k], LossesAt(errs, kept[k]))),
                                 HitTokens(nodes, errs, k))
  <2>. DEFINE node == SearchNode(Found[kept[k]], LossesAt(errs, kept[k]))
  <2>1. v[k] = Found[kept[k]] /\ v[k] \in World
    BY <1>1, <1>6
  <2>2. ins[k] = Degrade(Coarse(node), HitTokens(nodes, errs, k))
    BY <1>1, <1>7
  <2>3. node \in PRNode /\ node.pr = v[k].pr
    BY <2>1, SearchNodeType
  <2>. HIDE DEF node
  <2>4. Coarse(node) \in Input /\ Coarse(node).pr = v[k].pr
    BY <2>3, CoarseType
  <2>5. HitTokens(nodes, errs, k) \in SUBSET Tokens
    <3>1. \A e \in {f \in errs : Hits(nodes, f, k)} : e.loss \in Losses
      BY MineAssumption DEF ErrorItem
    <3>2. HitTokens(nodes, errs, k) \subseteq {"threads", "checks", "required", "merge_state"}
      BY <3>1, TokensOfItems DEF HitTokens
    <3>. QED BY <3>2 DEF Tokens
  <2>6. ins[k] \in Input /\ ins[k].pr = v[k].pr
    BY <2>2, <2>4, <2>5, DegradeType, DegradeKeeps
  <2>. QED BY <2>1, <2>2, <2>6 DEF node
<1>9. ins \in Seq(Input) /\ Len(ins) = n /\ DOMAIN ins = 1..n
  BY <1>1, <1>7, <1>8
<1>10. v \in Seq(World) /\ Len(v) = n /\ DOMAIN v = 1..n
  BY <1>1, <1>6, <1>8
<1>. QED BY <1>8, <1>9, <1>10

-----------------------------------------------------------------------------
(* The type invariant, and what it takes: inputs and their pull requests   *)
(* go together, no pull request has two, each is on the board.             *)

Increasing(s) == \A j, k \in DOMAIN s : j < k => s[j] < s[k]

InputsInv ==
  /\ inputs \in Seq(Input) /\ view \in Seq(World) /\ Len(view) = Len(inputs)
  /\ \A i \in DOMAIN inputs : /\ inputs[i].pr = view[i].pr
                              /\ \E m \in DOMAIN board : board[m].pr = inputs[i].pr
  /\ \A i, j \in DOMAIN inputs : inputs[i].pr = inputs[j].pr => i = j

IdxInv == idx \in Seq(DOMAIN inputs) /\ Increasing(idx)

CountersInv ==
  /\ pc \in {"search", "detail", "rows", "done"}
  /\ worst \in 0..4 /\ cut \in BOOLEAN /\ moved \in 0..MaxMoves
  /\ errors \in ErrorSets \cup {{}} /\ searched \subseteq Worlds
  /\ unread \subseteq PRs /\ maimed \subseteq PRs

TypeInv == BoardInv /\ InputsInv /\ IdxInv /\ CountersInv

\* The inductive invariant of the types is at least the type invariant.
LEMMA TypesHold == TypeInv => TypeOK
BY DEF TypeInv, InputsInv, IdxInv, CountersInv, TypeOK

LEMMA TypeInit == Init => TypeInv
<1>. SUFFICES ASSUME Init PROVE TypeInv
  OBVIOUS
<1>1. BoardInv
  BY MineAssumption DEF Init, BoardInv
<1>2. InputsInv /\ IdxInv
  BY DEF Init, InputsInv, IdxInv, Increasing
<1>3. CountersInv
  <2>1. MaxMoves \in Nat
    BY MineAssumption
  <2>2. 0 \in 0..4 /\ 0 \in 0..MaxMoves
    BY <2>1
  <2>3. pc = "search" /\ worst = 0 /\ cut = FALSE /\ moved = 0
        /\ errors = {} /\ searched = {} /\ unread = {} /\ maimed = {}
    BY DEF Init
  <2>. QED BY <2>2, <2>3 DEF CountersInv
<1>. QED BY <1>1, <1>2, <1>3 DEF TypeInv

\* The positions to ask for are positions of the inputs, each once.
LEMMA SelectedLists ==
  ASSUME NEW ins \in Seq(Input)
  PROVE  /\ Selected(ins) \in Seq(DOMAIN ins) /\ Increasing(Selected(ins))
         /\ {Selected(ins)[k] : k \in DOMAIN Selected(ins)}
              = {i \in DOMAIN ins : NeedsDetail(ins[i])}
         /\ Len(Selected(ins)) <= Len(ins)
<1>. DEFINE S == {i \in DOMAIN ins : NeedsDetail(ins[i])}
            q == InOrder(S)
            n == Cardinality(S)
<1>1. S \in SUBSET DOMAIN ins /\ S \in SUBSET Int /\ DOMAIN ins = 1..Len(ins)
  OBVIOUS
<1>. HIDE DEF S
<1>2. IsFiniteSet(S) /\ n <= Len(ins)
  BY <1>1, FilteredLists
<1>3. /\ n \in Nat /\ q \in [1..n -> S] /\ DOMAIN q = 1..n /\ Len(q) = n
      /\ \A i \in S : \E k \in 1..n : q[k] = i
      /\ \A j, k \in 1..n : q[j] < q[k] <=> j < k
  BY <1>1, <1>2, InOrderLists
<1>. HIDE DEF q, n
<1>4. q \in Seq(DOMAIN ins)
  BY <1>1, <1>3
<1>5. Increasing(q)
  BY <1>3 DEF Increasing
<1>6. {q[k] : k \in DOMAIN q} = S
  BY <1>3
<1>7. Selected(ins) = q
  BY DEF Selected, q, S
<1>. QED BY <1>2, <1>3, <1>4, <1>5, <1>6, <1>7 DEF S

LEMMA SearchTyped == TypeInv /\ SearchAnswers => TypeInv'
<1>. SUFFICES ASSUME TypeInv, SearchAnswers PROVE TypeInv'
  OBVIOUS
<1>1. PICK errs \in ErrorSets :
        /\ \A e \in errs : Possible(e)
        /\ errors' = errs
        /\ inputs' = Attributed(SearchNodes(errs), errs)
        /\ view' = Filtered(Found, PRNodes(SearchNodes(errs)))
        /\ searched' = {Found[i] : i \in PRNodes(SearchNodes(errs))}
  BY DEF SearchAnswers
<1>2. /\ pc' = "detail" /\ idx' = Selected(inputs')
      /\ UNCHANGED <<board, worst, cut, unread, maimed, moved>>
  BY DEF SearchAnswers
<1>. DEFINE nodes == SearchNodes(errs)
            S == PRNodes(nodes)
            kept == InOrder(S)
            n == Cardinality(S)
<1>3. BoardInv
  BY DEF TypeInv
<1>4. /\ n \in Nat /\ kept \in [1..n -> DOMAIN Found]
      /\ \A k \in 1..n : kept[k] \in DOMAIN Found /\ Found[kept[k]].pr # 0
      /\ \A j, k \in 1..n : kept[j] = kept[k] => j = k
  <2>. HIDE DEF nodes, S, kept, n
  <2>1. nodes = SearchNodes(errs) /\ S = PRNodes(nodes) /\ kept = InOrder(S) /\ n = Cardinality(S)
    BY DEF nodes, S, kept, n
  <2>. QED BY ONLY <1>3, <2>1, KeptNodes
<1>. HIDE DEF nodes, S, kept, n
<1>5. /\ inputs' \in Seq(Input) /\ Len(inputs') = n /\ DOMAIN inputs' = 1..n
      /\ view' \in Seq(World) /\ Len(view') = n
      /\ \A k \in 1..n : view'[k] = Found[kept[k]] /\ inputs'[k].pr = view'[k].pr
  BY <1>1, <1>3, SearchedInputs DEF nodes, S, kept, n
<1>6. \A k \in 1..n : /\ kept[k] \in DOMAIN board /\ board[kept[k]] = Found[kept[k]]
                      /\ inputs'[k].pr = board[kept[k]].pr /\ board[kept[k]].pr # 0
  BY <1>3, <1>4, <1>5, FoundOnBoard
<1>7. InputsInv'
  <2>1. ASSUME NEW i \in DOMAIN inputs', NEW j \in DOMAIN inputs', inputs'[i].pr = inputs'[j].pr
        PROVE  i = j
    <3>1. kept[i] = kept[j]
      BY <1>3, <1>5, <1>6, <2>1 DEF BoardInv, OnceEach
    <3>. QED BY <1>4, <1>5, <3>1
  <2>2. \A i \in DOMAIN inputs' : \E m \in DOMAIN board' : board'[m].pr = inputs'[i].pr
    BY <1>2, <1>5, <1>6
  <2>. QED BY <1>5, <2>1, <2>2 DEF InputsInv
<1>8. IdxInv'
  BY <1>2, <1>5, SelectedLists DEF IdxInv
<1>9. searched' \subseteq Worlds
  <2>1. searched' = {Found[i] : i \in S}
    BY <1>1 DEF nodes, S
  <2>2. S \subseteq DOMAIN Found /\ \A i \in S : Found[i].pr # 0
    BY <1>3, KeptNodes DEF nodes, S
  <2>. QED BY <1>3, <2>1, <2>2, FoundOnBoard
<1>10. BoardInv' /\ CountersInv'
  BY <1>1, <1>2, <1>9 DEF TypeInv, BoardInv, CountersInv
<1>. QED BY <1>7, <1>8, <1>10 DEF TypeInv

-----------------------------------------------------------------------------
(* One chunk of details.                                                   *)

\* A chunk is the front of the positions still to ask for.
LEMMA ChunkAsked ==
  ASSUME TypeInv, Asks
  PROVE  /\ Chunk \subseteq DOMAIN inputs
         /\ idx' \in Seq(DOMAIN inputs) /\ Increasing(idx')
<1>. DEFINE n == Len(idx)
            m == ChunkSize + 1
<1>1. /\ idx \in Seq(DOMAIN inputs) /\ n \in Nat /\ n >= 1 /\ DOMAIN idx = 1..n
      /\ Increasing(idx) /\ ChunkSize \in Nat /\ ChunkSize >= 1
      /\ idx' = SubSeq(idx, m, n)
  BY MineAssumption DEF Asks, TypeInv, IdxInv
<1>2. Chunk \subseteq DOMAIN inputs
  <2>1. Smaller(ChunkSize, n) \in 1..n
    BY <1>1 DEF Smaller
  <2>. QED BY <1>1, <2>1 DEF Chunk
<1>3. CASE n < m
  <2>1. idx' = <<>>
    BY <1>1, <1>3
  <2>. QED BY <1>2, <2>1 DEF Increasing
<1>4. CASE ~(n < m)
  <2>1. /\ idx' \in Seq(DOMAIN inputs) /\ DOMAIN idx' = 1..(n - ChunkSize)
        /\ \A k \in 1..(n - ChunkSize) : idx'[k] = idx[k + ChunkSize]
    BY <1>1, <1>4
  <2>2. ASSUME NEW j \in DOMAIN idx', NEW k \in DOMAIN idx', j < k PROVE idx'[j] < idx'[k]
    <3>1. j + ChunkSize \in 1..n /\ k + ChunkSize \in 1..n /\ j + ChunkSize < k + ChunkSize
      BY <1>1, <1>4, <2>1, <2>2
    <3>. QED BY <1>1, <2>1, <3>1 DEF Increasing
  <2>. QED BY <1>2, <2>1, <2>2 DEF Increasing
<1>. QED BY <1>1, <1>3, <1>4

\* The pull request an alias of the chunk answers about.
LEMMA NowOnBoard ==
  ASSUME TypeInv, NEW i \in DOMAIN inputs
  PROVE  /\ Now(inputs[i].pr) \in World /\ Now(inputs[i].pr).pr = inputs[i].pr
         /\ \A m \in DOMAIN board : board[m].pr = inputs[i].pr => Now(inputs[i].pr) = board[m]
<1>. DEFINE W == {board[m] : m \in DOMAIN board}
            now == Now(inputs[i].pr)
<1>1. inputs[i].pr \in PRs /\ PRs \subseteq Nat \ {0}
  <2>1. inputs[i] \in Input
    BY DEF TypeInv, InputsInv
  <2>. QED BY <2>1, MineAssumption DEF Input
<1>2. \E w \in W : w.pr = inputs[i].pr
  BY DEF TypeInv, InputsInv
<1>3. now \in W /\ now.pr = inputs[i].pr
  BY <1>2 DEF Now
<1>4. PICK m \in DOMAIN board : now = board[m]
  BY <1>3
<1>5. now \in World
  BY <1>1, <1>3, <1>4, FoundOnBoard DEF TypeInv
<1>6. \A l \in DOMAIN board : board[l].pr = inputs[i].pr => l = m
  BY <1>1, <1>3, <1>4 DEF TypeInv, BoardInv, OnceEach
<1>. QED BY <1>3, <1>4, <1>5, <1>6

\* What an answered chunk does to each input and to what is known of it.
LEMMA DetailGives ==
  ASSUME TypeInv, DetailAnswers
  PROVE  \E lost \in [Chunk -> DetailLosses], read \in SUBSET Chunk :
           /\ \A i \in DOMAIN inputs :
                /\ i \notin Chunk => inputs'[i] = inputs[i]
                /\ i \notin read => view'[i] = view[i]
                /\ i \in Chunk \ read => inputs'[i] = Without(inputs[i])
                /\ i \in read =>
                     /\ inputs'[i] = Detailed(inputs[i],
                                              ContextsAnswer(Now(inputs[i].pr), 1, lost[i]))
                     /\ view'[i] = [view[i] EXCEPT !.checks = Now(inputs[i].pr).checks]
                     /\ Now(inputs[i].pr).rollup
                /\ i \in Chunk /\ lost[i] = {} /\ Now(inputs[i].pr).rollup => i \in read
           /\ unread' = unread \cup {inputs[i].pr : i \in Chunk \ read}
           /\ maimed' = maimed \cup {inputs[i].pr : i \in {c \in read : lost[c] # {}}}
           /\ DOMAIN inputs' = DOMAIN inputs /\ DOMAIN view' = DOMAIN view
<1>1. PICK lost \in [Chunk -> DetailLosses] :
        LET now(i) == Now(inputs[i].pr)
            gone(i) == ~now(i).rollup
                       \/ {"statusCheckRollup", "contexts"} \cap lost[i] # {}
            read == {i \in Chunk : ~gone(i)}
        IN  /\ inputs' = [i \in DOMAIN inputs |->
                            IF i \notin Chunk THEN inputs[i]
                            ELSE IF i \in read
                            THEN Detailed(inputs[i], ContextsAnswer(now(i), 1, lost[i]))
                            ELSE Without(inputs[i])]
            /\ view' = [i \in DOMAIN view |->
                          IF i \in read
                          THEN [view[i] EXCEPT !.checks = now(i).checks] ELSE view[i]]
            /\ unread' = unread \cup {inputs[i].pr : i \in Chunk \ read}
            /\ maimed' = maimed \cup {inputs[i].pr : i \in {c \in read : lost[c] # {}}}
  BY DEF DetailAnswers
<1>. DEFINE now(i) == Now(inputs[i].pr)
            gone(i) == ~now(i).rollup
                       \/ {"statusCheckRollup", "contexts"} \cap lost[i] # {}
            read == {i \in Chunk : ~gone(i)}
<1>2. DOMAIN view = DOMAIN inputs
  BY DEF TypeInv, InputsInv
<1>3. /\ DOMAIN inputs' = DOMAIN inputs /\ DOMAIN view' = DOMAIN view
      /\ unread' = unread \cup {inputs[i].pr : i \in Chunk \ read}
      /\ maimed' = maimed \cup {inputs[i].pr : i \in {c \in read : lost[c] # {}}}
  BY <1>1
<1>4. ASSUME NEW i \in DOMAIN inputs
      PROVE  /\ inputs'[i] = IF i \notin Chunk THEN inputs[i]
                             ELSE IF i \in read
                             THEN Detailed(inputs[i], ContextsAnswer(now(i), 1, lost[i]))
                             ELSE Without(inputs[i])
             /\ view'[i] = IF i \in read
                           THEN [view[i] EXCEPT !.checks = now(i).checks] ELSE view[i]
  BY <1>1, <1>2
<1>5. \A i \in DOMAIN inputs :
        /\ i \in read => i \in Chunk /\ now(i).rollup
        /\ i \in Chunk /\ lost[i] = {} /\ now(i).rollup => i \in read
  OBVIOUS
<1>6. read \in SUBSET Chunk
  OBVIOUS
<1>. HIDE DEF read, now
<1>. WITNESS lost \in [Chunk -> DetailLosses], read \in SUBSET Chunk
<1>. QED BY <1>3, <1>4, <1>5 DEF now

-----------------------------------------------------------------------------
(* The sort.                                                               *)

\* The sort puts every input in one place, and their pull requests ascend.
LEMMA RowOrderLists ==
  ASSUME InputsInv, NEW n, n = Len(inputs)
  PROVE  /\ n \in Nat /\ DOMAIN inputs = 1..n /\ DOMAIN RowOrder = 1..n
         /\ \A k \in 1..n : RowOrder[k] \in 1..n
         /\ \A i \in 1..n : \E k \in 1..n : RowOrder[k] = i
         /\ \A j, k \in 1..n : RowOrder[j] = RowOrder[k] => j = k
         /\ \A j, k \in 1..n :
              j < k => inputs[RowOrder[j]].pr < inputs[RowOrder[k]].pr
<1>. DEFINE D == 1..n
            R == {p \in (DOMAIN inputs) \X (DOMAIN inputs) : Lower(p[1], p[2])}
<1>1. n \in Nat /\ DOMAIN inputs = D
  BY DEF InputsInv
<1>2. \A i \in D : inputs[i].pr \in Nat
  <2>1. \A i \in D : inputs[i] \in Input
    BY <1>1 DEF InputsInv
  <2>2. \A i \in D : inputs[i].pr \in PRs
    BY <2>1 DEF Input
  <2>3. PRs \subseteq Nat
    BY MineAssumption
  <2>. QED BY <2>2, <2>3
<1>3. \A i, j \in D : inputs[i].pr = inputs[j].pr => i = j
  BY <1>1 DEF InputsInv
<1>4. \A i, j \in D : <<i, j>> \in R <=> Lower(i, j)
  BY <1>1
<1>5. \A i, j \in D : Lower(i, j) <=> inputs[i].pr < inputs[j].pr
  BY <1>1, <1>2, <1>3 DEF Lower
<1>6. StrictOrder(D, R)
  <2>1. \A i, j \in D : <<i, j>> \in R <=> inputs[i].pr < inputs[j].pr
    BY <1>4, <1>5
  <2>. HIDE DEF R, D
  <2>2. \A i \in D : <<i, i>> \notin R
    BY <1>2, <2>1
  <2>3. ASSUME NEW i \in D, NEW j \in D PROVE i = j \/ <<i, j>> \in R \/ <<j, i>> \in R
    <3>1. inputs[i].pr < inputs[j].pr \/ inputs[j].pr < inputs[i].pr \/ inputs[i].pr = inputs[j].pr
      <4>1. inputs[i].pr \in Nat /\ inputs[j].pr \in Nat
        BY <1>2
      <4>. QED BY ONLY <4>1
    <3>. QED BY <1>3, <2>1, <3>1, Zenon
  <2>4. \A i, j, k \in D : <<i, j>> \in R /\ <<j, k>> \in R => <<i, k>> \in R
    BY <1>2, <2>1
  <2>. QED BY ONLY <2>2, <2>3, <2>4, Zenon DEF StrictOrder
<1>7. IsFiniteSet(D) /\ Cardinality(D) = n
  <2>1. \A m \in Nat : IsFiniteSet(1..m) /\ Cardinality(1..m) = m
    BY FS_Interval
  <2>. QED BY <1>1, <2>1
<1>8. RowOrder = Ranked(D, R)
  BY <1>1 DEF RowOrder
<1>. HIDE DEF D, R
<1>9. /\ RowOrder \in [1..n -> D]
      /\ \A i \in D : \E k \in 1..n : RowOrder[k] = i
      /\ \A j, k \in 1..n : <<RowOrder[j], RowOrder[k]>> \in R <=> j < k
      /\ \A j, k \in 1..n : RowOrder[j] = RowOrder[k] => j = k
  BY <1>6, <1>7, <1>8, RankedLists
<1>10. \A j, k \in 1..n : j < k => inputs[RowOrder[j]].pr < inputs[RowOrder[k]].pr
  BY <1>4, <1>5, <1>9
<1>. QED BY <1>1, <1>9, <1>10 DEF D

\* Sorting leaves the inputs what they are.
LEMMA ArrangeTyped == TypeInv /\ Arrange => TypeInv'
<1>. SUFFICES ASSUME TypeInv, Arrange PROVE TypeInv'
  OBVIOUS
<1>. DEFINE n == Len(inputs)
<1>1. /\ inputs' = [k \in DOMAIN RowOrder |-> inputs[RowOrder[k]]]
      /\ view' = [k \in DOMAIN RowOrder |-> view[RowOrder[k]]]
      /\ pc' = "rows" /\ idx = <<>>
      /\ UNCHANGED <<board, idx, worst, cut, searched, errors, unread, maimed, moved>>
  BY DEF Arrange
<1>2. /\ InputsInv /\ inputs \in Seq(Input) /\ view \in Seq(World)
      /\ Len(view) = n /\ DOMAIN view = 1..n
  BY DEF TypeInv, InputsInv
<1>3. /\ n \in Nat /\ DOMAIN inputs = 1..n /\ DOMAIN RowOrder = 1..n
      /\ \A k \in 1..n : RowOrder[k] \in 1..n
      /\ \A j, k \in 1..n : RowOrder[j] = RowOrder[k] => j = k
  BY <1>2, RowOrderLists
<1>. HIDE DEF n
<1>4. /\ inputs' \in Seq(Input) /\ DOMAIN inputs' = 1..n /\ Len(inputs') = n
      /\ \A k \in 1..n : inputs'[k] = inputs[RowOrder[k]]
  BY <1>1, <1>2, <1>3
<1>5. /\ view' \in Seq(World) /\ Len(view') = n
      /\ \A k \in 1..n : view'[k] = view[RowOrder[k]]
  BY <1>1, <1>2, <1>3
<1>6. InputsInv'
  <2>1. ASSUME NEW i \in DOMAIN inputs'
        PROVE  /\ inputs'[i].pr = view'[i].pr
               /\ \E m \in DOMAIN board' : board'[m].pr = inputs'[i].pr
    BY <1>1, <1>2, <1>3, <1>4, <1>5 DEF InputsInv
  <2>2. ASSUME NEW i \in DOMAIN inputs', NEW j \in DOMAIN inputs', inputs'[i].pr = inputs'[j].pr
        PROVE  i = j
    BY <1>2, <1>3, <1>4, <2>2 DEF InputsInv
  <2>. QED BY <1>4, <1>5, <2>1, <2>2 DEF InputsInv
<1>7. IdxInv' /\ BoardInv' /\ CountersInv'
  <2>1. IdxInv'
    BY <1>1 DEF IdxInv, Increasing
  <2>2. BoardInv' /\ CountersInv'
    BY <1>1 DEF TypeInv, BoardInv, CountersInv
  <2>. QED BY <2>1, <2>2
<1>. QED BY <1>6, <1>7 DEF TypeInv

-----------------------------------------------------------------------------
(* Every step keeps the types.                                             *)

\* So does a chunk, answered or failed.
LEMMA DetailTyped == TypeInv /\ (DetailAnswers \/ DetailFails) => TypeInv'
<1>. SUFFICES ASSUME TypeInv, DetailAnswers \/ DetailFails PROVE TypeInv'
  OBVIOUS
<1>1. /\ Asks /\ UNCHANGED <<board, pc, worst, cut, searched, errors, moved>>
  BY DEF DetailAnswers, DetailFails
<1>2. /\ Chunk \subseteq DOMAIN inputs
      /\ idx' \in Seq(DOMAIN inputs) /\ Increasing(idx')
  BY <1>1, ChunkAsked
<1>3. /\ inputs \in Seq(Input) /\ view \in Seq(World) /\ Len(view) = Len(inputs)
      /\ DOMAIN view = DOMAIN inputs /\ DOMAIN inputs = 1..Len(inputs)
      /\ unread \subseteq PRs /\ maimed \subseteq PRs
  BY DEF TypeInv, InputsInv, CountersInv
<1>4. \A i \in DOMAIN inputs : inputs[i] \in Input /\ inputs[i].pr \in PRs /\ view[i] \in World
  <2>1. \A i \in DOMAIN inputs : inputs[i] \in Input /\ view[i] \in World
    BY <1>3
  <2>2. \A i \in Input : i.pr \in PRs
    BY DEF Input
  <2>. QED BY <2>1, <2>2
<1>5. /\ DOMAIN inputs' = DOMAIN inputs /\ DOMAIN view' = DOMAIN inputs
      /\ \A i \in DOMAIN inputs : /\ inputs'[i] \in Input /\ inputs'[i].pr = inputs[i].pr
                                  /\ view'[i] \in World /\ view'[i].pr = view[i].pr
      /\ unread' \subseteq PRs /\ maimed' \subseteq PRs
      /\ inputs' \in Seq(Input) /\ view' \in Seq(World)
  <2>1. CASE DetailFails
    <3>1. /\ inputs' = [i \in DOMAIN inputs |->
                          IF i \in Chunk THEN Without(inputs[i]) ELSE inputs[i]]
          /\ unread' = unread \cup {inputs[i].pr : i \in Chunk}
          /\ UNCHANGED <<view, maimed>>
      BY <2>1 DEF DetailFails
    <3>2. \A i \in DOMAIN inputs : inputs'[i] \in Input /\ inputs'[i].pr = inputs[i].pr
      BY <1>4, <3>1, WithoutType
    <3>3. unread' \subseteq PRs /\ maimed' \subseteq PRs
      BY <1>2, <1>3, <1>4, <3>1
    <3>4. inputs' \in Seq(Input) /\ DOMAIN inputs' = DOMAIN inputs
      BY <1>3, <3>1, <3>2
    <3>. QED BY <1>3, <1>4, <3>1, <3>2, <3>3, <3>4
  <2>2. CASE DetailAnswers
    <3>1. PICK lost \in [Chunk -> DetailLosses], read \in SUBSET Chunk :
           /\ \A i \in DOMAIN inputs :
                /\ i \notin Chunk => inputs'[i] = inputs[i]
                /\ i \notin read => view'[i] = view[i]
                /\ i \in Chunk \ read => inputs'[i] = Without(inputs[i])
                /\ i \in read =>
                     /\ inputs'[i] = Detailed(inputs[i],
                                              ContextsAnswer(Now(inputs[i].pr), 1, lost[i]))
                     /\ view'[i] = [view[i] EXCEPT !.checks = Now(inputs[i].pr).checks]
                     /\ Now(inputs[i].pr).rollup
                /\ i \in Chunk /\ lost[i] = {} /\ Now(inputs[i].pr).rollup => i \in read
           /\ unread' = unread \cup {inputs[i].pr : i \in Chunk \ read}
           /\ maimed' = maimed \cup {inputs[i].pr : i \in {c \in read : lost[c] # {}}}
           /\ DOMAIN inputs' = DOMAIN inputs /\ DOMAIN view' = DOMAIN view
      BY <2>2, DetailGives
    <3>2. ASSUME NEW i \in DOMAIN inputs
          PROVE  /\ inputs'[i] \in Input /\ inputs'[i].pr = inputs[i].pr
                 /\ view'[i] \in World /\ view'[i].pr = view[i].pr
      <4>. DEFINE now == Now(inputs[i].pr)
                  page == ContextsAnswer(now, 1, lost[i])
      <4>1. now \in World /\ page \in ContextPage
        BY NowOnBoard, ContextsAnswerType
      <4>2. CASE i \notin Chunk
        BY <1>4, <3>1, <4>2
      <4>3. CASE i \in Chunk \ read
        <5>1. inputs'[i] = Without(inputs[i]) /\ view'[i] = view[i]
          BY <3>1, <4>3
        <5>. QED BY <1>4, <5>1, WithoutType, Zenon
      <4>4. CASE i \in read
        <5>1. inputs'[i] \in Input /\ inputs'[i].pr = inputs[i].pr
          <6>1. inputs'[i] = Detailed(inputs[i], page)
            BY <3>1, <4>4
          <6>. HIDE DEF page
          <6>. QED BY <1>4, <4>1, <6>1, DetailedType
        <5>2. now.checks \in Seq(SUBSET Context)
          BY <4>1 DEF World
        <5>3. view'[i] = [view[i] EXCEPT !.checks = now.checks]
          BY <3>1, <4>4
        <5>. HIDE DEF now
        <5>4. view'[i] \in World /\ view'[i].pr = view[i].pr
          BY <1>4, <5>2, <5>3 DEF World
        <5>. QED BY <5>1, <5>4
      <4>. QED BY <4>2, <4>3, <4>4
    <3>3. unread' \subseteq PRs /\ maimed' \subseteq PRs
      BY <1>2, <1>3, <1>4, <3>1
    <3>4. inputs' \in Seq(Input) /\ view' \in Seq(World)
      <4>1. /\ inputs' = [i \in DOMAIN inputs |-> inputs'[i]]
            /\ view' = [i \in DOMAIN inputs |-> view'[i]]
        BY <2>2, <1>3 DEF DetailAnswers
      <4>2. inputs' \in [1..Len(inputs) -> Input] /\ view' \in [1..Len(inputs) -> World]
        BY <1>3, <3>2, <4>1
      <4>3. Len(inputs) \in Nat
        BY <1>3
      <4>. HIDE DEF TypeInv
      <4>. QED BY ONLY <4>2, <4>3
    <3>. QED BY <1>3, <3>1, <3>2, <3>3, <3>4
  <2>. QED BY <2>1, <2>2
<1>6. InputsInv'
  <2>1. Len(view') = Len(inputs')
    BY <1>5
  <2>2. ASSUME NEW i \in DOMAIN inputs'
        PROVE  /\ inputs'[i].pr = view'[i].pr
               /\ \E m \in DOMAIN board' : board'[m].pr = inputs'[i].pr
    BY <1>1, <1>5 DEF TypeInv, InputsInv
  <2>3. ASSUME NEW i \in DOMAIN inputs', NEW j \in DOMAIN inputs', inputs'[i].pr = inputs'[j].pr
        PROVE  i = j
    BY <1>5, <2>3 DEF TypeInv, InputsInv
  <2>. QED BY <1>5, <2>1, <2>2, <2>3 DEF InputsInv
<1>7. IdxInv'
  BY <1>2, <1>5 DEF IdxInv
<1>8. BoardInv' /\ CountersInv'
  BY <1>1, <1>5 DEF TypeInv, BoardInv, CountersInv
<1>. QED BY <1>6, <1>7, <1>8 DEF TypeInv

\* A pull request that moves stays the pull request it is.
LEMMA MoveKeepsPRs ==
  ASSUME TypeInv, WorldMoves
  PROVE  /\ BoardInv' /\ DOMAIN board' = DOMAIN board
         /\ \A m \in DOMAIN board : board'[m].pr = board[m].pr
<1>1. PICK i \in DOMAIN board :
        \E w \in {v \in Worlds : v.pr = board[i].pr /\ v # board[i]} :
          board' = [board EXCEPT ![i] = w]
  BY DEF WorldMoves
<1>2. PICK w \in Worlds : w.pr = board[i].pr /\ board' = [board EXCEPT ![i] = w]
  BY <1>1
<1>3. board \in Seq(Worlds \cup {NoPR})
  BY DEF TypeInv, BoardInv
<1>4. board' \in Seq(Worlds \cup {NoPR}) /\ DOMAIN board' = DOMAIN board
  BY <1>2, <1>3
<1>5. \A m \in DOMAIN board : board'[m].pr = board[m].pr
  BY <1>2, <1>3
<1>6. OnceEach(board')
  BY <1>4, <1>5 DEF TypeInv, BoardInv, OnceEach
<1>. QED BY <1>4, <1>5, <1>6 DEF BoardInv

LEMMA TypeStep == TypeInv /\ [Next]_vars => TypeInv'
<1>. SUFFICES ASSUME TypeInv, [Next]_vars PROVE TypeInv'
  OBVIOUS
<1>1. CASE SearchAnswers
  BY <1>1, SearchTyped
<1>2. CASE DetailAnswers \/ DetailFails
  BY <1>2, DetailTyped
<1>3. CASE Arrange
  BY <1>3, ArrangeTyped
<1>4. CASE WorldMoves
  <2>1. BoardInv' /\ DOMAIN board' = DOMAIN board
        /\ \A m \in DOMAIN board : board'[m].pr = board[m].pr
    BY <1>4, MoveKeepsPRs
  <2>2. /\ moved' = moved + 1 /\ moved < MaxMoves
        /\ UNCHANGED <<pc, inputs, idx, worst, cut, view, searched, errors, unread, maimed>>
    BY <1>4 DEF WorldMoves, code
  <2>3. MaxMoves \in Nat
    BY MineAssumption
  <2>4. InputsInv' /\ IdxInv'
    BY <2>1, <2>2 DEF TypeInv, InputsInv, IdxInv
  <2>5. CountersInv'
    BY <2>2, <2>3 DEF TypeInv, CountersInv
  <2>. QED BY <2>1, <2>4, <2>5 DEF TypeInv
<1>5. ASSUME UNCHANGED <<board, inputs, idx, view, searched, errors, unread, maimed, moved>>,
             pc' \in {"search", "detail", "rows", "done"}, worst' \in 0..4, cut' \in BOOLEAN
      PROVE  TypeInv'
  BY <1>5 DEF TypeInv, BoardInv, InputsInv, IdxInv, CountersInv
<1>6. CASE SearchFails
  BY <1>5, <1>6 DEF SearchFails, history, TypeInv, CountersInv
<1>7. CASE WriteRow
  <2>1. worst' \in 0..4
    BY <1>7 DEF WriteRow, TypeInv, CountersInv, ExitForReport
  <2>. QED BY <1>5, <1>7, <2>1 DEF WriteRow, history, TypeInv, CountersInv
<1>8. CASE WriteLastLine
  BY <1>5, <1>8 DEF WriteLastLine, Truncated, history, TypeInv, CountersInv
<1>9. CASE WriteFails
  BY <1>5, <1>9 DEF WriteFails, history, TypeInv, CountersInv
<1>10. CASE UNCHANGED vars
  BY <1>5, <1>10 DEF vars, code, history, TypeInv, CountersInv
<1>. QED BY <1>1, <1>2, <1>3, <1>4, <1>6, <1>7, <1>8, <1>9, <1>10 DEF Next, Step, Stop

LEMMA TypesKept == Spec => []TypeInv
BY TypeInit, TypeStep, PTL DEF Spec

\* Every value of the poll is of its kind at every step: a chunk names inputs
\* there are, and inputs and pull requests stay in step through filter, failed
\* chunk and sort, for boards and chunks of every size (Mine, resolveDetail).
THEOREM BoardTypeCorrect == Spec => []TypeOK
BY TypesKept, TypesHold, PTL

-----------------------------------------------------------------------------
(* What is asked for, and how often.                                       *)

Needed == {inputs[i].pr : i \in {n \in DOMAIN inputs : NeedsDetail(inputs[n])}}
StillToAsk == {inputs[idx[k]].pr : k \in DOMAIN idx}

\* What is asked for and what is still to be asked for share no pull request
\* and are together those whose checks matter; the chunks asked for were full
\* as long as any is left.
AskedInv ==
  /\ asked \in Seq(SUBSET PRs)
  /\ \A j, k \in DOMAIN asked : j # k => asked[j] \cap asked[k] = {}
  /\ \A k \in DOMAIN asked : asked[k] \cap StillToAsk = {}
  /\ (UNION {asked[k] : k \in DOMAIN asked}) \cup StillToAsk = Needed
  /\ idx # <<>> => ChunkSize * Len(asked) + Len(idx) <= Len(inputs)
  /\ inputs # <<>> => ChunkSize * (Len(asked) - 1) < Len(inputs)
  /\ pc = "search" => inputs = <<>> /\ idx = <<>> /\ asked = <<>>
  /\ pc \in {"rows", "done"} => idx = <<>>

LEMMA AskedHolds == AskedInv => AskedOnce
<1>. SUFFICES ASSUME AskedInv, pc \in {"rows", "done"}, inputs # <<>>
              PROVE  /\ \A j, k \in DOMAIN asked : j # k => asked[j] \cap asked[k] = {}
                     /\ UNION {asked[j] : j \in DOMAIN asked} = Needed
                     /\ ChunkSize * (Len(asked) - 1) < Len(inputs)
  BY DEF AskedOnce, Needed
<1>1. StillToAsk = {}
  BY DEF AskedInv, StillToAsk
<1>. QED BY <1>1 DEF AskedInv

\* A chunk takes the first positions left and leaves the others.
LEMMA ChunkSplits ==
  ASSUME TypeInv, Asks
  PROVE  /\ idx # <<>> /\ Len(idx) \in Nat /\ ChunkSize \in Nat
         /\ {idx[k] : k \in DOMAIN idx} = Chunk \cup {idx'[k] : k \in DOMAIN idx'}
         /\ Chunk \cap {idx'[k] : k \in DOMAIN idx'} = {}
         /\ idx' # <<>> => Len(idx') = Len(idx) - ChunkSize
         /\ {idx[k] : k \in DOMAIN idx} \subseteq DOMAIN inputs
<1>. DEFINE n == Len(idx)
            m == ChunkSize + 1
            T == DOMAIN inputs
<1>1. /\ idx \in Seq(T) /\ n \in Nat /\ n >= 1 /\ DOMAIN idx = 1..n
      /\ Increasing(idx) /\ ChunkSize \in Nat /\ ChunkSize >= 1 /\ T \subseteq Nat
      /\ idx # <<>>
      /\ idx' = SubSeq(idx, m, n)
  BY MineAssumption DEF Asks, TypeInv, IdxInv, InputsInv
<1>2. \A j, k \in 1..n : idx[j] = idx[k] => j = k
  <2>1. ASSUME NEW j \in 1..n, NEW k \in 1..n, j # k PROVE idx[j] # idx[k]
    <3>1. idx[j] \in Nat /\ idx[k] \in Nat
      BY <1>1
    <3>2. (j < k => idx[j] < idx[k]) /\ (k < j => idx[k] < idx[j])
      BY <1>1 DEF Increasing
    <3>3. j < k \/ k < j
      BY <1>1, <2>1
    <3>. HIDE DEF n
    <3>. QED BY ONLY <3>1, <3>2, <3>3
  <2>. QED BY <2>1
<1>3. {idx[k] : k \in DOMAIN idx} \subseteq DOMAIN inputs
  BY <1>1
<1>6. /\ n < m => Smaller(ChunkSize, n) = n
      /\ ~(n < m) => Smaller(ChunkSize, n) = ChunkSize
  <2>1. \A a, b \in Nat : /\ b < a + 1 => Smaller(a, b) = b
                          /\ ~(b < a + 1) => Smaller(a, b) = a
    BY DEF Smaller
  <2>. QED BY <1>1, <2>1
<1>. HIDE DEF n, T
<1>4. CASE n < m
  <2>1. idx' = <<>>
    BY <1>1, <1>4
  <2>2. Smaller(ChunkSize, Len(idx)) = n
    BY <1>4, <1>6 DEF n
  <2>3. Chunk = {idx[k] : k \in DOMAIN idx}
    BY <1>1, <2>2 DEF Chunk
  <2>4. {idx'[k] : k \in DOMAIN idx'} = {}
    BY <2>1
  <2>. QED BY <1>1, <1>3, <2>1, <2>3, <2>4 DEF n
<1>5. CASE ~(n < m)
  <2>1. /\ DOMAIN idx' = 1..(n - ChunkSize) /\ Len(idx') = n - ChunkSize
        /\ \A k \in 1..(n - ChunkSize) : idx'[k] = idx[k + ChunkSize]
    BY <1>1, <1>5
  <2>2. Smaller(ChunkSize, Len(idx)) = ChunkSize
    BY <1>5, <1>6 DEF n
  <2>3. Chunk = {idx[k] : k \in 1..ChunkSize}
    BY <2>2 DEF Chunk
  <2>4. {idx'[k] : k \in DOMAIN idx'} = {idx[k] : k \in m..n}
    <3>1. ASSUME NEW k \in m..n PROVE \E j \in DOMAIN idx' : idx'[j] = idx[k]
      <4>1. k - ChunkSize \in 1..(n - ChunkSize) /\ (k - ChunkSize) + ChunkSize = k
        BY <1>1, <1>5
      <4>. QED BY <2>1, <4>1
    <3>2. ASSUME NEW k \in DOMAIN idx' PROVE \E j \in m..n : idx'[k] = idx[j]
      <4>1. k + ChunkSize \in m..n
        BY <1>1, <1>5, <2>1
      <4>. QED BY <2>1, <4>1
    <3>. QED BY <3>1, <3>2
  <2>5. 1..n = (1..ChunkSize) \cup (m..n) /\ (1..ChunkSize) \cap (m..n) = {}
    BY <1>1, <1>5
  <2>6. {idx[k] : k \in DOMAIN idx} = Chunk \cup {idx'[k] : k \in DOMAIN idx'}
    BY <1>1, <2>3, <2>4, <2>5
  <2>7. Chunk \cap {idx'[k] : k \in DOMAIN idx'} = {}
    BY <1>2, <2>3, <2>4, <2>5
  <2>. QED BY <1>1, <1>3, <2>1, <2>6, <2>7 DEF n
<1>. QED BY <1>1, <1>4, <1>5 DEF n

\* An answer, or none, leaves every input what it was when it was selected.
LEMMA DetailKeeps ==
  ASSUME TypeInv, DetailAnswers \/ DetailFails
  PROVE  /\ DOMAIN inputs' = DOMAIN inputs /\ Len(inputs') = Len(inputs)
         /\ \A i \in DOMAIN inputs : /\ inputs'[i].pr = inputs[i].pr
                                     /\ NeedsDetail(inputs'[i]) <=> NeedsDetail(inputs[i])
<1>1. \A i \in DOMAIN inputs : inputs[i] \in Input
  BY DEF TypeInv, InputsInv
<1>2. ASSUME NEW i \in DOMAIN inputs
      PROVE  \A page \in ContextPage :
               \/ inputs'[i] = inputs[i] \/ inputs'[i] = Without(inputs[i])
               \/ inputs'[i] = Detailed(inputs[i], page)
               => /\ inputs'[i].pr = inputs[i].pr
                  /\ NeedsDetail(inputs'[i]) <=> NeedsDetail(inputs[i])
  <2>1. inputs[i] \in Input
    BY <1>1
  <2>. SUFFICES ASSUME NEW page \in ContextPage,
                       \/ inputs'[i] = inputs[i] \/ inputs'[i] = Without(inputs[i])
                       \/ inputs'[i] = Detailed(inputs[i], page)
                PROVE  /\ inputs'[i].pr = inputs[i].pr
                       /\ NeedsDetail(inputs'[i]) <=> NeedsDetail(inputs[i])
    OBVIOUS
  <2>2. CASE inputs'[i] = inputs[i]
    BY <2>2
  <2>3. CASE inputs'[i] = Without(inputs[i])
    BY <2>1, <2>3, WithoutType
  <2>4. CASE inputs'[i] = Detailed(inputs[i], page)
    BY <2>1, <2>4, DetailedType
  <2>. QED BY <2>2, <2>3, <2>4
<1>3. inputs' \in Seq(Input)
  BY DetailTyped DEF TypeInv, InputsInv
<1>4. CASE DetailFails
  <2>1. inputs' = [i \in DOMAIN inputs |->
                     IF i \in Chunk THEN Without(inputs[i]) ELSE inputs[i]]
    BY <1>4 DEF DetailFails
  <2>2. DOMAIN inputs' = DOMAIN inputs
    BY <2>1
  <2>3. \A i \in DOMAIN inputs : inputs'[i] = inputs[i] \/ inputs'[i] = Without(inputs[i])
    BY <2>1
  <2>4. NoContexts \in ContextPage
    BY DEF NoContexts, ContextPage
  <2>5. Len(inputs') = Len(inputs)
    BY <1>3, <2>2 DEF TypeInv, InputsInv
  <2>. QED BY <1>2, <2>2, <2>3, <2>4, <2>5, Zenon
<1>5. CASE DetailAnswers
  <2>1. PICK lost \in [Chunk -> DetailLosses], read \in SUBSET Chunk :
           /\ \A i \in DOMAIN inputs :
                /\ i \notin Chunk => inputs'[i] = inputs[i]
                /\ i \notin read => view'[i] = view[i]
                /\ i \in Chunk \ read => inputs'[i] = Without(inputs[i])
                /\ i \in read =>
                     /\ inputs'[i] = Detailed(inputs[i],
                                              ContextsAnswer(Now(inputs[i].pr), 1, lost[i]))
                     /\ view'[i] = [view[i] EXCEPT !.checks = Now(inputs[i].pr).checks]
                     /\ Now(inputs[i].pr).rollup
                /\ i \in Chunk /\ lost[i] = {} /\ Now(inputs[i].pr).rollup => i \in read
           /\ unread' = unread \cup {inputs[i].pr : i \in Chunk \ read}
           /\ maimed' = maimed \cup {inputs[i].pr : i \in {c \in read : lost[c] # {}}}
           /\ DOMAIN inputs' = DOMAIN inputs /\ DOMAIN view' = DOMAIN view
    BY <1>5, DetailGives
  <2>2. ASSUME NEW i \in DOMAIN inputs
        PROVE  /\ inputs'[i].pr = inputs[i].pr
               /\ NeedsDetail(inputs'[i]) <=> NeedsDetail(inputs[i])
    <3>. DEFINE page == ContextsAnswer(Now(inputs[i].pr), 1, lost[i])
    <3>1. page \in ContextPage
      BY NowOnBoard, ContextsAnswerType
    <3>2. \/ inputs'[i] = inputs[i] \/ inputs'[i] = Without(inputs[i])
          \/ inputs'[i] = Detailed(inputs[i], page)
      BY <2>1
    <3>. HIDE DEF page
    <3>. QED BY <1>2, <3>1, <3>2, Zenon
  <2>3. Len(inputs') = Len(inputs)
    BY <1>3, <2>1 DEF TypeInv, InputsInv
  <2>. QED BY <2>1, <2>2, <2>3
<1>. QED BY <1>4, <1>5

\* A chunk changes no answer to whether the checks of an input matter.
LEMMA NeededKept ==
  ASSUME TypeInv, DetailAnswers \/ DetailFails
  PROVE  /\ Needed' = Needed
         /\ StillToAsk' = {inputs[idx'[k]].pr : k \in DOMAIN idx'}
<1>1. /\ DOMAIN inputs' = DOMAIN inputs
      /\ \A i \in DOMAIN inputs : /\ inputs'[i].pr = inputs[i].pr
                                  /\ NeedsDetail(inputs'[i]) <=> NeedsDetail(inputs[i])
  BY DetailKeeps
<1>2. {n \in DOMAIN inputs' : NeedsDetail(inputs'[n])} = {n \in DOMAIN inputs : NeedsDetail(inputs[n])}
  BY <1>1
<1>3. Needed' = Needed
  BY <1>1, <1>2 DEF Needed
<1>4. \A k \in DOMAIN idx' : idx'[k] \in DOMAIN inputs
  BY ChunkAsked DEF DetailAnswers, DetailFails
<1>5. StillToAsk' = {inputs[idx'[k]].pr : k \in DOMAIN idx'}
  BY <1>1, <1>4 DEF StillToAsk
<1>. QED BY <1>3, <1>5

\* A chunk moves its pull requests from those to ask for to those asked for.
LEMMA AskedByDetail ==
  TypeInv /\ AskedInv /\ (DetailAnswers \/ DetailFails) => AskedInv'
<1>. SUFFICES ASSUME TypeInv, AskedInv, DetailAnswers \/ DetailFails PROVE AskedInv'
  OBVIOUS
<1>. DEFINE now == {inputs[i].pr : i \in Chunk}
            later == {inputs[idx'[k]].pr : k \in DOMAIN idx'}
            n == Len(asked)
<1>1. /\ Asks /\ pc' = pc /\ pc = "detail" /\ asked' = Append(asked, now)
  BY DEF DetailAnswers, DetailFails, Asks
<1>2. /\ idx # <<>> /\ Len(idx) \in Nat /\ ChunkSize \in Nat
      /\ {idx[k] : k \in DOMAIN idx} = Chunk \cup {idx'[k] : k \in DOMAIN idx'}
      /\ Chunk \cap {idx'[k] : k \in DOMAIN idx'} = {}
      /\ idx' # <<>> => Len(idx') = Len(idx) - ChunkSize
      /\ {idx[k] : k \in DOMAIN idx} \subseteq DOMAIN inputs
  BY <1>1, ChunkSplits
<1>3. StillToAsk = now \cup later
  BY <1>2 DEF StillToAsk
<1>4. now \cap later = {}
  <2>1. \A i, j \in DOMAIN inputs : inputs[i].pr = inputs[j].pr => i = j
    BY DEF TypeInv, InputsInv
  <2>. QED BY <1>2, <2>1
<1>5. now \subseteq PRs
  <2>1. \A i \in DOMAIN inputs : inputs[i] \in Input
    BY DEF TypeInv, InputsInv
  <2>2. \A i \in Input : i.pr \in PRs
    BY DEF Input
  <2>. QED BY <1>2, <2>1, <2>2
<1>6. StillToAsk' = later /\ Needed' = Needed
  BY NeededKept
<1>. HIDE DEF now, later
<1>7. /\ asked' \in Seq(SUBSET PRs) /\ n \in Nat /\ Len(asked') = n + 1
      /\ DOMAIN asked = 1..n /\ DOMAIN asked' = 1..(n + 1)
      /\ asked'[n + 1] = now /\ \A k \in 1..n : asked'[k] = asked[k]
  BY <1>1, <1>5 DEF AskedInv
<1>8. \A k \in 1..(n + 1) : k \in 1..n \/ k = n + 1
  BY <1>7
<1>. HIDE DEF n
<1>9. \A k \in 1..n : asked[k] \cap now = {} /\ asked[k] \cap later = {}
  BY <1>3, <1>7 DEF AskedInv
<1>10. \A j, k \in DOMAIN asked' : j # k => asked'[j] \cap asked'[k] = {}
  <2>1. \A j, k \in 1..n : j # k => asked[j] \cap asked[k] = {}
    BY <1>7 DEF AskedInv
  <2>. QED BY <1>7, <1>8, <1>9, <2>1
<1>11. \A k \in DOMAIN asked' : asked'[k] \cap StillToAsk' = {}
  BY <1>4, <1>6, <1>7, <1>8, <1>9
<1>12. (UNION {asked'[k] : k \in DOMAIN asked'}) \cup StillToAsk' = Needed'
  <2>1. UNION {asked'[k] : k \in DOMAIN asked'} = (UNION {asked[k] : k \in DOMAIN asked}) \cup now
    <3>1. {asked'[k] : k \in DOMAIN asked'} = {asked[k] : k \in DOMAIN asked} \cup {now}
      <4>1. n + 1 \in 1..(n + 1) /\ 1..n \subseteq 1..(n + 1)
        BY <1>7
      <4>. QED BY <1>7, <1>8, <4>1
    <3>. QED BY <3>1
  <2>. QED BY <1>3, <1>6, <2>1 DEF AskedInv
<1>13. /\ idx' # <<>> => ChunkSize * Len(asked') + Len(idx') <= Len(inputs')
       /\ ChunkSize * (Len(asked') - 1) < Len(inputs')
  <2>1. Len(inputs') = Len(inputs) /\ Len(inputs) \in Nat
    BY DetailKeeps DEF TypeInv, InputsInv
  <2>2. ChunkSize * n + Len(idx) <= Len(inputs)
    BY <1>2 DEF AskedInv, n
  <2>3. ChunkSize * Len(asked') = ChunkSize * n + ChunkSize /\ ChunkSize * (Len(asked') - 1) = ChunkSize * n
        /\ ChunkSize * n \in Nat
    <3>1. \A c \in Nat, a \in Nat : c * (a + 1) = c * a + c /\ c * ((a + 1) - 1) = c * a /\ c * a \in Nat
      OBVIOUS
    <3>. QED BY <1>2, <1>7, <3>1
  <2>4. Len(idx) >= 1
    BY <1>2 DEF TypeInv, IdxInv
  <2>. DEFINE product == ChunkSize * n
  <2>. HIDE DEF product
  <2>5. ChunkSize * Len(asked') = product + ChunkSize /\ ChunkSize * (Len(asked') - 1) = product
        /\ product \in Nat /\ product + Len(idx) <= Len(inputs)
    BY <2>2, <2>3 DEF product
  <2>. QED BY ONLY <1>2, <2>1, <2>4, <2>5
<1>. QED BY <1>1, <1>7, <1>10, <1>11, <1>12, <1>13 DEF AskedInv

LEMMA AskedStep == TypeInv /\ AskedInv /\ [Next]_vars => AskedInv'
<1>. SUFFICES ASSUME TypeInv, AskedInv, [Next]_vars PROVE AskedInv'
  OBVIOUS
<1>1. CASE SearchAnswers
  <2>1. pc = "search" /\ asked = <<>> /\ asked' = <<>> /\ pc' = "detail" /\ idx' = Selected(inputs')
    BY <1>1 DEF SearchAnswers, AskedInv
  <2>2. inputs' \in Seq(Input)
    BY <1>1, SearchTyped DEF TypeInv, InputsInv
  <2>. DEFINE S == {i \in DOMAIN inputs' : NeedsDetail(inputs'[i])}
  <2>3. {idx'[k] : k \in DOMAIN idx'} = S /\ Len(idx') <= Len(inputs') /\ idx' \in Seq(DOMAIN inputs')
    BY <2>1, <2>2, SelectedLists
  <2>4. StillToAsk' = {inputs'[i].pr : i \in {idx'[k] : k \in DOMAIN idx'}}
    BY DEF StillToAsk
  <2>5. StillToAsk' = Needed'
    BY <2>3, <2>4 DEF Needed
  <2>6. UNION {asked'[k] : k \in DOMAIN asked'} = {} /\ DOMAIN asked' = {} /\ Len(asked') = 0
        /\ asked' \in Seq(SUBSET PRs)
    BY <2>1
  <2>7. /\ ChunkSize * Len(asked') + Len(idx') <= Len(inputs')
        /\ ChunkSize * (Len(asked') - 1) < Len(inputs') \/ inputs' = <<>>
    <3>1. ChunkSize \in Nat /\ ChunkSize >= 1 /\ Len(inputs') \in Nat /\ Len(idx') \in Nat
      BY <2>2, <2>3, MineAssumption
    <3>2. \A c \in Nat : c * 0 = 0 /\ c * (0 - 1) = 0 - c
      OBVIOUS
    <3>3. ChunkSize * Len(asked') = 0 /\ ChunkSize * (Len(asked') - 1) = 0 - ChunkSize
      BY <2>6, <3>1, <3>2
    <3>. QED BY <2>3, <3>1, <3>3
  <2>. QED BY <2>1, <2>5, <2>6, <2>7 DEF AskedInv
<1>2. CASE DetailAnswers \/ DetailFails
  BY <1>2, AskedByDetail
<1>3. CASE Arrange
  <2>. DEFINE n == Len(inputs)
  <2>1. /\ inputs' = [k \in DOMAIN RowOrder |-> inputs[RowOrder[k]]]
        /\ pc' = "rows" /\ idx = <<>> /\ idx' = <<>> /\ asked' = asked /\ pc = "detail"
    BY <1>3 DEF Arrange
  <2>2. /\ n \in Nat /\ DOMAIN inputs = 1..n /\ DOMAIN RowOrder = 1..n
        /\ \A k \in 1..n : RowOrder[k] \in 1..n
        /\ \A i \in 1..n : \E k \in 1..n : RowOrder[k] = i
    BY RowOrderLists DEF TypeInv
  <2>3. /\ DOMAIN inputs' = 1..n /\ \A k \in 1..n : inputs'[k] = inputs[RowOrder[k]]
    BY <2>1, <2>2
  <2>4. Len(inputs') = Len(inputs)
    <3>1. inputs' \in Seq(Input)
      BY <1>3, ArrangeTyped DEF TypeInv, InputsInv
    <3>. QED BY <2>2, <2>3, <3>1
  <2>. HIDE DEF n
  <2>5. Needed' = Needed
    <3>1. ASSUME NEW k \in 1..n, NeedsDetail(inputs'[k]) PROVE inputs'[k].pr \in Needed
      BY <2>2, <2>3, <3>1 DEF Needed
    <3>2. ASSUME NEW i \in 1..n, NeedsDetail(inputs[i]) PROVE inputs[i].pr \in Needed'
      <4>1. PICK k \in 1..n : RowOrder[k] = i
        BY <2>2
      <4>2. inputs'[k] = inputs[i]
        BY <2>3, <4>1
      <4>. QED BY <2>3, <3>2, <4>2 DEF Needed
    <3>3. Needed \subseteq Needed'
      BY <2>2, <3>2 DEF Needed
    <3>4. \A p \in Needed' : \E k \in 1..n : NeedsDetail(inputs'[k]) /\ p = inputs'[k].pr
      BY <2>3 DEF Needed
    <3>. QED BY <3>1, <3>3, <3>4
  <2>6. StillToAsk = {} /\ StillToAsk' = {}
    BY <2>1 DEF StillToAsk
  <2>7. inputs' # <<>> => inputs # <<>>
    BY <2>4 DEF TypeInv, InputsInv
  <2>8. StillToAsk' = StillToAsk
    BY <2>6
  <2>9. /\ asked' \in Seq(SUBSET PRs)
        /\ \A j, k \in DOMAIN asked' : j # k => asked'[j] \cap asked'[k] = {}
        /\ \A k \in DOMAIN asked' : asked'[k] \cap StillToAsk' = {}
        /\ (UNION {asked'[k] : k \in DOMAIN asked'}) \cup StillToAsk' = Needed'
    BY <2>1, <2>5, <2>8 DEF AskedInv
  <2>10. inputs' # <<>> => ChunkSize * (Len(asked') - 1) < Len(inputs')
    BY <2>1, <2>4, <2>7 DEF AskedInv
  <2>. QED BY <2>1, <2>9, <2>10 DEF AskedInv
<1>4. ASSUME UNCHANGED <<inputs, idx, asked>>,
             pc' = pc \/ (pc = "search" /\ pc' = "done") \/ (pc = "rows" /\ pc' \in {"rows", "done"})
      PROVE  AskedInv'
  <2>1. StillToAsk' = StillToAsk /\ Needed' = Needed
    BY <1>4 DEF StillToAsk, Needed
  <2>. QED BY <1>4, <2>1 DEF AskedInv
<1>5. CASE SearchFails
  BY <1>4, <1>5 DEF SearchFails, history
<1>6. CASE WriteRow \/ WriteLastLine \/ WriteFails
  BY <1>4, <1>6 DEF WriteRow, WriteLastLine, WriteFails, history
<1>7. CASE WorldMoves
  BY <1>4, <1>7 DEF WorldMoves, code
<1>8. CASE UNCHANGED vars
  BY <1>4, <1>8 DEF vars, code, history
<1>. QED BY <1>1, <1>2, <1>3, <1>5, <1>6, <1>7, <1>8 DEF Next, Step, Stop

LEMMA AskedInit == Init => AskedInv
<1>. SUFFICES ASSUME Init PROVE AskedInv
  OBVIOUS
<1>1. inputs = <<>> /\ idx = <<>> /\ asked = <<>> /\ pc = "search"
  BY DEF Init
<1>2. StillToAsk = {} /\ Needed = {} /\ UNION {asked[k] : k \in DOMAIN asked} = {}
  BY <1>1 DEF StillToAsk, Needed
<1>. QED BY <1>1, <1>2 DEF AskedInv

\* Whatever chunk fails, every pull request whose checks matter is asked for in
\* one query and no other is, in as few queries as the chunks allow, for every
\* board, every chunk size and whatever moves meanwhile (resolveDetail).
THEOREM EveryDetailAskedOnce == Spec => []AskedOnce
<1>1. Spec => []AskedInv
  BY AskedInit, AskedStep, TypesKept, PTL DEF Spec
<1>. QED BY <1>1, AskedHolds, PTL

-----------------------------------------------------------------------------
(* The rows are the inputs, summarized.                                    *)

\* The fields a report has, and those Summarize touches.
LEMMA ReportFields ==
  ASSUME NEW in
  PROVE  /\ DOMAIN Synthesize(in) =
              {"pr", "state", "blockers", "pending", "nonBlocking", "checks",
               "unresolvedThreads", "behindBy", "ci", "review", "mergeable",
               "mergeState", "queue", "degraded", "final", "fp"}
         /\ Synthesize(in).pr = in.pr
<1>1. CASE in.prState \in {"MERGED", "CLOSED"}
  BY <1>1 DEF Synthesize, TerminalReport
<1>2. CASE in.prState \notin {"MERGED", "CLOSED"}
  BY <1>2 DEF Synthesize, OpenReport
<1>. QED BY <1>1, <1>2

\* Summarize drops nothing the exit code or the row's degradation come from.
LEMMA SummaryKeeps ==
  ASSUME NEW in
  PROVE  /\ Summarize(in).pr = in.pr
         /\ Summarize(in).degraded = Synthesize(in).degraded
         /\ ExitForReport(Summarize(in)) = ExitForReport(Synthesize(in))
<1>. DEFINE r == Synthesize(in)
            queue == [r.queue EXCEPT !.eta = 0]
            s == [r EXCEPT !.nonBlocking = {}, !.checks = NoChecks, !.queue = queue]
<1>1. "pr" \in DOMAIN r /\ "degraded" \in DOMAIN r /\ "state" \in DOMAIN r /\ "final" \in DOMAIN r
      /\ r.pr = in.pr
  BY ReportFields
<1>2. Summarize(in) = s
  BY DEF Summarize
<1>. HIDE DEF r, queue
<1>3. s.pr = in.pr /\ s.degraded = r.degraded /\ s.state = r.state /\ s.final = r.final
  BY <1>1
<1>. HIDE DEF s
<1>4. ExitForReport(s) = ExitForReport(r)
  BY <1>3 DEF ExitForReport
<1>. QED BY <1>2, <1>3, <1>4 DEF r

RowOf(in) == [exit |-> ExitForReport(Summarize(in)), report |-> Summarize(in)]

\* A poll that goes well so far, or ended well.
Well == pc \in {"detail", "rows"} \/ (pc = "done" /\ worst < 3)

RowsAreInputs ==
  /\ \E S : rows \in Seq(S)
  /\ Len(rows) <= Len(inputs)
  /\ \A k \in DOMAIN rows : rows[k] = RowOf(inputs[k])
  /\ pc \in {"search", "detail"} => rows = <<>>
  /\ pc = "search" => inputs = <<>>

\* What is known of the whole board: no pull request the search gave is lost
\* on the way to the rows, and the rows ascend.
BoardWritten ==
  /\ Well => \A m \in DOMAIN Found :
               \/ Found[m].pr = 0
               \/ Taken(errors, m)
               \/ \E i \in DOMAIN inputs : inputs[i].pr = Found[m].pr
  /\ Well /\ pc # "detail" =>
       \A j, k \in DOMAIN inputs : j < k => inputs[j].pr < inputs[k].pr
  /\ pc = "done" /\ worst < 3 => Len(rows) = Len(inputs) /\ (cut <=> Truncated)

\* When the rows are the inputs and the inputs cover the search, none is missing.
LEMMA RowsHold == TypeInv /\ RowsAreInputs /\ BoardWritten => WholeBoardWritten
<1>. SUFFICES ASSUME TypeInv, RowsAreInputs, BoardWritten, pc = "done", worst < 3
              PROVE  /\ \A j, k \in Written : j < k => rows[j].report.pr < rows[k].report.pr
                     /\ cut <=> Len(board) > Len(rows)
                     /\ \A i \in DOMAIN Found :
                          \/ Found[i].pr = 0
                          \/ \E e \in errors : e.at = i /\ e.climbs
                          \/ \E k \in Written : rows[k].report.pr = Found[i].pr
  BY DEF WholeBoardWritten
<1>1. /\ Len(rows) = Len(inputs) /\ (cut <=> Truncated) /\ DOMAIN inputs = 1..Len(inputs)
      /\ Written = 1..Len(rows)
  BY DEF BoardWritten, Written, RowsAreInputs, TypeInv, InputsInv
<1>2. ASSUME NEW k \in Written PROVE rows[k].report.pr = inputs[k].pr /\ k \in DOMAIN inputs
  <2>1. rows[k] = RowOf(inputs[k])
    BY DEF RowsAreInputs, Written
  <2>2. rows[k].report = Summarize(inputs[k])
    BY <2>1 DEF RowOf
  <2>. QED BY <1>1, <2>2, SummaryKeeps
<1>3. \A j, k \in DOMAIN inputs : j < k => inputs[j].pr < inputs[k].pr
  BY DEF BoardWritten, Well
<1>4. cut <=> Len(board) > Len(rows)
  BY <1>1 DEF Truncated
<1>5. ASSUME NEW m \in DOMAIN Found
      PROVE  \/ Found[m].pr = 0
             \/ Taken(errors, m)
             \/ \E k \in Written : rows[k].report.pr = Found[m].pr
  <2>1. \/ Found[m].pr = 0
        \/ Taken(errors, m)
        \/ \E i \in DOMAIN inputs : inputs[i].pr = Found[m].pr
    BY DEF BoardWritten, Well
  <2>2. DOMAIN inputs = Written
    BY <1>1
  <2>. QED BY <1>2, <2>1, <2>2
<1>. QED BY <1>2, <1>3, <1>4, <1>5 DEF Taken

LEMMA RowsAreInit == Init => RowsAreInputs /\ BoardWritten
<1>. SUFFICES ASSUME Init PROVE RowsAreInputs /\ BoardWritten
  OBVIOUS
<1>1. rows \in Seq({}) /\ rows = <<>> /\ inputs = <<>> /\ pc = "search"
  BY DEF Init
<1>2. Len(rows) <= Len(inputs) /\ DOMAIN rows = {}
  BY <1>1
<1>. QED BY <1>1, <1>2 DEF RowsAreInputs, BoardWritten, Well

\* One more row is the next input's.
LEMMA RowWritten == TypeInv /\ RowsAreInputs /\ WriteRow => RowsAreInputs'
<1>. SUFFICES ASSUME TypeInv, RowsAreInputs, WriteRow PROVE RowsAreInputs'
  OBVIOUS
<1>. DEFINE n == Len(rows)
            r == RowOf(inputs[n + 1])
<1>1. /\ pc = "rows" /\ pc' = "rows" /\ inputs' = inputs /\ n < Len(inputs)
      /\ rows' = Append(rows, r)
  BY DEF WriteRow, RowOf
<1>2. PICK S : rows \in Seq(S)
  BY DEF RowsAreInputs
<1>. DEFINE T == S \cup {r}
<1>3. rows \in Seq(T) /\ r \in T /\ n \in Nat /\ DOMAIN rows = 1..n
  BY <1>2
<1>. HIDE DEF T
<1>4. /\ rows' \in Seq(T) /\ Len(rows') = n + 1 /\ DOMAIN rows' = 1..(n + 1)
      /\ \A k \in 1..n : rows'[k] = rows[k]
      /\ rows'[n + 1] = r
  BY <1>1, <1>3
<1>5. Len(inputs) \in Nat
  BY DEF TypeInv, InputsInv
<1>6. ASSUME NEW k \in DOMAIN rows' PROVE rows'[k] = RowOf(inputs'[k])
  <2>1. k \in 1..n \/ k = n + 1
    BY <1>3, <1>4
  <2>. QED BY <1>1, <1>3, <1>4, <2>1 DEF RowsAreInputs
<1>7. Len(rows') <= Len(inputs')
  BY <1>1, <1>3, <1>4, <1>5
<1>. QED BY <1>1, <1>4, <1>6, <1>7 DEF RowsAreInputs

LEMMA RowsAreStep == TypeInv /\ RowsAreInputs /\ [Next]_vars => RowsAreInputs'
<1>. SUFFICES ASSUME TypeInv, RowsAreInputs, [Next]_vars PROVE RowsAreInputs'
  OBVIOUS
<1>1. ASSUME rows = <<>>, rows' = <<>>, pc' # "search", inputs' \in Seq(Input) PROVE RowsAreInputs'
  <2>1. Len(rows') = 0 /\ DOMAIN rows' = {} /\ Len(inputs') \in Nat /\ rows' \in Seq({})
    BY <1>1
  <2>. QED BY <1>1, <2>1 DEF RowsAreInputs
<1>2. inputs' \in Seq(Input)
  BY TypeStep DEF TypeInv, InputsInv
<1>3. CASE SearchAnswers \/ DetailAnswers \/ DetailFails \/ Arrange
  <2>1. pc \in {"search", "detail"} /\ rows' = rows /\ pc' # "search"
    BY <1>3 DEF SearchAnswers, DetailAnswers, DetailFails, Asks, Arrange
  <2>. QED BY <1>1, <1>2, <2>1 DEF RowsAreInputs
<1>4. CASE WriteRow
  BY <1>4, RowWritten
<1>5. ASSUME UNCHANGED <<rows, inputs>>, pc' = pc \/ pc' = "done"
      PROVE  RowsAreInputs'
  BY <1>5 DEF RowsAreInputs
<1>6. CASE SearchFails \/ WriteLastLine \/ WriteFails
  BY <1>5, <1>6 DEF SearchFails, WriteLastLine, WriteFails
<1>7. CASE WorldMoves
  BY <1>5, <1>7 DEF WorldMoves, code
<1>8. CASE UNCHANGED vars
  BY <1>5, <1>8 DEF vars, code
<1>. QED BY <1>3, <1>4, <1>6, <1>7, <1>8 DEF Next, Step, Stop

\* What the search gave and no error took has its input from the start.
LEMMA SearchCovers ==
  ASSUME TypeInv, SearchAnswers
  PROVE  \A m \in DOMAIN Found : \/ Found[m].pr = 0
                                 \/ Taken(errors', m)
                                 \/ \E i \in DOMAIN inputs' : inputs'[i].pr = Found[m].pr
<1>1. PICK errs \in ErrorSets :
        /\ \A e \in errs : Possible(e)
        /\ errors' = errs
        /\ inputs' = Attributed(SearchNodes(errs), errs)
        /\ view' = Filtered(Found, PRNodes(SearchNodes(errs)))
        /\ searched' = {Found[i] : i \in PRNodes(SearchNodes(errs))}
  BY DEF SearchAnswers
<1>. DEFINE nodes == SearchNodes(errs)
            S == PRNodes(nodes)
            kept == InOrder(S)
            n == Cardinality(S)
<1>2. BoardInv
  BY DEF TypeInv
<1>3. /\ \A m \in DOMAIN Found : m \in S <=> Found[m].pr # 0 /\ ~Taken(errs, m)
      /\ \A m \in S : \E k \in 1..n : kept[k] = m
  <2>. HIDE DEF nodes, S, kept, n
  <2>1. nodes = SearchNodes(errs) /\ S = PRNodes(nodes) /\ kept = InOrder(S) /\ n = Cardinality(S)
    BY DEF nodes, S, kept, n
  <2>. QED BY ONLY <1>2, <2>1, KeptNodes
<1>. HIDE DEF nodes, S, kept, n
<1>4. DOMAIN inputs' = 1..n /\ \A k \in 1..n : inputs'[k].pr = Found[kept[k]].pr
  BY <1>1, <1>2, SearchedInputs DEF nodes, S, kept, n
<1>. QED BY <1>1, <1>3, <1>4

\* After the search, the inputs go on covering what it found.
LEMMA BoardWrittenStep ==
  TypeInv /\ RowsAreInputs /\ BoardWritten /\ [Next]_vars => BoardWritten'
<1>. SUFFICES ASSUME TypeInv, RowsAreInputs, BoardWritten, [Next]_vars PROVE BoardWritten'
  OBVIOUS
<1>1. CASE SearchAnswers
  <2>1. board' = board /\ pc' = "detail"
    BY <1>1 DEF SearchAnswers
  <2>2. Found' = Found
    BY <2>1 DEF Found
  <2>. QED BY <1>1, <2>1, <2>2, SearchCovers DEF BoardWritten, Taken
<1>2. CASE SearchFails
  BY <1>2 DEF SearchFails, BoardWritten, Well
<1>3. CASE DetailAnswers \/ DetailFails
  <2>1. UNCHANGED <<board, pc, errors>> /\ pc = "detail"
    BY <1>3 DEF DetailAnswers, DetailFails, Asks
  <2>2. Found' = Found
    BY <2>1 DEF Found
  <2>3. DOMAIN inputs' = DOMAIN inputs /\ \A i \in DOMAIN inputs : inputs'[i].pr = inputs[i].pr
    BY <1>3, DetailKeeps
  <2>4. Well
    BY <2>1 DEF Well
  <2>5. \A m \in DOMAIN Found' :
               \/ Found'[m].pr = 0
               \/ Taken(errors', m)
               \/ \E i \in DOMAIN inputs' : inputs'[i].pr = Found'[m].pr
    BY <2>1, <2>2, <2>3, <2>4 DEF BoardWritten
  <2>. QED BY <2>1, <2>5 DEF BoardWritten, Taken
<1>4. CASE Arrange
  <2>. DEFINE n == Len(inputs)
  <2>1. /\ inputs' = [k \in DOMAIN RowOrder |-> inputs[RowOrder[k]]]
        /\ pc' = "rows" /\ pc = "detail" /\ UNCHANGED <<board, errors>>
    BY <1>4 DEF Arrange
  <2>2. /\ n \in Nat /\ DOMAIN inputs = 1..n /\ DOMAIN RowOrder = 1..n
        /\ \A k \in 1..n : RowOrder[k] \in 1..n
        /\ \A i \in 1..n : \E k \in 1..n : RowOrder[k] = i
        /\ \A j, k \in 1..n :
              j < k => inputs[RowOrder[j]].pr < inputs[RowOrder[k]].pr
    BY RowOrderLists DEF TypeInv
  <2>. HIDE DEF n
  <2>3. DOMAIN inputs' = 1..n /\ \A k \in 1..n : inputs'[k] = inputs[RowOrder[k]]
    BY <2>1, <2>2
  <2>4. Found' = Found
    BY <2>1 DEF Found
  <2>5. Well
    BY <2>1 DEF Well
  <2>6. ASSUME NEW m \in DOMAIN Found', Found'[m].pr # 0, ~Taken(errors', m)
        PROVE  \E k \in DOMAIN inputs' : inputs'[k].pr = Found'[m].pr
    <3>1. PICK i \in DOMAIN inputs : inputs[i].pr = Found[m].pr
      BY <2>1, <2>4, <2>5, <2>6 DEF BoardWritten, Taken
    <3>2. PICK k \in 1..n : RowOrder[k] = i
      BY <2>2, <3>1
    <3>. QED BY <2>3, <2>4, <3>1, <3>2
  <2>7. ASSUME NEW j \in DOMAIN inputs', NEW k \in DOMAIN inputs', j < k
        PROVE  inputs'[j].pr < inputs'[k].pr
    <3>1. j \in 1..n /\ k \in 1..n /\ inputs'[j] = inputs[RowOrder[j]]
          /\ inputs'[k] = inputs[RowOrder[k]]
      BY <2>3
    <3>2. inputs[RowOrder[j]].pr < inputs[RowOrder[k]].pr
      BY <2>2, <2>7, <3>1
    <3>. QED BY <3>1, <3>2
  <2>. QED BY <2>1, <2>6, <2>7 DEF BoardWritten
<1>5. CASE WriteRow
  <2>1. UNCHANGED <<board, pc, inputs, errors, cut>> /\ pc = "rows"
    BY <1>5 DEF WriteRow, history
  <2>2. Found' = Found /\ Well
    BY <2>1 DEF Found, Well
  <2>. QED BY <2>1, <2>2 DEF BoardWritten, Taken
<1>6. CASE WriteLastLine
  <2>1. /\ UNCHANGED <<board, inputs, rows, errors>> /\ pc = "rows" /\ pc' = "done"
        /\ cut' = Truncated /\ Len(rows) = Len(inputs)
    BY <1>6 DEF WriteLastLine, history
  <2>2. Found' = Found /\ Well /\ Truncated' = Truncated
    BY <2>1 DEF Found, Well, Truncated
  <2>. QED BY <2>1, <2>2 DEF BoardWritten, Taken
<1>7. CASE WriteFails
  BY <1>7 DEF WriteFails, BoardWritten, Well
<1>8. CASE WorldMoves
  <2>1. BoardInv' /\ DOMAIN board' = DOMAIN board
        /\ \A m \in DOMAIN board : board'[m].pr = board[m].pr
    BY <1>8, MoveKeepsPRs
  <2>2. UNCHANGED <<pc, inputs, errors>> /\ pc = "detail"
    BY <1>8 DEF WorldMoves, code
  <2>3. Len(board') = Len(board)
    BY <2>1 DEF TypeInv, BoardInv
  <2>4. Smaller(Limit, Len(board)) \in Nat /\ Smaller(Limit, Len(board)) <= Len(board)
    BY MineAssumption DEF Smaller, TypeInv, BoardInv
  <2>5. DOMAIN Found' = DOMAIN Found
    <3>. DEFINE k == Smaller(Limit, Len(board))
    <3>1. Found' = SubSeq(board', 1, k) /\ Found = SubSeq(board, 1, k)
      BY <2>3 DEF Found
    <3>. QED BY <2>1, <2>3, <2>4, <3>1 DEF TypeInv, BoardInv
  <2>6. ASSUME NEW m \in DOMAIN Found PROVE Found'[m].pr = Found[m].pr
    <3>1. Found[m] = board[m] /\ m \in DOMAIN board
      BY FoundOnBoard DEF TypeInv
    <3>2. Found'[m] = board'[m]
      <4>. DEFINE k == Smaller(Limit, Len(board))
      <4>1. Found' = SubSeq(board', 1, k) /\ m \in 1..k
        <5>1. Found = SubSeq(board, 1, k)
          BY DEF Found
        <5>. QED BY <2>3, <2>4, <5>1 DEF TypeInv, BoardInv, Found
      <4>2. k \in Nat /\ k <= Len(board') /\ board' \in Seq(Worlds \cup {NoPR})
        BY <2>1, <2>3, <2>4 DEF BoardInv
      <4>. HIDE DEF k
      <4>. QED BY <4>1, <4>2
    <3>. QED BY <2>1, <3>1, <3>2
  <2>7. Well
    BY <2>2 DEF Well
  <2>8. \A m \in DOMAIN Found' :
               \/ Found'[m].pr = 0
               \/ Taken(errors', m)
               \/ \E i \in DOMAIN inputs' : inputs'[i].pr = Found'[m].pr
    BY <2>2, <2>5, <2>6, <2>7 DEF BoardWritten
  <2>. QED BY <2>2, <2>8 DEF BoardWritten
<1>9. CASE UNCHANGED vars
  BY <1>9 DEF vars, code, history, BoardWritten, Well, Found, Taken, Truncated
<1>. QED BY <1>1, <1>2, <1>3, <1>4, <1>5, <1>6, <1>7, <1>8, <1>9 DEF Next, Step, Stop

LEMMA RowsAreKept == Spec => []RowsAreInputs
BY RowsAreInit, RowsAreStep, TypesKept, PTL DEF Spec

\* An exit code below 3 speaks for every pull request the search gave: the rows
\* ascend, none is missing but for a node an error took whole, and the last line
\* tells of more, for boards, limits and chunks of every size (runMine, Mine).
THEOREM NoRowIsMissing == Spec => []WholeBoardWritten
<1>1. Spec => []BoardWritten
  BY RowsAreInit, BoardWrittenStep, TypesKept, RowsAreKept, PTL DEF Spec
<1>. QED BY <1>1, RowsHold, TypesKept, RowsAreKept, PTL

-----------------------------------------------------------------------------
(* The tokens of an input, and the items they come from.                   *)

Marks == {"behind", "threads_truncated", "checks_truncated"}

PlainItems == \A e \in errors : e.loss # "threadNode"

OwnTokens(b, errs, pr) ==
  Partial({FieldOf(e.loss) : e \in {f \in errs : f.at # 0 => b[f.at].pr = pr}})

InputTokens(i) ==
  /\ inputs[i].degraded \ Marks
       = OwnTokens(board, errors, inputs[i].pr) \cup If(inputs[i].pr \in unread, {"required"})
  /\ ~inputs[i].threadsKnown => "threads" \in inputs[i].degraded
  /\ ~inputs[i].requiredKnown => inputs[i].contexts = {}

TokensInv ==
  /\ \A e \in errors : e.at # 0 => e.at \in DOMAIN board
  /\ pc = "search" => unread = {}
  /\ PlainItems => \A i \in DOMAIN inputs : InputTokens(i)

\* The tokens of a row are those of its input.
LEMMA RowTokens ==
  ASSUME NEW in, ~in.threadsKnown => "threads" \in in.degraded,
         ~in.requiredKnown => in.contexts = {}
  PROVE  Synthesize(in).degraded \ Marks = in.degraded \ Marks
<1>1. FinishTokens(in) \subseteq in.degraded
  BY DEF FinishTokens, If
<1>. QED BY <1>1, ReportTokens DEF Marks

LEMMA TokensHold == TypeInv /\ RowsAreInputs /\ TokensInv => ErrorsDegradeTheirOwn
<1>. SUFFICES ASSUME TypeInv, RowsAreInputs, TokensInv, PlainItems, NEW k \in Written
              PROVE  rows[k].report.degraded \ Marks
                       = Partial({FieldOf(e.loss) : e \in {f \in errors : About(k, f)}})
                           \cup If(rows[k].report.pr \in unread, {"required"})
  BY DEF ErrorsDegradeTheirOwn, PlainItems, Marks
<1>. DEFINE in == inputs[k]
<1>1. k \in DOMAIN inputs
  BY DEF RowsAreInputs, Written, TypeInv, InputsInv
<1>2. rows[k].report = Summarize(in)
  BY DEF RowsAreInputs, Written, RowOf
<1>3. rows[k].report.pr = in.pr /\ rows[k].report.degraded = Synthesize(in).degraded
  BY <1>2, SummaryKeeps
<1>4. /\ in.degraded \ Marks = OwnTokens(board, errors, in.pr) \cup If(in.pr \in unread, {"required"})
      /\ ~in.threadsKnown => "threads" \in in.degraded
      /\ ~in.requiredKnown => in.contexts = {}
  BY <1>1 DEF TokensInv, InputTokens
<1>5. OwnTokens(board, errors, in.pr) = Partial({FieldOf(e.loss) : e \in {f \in errors : About(k, f)}})
  BY <1>3 DEF OwnTokens, About
<1>. HIDE DEF in
<1>. QED BY <1>3, <1>4, <1>5, RowTokens

\* The item's index finds the input of the pull request the search asked at
\* that place, and no other.
LEMMA HitsItsOwn ==
  ASSUME BoardInv, NEW errs, NEW nodes, nodes = SearchNodes(errs),
         NEW S, S = PRNodes(nodes), NEW kept, kept = InOrder(S), NEW n, n = Cardinality(S),
         NEW k \in 1..n, NEW e, e.loss # "threadNode", Possible(e)
  PROVE  Hits(nodes, e, k) <=> (e.at # 0 => board[e.at].pr = board[kept[k]].pr)
<1>1. /\ DOMAIN nodes = DOMAIN Found /\ kept \in [1..n -> DOMAIN Found]
      /\ \A m \in S : \E j \in 1..n : kept[j] = m
      /\ \A j \in 1..n : kept[j] \in S /\ Found[kept[j]].pr # 0 /\ NodeToInput(nodes, kept[j]) = j
  BY KeptNodes
<1>2. ItemNode(e) = e.at
  BY DEF ItemNode
<1>3. DOMAIN Found \subseteq DOMAIN board /\ DOMAIN Found \subseteq Int
      /\ \A m \in DOMAIN Found : Found[m] = board[m]
  BY FoundOnBoard
<1>4. kept[k] \in DOMAIN Found /\ kept[k] \in S /\ board[kept[k]].pr # 0
  BY <1>1, <1>3
<1>5. CASE e.at = 0
  BY <1>2, <1>5 DEF Hits
<1>6. CASE e.at # 0
  <2>1. e.at \in DOMAIN Found /\ e.at \in DOMAIN board
    BY <1>3, <1>6 DEF Possible
  <2>2. board[e.at].pr = board[kept[k]].pr <=> e.at = kept[k]
    BY <1>3, <1>4, <2>1 DEF BoardInv, OnceEach
  <2>3. Hits(nodes, e, k) <=> e.at \in S /\ NodeToInput(nodes, e.at) = k
    BY <1>1, <1>2, <1>6, <2>1 DEF Hits, PRNodes
  <2>4. e.at \in S /\ NodeToInput(nodes, e.at) = k <=> e.at = kept[k]
    BY <1>1, <1>4
  <2>. QED BY <1>6, <2>2, <2>3, <2>4
<1>. QED BY <1>5, <1>6

\* The search degrades an input by the items that hit its node.
LEMMA TokensFound == TypeInv /\ TokensInv /\ SearchAnswers => TokensInv'
<1>. SUFFICES ASSUME TypeInv, TokensInv, SearchAnswers PROVE TokensInv'
  OBVIOUS
<1>1. PICK errs \in ErrorSets :
        /\ \A e \in errs : Possible(e)
        /\ errors' = errs
        /\ inputs' = Attributed(SearchNodes(errs), errs)
        /\ view' = Filtered(Found, PRNodes(SearchNodes(errs)))
        /\ searched' = {Found[i] : i \in PRNodes(SearchNodes(errs))}
  BY DEF SearchAnswers
<1>2. board' = board /\ pc' = "detail" /\ unread' = {}
  BY DEF SearchAnswers, TokensInv
<1>. DEFINE nodes == SearchNodes(errs)
            S == PRNodes(nodes)
            kept == InOrder(S)
            n == Cardinality(S)
            v == view'
<1>3. BoardInv
  BY DEF TypeInv
<1>4. DOMAIN Found \subseteq DOMAIN board /\ \A m \in DOMAIN Found : Found[m] = board[m]
  BY <1>3, FoundOnBoard
<1>5. \A e \in errs : e.at # 0 => e.at \in DOMAIN board
  BY <1>1, <1>4 DEF Possible
<1>6. kept \in [1..n -> DOMAIN Found]
      /\ \A k \in 1..n : kept[k] \in DOMAIN Found /\ Found[kept[k]] \in World
  <2>. HIDE DEF nodes, S, kept, n
  <2>1. nodes = SearchNodes(errs) /\ S = PRNodes(nodes) /\ kept = InOrder(S) /\ n = Cardinality(S)
    BY DEF nodes, S, kept, n
  <2>2. kept \in [1..n -> DOMAIN Found] /\ \A k \in 1..n : Found[kept[k]] \in World
    BY ONLY <1>3, <2>1, KeptNodes
  <2>. QED BY <2>2
<1>7. ASSUME NEW k \in 1..n, NEW e \in errs, e.loss # "threadNode"
      PROVE  Hits(nodes, e, k) <=> (e.at # 0 => board[e.at].pr = board[kept[k]].pr)
  BY <1>1, <1>3, <1>7, HitsItsOwn
<1>. HIDE DEF S, kept, n
<1>8. /\ DOMAIN inputs' = 1..n
      /\ \A k \in 1..n :
           /\ v[k] = Found[kept[k]] /\ inputs'[k].pr = v[k].pr
           /\ inputs'[k] = Degrade(Coarse(SearchNode(v[k], LossesAt(errs, kept[k]))),
                                   HitTokens(nodes, errs, k))
  BY <1>1, <1>3, SearchedInputs DEF S, kept, n
<1>9. ASSUME PlainItems', NEW k \in 1..n PROVE InputTokens(k)'
  <2>. DEFINE node == SearchNode(v[k], LossesAt(errs, kept[k]))
              tokens == HitTokens(nodes, errs, k)
  <2>1. \A e \in errs : e.loss # "threadNode"
    BY <1>1, <1>9 DEF PlainItems
  <2>2. v[k] \in World /\ v[k] = board[kept[k]] /\ inputs'[k].pr = board[kept[k]].pr
    BY <1>4, <1>6, <1>8
  <2>3. node \in PRNode /\ node.statusCheckRollup.contexts = NoContexts
    BY <2>2, SearchNodeType
  <2>4. inputs'[k] = Degrade(Coarse(node), tokens)
    BY <1>8
  <2>5. tokens = OwnTokens(board', errors', inputs'[k].pr)
    <3>1. {f \in errs : Hits(nodes, f, k)}
            = {f \in errs : f.at # 0 => board[f.at].pr = inputs'[k].pr}
      BY <1>7, <2>1, <2>2
    <3>. QED BY <1>1, <1>2, <3>1 DEF HitTokens, OwnTokens
  <2>6. tokens \subseteq {"threads", "checks", "required", "merge_state"}
    <3>1. \A e \in {f \in errs : Hits(nodes, f, k)} : e.loss \in Losses
      BY MineAssumption DEF ErrorItem
    <3>. QED BY <3>1, TokensOfItems DEF HitTokens
  <2>. HIDE DEF node, tokens
  <2>. DEFINE coarse == Coarse(node)
  <2>7. coarse \in Input /\ coarse.threadsKnown /\ ~coarse.requiredKnown
        /\ coarse.degraded \subseteq {"threads_truncated"} /\ coarse.contexts = {}
    BY <2>3, CoarseType
  <2>8. inputs'[k] = Degrade(coarse, tokens) /\ tokens \in SUBSET Tokens
    BY <2>4, <2>6 DEF Tokens
  <2>. HIDE DEF coarse
  <2>9. /\ inputs'[k].contexts = {}
        /\ inputs'[k].degraded = coarse.degraded \cup tokens
        /\ inputs'[k].threadsKnown = (coarse.threadsKnown /\ "threads" \notin tokens)
    BY <2>7, <2>8, DegradeKeeps
  <2>10. inputs'[k].degraded \ Marks = tokens
    BY <2>6, <2>7, <2>9 DEF Marks
  <2>11. ~inputs'[k].threadsKnown => "threads" \in inputs'[k].degraded
    BY <2>7, <2>9
  <2>. QED BY <1>2, <2>5, <2>9, <2>10, <2>11 DEF InputTokens, If
<1>10. PlainItems' => \A i \in DOMAIN inputs' : InputTokens(i)'
  BY <1>8, <1>9
<1>. QED BY <1>1, <1>2, <1>5, <1>10 DEF TokensInv

\* A chunk that was lost or failed degrades by what it was asked for.
LEMMA TokensOfDetail ==
  TypeInv /\ TokensInv /\ (DetailAnswers \/ DetailFails) => TokensInv'
<1>. SUFFICES ASSUME TypeInv, TokensInv, DetailAnswers \/ DetailFails PROVE TokensInv'
  OBVIOUS
<1>1. UNCHANGED <<board, pc, errors>> /\ pc = "detail"
  BY DEF DetailAnswers, DetailFails, Asks
<1>2. /\ Chunk \subseteq DOMAIN inputs
      /\ \A i \in DOMAIN inputs : inputs[i] \in Input
      /\ \A i, j \in DOMAIN inputs : inputs[i].pr = inputs[j].pr => i = j
  BY ChunkAsked DEF TypeInv, InputsInv, DetailAnswers, DetailFails
<1>3. DOMAIN inputs' = DOMAIN inputs /\ \A i \in DOMAIN inputs : inputs'[i].pr = inputs[i].pr
  BY DetailKeeps
<1>4. \E read \in SUBSET Chunk :
        /\ \A i \in DOMAIN inputs :
             /\ i \notin Chunk => inputs'[i] = inputs[i]
             /\ i \in Chunk \ read => inputs'[i] = Without(inputs[i])
             /\ i \in read => \E page \in ContextPage : inputs'[i] = Detailed(inputs[i], page)
        /\ unread' = unread \cup {inputs[i].pr : i \in Chunk \ read}
  <2>1. CASE DetailFails
    <3>1. /\ inputs' = [i \in DOMAIN inputs |->
                          IF i \in Chunk THEN Without(inputs[i]) ELSE inputs[i]]
          /\ unread' = unread \cup {inputs[i].pr : i \in Chunk}
      BY <2>1 DEF DetailFails
    <3>2. /\ \A i \in DOMAIN inputs : /\ i \notin Chunk => inputs'[i] = inputs[i]
                                      /\ i \in Chunk \ {} => inputs'[i] = Without(inputs[i])
          /\ Chunk \ {} = Chunk
      BY <3>1
    <3>. QED BY <3>1, <3>2
  <2>2. CASE DetailAnswers
    <3>1. PICK lost \in [Chunk -> DetailLosses], read \in SUBSET Chunk :
           /\ \A i \in DOMAIN inputs :
                /\ i \notin Chunk => inputs'[i] = inputs[i]
                /\ i \notin read => view'[i] = view[i]
                /\ i \in Chunk \ read => inputs'[i] = Without(inputs[i])
                /\ i \in read =>
                     /\ inputs'[i] = Detailed(inputs[i],
                                              ContextsAnswer(Now(inputs[i].pr), 1, lost[i]))
                     /\ view'[i] = [view[i] EXCEPT !.checks = Now(inputs[i].pr).checks]
                     /\ Now(inputs[i].pr).rollup
                /\ i \in Chunk /\ lost[i] = {} /\ Now(inputs[i].pr).rollup => i \in read
           /\ unread' = unread \cup {inputs[i].pr : i \in Chunk \ read}
           /\ maimed' = maimed \cup {inputs[i].pr : i \in {c \in read : lost[c] # {}}}
           /\ DOMAIN inputs' = DOMAIN inputs /\ DOMAIN view' = DOMAIN view
      BY <2>2, DetailGives
    <3>2. ASSUME NEW i \in DOMAIN inputs, i \in read
          PROVE  \E page \in ContextPage : inputs'[i] = Detailed(inputs[i], page)
      <4>. DEFINE page == ContextsAnswer(Now(inputs[i].pr), 1, lost[i])
      <4>1. page \in ContextPage
        BY NowOnBoard, ContextsAnswerType
      <4>2. inputs'[i] = Detailed(inputs[i], page)
        BY <3>1, <3>2
      <4>. QED BY <4>1, <4>2
    <3>. QED BY <3>1, <3>2
  <2>. QED BY <2>1, <2>2
<1>5. PICK read \in SUBSET Chunk :
        /\ \A i \in DOMAIN inputs :
             /\ i \notin Chunk => inputs'[i] = inputs[i]
             /\ i \in Chunk \ read => inputs'[i] = Without(inputs[i])
             /\ i \in read => \E page \in ContextPage : inputs'[i] = Detailed(inputs[i], page)
        /\ unread' = unread \cup {inputs[i].pr : i \in Chunk \ read}
  BY <1>4
<1>6. ASSUME NEW i \in DOMAIN inputs, InputTokens(i) PROVE InputTokens(i)'
  <2>1. OwnTokens(board', errors', inputs'[i].pr) = OwnTokens(board, errors, inputs[i].pr)
    BY <1>1, <1>3 DEF OwnTokens
  <2>2. inputs'[i].pr \in unread' <=> inputs[i].pr \in unread \/ i \in Chunk \ read
    BY <1>2, <1>3, <1>5
  <2>3. CASE i \notin Chunk
    BY <1>5, <1>6, <2>1, <2>2, <2>3 DEF InputTokens, If
  <2>4. CASE i \in Chunk \ read
    <3>. DEFINE j == Without(inputs[i])
    <3>1. inputs'[i] = j
      BY <1>5, <2>4
    <3>2. /\ j.requiredKnown = inputs[i].requiredKnown
          /\ j.threadsKnown = inputs[i].threadsKnown
          /\ j.contexts = inputs[i].contexts
          /\ j.degraded = inputs[i].degraded \cup {"required"}
      BY <1>2, WithoutType
    <3>. HIDE DEF j
    <3>3. j.degraded \ Marks = (inputs[i].degraded \ Marks) \cup {"required"}
      BY <3>2 DEF Marks
    <3>4. inputs'[i].pr \in unread'
      BY <2>2, <2>4
    <3>5. j.degraded \ Marks = OwnTokens(board, errors, inputs[i].pr) \cup {"required"}
      BY <1>6, <3>3 DEF InputTokens, If
    <3>. QED BY <1>6, <2>1, <3>1, <3>2, <3>4, <3>5 DEF InputTokens, If
  <2>5. CASE i \in read
    <3>1. PICK page \in ContextPage : inputs'[i] = Detailed(inputs[i], page)
      BY <1>5, <2>5
    <3>. DEFINE j == Detailed(inputs[i], page)
    <3>2. /\ j.requiredKnown
          /\ j.threadsKnown = inputs[i].threadsKnown
          /\ j.degraded = inputs[i].degraded \cup If(page.hasNext, {"checks_truncated"})
      BY <1>2, DetailedType
    <3>3. inputs'[i] = j
      BY <3>1
    <3>. HIDE DEF j
    <3>4. j.degraded \ Marks = inputs[i].degraded \ Marks
      BY <3>2 DEF Marks, If
    <3>5. inputs'[i].pr \in unread' <=> inputs[i].pr \in unread
      BY <2>2, <2>5
    <3>6. j.degraded \ Marks = OwnTokens(board', errors', inputs'[i].pr) \cup If(inputs'[i].pr \in unread', {"required"})
      BY <1>6, <2>1, <3>4, <3>5 DEF InputTokens, If
    <3>7. ~j.threadsKnown => "threads" \in j.degraded
      BY <1>6, <3>2 DEF InputTokens
    <3>. QED BY <3>2, <3>3, <3>6, <3>7 DEF InputTokens
  <2>. QED BY <2>3, <2>4, <2>5
<1>. QED BY <1>1, <1>3, <1>6 DEF TokensInv, PlainItems

LEMMA TokensStep == TypeInv /\ TokensInv /\ [Next]_vars => TokensInv'
<1>. SUFFICES ASSUME TypeInv, TokensInv, [Next]_vars PROVE TokensInv'
  OBVIOUS
<1>1. CASE SearchAnswers
  BY <1>1, TokensFound
<1>2. CASE DetailAnswers \/ DetailFails
  BY <1>2, TokensOfDetail
<1>3. CASE Arrange
  <2>. DEFINE n == Len(inputs)
  <2>1. /\ inputs' = [k \in DOMAIN RowOrder |-> inputs[RowOrder[k]]]
        /\ pc' = "rows" /\ UNCHANGED <<board, errors, unread>>
    BY <1>3 DEF Arrange
  <2>2. /\ n \in Nat /\ DOMAIN inputs = 1..n /\ DOMAIN RowOrder = 1..n
        /\ \A k \in 1..n : RowOrder[k] \in 1..n
    BY RowOrderLists DEF TypeInv
  <2>. HIDE DEF n
  <2>3. DOMAIN inputs' = 1..n /\ \A k \in 1..n : inputs'[k] = inputs[RowOrder[k]]
    BY <2>1, <2>2
  <2>4. ASSUME NEW k \in 1..n, \A i \in DOMAIN inputs : InputTokens(i) PROVE InputTokens(k)'
    <3>1. InputTokens(RowOrder[k]) /\ inputs'[k] = inputs[RowOrder[k]]
      BY <2>2, <2>3, <2>4
    <3>2. OwnTokens(board', errors', inputs'[k].pr) = OwnTokens(board, errors, inputs[RowOrder[k]].pr)
      BY <2>1, <3>1 DEF OwnTokens
    <3>. QED BY <2>1, <3>1, <3>2 DEF InputTokens
  <2>. QED BY <2>1, <2>3, <2>4 DEF TokensInv, PlainItems
<1>4. CASE WorldMoves
  <2>1. DOMAIN board' = DOMAIN board /\ \A m \in DOMAIN board : board'[m].pr = board[m].pr
    BY <1>4, MoveKeepsPRs
  <2>2. UNCHANGED <<pc, inputs, errors, unread>>
    BY <1>4 DEF WorldMoves, code
  <2>3. ASSUME NEW pr PROVE OwnTokens(board', errors', pr) = OwnTokens(board, errors, pr)
    <3>1. {f \in errors : f.at # 0 => board'[f.at].pr = pr}
            = {f \in errors : f.at # 0 => board[f.at].pr = pr}
      BY <2>1 DEF TokensInv
    <3>. QED BY <2>2, <3>1 DEF OwnTokens
  <2>4. ASSUME NEW i \in DOMAIN inputs, InputTokens(i) PROVE InputTokens(i)'
    <3>1. OwnTokens(board', errors', inputs'[i].pr) = OwnTokens(board, errors, inputs[i].pr)
      BY <2>2, <2>3
    <3>. QED BY <2>2, <2>4, <3>1 DEF InputTokens
  <2>. QED BY <2>1, <2>2, <2>4 DEF TokensInv, PlainItems
<1>5. ASSUME UNCHANGED <<board, inputs, errors, unread>>, pc' = pc \/ pc' # "search"
      PROVE  TokensInv'
  BY <1>5 DEF TokensInv, PlainItems, InputTokens, OwnTokens
<1>6. CASE SearchFails \/ WriteRow \/ WriteLastLine \/ WriteFails
  BY <1>5, <1>6 DEF SearchFails, WriteRow, WriteLastLine, WriteFails, history
<1>7. CASE UNCHANGED vars
  BY <1>5, <1>7 DEF vars, code, history
<1>. QED BY <1>1, <1>2, <1>3, <1>4, <1>6, <1>7 DEF Next, Step, Stop

LEMMA TokensInit == Init => TokensInv
  BY DEF Init, TokensInv

\* An error item of the search degrades the pull request the search asked at
\* that place and no other, however many nodes of the board decode to none,
\* and a failed detail query those of its chunk (Mine, resolveDetail).
THEOREM ErrorsReachTheirOwn == Spec => []ErrorsDegradeTheirOwn
<1>1. Spec => []TokensInv
  BY TokensInit, TokensStep, TypesKept, PTL DEF Spec
<1>. QED BY <1>1, TokensHold, TypesKept, RowsAreKept, PTL

-----------------------------------------------------------------------------
(* What an input says of its pull request.                                 *)

Left == {idx[k] : k \in DOMAIN idx}

\* in has the facts of v, the pull request as the search found it.
SearchedAs(in, v) ==
  /\ in.prState = v.state /\ in.isDraft = v.draft /\ in.mergeable = Mergeable(v)
  /\ in.mergeState = MergeStateStatus(v) /\ in.reviewDecision = v.review
  /\ in.queueEnabled = v.queueEnabled /\ in.missingRequired = {} /\ ~in.convResolution
  /\ in.rollupPresent => v.rollup
  /\ in.degraded = {} \/ errors = {} =>
       /\ in.queue.state = v.queue.state
       /\ in.rollupPresent <=> v.rollup
       /\ v.rollup => in.rollupState = RollupState(v)

\* Only the checks of the view are younger than v, and only where a detail
\* query was answered; an input that needs one and has none says so.
ReadAs(in, w, v, left) ==
  /\ w = [v EXCEPT !.checks = w.checks]
  /\ moved = 0 => w = v /\ \E m \in DOMAIN board : board[m] = v
  /\ ~in.requiredKnown => in.contexts = {} /\ w = v
  /\ in.requiredKnown => NeedsDetail(in) /\ ~left
  /\ in.requiredKnown /\ in.pr \notin maimed /\ "checks_truncated" \notin in.degraded =>
       in.contexts = Walk(w)
  /\ NeedsDetail(in) => \/ left \/ in.requiredKnown
                        \/ in.pr \in unread /\ "required" \in in.degraded

MarkedAs(in, w) ==
  /\ "behind" \notin in.degraded
  /\ "threads_truncated" \in in.degraded => Len(w.threads) > 1
  /\ "checks_truncated" \in in.degraded => in.requiredKnown /\ Len(w.checks) > 1

Described(in, w, left) ==
  \E v \in searched : SearchedAs(in, v) /\ ReadAs(in, w, v, left) /\ MarkedAs(in, w)

DescribedInv ==
  /\ \A i \in DOMAIN inputs : Described(inputs[i], view[i], i \in Left)
  /\ pc \in {"search", "detail"} \/ idx = <<>>

\* What an error item can take from a search node leaves a token, but for
\* what the verdict does without.
LEMMA LossesAreTold ==
  ASSUME NEW errs, NEW tokens, tokens = Partial({FieldOf(e.loss) : e \in errs}), tokens = {},
         NEW e \in errs
  PROVE  e.loss \notin {"statusCheckRollup", "mergeQueueEntry"}
<1>1. OptionalFields[FieldOf(e.loss)] = ""
  <2>1. FieldOf(e.loss) \in {FieldOf(f.loss) : f \in errs}
    OBVIOUS
  <2>. QED BY <2>1 DEF Partial
<1>2. /\ OptionalFields["statusCheckRollup"] = "checks"
      /\ OptionalFields["mergeQueueEntry"] = "merge_state"
  BY DEF OptionalFields
<1>. QED BY <1>1, <1>2 DEF FieldOf

NodeSays(node, w, l) ==
  /\ node.state = w.state /\ node.isDraft = w.draft /\ node.mergeable = Mergeable(w)
  /\ node.mergeStateStatus = MergeStateStatus(w) /\ node.reviewDecision = w.review
  /\ node.isMergeQueueEnabled = w.queueEnabled
  /\ node.baseRef.required = {} /\ node.baseRef.conversations = FALSE
  /\ "mergeQueueEntry" \notin l => node.mergeQueueEntry.state = w.queue.state
  /\ node.statusCheckRollup.present <=> w.rollup /\ "statusCheckRollup" \notin l
  /\ node.statusCheckRollup.present => node.statusCheckRollup.state = RollupState(w)
  /\ node.reviewThreads.hasNext => Len(w.threads) > 1

\* What a node of the search says of its pull request.
LEMMA SearchNodeSays ==
  ASSUME NEW w \in World, NEW l
  PROVE  NodeSays(SearchNode(w, l), w, l)
<1>. DEFINE full == FullAnswer(w, l)
            base == [compare |-> -1, conversations |-> FALSE, required |-> {}]
            queue == [full.mergeQueueEntry EXCEPT !.eta = -1]
            rollup == [full.statusCheckRollup EXCEPT !.contexts = NoContexts]
            n == [full EXCEPT !.viewerCanUpdateBranch = FALSE, !.mergeQueueEntry = queue,
                              !.reviewRequests = {}, !.baseRef = base,
                              !.statusCheckRollup = rollup]
<1>1. SearchNode(w, l) = n
  BY Zenon DEF SearchNode
<1>2. /\ full.state = w.state /\ full.isDraft = w.draft /\ full.mergeable = Mergeable(w)
      /\ full.mergeStateStatus = MergeStateStatus(w) /\ full.reviewDecision = w.review
      /\ full.isMergeQueueEnabled = w.queueEnabled
      /\ full.mergeQueueEntry = IF "mergeQueueEntry" \in l THEN NoQueue ELSE w.queue
      /\ full.statusCheckRollup.present <=> w.rollup /\ "statusCheckRollup" \notin l
      /\ full.statusCheckRollup.present => full.statusCheckRollup.state = RollupState(w)
      /\ full.reviewThreads = ThreadsAnswer(w, 1, l)
  BY DEF FullAnswer
<1>3. full \in PRNode
  BY FullAnswerType
<1>4. /\ full.mergeQueueEntry \in Queue
      /\ full.statusCheckRollup
           \in [present : BOOLEAN, state : StatusStates \cup {""}, contexts : ContextPage]
  BY <1>3 DEF PRNode
<1>5. queue.state = full.mergeQueueEntry.state
  BY <1>4 DEF Queue
<1>6. rollup.present = full.statusCheckRollup.present /\ rollup.state = full.statusCheckRollup.state
  BY <1>4
<1>7. ThreadsAnswer(w, 1, l).hasNext => Len(w.threads) > 1
  <2>1. Len(w.threads) \in Nat
    BY DEF World
  <2>. QED BY <2>1 DEF ThreadsAnswer, NoThreads
<1>8. base.required = {} /\ base.conversations = FALSE
  OBVIOUS
<1>. HIDE DEF full, queue, rollup, base
<1>9. /\ n.state = full.state /\ n.isDraft = full.isDraft /\ n.mergeable = full.mergeable
      /\ n.mergeStateStatus = full.mergeStateStatus /\ n.reviewDecision = full.reviewDecision
      /\ n.isMergeQueueEnabled = full.isMergeQueueEnabled
      /\ n.baseRef = base /\ n.mergeQueueEntry = queue /\ n.statusCheckRollup = rollup
      /\ n.reviewThreads = full.reviewThreads
  BY <1>3 DEF PRNode
<1>. HIDE DEF n
<1>10. NodeSays(n, w, l)
  BY <1>2, <1>5, <1>6, <1>7, <1>8, <1>9 DEF NodeSays
<1>. QED BY <1>1, <1>10

\* The search's facts survive normalization and whatever tokens are added.
LEMMA CoarseSays ==
  ASSUME NEW node \in PRNode, NEW tokens \in SUBSET Tokens,
         NEW in, in = Degrade(Coarse(node), tokens)
  PROVE  /\ in.prState = node.state /\ in.isDraft = node.isDraft
         /\ in.mergeable = node.mergeable /\ in.mergeState = node.mergeStateStatus
         /\ in.reviewDecision = node.reviewDecision
         /\ in.queueEnabled = node.isMergeQueueEnabled /\ in.queue = node.mergeQueueEntry
         /\ in.missingRequired = node.baseRef.required
         /\ in.convResolution = node.baseRef.conversations
         /\ in.rollupPresent = node.statusCheckRollup.present
         /\ in.rollupState = node.statusCheckRollup.state
         /\ in.degraded = If(node.reviewThreads.hasNext, {"threads_truncated"}) \cup tokens
<1>. DEFINE full == Normalize(node)
            mark == If(node.reviewThreads.hasNext, {"threads_truncated"})
            coarse == [full EXCEPT !.requiredKnown = FALSE, !.degraded = mark]
<1>1. full \in Input
  BY NormalizeType
<1>2. Coarse(node) = coarse
  BY DEF Coarse
<1>3. /\ full.prState = node.state /\ full.isDraft = node.isDraft
      /\ full.mergeable = node.mergeable /\ full.mergeState = node.mergeStateStatus
      /\ full.reviewDecision = node.reviewDecision
      /\ full.queueEnabled = node.isMergeQueueEnabled /\ full.queue = node.mergeQueueEntry
      /\ full.missingRequired = node.baseRef.required
      /\ full.convResolution = node.baseRef.conversations
      /\ full.rollupPresent = node.statusCheckRollup.present
      /\ full.rollupState = node.statusCheckRollup.state
  BY DEF Normalize
<1>. HIDE DEF full, mark
<1>4. /\ coarse.prState = full.prState /\ coarse.isDraft = full.isDraft
      /\ coarse.mergeable = full.mergeable /\ coarse.mergeState = full.mergeState
      /\ coarse.reviewDecision = full.reviewDecision
      /\ coarse.queueEnabled = full.queueEnabled /\ coarse.queue = full.queue
      /\ coarse.missingRequired = full.missingRequired
      /\ coarse.convResolution = full.convResolution
      /\ coarse.rollupPresent = full.rollupPresent /\ coarse.rollupState = full.rollupState
      /\ coarse.degraded = mark
  BY <1>1 DEF Input
<1>5. coarse \in Input
  BY <1>2, CoarseType
<1>. HIDE DEF coarse
<1>6. /\ in.prState = coarse.prState /\ in.isDraft = coarse.isDraft
      /\ in.mergeable = coarse.mergeable /\ in.mergeState = coarse.mergeState
      /\ in.reviewDecision = coarse.reviewDecision
      /\ in.queueEnabled = coarse.queueEnabled /\ in.queue = coarse.queue
      /\ in.missingRequired = coarse.missingRequired
      /\ in.convResolution = coarse.convResolution
      /\ in.rollupPresent = coarse.rollupPresent /\ in.rollupState = coarse.rollupState
      /\ in.degraded = coarse.degraded \cup tokens
  <2>1. in = Degrade(coarse, tokens)
    BY <1>2
  <2>. QED BY <1>5, <2>1 DEF Degrade, Input
<1>. QED BY <1>3, <1>4, <1>6 DEF mark

\* An input that was just found describes its pull request.
LEMMA DescribedWhenFound ==
  TypeInv /\ SearchAnswers => \A i \in DOMAIN inputs' :
    Described(inputs[i], view[i], i \in Left)'
<1>. SUFFICES ASSUME TypeInv, SearchAnswers, NEW k \in DOMAIN inputs'
              PROVE  Described(inputs[k], view[k], k \in Left)'
  OBVIOUS
<1>1. PICK errs \in ErrorSets :
        /\ \A e \in errs : Possible(e)
        /\ errors' = errs
        /\ inputs' = Attributed(SearchNodes(errs), errs)
        /\ view' = Filtered(Found, PRNodes(SearchNodes(errs)))
        /\ searched' = {Found[i] : i \in PRNodes(SearchNodes(errs))}
  BY DEF SearchAnswers
<1>2. UNCHANGED <<board, moved, unread, maimed>> /\ idx' = Selected(inputs')
  BY DEF SearchAnswers
<1>. DEFINE nodes == SearchNodes(errs)
            S == PRNodes(nodes)
            kept == InOrder(S)
            n == Cardinality(S)
            in == inputs'[k]
<1>3. BoardInv
  BY DEF TypeInv
<1>4. /\ kept \in [1..n -> DOMAIN Found] /\ \A j \in 1..n : Found[kept[j]].pr # 0
      /\ \A j \in 1..n : kept[j] \in PRNodes(nodes)
  <2>. HIDE DEF nodes, S, kept, n
  <2>1. nodes = SearchNodes(errs) /\ S = PRNodes(nodes) /\ kept = InOrder(S) /\ n = Cardinality(S)
    BY DEF nodes, S, kept, n
  <2>2. /\ kept \in [1..n -> DOMAIN Found] /\ \A j \in 1..n : Found[kept[j]].pr # 0
        /\ \A j \in 1..n : kept[j] \in S
    BY ONLY <1>3, <2>1, KeptNodes
  <2>. QED BY <2>1, <2>2
<1>5. ASSUME NEW j \in 1..n, NEW e \in errs, e.loss # "threadNode", e.at = kept[j]
      PROVE  Hits(nodes, e, j)
  BY <1>1, <1>3, <1>5, HitsItsOwn
<1>. HIDE DEF S, kept, n
<1>6. /\ inputs' \in Seq(Input) /\ DOMAIN inputs' = 1..n
      /\ \A j \in 1..n :
           /\ view'[j] = Found[kept[j]] /\ inputs'[j].pr = view'[j].pr
           /\ inputs'[j] = Degrade(Coarse(SearchNode(view'[j], LossesAt(errs, kept[j]))),
                                   HitTokens(nodes, errs, j))
  BY <1>1, <1>3, SearchedInputs DEF S, kept, n
<1>7. k \in 1..n
  BY <1>6
<1>. DEFINE seen == view'[k]
<1>21. seen \in World /\ seen \in Worlds /\ kept[k] \in DOMAIN board /\ seen = board[kept[k]]
  BY <1>3, <1>4, <1>6, <1>7, FoundOnBoard
<1>22. PICK w \in Worlds : w = view'[k]
  BY <1>21
<1>8. w \in World /\ kept[k] \in DOMAIN board /\ w = board[kept[k]]
  BY <1>21, <1>22
<1>. HIDE DEF seen
<1>. DEFINE l == LossesAt(errs, kept[k])
            node == SearchNode(w, l)
            tokens == HitTokens(nodes, errs, k)
<1>9. tokens \subseteq {"threads", "checks", "required", "merge_state"}
  <2>1. \A e \in {f \in errs : Hits(nodes, f, k)} : e.loss \in Losses
    BY MineAssumption DEF ErrorItem
  <2>. QED BY <2>1, TokensOfItems DEF HitTokens
<1>10. tokens = {} => l \cap {"statusCheckRollup", "mergeQueueEntry"} = {}
  <2>. SUFFICES ASSUME tokens = {}, NEW e \in errs, e.at = kept[k]
                PROVE  e.loss \notin {"statusCheckRollup", "mergeQueueEntry"}
    BY DEF LossesAt
  <2>1. CASE e.loss = "threadNode"
    BY <2>1
  <2>2. CASE e.loss # "threadNode"
    <3>1. e \in {f \in errs : Hits(nodes, f, k)}
      BY <1>5, <1>7, <2>2
    <3>. QED BY <3>1, LossesAreTold DEF HitTokens
  <2>. QED BY <2>1, <2>2
<1>11. errs = {} => l = {}
  BY DEF LossesAt
<1>12. in = Degrade(Coarse(node), tokens)
  BY <1>6, <1>7, <1>22
<1>. HIDE DEF l, tokens
<1>13. /\ node.state = w.state /\ node.isDraft = w.draft /\ node.mergeable = Mergeable(w)
       /\ node.mergeStateStatus = MergeStateStatus(w) /\ node.reviewDecision = w.review
       /\ node.isMergeQueueEnabled = w.queueEnabled
       /\ node.baseRef.required = {} /\ node.baseRef.conversations = FALSE
       /\ "mergeQueueEntry" \notin l => node.mergeQueueEntry.state = w.queue.state
       /\ node.statusCheckRollup.present <=> w.rollup /\ "statusCheckRollup" \notin l
       /\ node.statusCheckRollup.present => node.statusCheckRollup.state = RollupState(w)
       /\ node.reviewThreads.hasNext => Len(w.threads) > 1
  <2>1. NodeSays(node, w, l)
    BY <1>8, SearchNodeSays
  <2>. HIDE DEF node
  <2>. QED BY <2>1 DEF NodeSays
<1>14. node \in PRNode /\ node.statusCheckRollup.contexts = NoContexts
  BY <1>8, SearchNodeType
<1>. HIDE DEF node
<1>15. tokens \in SUBSET Tokens
  BY <1>9 DEF Tokens
<1>16. /\ in.prState = node.state /\ in.isDraft = node.isDraft
       /\ in.mergeable = node.mergeable /\ in.mergeState = node.mergeStateStatus
       /\ in.reviewDecision = node.reviewDecision
       /\ in.queueEnabled = node.isMergeQueueEnabled /\ in.queue = node.mergeQueueEntry
       /\ in.missingRequired = node.baseRef.required
       /\ in.convResolution = node.baseRef.conversations
       /\ in.rollupPresent = node.statusCheckRollup.present
       /\ in.rollupState = node.statusCheckRollup.state
       /\ in.degraded = If(node.reviewThreads.hasNext, {"threads_truncated"}) \cup tokens
  BY <1>12, <1>14, <1>15, CoarseSays
<1>17. ~in.requiredKnown /\ in.contexts = {}
  <2>. DEFINE coarse == Coarse(node)
  <2>1. coarse \in Input /\ ~coarse.requiredKnown /\ coarse.contexts = {}
    BY <1>14, CoarseType
  <2>2. in = Degrade(coarse, tokens)
    BY <1>12
  <2>. HIDE DEF coarse, in
  <2>. QED BY <1>15, <2>1, <2>2, DegradeKeeps
<1>18. NeedsDetail(in) => k \in Left'
  <2>. HIDE DEF in
  <2>. DEFINE needing == {i \in DOMAIN inputs' : NeedsDetail(inputs'[i])}
  <2>1. {idx'[j] : j \in DOMAIN idx'} = needing
    <3>1. idx' = Selected(inputs') /\ inputs' \in Seq(Input)
      BY <1>2, <1>6
    <3>. QED BY ONLY <3>1, SelectedLists
  <2>2. Left' = needing
    BY <2>1 DEF Left
  <2>. HIDE DEF Left
  <2>. QED BY <2>2 DEF in
<1>. HIDE DEF in
<1>19. SearchedAs(inputs[k], w)'
  <2>1. /\ in.prState = w.state /\ in.isDraft = w.draft /\ in.mergeable = Mergeable(w)
        /\ in.mergeState = MergeStateStatus(w) /\ in.reviewDecision = w.review
        /\ in.queueEnabled = w.queueEnabled /\ in.missingRequired = {} /\ ~in.convResolution
        /\ in.rollupPresent => w.rollup
    BY <1>13, <1>16
  <2>2. in.degraded = {} \/ errs = {} =>
          "statusCheckRollup" \notin l /\ "mergeQueueEntry" \notin l
    BY <1>10, <1>11, <1>16
  <2>3. w.rollup \in BOOLEAN
    BY <1>8 DEF World
  <2>4. in.degraded = {} \/ errs = {} =>
          /\ in.queue.state = w.queue.state
          /\ in.rollupPresent <=> w.rollup
          /\ w.rollup => in.rollupState = RollupState(w)
    BY <1>13, <1>16, <2>2, <2>3
  <2>. QED BY <1>1, <2>1, <2>4 DEF SearchedAs, in
<1>20. MarkedAs(in, w)
  BY <1>9, <1>13, <1>16 DEF MarkedAs, If
<1>23. ReadAs(inputs[k], view[k], w, k \in Left)'
  <2>1. w = [w EXCEPT !.checks = w.checks]
    BY <1>8 DEF World
  <2>2. \E m \in DOMAIN board' : board'[m] = w
    BY <1>2, <1>8
  <2>. QED BY <1>17, <1>18, <1>22, <2>1, <2>2 DEF ReadAs, in
<1>24. MarkedAs(inputs[k], view[k])'
  BY <1>20, <1>22 DEF in, MarkedAs
<1>25. w \in searched'
  <2>1. w = Found[kept[k]] /\ kept[k] \in PRNodes(nodes)
    BY <1>4, <1>6, <1>7, <1>22
  <2>. QED BY <1>1, <2>1
<1>. QED BY <1>19, <1>23, <1>24, <1>25 DEF Described

\* Only inputs whose checks matter are in a chunk, and they leave the list.
LEMMA ChunkNeeds ==
  ASSUME TypeInv, AskedInv, Asks
  PROVE  /\ \A i \in Chunk : i \in DOMAIN inputs /\ NeedsDetail(inputs[i])
         /\ Left = Chunk \cup Left' /\ Chunk \cap Left' = {}
<1>1. Left = Chunk \cup Left' /\ Chunk \cap Left' = {} /\ Left \subseteq DOMAIN inputs
  BY ChunkSplits DEF Left
<1>2. ASSUME NEW i \in Chunk PROVE NeedsDetail(inputs[i])
  <2>1. inputs[i].pr \in StillToAsk
    <3>1. PICK k \in DOMAIN idx : idx[k] = i
      BY <1>1, <1>2 DEF Left
    <3>. QED BY <3>1 DEF StillToAsk
  <2>2. inputs[i].pr \in Needed
    BY <2>1 DEF AskedInv
  <2>3. PICK j \in DOMAIN inputs : NeedsDetail(inputs[j]) /\ inputs[j].pr = inputs[i].pr
    BY <2>2 DEF Needed
  <2>4. j = i
    BY <1>1, <2>3 DEF TypeInv, InputsInv
  <2>. QED BY <2>3, <2>4
<1>. QED BY <1>1, <1>2

\* An answer or none, input by input; a pull request that came with an error
\* item is among the maimed.
LEMMA DetailDoes ==
  ASSUME TypeInv, DetailAnswers \/ DetailFails
  PROVE  \E read \in SUBSET Chunk :
           /\ \A i \in DOMAIN inputs :
                /\ i \notin Chunk => inputs'[i] = inputs[i]
                /\ i \notin read => view'[i] = view[i]
                /\ i \in Chunk \ read => /\ inputs'[i] = Without(inputs[i])
                                         /\ inputs[i].pr \in unread'
                /\ i \in read => \E l :
                     /\ inputs'[i] = Detailed(inputs[i],
                                              ContextsAnswer(Now(inputs[i].pr), 1, l))
                     /\ view'[i] = [view[i] EXCEPT !.checks = Now(inputs[i].pr).checks]
                     /\ Now(inputs[i].pr).rollup
                     /\ l # {} => inputs[i].pr \in maimed'
           /\ unread \subseteq unread' /\ maimed \subseteq maimed'
<1>1. CASE DetailFails
  <2>1. /\ inputs' = [i \in DOMAIN inputs |->
                        IF i \in Chunk THEN Without(inputs[i]) ELSE inputs[i]]
        /\ unread' = unread \cup {inputs[i].pr : i \in Chunk}
        /\ UNCHANGED <<view, maimed>>
    BY <1>1 DEF DetailFails
  <2>2. /\ \A i \in DOMAIN inputs :
                /\ i \notin Chunk => inputs'[i] = inputs[i]
                /\ i \notin {} => view'[i] = view[i]
                /\ i \in Chunk \ {} => /\ inputs'[i] = Without(inputs[i])
                                       /\ inputs[i].pr \in unread'
                /\ i \notin {}
        /\ unread \subseteq unread' /\ maimed \subseteq maimed'
    BY <2>1
  <2>3. {} \in SUBSET Chunk
    OBVIOUS
  <2>. QED BY <2>2, <2>3
<1>2. CASE DetailAnswers
  <2>1. PICK lost \in [Chunk -> DetailLosses], read \in SUBSET Chunk :
           /\ \A i \in DOMAIN inputs :
                /\ i \notin Chunk => inputs'[i] = inputs[i]
                /\ i \notin read => view'[i] = view[i]
                /\ i \in Chunk \ read => inputs'[i] = Without(inputs[i])
                /\ i \in read =>
                     /\ inputs'[i] = Detailed(inputs[i],
                                              ContextsAnswer(Now(inputs[i].pr), 1, lost[i]))
                     /\ view'[i] = [view[i] EXCEPT !.checks = Now(inputs[i].pr).checks]
                     /\ Now(inputs[i].pr).rollup
                /\ i \in Chunk /\ lost[i] = {} /\ Now(inputs[i].pr).rollup => i \in read
           /\ unread' = unread \cup {inputs[i].pr : i \in Chunk \ read}
           /\ maimed' = maimed \cup {inputs[i].pr : i \in {c \in read : lost[c] # {}}}
           /\ DOMAIN inputs' = DOMAIN inputs /\ DOMAIN view' = DOMAIN view
    BY <1>2, DetailGives
  <2>2. \A i \in read : lost[i] # {} => inputs[i].pr \in maimed'
    BY <2>1
  <2>3. \A i \in Chunk \ read : inputs[i].pr \in unread'
    BY <2>1
  <2>4. ASSUME NEW i \in DOMAIN inputs, i \in read
        PROVE  \E l :
                     /\ inputs'[i] = Detailed(inputs[i],
                                              ContextsAnswer(Now(inputs[i].pr), 1, l))
                     /\ view'[i] = [view[i] EXCEPT !.checks = Now(inputs[i].pr).checks]
                     /\ Now(inputs[i].pr).rollup
                     /\ l # {} => inputs[i].pr \in maimed'
    <3>. WITNESS lost[i]
    <3>. QED BY <2>1, <2>2, <2>4
  <2>5. unread \subseteq unread' /\ maimed \subseteq maimed'
    BY <2>1
  <2>6. \A i \in DOMAIN inputs :
                /\ i \notin Chunk => inputs'[i] = inputs[i]
                /\ i \notin read => view'[i] = view[i]
                /\ i \in Chunk \ read => inputs'[i] = Without(inputs[i])
    BY <2>1
  <2>. HIDE DEF DetailAnswers
  <2>. QED BY ONLY <2>3, <2>4, <2>5, <2>6
<1>. QED BY <1>1, <1>2

\* A page of checks is all the checks there are unless it says it is not.
LEMMA WholePage ==
  ASSUME NEW now \in World, now.rollup, NEW page, page = ContextsAnswer(now, 1, {})
  PROVE  ~page.hasNext => AppendContexts({}, page.nodes) = Pages(now.checks)
<1>1. now.checks \in Seq(SUBSET Context) /\ Len(now.checks) \in Nat
      /\ DOMAIN now.checks = 1..Len(now.checks)
  BY DEF World
<1>2. page.hasNext <=> 1 < Len(now.checks)
  BY DEF ContextsAnswer
<1>3. AppendContexts({}, page.nodes) = IF 1 \in DOMAIN now.checks THEN now.checks[1] ELSE {}
  <2>1. AppendContexts({}, page.nodes)
          = {} \cup (IF 1 \in DOMAIN now.checks THEN now.checks[1] ELSE {})
    BY PageIsAppended
  <2>. QED BY <2>1
<1>4. CASE Len(now.checks) = 0
  BY <1>1, <1>3, <1>4 DEF Pages
<1>5. CASE Len(now.checks) = 1
  <2>1. DOMAIN now.checks = {1}
    BY <1>1, <1>5
  <2>. QED BY <1>3, <2>1 DEF Pages
<1>6. ~page.hasNext => Len(now.checks) = 0 \/ Len(now.checks) = 1
  <2>1. \A m \in Nat : ~(1 < m) => m = 0 \/ m = 1
    OBVIOUS
  <2>. QED BY <1>1, <1>2, <2>1
<1>. QED BY <1>4, <1>5, <1>6

\* A page that says there is another is not the only one.
LEMMA PageSaysMore ==
  ASSUME NEW now \in World, NEW l
  PROVE  ContextsAnswer(now, 1, l).hasNext => Len(now.checks) > 1
<1>1. Len(now.checks) \in Nat
  BY DEF World
<1>. QED BY <1>1 DEF ContextsAnswer, NoContexts

\* And it goes on describing it when a chunk answers or fails.
LEMMA DescribedByDetail ==
  ASSUME TypeInv, AskedInv, DescribedInv, DetailAnswers \/ DetailFails, NEW i \in DOMAIN inputs
  PROVE  Described(inputs[i], view[i], i \in Left)'
<1>. DEFINE in == inputs[i]
            w == view[i]
            now == Now(in.pr)
<1>1. PICK v \in searched : /\ SearchedAs(in, v) /\ ReadAs(in, w, v, i \in Left)
                          /\ MarkedAs(in, w)
  BY DEF DescribedInv, Described
<1>2. PICK read \in SUBSET Chunk :
           /\ \A j \in DOMAIN inputs :
                /\ j \notin Chunk => inputs'[j] = inputs[j]
                /\ j \notin read => view'[j] = view[j]
                /\ j \in Chunk \ read => /\ inputs'[j] = Without(inputs[j])
                                         /\ inputs[j].pr \in unread'
                /\ j \in read => \E l :
                     /\ inputs'[j] = Detailed(inputs[j],
                                              ContextsAnswer(Now(inputs[j].pr), 1, l))
                     /\ view'[j] = [view[j] EXCEPT !.checks = Now(inputs[j].pr).checks]
                     /\ Now(inputs[j].pr).rollup
                     /\ l # {} => inputs[j].pr \in maimed'
           /\ unread \subseteq unread' /\ maimed \subseteq maimed'
  BY DetailDoes
<1>3. /\ UNCHANGED <<board, moved, searched, errors>> /\ Asks
  BY DEF DetailAnswers, DetailFails
<1>4. /\ \A j \in Chunk : j \in DOMAIN inputs /\ NeedsDetail(inputs[j])
      /\ Left = Chunk \cup Left' /\ Chunk \cap Left' = {}
  BY <1>3, ChunkNeeds
<1>5. in \in Input /\ w \in World
  BY DEF TypeInv, InputsInv
<1>6. CASE i \notin Chunk
  <2>1. inputs'[i] = in /\ view'[i] = w
    BY <1>2, <1>6
  <2>2. SearchedAs(inputs[i], v)' /\ MarkedAs(inputs[i], view[i])'
    BY <1>1, <1>3, <2>1 DEF SearchedAs, MarkedAs
  <2>3. ReadAs(inputs[i], view[i], v, i \in Left)'
    BY <1>1, <1>2, <1>3, <1>4, <1>6, <2>1 DEF ReadAs
  <2>. QED BY <1>1, <1>3, <2>2, <2>3 DEF Described
<1>7. CASE i \in Chunk \ read
  <2>. DEFINE j == Without(in)
  <2>1. inputs'[i] = j /\ view'[i] = w /\ in.pr \in unread' /\ NeedsDetail(in)
    BY <1>2, <1>4, <1>7
  <2>2. /\ j.pr = in.pr /\ (NeedsDetail(j) <=> NeedsDetail(in))
        /\ j.requiredKnown = in.requiredKnown /\ j.contexts = in.contexts
        /\ j.degraded = in.degraded \cup {"required"}
    BY <1>5, WithoutType
  <2>3. /\ j.prState = in.prState /\ j.isDraft = in.isDraft /\ j.mergeable = in.mergeable
        /\ j.mergeState = in.mergeState /\ j.reviewDecision = in.reviewDecision
        /\ j.queueEnabled = in.queueEnabled /\ j.missingRequired = in.missingRequired
        /\ j.convResolution = in.convResolution /\ j.rollupPresent = in.rollupPresent
        /\ j.queue = in.queue /\ j.rollupState = in.rollupState
    BY <1>5 DEF Without, Input
  <2>. HIDE DEF j
  <2>4. SearchedAs(inputs[i], v)'
    BY <1>1, <1>3, <2>1, <2>2, <2>3 DEF SearchedAs
  <2>5. MarkedAs(inputs[i], view[i])'
    BY <1>1, <2>1, <2>2 DEF MarkedAs
  <2>6. ReadAs(inputs[i], view[i], v, i \in Left)'
    <3>1. ~in.requiredKnown
      BY <1>1, <1>4, <1>7 DEF ReadAs
    <3>2. w = [v EXCEPT !.checks = w.checks] /\ in.contexts = {} /\ w = v
          /\ (moved = 0 => \E m \in DOMAIN board : board[m] = v)
      BY <1>1, <3>1 DEF ReadAs
    <3>. HIDE DEF in, w
    <3>. QED BY <1>3, <2>1, <2>2, <3>1, <3>2 DEF ReadAs
  <2>. QED BY <1>1, <1>3, <2>4, <2>5, <2>6 DEF Described
<1>8. CASE i \in read
  <2>1. PICK l : /\ inputs'[i] = Detailed(in, ContextsAnswer(now, 1, l))
                 /\ view'[i] = [w EXCEPT !.checks = now.checks]
                 /\ now.rollup
                 /\ l # {} => in.pr \in maimed'
    BY <1>2, <1>8
  <2>. DEFINE page == ContextsAnswer(now, 1, l)
              j == Detailed(in, page)
  <2>2. /\ now \in World /\ now.pr = in.pr
        /\ \A m \in DOMAIN board : board[m].pr = in.pr => now = board[m]
    BY NowOnBoard
  <2>3. page \in ContextPage
    BY <2>2, ContextsAnswerType
  <2>4. NeedsDetail(in)
    BY <1>4, <1>8
  <2>5. page.hasNext => Len(now.checks) > 1
    BY <2>2, PageSaysMore
  <2>6. l = {} /\ ~page.hasNext => AppendContexts({}, page.nodes) = Pages(now.checks)
    BY <2>1, <2>2, WholePage
  <2>7. inputs'[i] = j
    BY <2>1
  <2>. HIDE DEF now, page
  <2>8. /\ j.pr = in.pr /\ NeedsDetail(j) /\ j.requiredKnown
        /\ j.degraded = in.degraded \cup If(page.hasNext, {"checks_truncated"})
    BY <1>5, <2>3, <2>4, DetailedType
  <2>9. /\ j.prState = in.prState /\ j.isDraft = in.isDraft /\ j.mergeable = in.mergeable
        /\ j.mergeState = in.mergeState /\ j.reviewDecision = in.reviewDecision
        /\ j.queueEnabled = in.queueEnabled /\ j.missingRequired = in.missingRequired
        /\ j.convResolution = in.convResolution /\ j.rollupPresent = in.rollupPresent
        /\ j.queue = in.queue /\ j.rollupState = in.rollupState
        /\ j.contexts = AppendContexts({}, page.nodes)
    BY <1>5 DEF Detailed, Input
  <2>. HIDE DEF j
  <2>10. /\ view'[i].checks = now.checks /\ view'[i].rollup = w.rollup
         /\ view'[i].threads = w.threads
         /\ view'[i] = [v EXCEPT !.checks = view'[i].checks]
    <3>1. v \in World
      BY MineAssumption DEF TypeInv, CountersInv
    <3>2. w = [v EXCEPT !.checks = w.checks]
      BY <1>1 DEF ReadAs
    <3>3. view'[i].checks = now.checks /\ view'[i].rollup = w.rollup
          /\ view'[i].threads = w.threads
      BY <1>5, <2>1 DEF World
    <3>4. [w EXCEPT !.checks = now.checks] = [v EXCEPT !.checks = now.checks]
      BY <3>1, <3>2 DEF World
    <3>. QED BY <2>1, <3>3, <3>4
  <2>11. SearchedAs(inputs[i], v)'
    <3>1. j.degraded = {} => in.degraded = {}
      BY <2>8
    <3>. QED BY <1>1, <1>3, <2>7, <2>9, <3>1 DEF SearchedAs
  <2>12. MarkedAs(inputs[i], view[i])'
    <3>1. ~in.requiredKnown
      BY <1>1, <1>4, <1>8 DEF ReadAs
    <3>. QED BY <1>1, <2>5, <2>7, <2>8, <2>10, <3>1 DEF MarkedAs, If
  <2>13. moved = 0 => view'[i] = v /\ \E m \in DOMAIN board : board[m] = v
    <3>. SUFFICES ASSUME moved = 0 PROVE view'[i] = v /\ \E m \in DOMAIN board : board[m] = v
      OBVIOUS
    <3>1. PICK m \in DOMAIN board : w = v /\ board[m] = v
      BY <1>1 DEF ReadAs
    <3>2. in.pr = w.pr
      BY DEF TypeInv, InputsInv
    <3>3. now = v
      BY <2>2, <3>1, <3>2
    <3>4. [w EXCEPT !.checks = w.checks] = w
      BY <1>5 DEF World
    <3>. QED BY <2>1, <3>1, <3>3, <3>4
  <2>14. v.rollup /\ w.rollup
    <3>1. v.rollup
      BY <1>1, <2>4 DEF SearchedAs, NeedsDetail
    <3>2. w = [v EXCEPT !.checks = w.checks] /\ v \in World
      BY <1>1, MineAssumption DEF ReadAs, TypeInv, CountersInv
    <3>3. [v EXCEPT !.checks = w.checks].rollup = v.rollup
      BY <3>2 DEF World
    <3>. QED BY <3>1, <3>2, <3>3
  <2>15. j.pr \notin maimed' /\ "checks_truncated" \notin j.degraded => j.contexts = Walk(view'[i])
    <3>. SUFFICES ASSUME j.pr \notin maimed', "checks_truncated" \notin j.degraded
                  PROVE  j.contexts = Walk(view'[i])
      OBVIOUS
    <3>1. l = {} /\ ~page.hasNext
      BY <2>1, <2>8 DEF If
    <3>. QED BY <2>6, <2>9, <2>10, <2>14, <3>1 DEF Walk
  <2>16. ReadAs(inputs[i], view[i], v, i \in Left)'
    BY <1>3, <1>4, <1>8, <2>7, <2>8, <2>10, <2>13, <2>15 DEF ReadAs
  <2>. QED BY <1>1, <1>3, <2>11, <2>12, <2>16 DEF Described
<1>. QED BY <1>6, <1>7, <1>8

LEMMA DescribedInit == Init => DescribedInv
  BY DEF Init, DescribedInv

LEMMA DescribedStep == TypeInv /\ AskedInv /\ DescribedInv /\ [Next]_vars => DescribedInv'
<1>. SUFFICES ASSUME TypeInv, AskedInv, DescribedInv, [Next]_vars PROVE DescribedInv'
  OBVIOUS
<1>1. CASE SearchAnswers
  <2>1. pc' = "detail"
    BY <1>1 DEF SearchAnswers
  <2>. QED BY <1>1, <2>1, DescribedWhenFound DEF DescribedInv
<1>2. CASE DetailAnswers \/ DetailFails
  <2>1. pc' = "detail" /\ DOMAIN inputs' = DOMAIN inputs
    BY <1>2, DetailKeeps DEF DetailAnswers, DetailFails, Asks
  <2>2. \A i \in DOMAIN inputs : Described(inputs[i], view[i], i \in Left)'
    BY <1>2, DescribedByDetail
  <2>. QED BY <2>1, <2>2 DEF DescribedInv
<1>3. CASE Arrange
  <2>. DEFINE n == Len(inputs)
  <2>1. /\ inputs' = [k \in DOMAIN RowOrder |-> inputs[RowOrder[k]]]
        /\ view' = [k \in DOMAIN RowOrder |-> view[RowOrder[k]]]
        /\ pc' = "rows" /\ idx = <<>> /\ idx' = <<>>
        /\ UNCHANGED <<board, searched, errors, unread, maimed, moved>>
    BY <1>3 DEF Arrange
  <2>2. /\ n \in Nat /\ DOMAIN inputs = 1..n /\ DOMAIN RowOrder = 1..n
        /\ \A k \in 1..n : RowOrder[k] \in 1..n
    BY RowOrderLists DEF TypeInv
  <2>. HIDE DEF n
  <2>3. /\ DOMAIN inputs' = 1..n
        /\ \A k \in 1..n : /\ inputs'[k] = inputs[RowOrder[k]]
                           /\ view'[k] = view[RowOrder[k]]
    BY <2>1, <2>2
  <2>4. Left = {} /\ Left' = {}
    BY <2>1 DEF Left
  <2>5. ASSUME NEW k \in 1..n PROVE Described(inputs[k], view[k], k \in Left)'
    <3>. DEFINE i == RowOrder[k]
    <3>1. i \in DOMAIN inputs /\ inputs'[k] = inputs[i] /\ view'[k] = view[i]
          /\ i \notin Left /\ k \notin Left'
      BY <2>2, <2>3, <2>4
    <3>. HIDE DEF i
    <3>2. PICK v \in searched : /\ SearchedAs(inputs[i], v) /\ ReadAs(inputs[i], view[i], v, i \in Left)
                              /\ MarkedAs(inputs[i], view[i])
      BY <3>1 DEF DescribedInv, Described
    <3>3. SearchedAs(inputs[k], v)' /\ MarkedAs(inputs[k], view[k])'
      BY <2>1, <3>1, <3>2 DEF SearchedAs, MarkedAs
    <3>4. ReadAs(inputs[k], view[k], v, k \in Left)'
      BY <2>1, <3>1, <3>2 DEF ReadAs
    <3>. QED BY <2>1, <3>2, <3>3, <3>4 DEF Described
  <2>. QED BY <2>1, <2>3, <2>5 DEF DescribedInv
<1>4. CASE WorldMoves
  <2>1. /\ UNCHANGED <<pc, inputs, idx, view, searched, errors, unread, maimed>>
        /\ moved' = moved + 1
    BY <1>4 DEF WorldMoves, code
  <2>2. moved' # 0
    BY <2>1 DEF TypeInv, CountersInv
  <2>3. ASSUME NEW i \in DOMAIN inputs PROVE Described(inputs[i], view[i], i \in Left)'
    <3>1. PICK v \in searched : /\ SearchedAs(inputs[i], v) /\ ReadAs(inputs[i], view[i], v, i \in Left)
                              /\ MarkedAs(inputs[i], view[i])
      BY DEF DescribedInv, Described
    <3>2. SearchedAs(inputs[i], v)' /\ MarkedAs(inputs[i], view[i])'
      BY <2>1, <3>1 DEF SearchedAs, MarkedAs
    <3>3. ReadAs(inputs[i], view[i], v, i \in Left)'
      BY <2>1, <2>2, <3>1 DEF ReadAs, Left
    <3>. QED BY <2>1, <3>1, <3>2, <3>3 DEF Described
  <2>. QED BY <2>1, <2>3 DEF DescribedInv
<1>5. ASSUME UNCHANGED <<board, inputs, idx, view, searched, errors, unread, maimed, moved>>,
             pc' = pc \/ idx = <<>>
      PROVE  DescribedInv'
  <2>1. ASSUME NEW i \in DOMAIN inputs PROVE Described(inputs[i], view[i], i \in Left)'
    <3>1. PICK v \in searched : /\ SearchedAs(inputs[i], v) /\ ReadAs(inputs[i], view[i], v, i \in Left)
                              /\ MarkedAs(inputs[i], view[i])
      BY DEF DescribedInv, Described
    <3>2. SearchedAs(inputs[i], v)' /\ MarkedAs(inputs[i], view[i])'
      BY <1>5, <3>1 DEF SearchedAs, MarkedAs
    <3>3. ReadAs(inputs[i], view[i], v, i \in Left)'
      BY <1>5, <3>1 DEF ReadAs, Left
    <3>. QED BY <1>5, <3>1, <3>2, <3>3 DEF Described
  <2>. QED BY <1>5, <2>1 DEF DescribedInv
<1>6. CASE SearchFails
  BY <1>5, <1>6 DEF SearchFails, history, AskedInv
<1>7. CASE WriteRow \/ WriteLastLine \/ WriteFails
  BY <1>5, <1>7 DEF WriteRow, WriteLastLine, WriteFails, history, AskedInv
<1>8. CASE UNCHANGED vars
  BY <1>5, <1>8 DEF vars, code, history
<1>. QED BY <1>1, <1>2, <1>3, <1>4, <1>6, <1>7, <1>8 DEF Next, Step, Stop

LEMMA AskedKept == Spec => []AskedInv
BY AskedInit, AskedStep, TypesKept, PTL DEF Spec

LEMMA DescribedKept == Spec => []DescribedInv
BY DescribedInit, DescribedStep, TypesKept, AskedKept, PTL DEF Spec

-----------------------------------------------------------------------------
(* What a green row says.                                                  *)

\* A merged pull request exits 0 and a closed one 1, whatever else is known.
LEMMA TerminalExit ==
  ASSUME NEW in
  PROVE  /\ in.prState = "MERGED" => ExitForReport(Synthesize(in)) = 0
         /\ in.prState = "CLOSED" => ExitForReport(Synthesize(in)) = 1
<1>1. in.prState \in {"MERGED", "CLOSED"} =>
        Synthesize(in).state = in.prState /\ Synthesize(in).final = TRUE
  BY DEF Synthesize, TerminalReport
<1>. QED BY <1>1 DEF ExitForReport

\* A pull request whose checks alone were read anew.
LEMMA ChecksOnly ==
  ASSUME NEW v \in World, NEW w, w = [v EXCEPT !.checks = w.checks]
  PROVE  /\ w.state = v.state /\ w.draft = v.draft /\ w.review = v.review
         /\ w.queueEnabled = v.queueEnabled /\ w.queue = v.queue
         /\ w.conflict = v.conflict /\ w.computing = v.computing /\ w.rollup = v.rollup
         /\ MergeStateStatus(w) = "UNKNOWN" <=> MergeStateStatus(v) = "UNKNOWN"
<1>1. /\ w.state = v.state /\ w.draft = v.draft /\ w.review = v.review
      /\ w.queueEnabled = v.queueEnabled /\ w.queue = v.queue
      /\ w.conflict = v.conflict /\ w.computing = v.computing /\ w.rollup = v.rollup
  BY DEF World
<1>2. Mergeable(w) = Mergeable(v)
  BY <1>1 DEF Mergeable
<1>3. \A u : MergeStateStatus(u) = "UNKNOWN" <=>
               Mergeable(u) = "UNKNOWN" \/ "mergeState" \in u.computing
  BY DEF MergeStateStatus
<1>. QED BY <1>1, <1>2, <1>3

\* What the merge state of an open pull request that is not UNKNOWN says.
LEMMA StatusSays ==
  ASSUME NEW w \in World, w.state = "OPEN", MergeStateStatus(w) # "UNKNOWN",
         Mergeable(w) \notin {"CONFLICTING", "UNKNOWN"}
  PROVE  /\ ~w.conflict /\ "mergeable" \notin w.computing
         /\ MergeStateStatus(w) # ""
         /\ w.queueEnabled /\ w.queue.state = NoQueue.state => MergeStateStatus(w) = "BLOCKED"
         /\ ~w.queueEnabled /\ MergeStateStatus(w) \notin {"BEHIND", "BLOCKED"} =>
              ~Forbidden(w) /\ (~w.strict \/ w.behindBy = 0)
         /\ MergeStateStatus(w) # "BLOCKED" => ~Forbidden(w)
<1>1. ~w.conflict /\ "mergeable" \notin w.computing
  BY DEF Mergeable
<1>2. /\ MergeStateStatus(w) # ""
      /\ w.queueEnabled /\ w.queue.state = NoQueue.state => MergeStateStatus(w) = "BLOCKED"
      /\ ~w.queueEnabled /\ MergeStateStatus(w) \notin {"BEHIND", "BLOCKED"} =>
           ~Forbidden(w) /\ ~(w.strict /\ w.behindBy > 0)
      /\ MergeStateStatus(w) # "BLOCKED" => ~Forbidden(w)
  BY <1>1 DEF MergeStateStatus
<1>3. w.behindBy \in Nat
  BY DEF World
<1>4. ~(w.strict /\ w.behindBy > 0) => ~w.strict \/ w.behindBy = 0
  BY <1>3
<1>. QED BY <1>1, <1>2, <1>4

\* The row at k is the verdict on the input at k, which describes view[k].
LEMMA RowReads ==
  ASSUME TypeInv, RowsAreInputs, DescribedInv, NEW k \in Written
  PROVE  /\ k \in DOMAIN inputs /\ inputs[k] \in Input /\ view[k] \in World
         /\ rows[k].report.pr = inputs[k].pr
         /\ rows[k].exit = ExitForReport(Synthesize(inputs[k]))
         /\ Described(inputs[k], view[k], FALSE)
<1>1. k \in DOMAIN inputs
  BY DEF RowsAreInputs, Written, TypeInv, InputsInv
<1>2. rows[k] = RowOf(inputs[k])
  BY DEF RowsAreInputs, Written
<1>3. rows[k].exit = ExitForReport(Summarize(inputs[k])) /\ rows[k].report = Summarize(inputs[k])
  BY <1>2 DEF RowOf
<1>4. rows # <<>>
  BY DEF Written
<1>5. idx = <<>>
  BY <1>4 DEF RowsAreInputs, DescribedInv
<1>6. ~(k \in Left)
  BY <1>5 DEF Left
<1>7. Described(inputs[k], view[k], FALSE)
  <2>1. PICK v \in searched : /\ SearchedAs(inputs[k], v)
                            /\ ReadAs(inputs[k], view[k], v, k \in Left)
                            /\ MarkedAs(inputs[k], view[k])
    BY <1>1 DEF DescribedInv, Described
  <2>2. ReadAs(inputs[k], view[k], v, FALSE)
    BY <1>6, <2>1 DEF ReadAs
  <2>. QED BY <2>1, <2>2 DEF Described
<1>8. inputs[k] \in Input /\ view[k] \in World
  BY <1>1 DEF TypeInv, InputsInv
<1>. QED BY <1>1, <1>3, <1>7, <1>8, SummaryKeeps

\* A green row is earned when every input describes its pull request.
LEMMA GreenHolds ==
  ASSUME TypeInv, RowsAreInputs, DescribedInv, NEW k \in Written,
         rows[k].exit = 0, rows[k].report.pr \notin maimed, ~RowGap(view[k])
  PROVE  \/ Green(ShownOnBoard(view[k]))
         \/ /\ ~view[k].queueEnabled /\ Vouched(view[k])
            /\ \A c \in Walk(view[k]) : c.required => Rank(c) = 0
<1>. DEFINE in == inputs[k]
            w == view[k]
            s == ShownOnBoard(w)
<1>1. /\ in \in Input /\ w \in World /\ rows[k].report.pr = in.pr
      /\ ExitForReport(Synthesize(in)) = 0
  BY RowReads
<1>2. PICK v \in searched : SearchedAs(in, v) /\ ReadAs(in, w, v, FALSE) /\ MarkedAs(in, w)
  <2>1. Described(in, w, FALSE)
    BY RowReads
  <2>. QED BY <2>1 DEF Described
<1>3. v \in World /\ w = [v EXCEPT !.checks = w.checks]
  BY <1>2, MineAssumption DEF ReadAs, TypeInv, CountersInv
<1>4. /\ w.state = v.state /\ w.draft = v.draft /\ w.review = v.review
      /\ w.queueEnabled = v.queueEnabled /\ w.queue = v.queue
      /\ w.conflict = v.conflict /\ w.computing = v.computing /\ w.rollup = v.rollup
      /\ MergeStateStatus(w) = "UNKNOWN" <=> MergeStateStatus(v) = "UNKNOWN"
  BY <1>3, ChecksOnly
<1>. HIDE DEF in, w
<1>5. in.prState = v.state /\ v.state \in {"OPEN", "CLOSED", "MERGED"}
      /\ w.queueEnabled \in BOOLEAN /\ v.rollup \in BOOLEAN
  BY <1>1, <1>2, <1>3 DEF SearchedAs, World
<1>6. v.state # "CLOSED"
  BY <1>1, <1>5, TerminalExit
<1>7. CASE v.state = "MERGED"
  <2>1. s.state = "MERGED"
    BY <1>1, <1>4, <1>7 DEF ShownOnBoard, World
  <2>. QED BY <2>1 DEF Green, w
<1>8. CASE v.state = "OPEN"
  <2>1. NothingInTheWay(in)
    BY <1>1, <1>5, <1>8, ExitZeroIsEarned
  <2>2. in.degraded = {}
    BY <2>1 DEF NothingInTheWay
  <2>3. MergeStateStatus(v) # "UNKNOWN"
    BY <1>4, <1>8 DEF RowGap, w
  <2>4. /\ in.isDraft = v.draft /\ in.mergeable = Mergeable(v)
        /\ in.mergeState = MergeStateStatus(v) /\ in.reviewDecision = v.review
        /\ in.queueEnabled = v.queueEnabled
        /\ in.queue.state = v.queue.state /\ (in.rollupPresent <=> v.rollup)
    BY <1>2, <2>2 DEF SearchedAs
  <2>5. /\ ~v.draft /\ v.review \in {"", "APPROVED"}
        /\ Mergeable(v) \notin {"CONFLICTING", "UNKNOWN"}
        /\ MergeStateStatus(v) \notin {"DIRTY", "BEHIND"} /\ v.queue.state = "NONE"
        /\ MergeStateStatus(v) = "BLOCKED" => v.queueEnabled
    BY <2>1, <2>4 DEF NothingInTheWay, Queued
  <2>6. /\ ~v.conflict /\ "mergeable" \notin v.computing
        /\ v.queueEnabled => MergeStateStatus(v) = "BLOCKED"
        /\ ~v.queueEnabled /\ MergeStateStatus(v) \notin {"BEHIND", "BLOCKED"} =>
             ~Forbidden(v) /\ (~v.strict \/ v.behindBy = 0)
    BY <1>3, <1>8, <2>3, <2>5, StatusSays DEF NoQueue
  <2>7. NamesakesAgree(Walk(w))
    BY DEF RowGap, NamesakesAgree, w
  <2>8. in.requiredKnown => in.contexts = Walk(w)
    BY <1>1, <1>2, <2>2 DEF ReadAs
  <2>9. in.requiredKnown => \A c \in Walk(w) : c.required => Rank(c) = 0
    BY <1>1, <2>1, <2>7, <2>8, RequiredAreDone
  <2>10. CASE ~w.queueEnabled
    <3>1. ~Forbidden(v) /\ (~v.strict \/ v.behindBy = 0)
      BY <1>4, <2>5, <2>6, <2>10
    <3>2. Green(v)
      BY <1>8, <2>5, <2>6, <3>1 DEF Green, NoQueue
    <3>3. Vouched(w)
      BY <1>3, <3>2 DEF Vouched
    <3>4. ~in.requiredKnown => \A c \in Walk(w) : c.required => Rank(c) = 0
      <4>1. ~in.requiredKnown => w = v
        BY <1>2 DEF ReadAs
      <4>. QED BY <3>1, <4>1 DEF Forbidden, RequiredDone
    <3>. QED BY <2>9, <2>10, <3>3, <3>4 DEF w
  <2>11. CASE w.queueEnabled
    <3>1. NeedsDetail(in) <=> v.rollup
      BY <1>4, <2>4, <2>6, <2>11 DEF NeedsDetail
    <3>2. NeedsDetail(in) => in.requiredKnown
      BY <1>2, <2>2 DEF ReadAs
    <3>3. ~v.rollup => Walk(w) = {}
      BY <1>4 DEF Walk
    <3>4. \A c \in Walk(w) : c.required => Rank(c) = 0
      BY <1>5, <2>9, <3>1, <3>2, <3>3
    <3>5. s = [w EXCEPT !.hidden = FALSE, !.conversations = FALSE, !.required = {}]
      BY <2>11 DEF ShownOnBoard
    <3>6. /\ s.state = w.state /\ s.draft = w.draft /\ s.review = w.review
          /\ s.queueEnabled = w.queueEnabled /\ s.queue = w.queue
          /\ s.conflict = w.conflict /\ s.computing = w.computing
          /\ s.rollup = w.rollup /\ s.checks = w.checks
          /\ s.hidden = FALSE /\ s.conversations = FALSE /\ s.required = {}
      BY <1>1, <3>5 DEF World
    <3>. HIDE DEF s
    <3>7. Walk(s) = Walk(w)
      BY <3>6 DEF Walk
    <3>8. RequiredDone(s)
      BY <3>4, <3>6, <3>7 DEF RequiredDone
    <3>9. ~Forbidden(s)
      BY <1>4, <2>5, <3>6, <3>8 DEF Forbidden, ReviewDone
    <3>10. Green(s)
      BY <1>4, <1>8, <2>5, <2>6, <2>11, <3>6, <3>9 DEF Green, NoQueue
    <3>. QED BY <3>10 DEF s, w
  <2>. QED BY <1>5, <2>10, <2>11
<1>. QED BY <1>5, <1>6, <1>7, <1>8

\* A green row is deserved, for boards, worlds, losses, chunks and limits of
\* every size and whatever moves, fails or is lost between two requests: the
\* pull request can be merged or enqueued as the two queries describe it, or it
\* could when it was found and no required check read since speaks against it
\* (Mine, resolveDetail, exitForReport).
THEOREM GreenRowIsEarned == Spec => []RowGreenIsDeserved
<1>1. TypeInv /\ RowsAreInputs /\ DescribedInv => RowGreenIsDeserved
  BY GreenHolds DEF RowGreenIsDeserved
<1>. QED BY <1>1, TypesKept, RowsAreKept, DescribedKept, PTL

-----------------------------------------------------------------------------
(* The board and the pull request asked for alone.                         *)

\* The one query of prq, of a pull request whose lists fit on a page.
LEMMA AloneReads ==
  ASSUME NEW w \in World, OnePage(w), NEW a, a = Normalize(FullAnswer(w, {}))
  PROVE  /\ a \in Input /\ a.prState = w.state /\ a.isDraft = w.draft
         /\ a.mergeable = Mergeable(w) /\ a.mergeState = MergeStateStatus(w)
         /\ a.reviewDecision = w.review /\ a.queueEnabled = w.queueEnabled
         /\ a.queue.state = w.queue.state
         /\ a.missingRequired = If(w.bprReadable, w.required)
         /\ a.convResolution <=> w.bprReadable /\ w.conversations
         /\ a.unresolvedThreads = w.threads[1]
         /\ a.unresolvedThreads = 0 <=> ~Unresolved(w)
         /\ a.contexts = Walk(w) /\ a.requiredKnown /\ a.threadsKnown /\ a.degraded = {}
<1>. DEFINE p == FullAnswer(w, {})
<1>1. p \in PRNode
  BY FullAnswerType
<1>2. a \in Input
  BY <1>1, NormalizeType
<1>3. Describes(p, w) /\ p.mergeStateStatus = MergeStateStatus(w)
      /\ p.reviewThreads = ThreadsAnswer(w, 1, {})
      /\ p.statusCheckRollup.contexts = ContextsAnswer(w, 1, {})
  <2>1. Weightless({}) /\ {} \in SUBSET Losses
    BY DEF Weightless, Partial, ErrorFields
  <2>. QED BY <2>1, FullAnswerDescribes
<1>. HIDE DEF p
<1>4. /\ a.prState = p.state /\ a.isDraft = p.isDraft /\ a.mergeable = p.mergeable
      /\ a.mergeState = p.mergeStateStatus /\ a.reviewDecision = p.reviewDecision
      /\ a.queueEnabled = p.isMergeQueueEnabled /\ a.queue = p.mergeQueueEntry
      /\ a.missingRequired = p.baseRef.required
      /\ a.convResolution = p.baseRef.conversations
      /\ a.unresolvedThreads = p.reviewThreads.nodes
      /\ a.contexts = AppendContexts({}, p.statusCheckRollup.contexts.nodes)
      /\ a.requiredKnown = TRUE /\ a.threadsKnown = TRUE /\ a.degraded = {}
  BY DEF Normalize, p
<1>5. w.threads \in Seq(Nat) /\ Len(w.threads) = 1 /\ DOMAIN w.threads = {1} /\ w.threads[1] \in Nat
  BY DEF World, OnePage
<1>6. a.unresolvedThreads = w.threads[1]
  <2>1. ThreadsAnswer(w, 1, {}).nodes = w.threads[1] + 0
    BY <1>5 DEF ThreadsAnswer
  <2>. QED BY <1>3, <1>4, <1>5, <2>1
<1>7. a.unresolvedThreads = 0 <=> ~Unresolved(w)
  BY <1>5, <1>6 DEF Unresolved
<1>8. a.contexts = Walk(w)
  <2>1. CASE w.rollup
    <3>1. ~ContextsAnswer(w, 1, {}).hasNext
      <4>1. Len(w.checks) = 1
        BY <2>1 DEF OnePage
      <4>2. ~(1 > 1)
        OBVIOUS
      <4>. QED BY <4>1, <4>2, PageSaysMore
    <3>2. AppendContexts({}, ContextsAnswer(w, 1, {}).nodes) = Pages(w.checks)
      BY <2>1, <3>1, WholePage
    <3>. QED BY <1>3, <1>4, <2>1, <3>2 DEF Walk
  <2>2. CASE ~w.rollup
    BY <1>3, <1>4, <2>2 DEF Walk, ContextsAnswer, NoContexts, AppendContexts
  <2>. QED BY <2>1, <2>2
<1>9. a.convResolution <=> w.bprReadable /\ w.conversations
  BY <1>3, <1>4 DEF Describes
<1>. QED BY <1>2, <1>3, <1>4, <1>6, <1>7, <1>8, <1>9 DEF Describes

\* Nothing is in the way of the one exactly if nothing is in the way of the
\* other, though the board never asks for threads, rules or a comparison.
LEMMA SameWay ==
  ASSUME NEW w \in World, w.state = "OPEN", OnePage(w),
         ShownOnBoard(w) = Shown(w), MergeStateStatus(w) # "UNKNOWN",
         NEW a, a = Normalize(FullAnswer(w, {})),
         NEW in \in Input, in.isDraft = w.draft, in.mergeable = Mergeable(w),
         in.mergeState = MergeStateStatus(w), in.reviewDecision = w.review,
         in.queueEnabled = w.queueEnabled, in.queue.state = w.queue.state,
         in.missingRequired = {}, ~in.convResolution, in.rollupPresent <=> w.rollup,
         w.rollup => in.rollupState = RollupState(w),
         in.degraded = {}, in.threadsKnown,
         ~in.requiredKnown => in.contexts = {} /\ ~NeedsDetail(in),
         in.requiredKnown => in.contexts = Walk(w)
  PROVE  NothingInTheWay(in) <=> NothingInTheWay(a)
<1>1. /\ a \in Input /\ a.prState = w.state /\ a.isDraft = w.draft
      /\ a.mergeable = Mergeable(w) /\ a.mergeState = MergeStateStatus(w)
      /\ a.reviewDecision = w.review /\ a.queueEnabled = w.queueEnabled
      /\ a.queue.state = w.queue.state
      /\ a.missingRequired = If(w.bprReadable, w.required)
      /\ a.convResolution <=> w.bprReadable /\ w.conversations
      /\ a.unresolvedThreads = 0 <=> ~Unresolved(w)
      /\ a.contexts = Walk(w) /\ a.requiredKnown /\ a.threadsKnown /\ a.degraded = {}
  BY AloneReads
<1>2. Queued(a) <=> Queued(in)
  BY <1>1 DEF Queued
<1>3. in.requiredKnown => Required(in) = Required(a)
  <2>. SUFFICES ASSUME in.requiredKnown PROVE Required(in) = Required(a)
    OBVIOUS
  <2>1. in.contexts = a.contexts /\ ~OverBlocks(in) /\ ~OverBlocks(a)
    BY <1>1 DEF OverBlocks
  <2>. QED BY <1>1, <2>1 DEF Required, CountsAsRequired
<1>4. ~in.requiredKnown => Required(in) = {}
  BY DEF Required, Best
<1>5. ~in.requiredKnown => \A c \in Required(a) : Rank(c) = 0
  <2>. SUFFICES ASSUME ~in.requiredKnown, NEW c \in Walk(w) PROVE Rank(c) = 0
    BY <1>1 DEF Required, Best
  <2>1. w.rollup
    BY DEF Walk
  <2>2. in.rollupState = "SUCCESS"
    BY <2>1 DEF NeedsDetail
  <2>3. RollupState(w) = "SUCCESS"
    BY <2>1, <2>2
  <2>4. ~Failing(c) /\ ~Waiting(c)
    BY <2>3 DEF RollupState
  <2>. QED BY <2>4 DEF Rank
<1>6. (\A c \in Required(in) : Rank(c) = 0) <=> (\A c \in Required(a) : Rank(c) = 0)
  BY <1>3, <1>4, <1>5
<1>7. ASSUME w.queueEnabled
      PROVE  If(w.bprReadable, w.required) = {} /\ ~(w.bprReadable /\ w.conversations)
  <2>. DEFINE s == ShownOnBoard(w)
              t == Shown(w)
  <2>1. s = [w EXCEPT !.hidden = FALSE, !.conversations = FALSE, !.required = {}]
    BY <1>7 DEF ShownOnBoard
  <2>2. t = [w EXCEPT !.hidden = FALSE, !.conversations = @ /\ w.bprReadable,
                      !.required = If(w.bprReadable, @)]
    BY <1>7 DEF Shown
  <2>3. s = t
    OBVIOUS
  <2>. HIDE DEF s, t
  <2>4. s.conversations = FALSE /\ s.required = {}
    BY <2>1 DEF World
  <2>5. t.conversations = (w.conversations /\ w.bprReadable)
        /\ t.required = If(w.bprReadable, w.required)
    BY <2>2 DEF World
  <2>. QED BY <2>3, <2>4, <2>5
<1>8. Mergeable(w) \notin {"CONFLICTING", "UNKNOWN"} =>
        /\ MergeStateStatus(w) # ""
        /\ MergeStateStatus(w) # "BLOCKED" => ~Forbidden(w)
  BY StatusSays
<1>9. NothingInTheWay(a) => NothingInTheWay(in)
  <2>. SUFFICES ASSUME NothingInTheWay(a) PROVE NothingInTheWay(in)
    OBVIOUS
  <2>1. in.requiredKnown \/ in.contexts = {}
    OBVIOUS
  <2>2. /\ in.isDraft = a.isDraft /\ in.mergeable = a.mergeable
        /\ in.mergeState = a.mergeState /\ in.reviewDecision = a.reviewDecision
        /\ in.queueEnabled = a.queueEnabled
    BY <1>1
  <2>3. /\ ~a.isDraft /\ a.reviewDecision \in {"", "APPROVED"}
        /\ a.mergeable \notin {"CONFLICTING", "UNKNOWN"}
        /\ a.mergeState \notin {"DIRTY", "BEHIND"} /\ ~Queued(a)
        /\ \A c \in Required(a) : Rank(c) = 0
        /\ a.mergeState = "BLOCKED" => a.queueEnabled
    BY DEF NothingInTheWay
  <2>4. in.missingRequired = {} /\ ~in.convResolution /\ in.degraded = {} /\ in.threadsKnown
    OBVIOUS
  <2>. QED BY ONLY <1>2, <1>6, <2>1, <2>2, <2>3, <2>4 DEF NothingInTheWay
<1>10. NothingInTheWay(in) => NothingInTheWay(a)
  <2>. SUFFICES ASSUME NothingInTheWay(in) PROVE NothingInTheWay(a)
    OBVIOUS
  <2>1. /\ Mergeable(w) \notin {"CONFLICTING", "UNKNOWN"} /\ MergeStateStatus(w) # "BEHIND"
        /\ MergeStateStatus(w) = "BLOCKED" => w.queueEnabled
    BY DEF NothingInTheWay
  <2>2. a.mergeState \in {"BLOCKED", ""} => a.missingRequired = {}
    BY <1>1, <1>7, <1>8, <2>1
  <2>3. a.convResolution => a.unresolvedThreads = 0
    <3>. SUFFICES ASSUME w.bprReadable /\ w.conversations PROVE ~Unresolved(w)
      BY <1>1
    <3>1. MergeStateStatus(w) \notin {"BEHIND", "BLOCKED"}
      BY <1>7, <2>1
    <3>2. ~Forbidden(w)
      BY <1>8, <2>1, <3>1
    <3>. QED BY <3>2 DEF Forbidden
  <2>. QED BY <1>1, <1>2, <1>6, <2>2, <2>3 DEF NothingInTheWay
<1>. QED BY <1>9, <1>10

\* And it agrees with the single query, when nothing moved, was lost or failed.
LEMMA AgreementHolds ==
  ASSUME TypeInv, RowsAreInputs, DescribedInv, TokensInv,
         moved = 0, errors = {}, unread = {}, maimed = {}, NEW k \in Written,
         OnePage(view[k]), ShownOnBoard(view[k]) = Shown(view[k]), ~RowGap(view[k])
  PROVE  rows[k].exit = 0 <=> Alone(view[k]) = 0
<1>. DEFINE in == inputs[k]
            w == view[k]
            a == Normalize(FullAnswer(w, {}))
<1>1. /\ k \in DOMAIN inputs /\ in \in Input /\ w \in World
      /\ rows[k].exit = ExitForReport(Synthesize(in))
  BY RowReads
<1>2. PICK v \in searched : SearchedAs(in, v) /\ ReadAs(in, w, v, FALSE) /\ MarkedAs(in, w)
  <2>1. Described(in, w, FALSE)
    BY RowReads
  <2>. QED BY <2>1 DEF Described
<1>3. v = w
  BY <1>2 DEF ReadAs
<1>4. InputTokens(k)
  BY <1>1 DEF TokensInv, PlainItems
<1>5. in.degraded \ Marks = {} /\ (~in.threadsKnown => "threads" \in in.degraded)
  <2>1. OwnTokens(board, errors, in.pr) = {}
    BY DEF OwnTokens, Partial
  <2>. QED BY <1>4, <2>1 DEF InputTokens, If
<1>. HIDE DEF in, w
<1>6. Alone(w) = ExitForReport(Synthesize(a)) /\ a.prState = w.state /\ a \in Input
  BY <1>1, AloneReads DEF Alone, w
<1>7. /\ in.prState = w.state /\ in.isDraft = w.draft /\ in.mergeable = Mergeable(w)
      /\ in.mergeState = MergeStateStatus(w) /\ in.reviewDecision = w.review
      /\ in.queueEnabled = w.queueEnabled /\ in.missingRequired = {} /\ ~in.convResolution
      /\ in.queue.state = w.queue.state
      /\ in.rollupPresent <=> w.rollup
      /\ w.rollup => in.rollupState = RollupState(w)
  BY <1>2, <1>3 DEF SearchedAs
<1>8. /\ ~in.requiredKnown => in.contexts = {}
      /\ in.requiredKnown => NeedsDetail(in)
      /\ NeedsDetail(in) => in.requiredKnown
      /\ in.requiredKnown /\ "checks_truncated" \notin in.degraded => in.contexts = Walk(w)
  BY <1>2 DEF ReadAs
<1>9. in.degraded = {}
  <2>1. "behind" \notin in.degraded
    BY <1>2 DEF MarkedAs
  <2>2. "threads_truncated" \notin in.degraded
    BY <1>2 DEF MarkedAs, OnePage, w
  <2>3. "checks_truncated" \notin in.degraded
    <3>1. OnePage(w) /\ ~(1 > 1)
      BY DEF w
    <3>2. w.rollup => Len(w.checks) = 1
      BY <3>1 DEF OnePage
    <3>3. in.requiredKnown => w.rollup
      BY <1>7, <1>8 DEF NeedsDetail
    <3>4. "checks_truncated" \in in.degraded => in.requiredKnown /\ Len(w.checks) > 1
      BY <1>2 DEF MarkedAs
    <3>. QED BY <3>1, <3>2, <3>3, <3>4
  <2>. QED BY <1>5, <2>1, <2>2, <2>3 DEF Marks
<1>10. w.state \in {"OPEN", "CLOSED", "MERGED"}
  BY <1>1 DEF World
<1>11. CASE w.state # "OPEN"
  BY <1>1, <1>6, <1>7, <1>10, <1>11, TerminalExit DEF w
<1>12. CASE w.state = "OPEN"
  <2>1. MergeStateStatus(w) # "UNKNOWN"
    BY <1>12 DEF RowGap, w
  <2>2. in.threadsKnown
    BY <1>5, <1>9
  <2>3. OnePage(w) /\ ShownOnBoard(w) = Shown(w)
    BY DEF w
  <2>4. /\ ~in.requiredKnown => in.contexts = {} /\ ~NeedsDetail(in)
        /\ in.requiredKnown => in.contexts = Walk(w)
    BY <1>8, <1>9
  <2>5. NothingInTheWay(in) <=> NothingInTheWay(a)
    <3>1. a = Normalize(FullAnswer(w, {}))
      OBVIOUS
    <3>. HIDE DEF a
    <3>. QED BY ONLY <1>1, <1>7, <1>9, <1>12, <2>1, <2>2, <2>3, <2>4, <3>1, SameWay
  <2>6. ExitForReport(Synthesize(in)) = 0 <=> NothingInTheWay(in)
    BY <1>1, <1>7, <1>12, ExitZeroIsEarned
  <2>. HIDE DEF a
  <2>7. ExitForReport(Synthesize(a)) = 0 <=> NothingInTheWay(a)
    BY <1>6, <1>12, ExitZeroIsEarned
  <2>. QED BY <1>1, <1>6, <2>5, <2>6, <2>7 DEF w
<1>. QED BY <1>11, <1>12

LEMMA TokensKept == Spec => []TokensInv
BY TokensInit, TokensStep, TypesKept, PTL DEF Spec

\* On a board where nothing moved, was lost or failed the row and the single
\* query agree on green, for every pull request the model knows, wherever the
\* single query sees no more than the board and no known gap is met
\* (Mine, needsDetail).
THEOREM BoardAndSingleAgree == Spec => []GreenAgrees
<1>1. TypeInv /\ RowsAreInputs /\ DescribedInv /\ TokensInv => GreenAgrees
  BY AgreementHolds DEF GreenAgrees
<1>. QED BY <1>1, TypesKept, RowsAreKept, DescribedKept, TokensKept, PTL

-----------------------------------------------------------------------------
(* The exit code: runMine keeps a running maximum in an order that is not  *)
(* that of the numbers.                                                    *)

Exits == {rows[k].exit : k \in Written}

\* One more row: the rank comparison of runMine is the fold of Rollup.
LEMMA RollupAdds ==
  ASSUME NEW E \in SUBSET (0..3), NEW e \in 0..3
  PROVE  (IF RollupRank(e) > RollupRank(Rollup(E)) THEN e ELSE Rollup(E))
           = Rollup(E \cup {e})
<1>1. CASE e = 0
  BY <1>1, SMT DEF RollupRank, Rollup
<1>2. CASE e = 1
  BY <1>2, SMT DEF RollupRank, Rollup
<1>3. CASE e = 2
  BY <1>3, SMT DEF RollupRank, Rollup
<1>4. CASE e = 3
  BY <1>4, SMT DEF RollupRank, Rollup
<1>. QED BY <1>1, <1>2, <1>3, <1>4

\* The worst exit code is the fold of the rows written so far at every row,
\* not only at the end.
RowsInv ==
  /\ \E S : rows \in Seq(S)
  /\ Exits \subseteq 0..3
  /\ pc \in {"search", "detail"} => rows = <<>> /\ worst = 0
  /\ pc = "rows" => worst = Rollup(Exits)
  /\ WorstRowDecides

LEMMA NoRows == rows = <<>> => Exits = {} /\ Rollup(Exits) = 0
  BY DEF Exits, Written, Rollup

LEMMA RowsInit == Init => RowsInv
<1>. SUFFICES ASSUME Init PROVE RowsInv
  OBVIOUS
<1>1. rows \in Seq({})
  BY DEF Init
<1>. QED BY <1>1, NoRows DEF Init, RowsInv, WorstRowDecides

\* A row goes to the end, and its exit code into the fold.
LEMMA RowIsFolded == RowsInv /\ WriteRow => RowsInv'
<1>. SUFFICES ASSUME RowsInv, WriteRow PROVE RowsInv'
  OBVIOUS
<1>. DEFINE row == Summarize(inputs[Len(rows) + 1])
            e == ExitForReport(row)
            r == [exit |-> e, report |-> row]
<1>1. PICK S : rows \in Seq(S)
  BY DEF RowsInv
<1>2. e \in 0..3
  BY DEF ExitForReport
<1>3. /\ pc = "rows" /\ pc' = "rows"
      /\ rows' = Append(rows, r)
      /\ worst' = IF RollupRank(e) > RollupRank(worst) THEN e ELSE worst
  BY DEF WriteRow
<1>. HIDE DEF row, e
<1>4. DEFINE T == S \cup {r}
<1>5. rows \in Seq(T) /\ r \in T /\ r.exit = e
  BY <1>1
<1>. HIDE DEF T, r
<1>6. /\ rows' \in Seq(T) /\ Len(rows') = Len(rows) + 1
      /\ \A k \in 1..Len(rows) : rows'[k] = rows[k]
      /\ rows'[Len(rows) + 1] = r
  BY <1>3, <1>5
<1>7. Exits' = Exits \cup {e}
  <2>1. Written = 1..Len(rows) /\ Written' = 1..(Len(rows) + 1) /\ Len(rows) \in Nat
    BY <1>5, <1>6 DEF Written
  <2>2. ASSUME NEW x \in Exits' PROVE x \in Exits \cup {e}
    <3>1. PICK k \in Written' : x = rows'[k].exit
      BY <2>2 DEF Exits
    <3>2. k \in Written \/ k = Len(rows) + 1
      BY <2>1
    <3>. QED BY <1>5, <1>6, <2>1, <3>1, <3>2 DEF Exits
  <2>3. ASSUME NEW x \in Exits PROVE x \in Exits'
    <3>1. PICK k \in Written : x = rows[k].exit
      BY <2>3 DEF Exits
    <3>. QED BY <1>6, <2>1, <3>1 DEF Exits
  <2>4. e \in Exits'
    BY <1>5, <1>6, <2>1 DEF Exits
  <2>. QED BY <2>2, <2>3, <2>4
<1>8. Exits \subseteq 0..3 /\ worst = Rollup(Exits)
  BY <1>3 DEF RowsInv
<1>9. worst' = Rollup(Exits')
  BY <1>2, <1>3, <1>7, <1>8, RollupAdds
<1>. QED BY <1>2, <1>3, <1>6, <1>7, <1>8, <1>9 DEF RowsInv, WorstRowDecides

LEMMA RowsStep == RowsInv /\ [Next]_vars => RowsInv'
<1>. SUFFICES ASSUME RowsInv, [Next]_vars PROVE RowsInv'
  OBVIOUS
<1>1. ASSUME UNCHANGED rows PROVE Exits' = Exits /\ Written' = Written
  BY <1>1 DEF Exits, Written
<1>2. CASE SearchAnswers
  BY <1>1, <1>2 DEF SearchAnswers, RowsInv, WorstRowDecides
<1>3. CASE SearchFails
  BY <1>1, <1>3 DEF SearchFails, RowsInv, WorstRowDecides, history
<1>4. CASE DetailAnswers
  BY <1>1, <1>4 DEF DetailAnswers, Asks, RowsInv, WorstRowDecides
<1>5. CASE DetailFails
  BY <1>1, <1>5 DEF DetailFails, Asks, RowsInv, WorstRowDecides
<1>6. CASE Arrange
  BY <1>1, <1>6, NoRows DEF Arrange, RowsInv, WorstRowDecides
<1>7. CASE WriteRow
  BY <1>7, RowIsFolded
<1>8. CASE WriteLastLine
  BY <1>1, <1>8 DEF WriteLastLine, RowsInv, WorstRowDecides, Exits, history
<1>9. CASE WriteFails
  BY <1>1, <1>9 DEF WriteFails, RowsInv, WorstRowDecides, history
<1>10. CASE WorldMoves
  BY <1>1, <1>10 DEF WorldMoves, RowsInv, WorstRowDecides, code
<1>11. CASE UNCHANGED vars
  BY <1>1, <1>11 DEF vars, code, RowsInv, WorstRowDecides
<1>. QED BY <1>2, <1>3, <1>4, <1>5, <1>6, <1>7, <1>8, <1>9, <1>10, <1>11
         DEF Next, Step, Stop

\* Unless the search or a write failed, the board exits as its worst row, 3
\* before 1 before 2 before 0, for every board, loss, failure and order of the
\* rows (runMine, rollupRank).
THEOREM WorstRowAlwaysDecides == Spec => []WorstRowDecides
<1>1. RowsInv => WorstRowDecides
  BY DEF RowsInv
<1>. QED BY RowsInit, RowsStep, <1>1, PTL DEF Spec

=============================================================================
