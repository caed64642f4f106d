---------------------------- MODULE FetchProofs ----------------------------
(***************************************************************************)
(* What holds of every invocation on one pull request, whatever moves,     *)
(* fails, is lost or takes time.                                           *)
(***************************************************************************)
EXTENDS Fetch, GitHubProofs

-----------------------------------------------------------------------------
(* The type invariant. *)

\* Reading page n of a list of at least n pages leaves a list of pages.
LEMMA RereadType ==
  ASSUME NEW S, NEW read \in Seq(S), NEW pages \in Seq(S),
         NEW n \in Nat, n >= 1, n - 1 <= Len(read)
  PROVE  /\ Reread(read, n, pages) \in Seq(S)
         /\ n <= Len(pages) => Len(Reread(read, n, pages)) = Len(pages)
<1>1. /\ SubSeq(read, 1, n - 1) \in Seq(S)
      /\ Len(SubSeq(read, 1, n - 1)) = n - 1
  OBVIOUS
<1>2. /\ SubSeq(pages, n, Len(pages)) \in Seq(S)
      /\ n <= Len(pages) => Len(SubSeq(pages, n, Len(pages))) = Len(pages) - n + 1
  OBVIOUS
<1>. DEFINE front == SubSeq(read, 1, n - 1)
            rear == SubSeq(pages, n, Len(pages))
<1>. HIDE DEF front, rear
<1>3. front \o rear \in Seq(S) /\ Len(front \o rear) = Len(front) + Len(rear)
  BY <1>1, <1>2 DEF front, rear
<1>4. Reread(read, n, pages) = front \o rear
  BY DEF Reread, front, rear
<1>5. n <= Len(pages) => Len(front) + Len(rear) = Len(pages)
  BY <1>1, <1>2 DEF front, rear
<1>. QED BY <1>3, <1>4, <1>5

LEMMA LadderIsFinite == Len(Ladder) = 4 /\ \A i \in 1..4 : Ladder[i] \in Nat
BY DEF Ladder

-----------------------------------------------------------------------------
(* The type invariant.  A page is only asked for where the pages read so   *)
(* far say there is one: without that the pages kept in view would not be  *)
(* a list any more.  A probe is only sent after a sleep of the ladder.     *)

StepInv ==
  /\ pc = "probe" => rung <= Len(Ladder)
  /\ tp.page >= 2 /\ cp.page >= 2
  /\ pc \in {"ladder", "probe", "refetch", "normalize"} =>
       /\ pr.reviewThreads.hasNext => 2 <= Len(view.threads)
       /\ pr.statusCheckRollup.contexts.hasNext => 2 <= Len(view.checks)
  /\ pc = "threads" /\ tp.hasNext => tp.page <= Len(view.threads)
  /\ pc \in {"threads", "contexts"} /\ cp.hasNext => cp.page <= Len(view.checks)

TypeInv == TypeOK /\ StepInv

LEMMA TypeInit == Init => TypeInv
<1>. SUFFICES ASSUME Init PROVE TypeInv
  OBVIOUS
<1>1. world \in World /\ view \in World
  BY FetchAssumption DEF Init
<1>2. TypeOK
  <2>1. blank \in BOOLEAN /\ tp.hasNext \in BOOLEAN
    BY DEF Init
  <2>. QED BY <1>1, <2>1, LadderIsFinite DEF Init, TypeOK, Finished
<1>3. StepInv
  BY DEF Init, StepInv
<1>. QED BY <1>2, <1>3 DEF TypeInv

\* A request takes time and is counted.
LEMMA RequestType ==
  ASSUME now \in Nat, sent \in Nat, Arrives \/ Fails
  PROVE  now' \in Nat /\ sent' = sent + 1
<1>1. CASE Arrives
  BY <1>1, FetchAssumption DEF Arrives
<1>2. CASE Expires
  BY <1>2, FetchAssumption DEF Expires
<1>. QED BY <1>1, <1>2 DEF Fails, Errs

\* A full answer brings facts of the right kind, and the pages it announces
\* are there.
LEMMA AnsweredType ==
  ASSUME world \in World, Answered
  PROVE  /\ pr' \in PRNode /\ view' \in World
         /\ degraded' \subseteq Tokens /\ lost' \in LossSets
         /\ degraded' = Partial(ErrorFields(lost'))
         /\ pr'.reviewThreads.hasNext => 2 <= Len(view'.threads)
         /\ pr'.statusCheckRollup.contexts.hasNext => 2 <= Len(view'.checks)
<1>1. PICK l \in LossSets :
        /\ lost' = l /\ pr' = FullAnswer(world, l)
        /\ degraded' = Partial(ErrorFields(l)) /\ view' = world
  BY DEF Answered
<1>2. l \in SUBSET Losses
  BY FetchAssumption
<1>3. Partial(ErrorFields(l)) \subseteq Tokens
  BY <1>2, PartialType DEF Tokens
<1>. QED BY <1>1, <1>3, FullAnswerType, HasNextMeansMore

LEMMA TypeStep == TypeInv /\ [Next]_vars => TypeInv'
<1>. SUFFICES ASSUME TypeInv, [Next]_vars PROVE TypeInv'
  OBVIOUS
<1>. USE DEF TypeInv
<1>1. CASE FullAnswers
  <2>1. now' \in Nat /\ sent' \in Nat
    BY <1>1, RequestType DEF FullAnswers, TypeOK
  <2>2. /\ pr' \in PRNode /\ view' \in World /\ degraded' \subseteq Tokens /\ lost' \in LossSets
        /\ pr'.reviewThreads.hasNext => 2 <= Len(view'.threads)
        /\ pr'.statusCheckRollup.contexts.hasNext => 2 <= Len(view'.checks)
    <3>1. world \in World /\ Answered
      BY <1>1, FetchAssumption DEF FullAnswers, TypeOK
    <3>. QED BY <3>1, AnsweredType
  <2>3. TypeOK'
    BY <1>1, <2>1, <2>2 DEF FullAnswers, TypeOK, Finished
  <2>4. StepInv'
    BY <1>1, <2>2 DEF FullAnswers, StepInv
  <2>. QED BY <2>3, <2>4
<1>2. CASE FullFails
  <2>1. now' \in Nat /\ sent' \in Nat
    <3>1. Fails
      BY <1>2 DEF FullFails, Fails
    <3>. QED BY <3>1, RequestType DEF TypeOK
  <2>2. out'.exit \in {3, 4}
    BY <1>2 DEF FullFails, ClassifiedExits
  <2>3. TypeOK'
    BY <1>2, <2>1, <2>2 DEF FullFails, TypeOK, Finished
  <2>4. StepInv'
    BY <1>2 DEF FullFails, StepInv
  <2>. QED BY <2>3, <2>4
<1>3. CASE Sleep
  <2>1. Ladder[rung] \in Nat
    BY <1>3, LadderIsFinite DEF Sleep, MayProbe, TypeOK
  <2>2. TypeOK'
    BY <1>3, <2>1 DEF Sleep, TypeOK, Finished, history
  <2>3. StepInv'
    BY <1>3 DEF Sleep, MayProbe, StepInv, history
  <2>. QED BY <2>2, <2>3
<1>4. CASE LadderEnds
  <2>1. TypeOK'
    BY <1>4 DEF LadderEnds, TypeOK, Finished, history
  <2>2. StepInv'
    BY <1>4 DEF LadderEnds, StepInv, history
  <2>. QED BY <2>1, <2>2
<1>5. CASE ProbeAnswers
  <2>1. now' \in Nat /\ sent' \in Nat
    BY <1>5, RequestType DEF ProbeAnswers, TypeOK
  <2>2. rung' \in 1..(Len(Ladder) + 1)
    BY <1>5, LadderIsFinite DEF ProbeAnswers, TypeOK, StepInv
  <2>3. TypeOK'
    BY <1>5, <2>1, <2>2 DEF ProbeAnswers, TypeOK, Finished
  <2>4. StepInv'
    BY <1>5 DEF ProbeAnswers, StepInv
  <2>. QED BY <2>3, <2>4
<1>6. CASE ProbeFails
  <2>1. now' \in Nat /\ sent' \in Nat
    BY <1>6, RequestType DEF ProbeFails, TypeOK
  <2>2. TypeOK'
    BY <1>6, <2>1 DEF ProbeFails, TypeOK, Finished
  <2>3. StepInv'
    BY <1>6 DEF ProbeFails, StepInv
  <2>. QED BY <2>2, <2>3
<1>7. CASE RefetchAnswers
  <2>1. now' \in Nat /\ sent' \in Nat
    BY <1>7, RequestType DEF RefetchAnswers, TypeOK
  <2>2. /\ pr' \in PRNode /\ view' \in World /\ degraded' \subseteq Tokens /\ lost' \in LossSets
        /\ pr'.reviewThreads.hasNext => 2 <= Len(view'.threads)
        /\ pr'.statusCheckRollup.contexts.hasNext => 2 <= Len(view'.checks)
    <3>1. world \in World /\ Answered
      BY <1>7, FetchAssumption DEF RefetchAnswers, TypeOK
    <3>. QED BY <3>1, AnsweredType
  <2>3. TypeOK'
    BY <1>7, <2>1, <2>2 DEF RefetchAnswers, TypeOK, Finished
  <2>4. StepInv'
    BY <1>7, <2>2 DEF RefetchAnswers, StepInv
  <2>. QED BY <2>3, <2>4
<1>8. CASE RefetchFails
  <2>1. now' \in Nat /\ sent' \in Nat
    BY <1>8, RequestType DEF RefetchFails, TypeOK
  <2>2. TypeOK'
    BY <1>8, <2>1 DEF RefetchFails, TypeOK, Finished
  <2>3. StepInv'
    BY <1>8 DEF RefetchFails, StepInv
  <2>. QED BY <2>2, <2>3
<1>9. CASE Settle
  <2>1. in' \in Input
    <3>1. pr \in PRNode /\ degraded \in SUBSET Tokens
      BY <1>9 DEF Settle, TypeOK
    <3>. QED BY <1>9, <3>1, NormalizeType, DegradeType DEF Settle
  <2>2. /\ pr.reviewThreads.hasNext \in BOOLEAN
        /\ pr.statusCheckRollup.contexts.hasNext \in BOOLEAN
    BY <1>9 DEF Settle, TypeOK, PRNode, ThreadPage, ContextPage
  <2>3. TypeOK'
    BY <1>9, <2>1, <2>2 DEF Settle, TypeOK, Finished, history
  <2>4. StepInv'
    BY <1>9 DEF Settle, StepInv, history
  <2>. QED BY <2>3, <2>4
<1>10. CASE Report
  <2>1. out'.exit \in 0..4
    BY <1>10 DEF Report, ExitForReport
  <2>2. TypeOK'
    BY <1>10, <2>1 DEF Report, TypeOK, Finished, history
  <2>3. StepInv'
    BY <1>10 DEF Report, StepInv, history
  <2>. QED BY <2>2, <2>3
<1>11. CASE WorldMoves
  <2>1. TypeOK'
    BY <1>11 DEF WorldMoves, TypeOK, Finished, code, history
  <2>2. StepInv'
    BY <1>11 DEF WorldMoves, StepInv, code, history
  <2>. QED BY <2>1, <2>2
<1>12. CASE UNCHANGED vars
  <2>1. TypeOK'
    BY <1>12 DEF vars, TypeOK, Finished, code, history
  <2>2. StepInv'
    BY <1>12 DEF vars, StepInv, code, history
  <2>. QED BY <2>1, <2>2
<1>13. CASE ThreadsAnswers
  <2>. DEFINE page == ThreadsAnswer(world, tp.page, {})
              threads == Reread(view.threads, tp.page, world.threads)
  <2>1. now' \in Nat /\ sent' \in Nat
    BY <1>13, RequestType DEF ThreadsAnswers, TypeOK
  <2>2. world \in World /\ view \in World /\ tp.page \in Nat /\ in \in Input
    BY <1>13, FetchAssumption DEF ThreadsAnswers, AsksThreads, TypeOK
  <2>3. page \in ThreadPage /\ page.hasNext \in BOOLEAN
    BY <2>2, ThreadsAnswerType DEF ThreadPage
  <2>4. page.hasNext => tp.page < Len(world.threads)
    BY DEF ThreadsAnswer, NoThreads
  <2>5. /\ world.threads \in Seq(Nat) /\ view.threads \in Seq(Nat)
        /\ tp.page >= 1 /\ tp.page - 1 <= Len(view.threads)
    BY <1>13, <2>2 DEF ThreadsAnswers, AsksThreads, StepInv, World
  <2>6. /\ threads \in Seq(Nat)
        /\ tp.page <= Len(world.threads) => Len(threads) = Len(world.threads)
    BY <2>2, <2>5, RereadType
  <2>. HIDE DEF page, threads
  <2>7. /\ in' = [in EXCEPT !.unresolvedThreads = @ + page.nodes]
        /\ tp' = [page |-> tp.page + 1, hasNext |-> page.hasNext]
        /\ view' = [view EXCEPT !.threads = threads]
    BY <1>13 DEF ThreadsAnswers, page, threads
  <2>8. in' \in Input
    BY <2>2, <2>3, <2>7, ThreadsExtendType
  <2>9. view' \in World /\ view'.threads = threads /\ view'.checks = view.checks
    BY <2>2, <2>6, <2>7 DEF World
  <2>10. TypeOK'
    BY <1>13, <2>1, <2>2, <2>3, <2>7, <2>8, <2>9
       DEF ThreadsAnswers, AsksThreads, TypeOK, Finished
  <2>11. page.hasNext => tp.page + 1 <= Len(threads)
    BY <2>2, <2>4, <2>5, <2>6
  <2>12. StepInv'
    BY <1>13, <2>2, <2>7, <2>9, <2>11 DEF ThreadsAnswers, AsksThreads, StepInv
  <2>. QED BY <2>10, <2>12
<1>14. CASE ThreadsFail
  <2>1. now' \in Nat /\ sent' \in Nat
    BY <1>14, RequestType DEF ThreadsFail, TypeOK
  <2>2. in' \in Input
    <3>1. in \in Input
      BY <1>14 DEF ThreadsFail, AsksThreads, TypeOK
    <3>2. {"threads_truncated"} \in SUBSET Tokens
      BY DEF Tokens
    <3>. QED BY <1>14, <3>1, <3>2, TokensExtendType DEF ThreadsFail
  <2>3. TypeOK'
    BY <1>14, <2>1, <2>2 DEF ThreadsFail, AsksThreads, TypeOK, Finished
  <2>4. StepInv'
    BY <1>14 DEF ThreadsFail, AsksThreads, StepInv
  <2>. QED BY <2>3, <2>4
<1>15. CASE ThreadsNull
  <2>1. now' \in Nat /\ sent' \in Nat
    BY <1>15, RequestType DEF ThreadsNull, TypeOK
  <2>2. TypeOK'
    BY <1>15, <2>1 DEF ThreadsNull, AsksThreads, TypeOK, Finished
  <2>3. StepInv'
    BY <1>15 DEF ThreadsNull, AsksThreads, StepInv
  <2>. QED BY <2>2, <2>3
<1>16. CASE ThreadsEnd
  <2>1. in' \in Input
    <3>1. in \in Input
      BY <1>16 DEF ThreadsEnd, TypeOK
    <3>2. If(tp.hasNext, {"threads_truncated"}) \in SUBSET Tokens
      BY DEF Tokens, If
    <3>. QED BY <1>16, <3>1, <3>2, TokensExtendType DEF ThreadsEnd
  <2>2. TypeOK'
    BY <1>16, <2>1 DEF ThreadsEnd, TypeOK, Finished, history
  <2>3. StepInv'
    BY <1>16 DEF ThreadsEnd, StepInv, history
  <2>. QED BY <2>2, <2>3
<1>17. CASE ContextsAnswers
  <2>. DEFINE page == ContextsAnswer(world, cp.page, {})
              checks == Reread(view.checks, cp.page, world.checks)
  <2>1. now' \in Nat /\ sent' \in Nat
    BY <1>17, RequestType DEF ContextsAnswers, TypeOK
  <2>2. world \in World /\ view \in World /\ cp.page \in Nat /\ in \in Input
    BY <1>17, FetchAssumption DEF ContextsAnswers, AsksContexts, TypeOK
  <2>3. page \in ContextPage /\ page.hasNext \in BOOLEAN
    BY <2>2, ContextsAnswerType DEF ContextPage
  <2>4. page.hasNext => cp.page < Len(world.checks)
    BY DEF ContextsAnswer, NoContexts
  <2>5. /\ world.checks \in Seq(SUBSET Context) /\ view.checks \in Seq(SUBSET Context)
        /\ cp.page >= 1 /\ cp.page - 1 <= Len(view.checks)
    BY <1>17, <2>2 DEF ContextsAnswers, AsksContexts, StepInv, World
  <2>6. /\ checks \in Seq(SUBSET Context)
        /\ cp.page <= Len(world.checks) => Len(checks) = Len(world.checks)
    BY <2>2, <2>5, RereadType
  <2>. HIDE DEF page, checks
  <2>7. /\ in' = [in EXCEPT !.contexts = AppendContexts(@, page.nodes)]
        /\ cp' = [page |-> cp.page + 1, hasNext |-> page.hasNext]
        /\ view' = [view EXCEPT !.checks = checks]
    BY <1>17 DEF ContextsAnswers, page, checks
  <2>8. in' \in Input
    BY <2>2, <2>3, <2>7, ContextsExtendType
  <2>9. view' \in World /\ view'.checks = checks
    BY <2>2, <2>6, <2>7 DEF World
  <2>10. TypeOK'
    BY <1>17, <2>1, <2>2, <2>3, <2>7, <2>8, <2>9
       DEF ContextsAnswers, AsksContexts, TypeOK, Finished
  <2>11. page.hasNext => cp.page + 1 <= Len(checks)
    BY <2>2, <2>4, <2>5, <2>6
  <2>12. StepInv'
    BY <1>17, <2>2, <2>7, <2>9, <2>11 DEF ContextsAnswers, AsksContexts, StepInv
  <2>. QED BY <2>10, <2>12
<1>18. CASE ContextsFail
  <2>1. now' \in Nat /\ sent' \in Nat
    BY <1>18, RequestType DEF ContextsFail, TypeOK
  <2>2. in' \in Input
    <3>1. in \in Input
      BY <1>18 DEF ContextsFail, AsksContexts, TypeOK
    <3>2. {"checks_truncated"} \in SUBSET Tokens
      BY DEF Tokens
    <3>. QED BY <1>18, <3>1, <3>2, TokensExtendType DEF ContextsFail
  <2>3. TypeOK'
    BY <1>18, <2>1, <2>2 DEF ContextsFail, AsksContexts, TypeOK, Finished
  <2>4. StepInv'
    BY <1>18 DEF ContextsFail, AsksContexts, StepInv
  <2>. QED BY <2>3, <2>4
<1>19. CASE ContextsNull
  <2>1. now' \in Nat /\ sent' \in Nat
    BY <1>19, RequestType DEF ContextsNull, TypeOK
  <2>2. TypeOK'
    BY <1>19, <2>1 DEF ContextsNull, AsksContexts, TypeOK, Finished
  <2>3. StepInv'
    BY <1>19 DEF ContextsNull, AsksContexts, StepInv
  <2>. QED BY <2>2, <2>3
<1>20. CASE ContextsEnd
  <2>1. in' \in Input
    <3>1. in \in Input
      BY <1>20 DEF ContextsEnd, TypeOK
    <3>2. If(cp.hasNext, {"checks_truncated"}) \in SUBSET Tokens
      BY DEF Tokens, If
    <3>. QED BY <1>20, <3>1, <3>2, TokensExtendType DEF ContextsEnd
  <2>2. TypeOK'
    BY <1>20, <2>1 DEF ContextsEnd, TypeOK, Finished, history
  <2>3. StepInv'
    BY <1>20 DEF ContextsEnd, StepInv, history
  <2>. QED BY <2>2, <2>3
<1>. QED
  BY <1>1, <1>2, <1>3, <1>4, <1>5, <1>6, <1>7, <1>8, <1>9, <1>10, <1>11, <1>12, <1>13,
     <1>14, <1>15, <1>16, <1>17, <1>18, <1>19, <1>20 DEF Next, Step

\* Every variable has its type at every step, of every invocation: the
\* decoded answers, the input they are normalized to and the input the later
\* pages extend (normalize, paginate).
THEOREM TypeCorrect == Spec => []TypeOK
<1>1. TypeInv => TypeOK
  BY DEF TypeInv
<1>. QED BY TypeInit, TypeStep, <1>1, PTL DEF Spec

-----------------------------------------------------------------------------
(* The loops are bounded.  Every request sent so far is accounted for by   *)
(* the phase the invocation is in and the counters of that phase.          *)

CountInv ==
  /\ spent <= budget
  /\ pc = "full" => sent = 0 /\ rung = 1 /\ cp.page = 2
  /\ pc = "ladder" => sent = rung
  /\ pc = "probe" => sent = rung /\ rung <= 4
  /\ pc = "refetch" => sent <= rung + 1 /\ rung <= 4
  /\ pc = "normalize" => sent <= 6
  /\ pc = "threads" => tp.page \in 2..6 /\ sent <= tp.page + 4 /\ cp.page = 2
  /\ pc = "contexts" => cp.page \in 2..5 /\ sent <= cp.page + 8
  /\ pc \in {"report", "done"} => sent <= 13

LEMMA CountInit == Init => CountInv
BY FetchAssumption DEF Init, CountInv

LEMMA RequestCounted ==
  ASSUME Arrives \/ Fails
  PROVE  sent' = sent + 1
BY DEF Arrives, Fails, Expires, Errs

LEMMA CountStep == TypeOK /\ CountInv /\ [Next]_vars => CountInv'
<1>. SUFFICES ASSUME TypeOK, CountInv, [Next]_vars PROVE CountInv'
  OBVIOUS
<1>0. /\ spent \in Nat /\ sent \in Nat /\ now \in Nat /\ budget \in Nat
      /\ rung \in 1..5 /\ tp.page \in Nat /\ cp.page \in Nat
  BY FetchAssumption, LadderIsFinite DEF TypeOK
<1>1. CASE FullAnswers
  <2>1. sent' = sent + 1
    BY <1>1, RequestCounted DEF FullAnswers
  <2>. QED BY <1>0, <1>1, <2>1 DEF FullAnswers, CountInv
<1>2. CASE FullFails
  <2>1. Fails
    BY <1>2 DEF FullFails, Fails
  <2>2. sent' = sent + 1
    BY <2>1, RequestCounted
  <2>. QED BY <1>0, <1>2, <2>2 DEF FullFails, CountInv
<1>3. CASE Sleep
  <2>1. Ladder[rung] \in Nat /\ rung <= 4
    BY <1>0, <1>3, LadderIsFinite DEF Sleep, MayProbe
  <2>. QED BY <1>0, <1>3, <2>1 DEF Sleep, MayProbe, CountInv, history
<1>4. CASE LadderEnds
  BY <1>0, <1>4 DEF LadderEnds, CountInv, history
<1>5. CASE ProbeAnswers
  <2>1. sent' = sent + 1
    BY <1>5, RequestCounted DEF ProbeAnswers
  <2>. QED BY <1>0, <1>5, <2>1 DEF ProbeAnswers, CountInv
<1>6. CASE ProbeFails
  <2>1. sent' = sent + 1
    BY <1>6, RequestCounted DEF ProbeFails
  <2>. QED BY <1>0, <1>6, <2>1 DEF ProbeFails, CountInv
<1>7. CASE RefetchAnswers
  <2>1. sent' = sent + 1
    BY <1>7, RequestCounted DEF RefetchAnswers
  <2>. QED BY <1>0, <1>7, <2>1 DEF RefetchAnswers, CountInv
<1>8. CASE RefetchFails
  <2>1. sent' = sent + 1
    BY <1>8, RequestCounted DEF RefetchFails
  <2>. QED BY <1>0, <1>8, <2>1 DEF RefetchFails, CountInv
<1>9. CASE Settle
  BY <1>0, <1>9 DEF Settle, CountInv, history
<1>10. CASE ThreadsAnswers
  <2>1. sent' = sent + 1
    BY <1>10, RequestCounted DEF ThreadsAnswers
  <2>. QED BY <1>0, <1>10, <2>1 DEF ThreadsAnswers, AsksThreads, MaxThreadPages, CountInv
<1>11. CASE ThreadsFail
  <2>1. sent' = sent + 1
    BY <1>11, RequestCounted DEF ThreadsFail
  <2>. QED BY <1>0, <1>11, <2>1 DEF ThreadsFail, AsksThreads, MaxThreadPages, CountInv
<1>12. CASE ThreadsNull
  <2>1. sent' = sent + 1
    BY <1>12, RequestCounted DEF ThreadsNull
  <2>. QED BY <1>0, <1>12, <2>1 DEF ThreadsNull, AsksThreads, MaxThreadPages, CountInv
<1>13. CASE ThreadsEnd
  BY <1>0, <1>13 DEF ThreadsEnd, CountInv, history, MaxThreadPages
<1>14. CASE ContextsAnswers
  <2>1. sent' = sent + 1
    BY <1>14, RequestCounted DEF ContextsAnswers
  <2>. QED BY <1>0, <1>14, <2>1 DEF ContextsAnswers, AsksContexts, MaxContextPages, CountInv
<1>15. CASE ContextsFail
  <2>1. sent' = sent + 1
    BY <1>15, RequestCounted DEF ContextsFail
  <2>. QED BY <1>0, <1>15, <2>1 DEF ContextsFail, AsksContexts, MaxContextPages, CountInv
<1>16. CASE ContextsNull
  <2>1. sent' = sent + 1
    BY <1>16, RequestCounted DEF ContextsNull
  <2>. QED BY <1>0, <1>16, <2>1 DEF ContextsNull, AsksContexts, MaxContextPages, CountInv
<1>17. CASE ContextsEnd
  BY <1>0, <1>17 DEF ContextsEnd, CountInv, history, MaxContextPages
<1>18. CASE Report
  BY <1>0, <1>18 DEF Report, CountInv, history
<1>19. CASE WorldMoves \/ UNCHANGED vars
  BY <1>19 DEF WorldMoves, vars, code, history, CountInv
<1>. QED
  BY <1>1, <1>2, <1>3, <1>4, <1>5, <1>6, <1>7, <1>8, <1>9, <1>10, <1>11, <1>12, <1>13,
     <1>14, <1>15, <1>16, <1>17, <1>18, <1>19 DEF Next, Step

\* However the requests fail or answer, one invocation sleeps at most its
\* retry budget and sends at most 13 requests (PR's ladder, paginate's caps).
THEOREM InvocationIsBounded == Spec => []Bounded
<1>1. TypeOK /\ CountInv => Bounded
  BY LadderIsFinite DEF CountInv, TypeOK, Bounded
<1>. QED BY TypeCorrect, CountInit, CountStep, <1>1, PTL DEF Spec

-----------------------------------------------------------------------------
(* The snapshot: which answer the verdict rests on. *)

SnapshotInv ==
  /\ pc = "full" => pr = Nothing
  /\ pc # "done" => out = Nothing
  /\ pc \in {"probe", "refetch"} => Undecided(pr.state, pr.mergeable)

LEMMA SnapshotInit == Init => SnapshotInv
BY DEF Init, SnapshotInv

LEMMA SnapshotStep == SnapshotInv /\ [Next]_vars => SnapshotInv'
BY DEF SnapshotInv, Next, Step, vars, code, history, FullAnswers, FullFails, Sleep,
   MayProbe, LadderEnds, ProbeAnswers, ProbeFails, RefetchAnswers, RefetchFails, Settle,
   ThreadsAnswers, ThreadsFail, ThreadsNull, ThreadsEnd, AsksThreads, ContextsAnswers,
   ContextsFail, ContextsNull, ContextsEnd, AsksContexts, Report, WorldMoves

\* Only the first full query and a second one after an undecided first bring
\* a snapshot.
LEMMA SnapshotKept ==
  ASSUME SnapshotInv, [Next]_vars, pr # Nothing, ~Undecided(pr.state, pr.mergeable)
  PROVE  pr' = pr
BY DEF SnapshotInv, Next, Step, vars, code, history, FullAnswers, FullFails, Sleep,
   LadderEnds, ProbeAnswers, ProbeFails, RefetchAnswers, RefetchFails, Settle,
   ThreadsAnswers, ThreadsFail, ThreadsNull, ThreadsEnd, ContextsAnswers,
   ContextsFail, ContextsNull, ContextsEnd, Report, WorldMoves

\* A decided snapshot is final: no later answer replaces it (PR's loop).
THEOREM SnapshotIsFinal == Spec => DecidedIsFinal
<1>1. SnapshotInv /\ [Next]_vars =>
        [pr # Nothing /\ ~Undecided(pr.state, pr.mergeable) => pr' = pr]_vars
  BY SnapshotKept
<1>. QED BY SnapshotInit, SnapshotStep, <1>1, PTL DEF Spec, DecidedIsFinal

-----------------------------------------------------------------------------
(* The facts and the tokens of the report are those of one answer and of   *)
(* the pages read after it.                                                *)

Truncations == {"threads_truncated", "checks_truncated"}

\* What the input under construction keeps of the answer held.
InputInv ==
  /\ in.prState = pr.state /\ in.mergeable = pr.mergeable
  /\ in.degraded \ Truncations = degraded
  /\ in.threadsKnown \/ "threads" \in degraded
  /\ in.requiredKnown \/ "required" \in degraded

FactsInv ==
  /\ degraded = Partial(ErrorFields(lost))
  /\ pc \in {"threads", "contexts", "report"} => InputInv
  /\ ~blank /\ pc \in {"contexts", "report"} /\ tp.hasNext =>
       "threads_truncated" \in in.degraded
  /\ ~blank /\ pc = "report" /\ cp.hasNext =>
       "checks_truncated" \in in.degraded
  /\ UndecidedNeverGreen /\ TokensOfTheAnswerHeld /\ PagesAccountedFor

LEMMA FactsInit == Init => FactsInv
<1>1. Partial(ErrorFields({})) = {}
  BY DEF Partial, ErrorFields
<1>. QED
  BY <1>1 DEF Init, FactsInv, UndecidedNeverGreen, TokensOfTheAnswerHeld,
     PagesAccountedFor, Reported, Finished

LEMMA SettledInput ==
  ASSUME NEW node \in PRNode, NEW tokens \in SUBSET Tokens
  PROVE  LET i == Degrade(Normalize(node), tokens)
         IN  /\ i.prState = node.state /\ i.mergeable = node.mergeable
             /\ i.degraded = tokens
             /\ i.threadsKnown \/ "threads" \in tokens
             /\ i.requiredKnown \/ "required" \in tokens
<1>. DEFINE n == Normalize(node)
            i == Degrade(n, tokens)
<1>1. /\ n.prState = node.state /\ n.mergeable = node.mergeable
      /\ n.degraded = {} /\ n.threadsKnown = TRUE /\ n.requiredKnown = TRUE
  BY DEF Normalize
<1>2. n \in Input
  BY NormalizeType
<1>. HIDE DEF n
<1>3. /\ i.prState = n.prState /\ i.mergeable = n.mergeable
      /\ i.degraded = n.degraded \cup tokens
      /\ i.threadsKnown = (n.threadsKnown /\ "threads" \notin tokens)
      /\ i.requiredKnown = (n.requiredKnown /\ "required" \notin tokens)
  BY <1>2 DEF Degrade, Input
<1>. HIDE DEF i
<1>4. i.threadsKnown \/ "threads" \in tokens
  BY <1>1, <1>3
<1>5. i.requiredKnown \/ "required" \in tokens
  BY <1>1, <1>3
<1>. QED BY <1>1, <1>3, <1>4, <1>5 DEF i, n

\* Tokens of truncation are all the later phases add.
LEMMA TruncationKeepsInput ==
  ASSUME in \in Input, InputInv, UNCHANGED <<pr, degraded>>,
         NEW t \in SUBSET Truncations, in' = [in EXCEPT !.degraded = @ \cup t]
  PROVE  InputInv' /\ in'.degraded = in.degraded \cup t
<1>1. /\ in'.prState = in.prState /\ in'.mergeable = in.mergeable
      /\ in'.threadsKnown = in.threadsKnown /\ in'.requiredKnown = in.requiredKnown
      /\ in'.degraded = in.degraded \cup t
  BY DEF Input
<1>2. in'.threadsKnown \/ "threads" \in degraded'
  BY <1>1 DEF InputInv
<1>3. in'.requiredKnown \/ "required" \in degraded'
  BY <1>1 DEF InputInv
<1>4. in'.degraded \ Truncations = degraded'
  BY <1>1 DEF InputInv
<1>. QED BY <1>1, <1>2, <1>3, <1>4 DEF InputInv

\* Nothing is claimed of a report before there is one.
LEMMA NothingReported ==
  ASSUME pc' # "done" \/ out' = [exit |-> 3] \/ out' = [exit |-> 4]
  PROVE  UndecidedNeverGreen' /\ TokensOfTheAnswerHeld' /\ PagesAccountedFor'
<1>1. ~Reported'
  BY DEF Reported, Finished
<1>. QED BY <1>1 DEF UndecidedNeverGreen, TokensOfTheAnswerHeld, PagesAccountedFor

\* The report keeps the promises, given what the input was made of.
LEMMA ReportKeepsFacts ==
  ASSUME TypeOK, FactsInv, Report
  PROVE  UndecidedNeverGreen' /\ TokensOfTheAnswerHeld' /\ PagesAccountedFor'
<1>. DEFINE i == [in EXCEPT !.degraded = @ \cup If(ghes, {"ghes"})]
            r == Synthesize(i)
<1>1. in \in Input /\ InputInv /\ lost \in SUBSET Losses
  BY FetchAssumption DEF Report, TypeOK, FactsInv
<1>2. /\ i.prState = pr.state /\ i.mergeable = pr.mergeable
      /\ i.degraded = in.degraded \cup If(ghes, {"ghes"})
      /\ i.threadsKnown = in.threadsKnown /\ i.requiredKnown = in.requiredKnown
  BY <1>1 DEF Input, InputInv
<1>. HIDE DEF i
<1>3. FinishTokens(i) \subseteq degraded
  <2>1. i.threadsKnown \/ "threads" \in degraded
    BY <1>1, <1>2 DEF InputInv
  <2>2. i.requiredKnown \/ "required" \in degraded
    BY <1>1, <1>2 DEF InputInv
  <2>. QED BY <2>1, <2>2 DEF FinishTokens, If
<1>4. /\ i.degraded \cup FinishTokens(i) \subseteq r.degraded
      /\ r.degraded \subseteq i.degraded \cup FinishTokens(i) \cup {"behind"}
  BY ReportTokens
<1>5. Undecided(pr.state, pr.mergeable) => ExitForReport(r) # 0
  BY <1>2, UndecidedIsNotGreen DEF Undecided
<1>. HIDE DEF r
<1>6. /\ out'.exit = ExitForReport(r) /\ out'.report = r /\ pc = "report"
      /\ UNCHANGED <<pr, lost, ghes, tp, cp, blank>>
  BY DEF Report, history, r, i
<1>7. degraded \subseteq {"threads", "checks", "required", "merge_state"}
  BY <1>1, PartialType DEF FactsInv
<1>8. UndecidedNeverGreen'
  BY <1>5, <1>6 DEF UndecidedNeverGreen
<1>9. TokensOfTheAnswerHeld'
  <2>1. in.degraded \ Truncations = degraded
    BY <1>1 DEF InputInv
  <2>2. r.degraded \ {"behind", "threads_truncated", "checks_truncated"}
          = degraded \cup If(ghes, {"ghes"})
    BY <1>2, <1>3, <1>4, <1>7, <2>1 DEF Truncations, If
  <2>3. degraded = Partial(ErrorFields(lost))
    BY DEF FactsInv
  <2>. QED BY <1>6, <2>2, <2>3 DEF TokensOfTheAnswerHeld
<1>10. PagesAccountedFor'
  <2>1. in.degraded \subseteq r.degraded
    BY <1>2, <1>4
  <2>2. ~blank =>
          /\ tp.hasNext => "threads_truncated" \in r.degraded
          /\ cp.hasNext => "checks_truncated" \in r.degraded
    BY <1>6, <2>1 DEF FactsInv
  <2>. QED BY <1>6, <2>2 DEF PagesAccountedFor
<1>. QED BY <1>8, <1>9, <1>10

LEMMA FactsStep == TypeOK /\ FactsInv /\ [Next]_vars => FactsInv'
<1>. SUFFICES ASSUME TypeOK, FactsInv, [Next]_vars PROVE FactsInv'
  OBVIOUS
<1>1. CASE FullAnswers \/ RefetchAnswers
  <2>1. world \in World /\ Answered /\ pc' \in {"ladder", "normalize"}
    BY <1>1, FetchAssumption DEF FullAnswers, RefetchAnswers, TypeOK
  <2>2. degraded' = Partial(ErrorFields(lost'))
    BY <2>1, AnsweredType
  <2>. QED BY <2>1, <2>2, NothingReported DEF FactsInv
<1>2. CASE FullFails
  <2>1. /\ pc' = "done" /\ UNCHANGED <<degraded, lost>>
        /\ out' = [exit |-> 3] \/ out' = [exit |-> 4]
    BY <1>2 DEF FullFails, ClassifiedExits
  <2>. QED BY <2>1, NothingReported DEF FactsInv
<1>3. CASE Sleep \/ LadderEnds \/ ProbeAnswers \/ ProbeFails \/ RefetchFails
  <2>1. /\ pc' \in {"probe", "refetch", "ladder", "normalize"}
        /\ UNCHANGED <<degraded, lost>>
    BY <1>3 DEF Sleep, LadderEnds, ProbeAnswers, ProbeFails, RefetchFails, history
  <2>. QED BY <2>1, NothingReported DEF FactsInv
<1>4. CASE Settle
  <2>1. pr \in PRNode /\ degraded \in SUBSET Tokens /\ lost \in SUBSET Losses
    BY <1>4, FetchAssumption DEF Settle, TypeOK
  <2>2. /\ in' = Degrade(Normalize(pr), degraded) /\ pc' = "threads"
        /\ UNCHANGED <<pr, degraded, lost>>
    BY <1>4 DEF Settle, history
  <2>3. degraded \ Truncations = degraded
    BY <2>1, PartialType DEF FactsInv, Truncations
  <2>4. InputInv'
    BY <2>1, <2>2, <2>3, SettledInput DEF InputInv
  <2>. QED BY <2>2, <2>4, NothingReported DEF FactsInv
<1>5. CASE ThreadsAnswers
  <2>1. in \in Input /\ InputInv
    BY <1>5 DEF ThreadsAnswers, AsksThreads, TypeOK, FactsInv
  <2>2. PICK n : in' = [in EXCEPT !.unresolvedThreads = n]
    BY <1>5 DEF ThreadsAnswers
  <2>3. pc' = "threads" /\ UNCHANGED <<pr, degraded, lost>>
    BY <1>5 DEF ThreadsAnswers, AsksThreads
  <2>4. /\ in'.prState = in.prState /\ in'.mergeable = in.mergeable
        /\ in'.threadsKnown = in.threadsKnown /\ in'.requiredKnown = in.requiredKnown
        /\ in'.degraded = in.degraded
    BY <2>1, <2>2 DEF Input
  <2>5. InputInv'
    BY <2>1, <2>3, <2>4, Zenon DEF InputInv
  <2>. QED BY <2>3, <2>5, NothingReported DEF FactsInv
<1>6. CASE ThreadsFail \/ ThreadsEnd
  <2>. DEFINE t == IF tp.hasNext THEN {"threads_truncated"} ELSE {}
  <2>1. /\ in \in Input /\ InputInv /\ pc' = "contexts"
        /\ in' = [in EXCEPT !.degraded = @ \cup t]
        /\ UNCHANGED <<pr, degraded, lost, tp, blank>>
    BY <1>6 DEF ThreadsFail, ThreadsEnd, AsksThreads, TypeOK, FactsInv, If, history
  <2>2. t \in SUBSET Truncations
    BY DEF Truncations
  <2>3. InputInv' /\ in'.degraded = in.degraded \cup t
    BY <2>1, <2>2, TruncationKeepsInput
  <2>. QED BY <2>1, <2>3, NothingReported DEF FactsInv
<1>7. CASE ThreadsNull
  <2>1. blank'
    BY <1>7 DEF ThreadsNull
  <2>2. pc' = "contexts" /\ InputInv /\ UNCHANGED <<in, pr, degraded, lost>>
    BY <1>7 DEF ThreadsNull, AsksThreads, FactsInv
  <2>3. InputInv'
    BY <2>2 DEF InputInv
  <2>. QED BY <2>1, <2>2, <2>3, NothingReported DEF FactsInv
<1>8. CASE ContextsAnswers
  <2>1. in \in Input /\ InputInv
    BY <1>8 DEF ContextsAnswers, AsksContexts, TypeOK, FactsInv
  <2>2. PICK S : in' = [in EXCEPT !.contexts = S]
    BY <1>8 DEF ContextsAnswers
  <2>3. pc = "contexts" /\ pc' = "contexts" /\ UNCHANGED <<pr, degraded, lost, tp, blank>>
    BY <1>8 DEF ContextsAnswers, AsksContexts
  <2>4. /\ in'.prState = in.prState /\ in'.mergeable = in.mergeable
        /\ in'.threadsKnown = in.threadsKnown /\ in'.requiredKnown = in.requiredKnown
        /\ in'.degraded = in.degraded
    BY <2>1, <2>2 DEF Input
  <2>5. InputInv'
    BY <2>1, <2>3, <2>4, Zenon DEF InputInv
  <2>. QED BY <2>3, <2>4, <2>5, NothingReported DEF FactsInv
<1>9. CASE ContextsFail \/ ContextsEnd
  <2>. DEFINE t == IF cp.hasNext THEN {"checks_truncated"} ELSE {}
  <2>1. /\ in \in Input /\ InputInv /\ pc = "contexts" /\ pc' = "report"
        /\ in' = [in EXCEPT !.degraded = @ \cup t]
        /\ UNCHANGED <<pr, degraded, lost, tp, cp, blank>>
    BY <1>9 DEF ContextsFail, ContextsEnd, AsksContexts, TypeOK, FactsInv, If, history
  <2>2. t \in SUBSET Truncations
    BY DEF Truncations
  <2>3. InputInv' /\ in'.degraded = in.degraded \cup t
    BY <2>1, <2>2, TruncationKeepsInput
  <2>. QED BY <2>1, <2>3, NothingReported DEF FactsInv
<1>10. CASE ContextsNull
  <2>1. blank'
    BY <1>10 DEF ContextsNull
  <2>2. pc' = "report" /\ InputInv /\ UNCHANGED <<in, pr, degraded, lost>>
    BY <1>10 DEF ContextsNull, AsksContexts, FactsInv
  <2>3. InputInv'
    BY <2>2 DEF InputInv
  <2>. QED BY <2>1, <2>2, <2>3, NothingReported DEF FactsInv
<1>11. CASE Report
  <2>1. pc' = "done" /\ UNCHANGED <<degraded, lost>>
    BY <1>11 DEF Report, history
  <2>. QED BY <1>11, <2>1, ReportKeepsFacts DEF FactsInv
<1>12. CASE WorldMoves \/ UNCHANGED vars
  <2>1. UNCHANGED <<code, history>>
    BY <1>12 DEF WorldMoves, vars
  <2>. QED
    BY <2>1 DEF code, history, FactsInv, InputInv, UndecidedNeverGreen,
       TokensOfTheAnswerHeld, PagesAccountedFor, Reported, Finished
<1>. QED
  BY <1>1, <1>2, <1>3, <1>4, <1>5, <1>6, <1>7, <1>8, <1>9, <1>10, <1>11, <1>12
     DEF Next, Step

LEMMA FactsHold == Spec => []FactsInv
BY TypeCorrect, FactsInit, FactsStep, PTL DEF Spec

\* Whatever moves between the requests and whichever of them fail, a report
\* on a snapshot GitHub had not decided is never green (PR, decompose,
\* exitForReport).
THEOREM UndecidedIsNeverReportedGreen == Spec => []UndecidedNeverGreen
<1>1. FactsInv => UndecidedNeverGreen
  BY DEF FactsInv
<1>. QED BY FactsHold, <1>1, PTL

\* The tokens of a report are exactly those of the losses of the answer its
\* facts come from, and the host's (PR, finish, runSingle).
THEOREM TokensComeFromTheAnswer == Spec => []TokensOfTheAnswerHeld
<1>1. FactsInv => TokensOfTheAnswerHeld
  BY DEF FactsInv
<1>. QED BY FactsHold, <1>1, PTL

\* No list is cut short without a token, by failure, deadline or cap, as long
\* as no page came back without a pull request or a rollup (paginate).
THEOREM NoListIsCutSilently == Spec => []PagesAccountedFor
<1>1. FactsInv => PagesAccountedFor
  BY DEF FactsInv
<1>. QED BY FactsHold, <1>1, PTL

-----------------------------------------------------------------------------
(* The refinement: every step of the invocation is a step of Lookup, or    *)
(* none of its business.                                                   *)

LEMMA LookupInit == Init => L!Init
BY DEF Init, L!Init, Phase, Nothing

\* A full answer is one of the snapshots of the pull request at that moment.
LEMMA AnsweredIsSnapshot ==
  ASSUME world \in Worlds, Answered
  PROVE  [facts |-> pr, tokens |-> degraded]' \in Snapshots[world]
BY DEF Answered, Snapshots

\* A step that moves on within one phase shows nothing.
LEMMA SamePhase ==
  ASSUME UNCHANGED <<world, pr, degraded, out>>, Phase' = Phase
  PROVE  UNCHANGED L!vars
BY DEF L!vars

\* A step from holding to settled that keeps the answer.
LEMMA KeepsAnswer ==
  ASSUME UNCHANGED <<world, pr, degraded, out>>, Phase = "holding", Phase' = "settled"
  PROVE  L!Keep
BY DEF L!Keep

LEMMA LookupStep ==
  TypeOK /\ SnapshotInv /\ FactsInv /\ FactsInv' /\ [Next]_vars => [L!Next]_(L!vars)
<1>. SUFFICES ASSUME TypeOK, SnapshotInv, FactsInv, FactsInv', [Next]_vars
              PROVE  L!Next \/ UNCHANGED L!vars
  OBVIOUS
<1>1. CASE FullAnswers
  <2>1. /\ world \in Worlds /\ Answered /\ UNCHANGED <<world, out>>
        /\ Phase = "asking" /\ Phase' = "holding"
    BY <1>1 DEF FullAnswers, TypeOK, Phase
  <2>2. L!Take
    BY <2>1, AnsweredIsSnapshot DEF L!Take
  <2>. QED BY <2>2 DEF L!Next
<1>2. CASE FullFails
  <2>1. /\ Phase = "asking" /\ Phase' = "done" /\ UNCHANGED <<world, pr, degraded>>
        /\ out' = [exit |-> 3] \/ out' = [exit |-> 4]
    BY <1>2 DEF FullFails, ClassifiedExits, Phase
  <2>2. out = Nothing
    BY <1>2 DEF FullFails, SnapshotInv
  <2>3. L!Fail
    BY <2>1, <2>2 DEF L!Fail, Nothing
  <2>. QED BY <2>3 DEF L!Next
<1>3. CASE Sleep
  <2>1. Phase' = Phase /\ UNCHANGED <<world, pr, degraded, out>>
    BY <1>3 DEF Sleep, Phase, history
  <2>. QED BY <2>1, SamePhase
<1>4. CASE LadderEnds \/ ProbeFails \/ RefetchFails
  <2>1. /\ Phase = "holding" /\ Phase' = "settled"
        /\ UNCHANGED <<world, pr, degraded, out>>
    BY <1>4 DEF LadderEnds, ProbeFails, RefetchFails, Phase, history
  <2>. QED BY <2>1, KeepsAnswer DEF L!Next
<1>5. CASE ProbeAnswers
  <2>1. Phase' = Phase /\ UNCHANGED <<world, pr, degraded, out>>
    BY <1>5 DEF ProbeAnswers, Phase
  <2>. QED BY <2>1, SamePhase
<1>6. CASE RefetchAnswers
  <2>1. /\ world \in Worlds /\ Answered /\ UNCHANGED <<world, out>>
        /\ Phase = "holding" /\ Phase' = "settled"
    BY <1>6 DEF RefetchAnswers, TypeOK, Phase
  <2>2. pr \in {f \in PRNode : Undecided(f.state, f.mergeable)}
    BY <1>6 DEF RefetchAnswers, TypeOK, SnapshotInv
  <2>3. L!Replace
    BY <2>1, <2>2, AnsweredIsSnapshot DEF L!Replace
  <2>. QED BY <2>3 DEF L!Next
<1>7. CASE Settle \/ ThreadsAnswers \/ ThreadsFail \/ ThreadsNull \/ ThreadsEnd
           \/ ContextsAnswers \/ ContextsFail \/ ContextsNull \/ ContextsEnd
  <2>1. Phase' = Phase /\ UNCHANGED <<world, pr, degraded, out>>
    BY <1>7 DEF Settle, ThreadsAnswers, ThreadsFail, ThreadsNull, ThreadsEnd, AsksThreads,
       ContextsAnswers, ContextsFail, ContextsNull, ContextsEnd, AsksContexts, Phase, history
  <2>. QED BY <2>1, SamePhase
<1>8. CASE Report
  <2>. DEFINE r == Synthesize([in EXCEPT !.degraded = @ \cup If(ghes, {"ghes"})])
  <2>1. /\ Phase = "settled" /\ Phase' = "done"
        /\ UNCHANGED <<world, pr, degraded, lost, ghes>>
        /\ out' = [exit |-> ExitForReport(r), report |-> r]
    BY <1>8 DEF Report, Phase, history
  <2>2. ExitForReport(r) \in 0..3
    BY DEF ExitForReport
  <2>. HIDE DEF r
  <2>3. Reported'
    BY <1>8, <2>1, <2>2 DEF Report, Reported, Finished
  <2>4. degraded = Partial(ErrorFields(lost)) /\ "ghes" \notin degraded
        /\ degraded \cap L!Extras = {}
    <3>1. lost \in SUBSET Losses
      BY FetchAssumption DEF TypeOK
    <3>. QED BY <3>1, PartialType DEF FactsInv, L!Extras
  <2>5. r.degraded \ L!Extras = degraded
    <3>1. r.degraded \ {"behind", "threads_truncated", "checks_truncated"}
            = degraded \cup If(ghes, {"ghes"})
      BY <2>1, <2>3, <2>4 DEF FactsInv, TokensOfTheAnswerHeld
    <3>. QED BY <2>4, <3>1 DEF L!Extras, If
  <2>6. pr \in {f \in PRNode : Undecided(f.state, f.mergeable)} => ExitForReport(r) # 0
    BY <2>1, <2>3 DEF FactsInv, UndecidedNeverGreen
  <2>7. L!Conclude
    BY <2>1, <2>2, <2>5, <2>6 DEF L!Conclude
  <2>. QED BY <2>7 DEF L!Next
<1>9. CASE WorldMoves
  <2>1. Phase # "done" /\ Phase' = Phase /\ UNCHANGED <<pr, degraded, out>>
        /\ world' \in Worlds
    BY <1>9 DEF WorldMoves, TypeOK, Phase, code
  <2>2. L!Move
    BY <2>1 DEF L!Move
  <2>. QED BY <2>2 DEF L!Next
<1>10. CASE UNCHANGED vars
  <2>1. Phase' = Phase /\ UNCHANGED <<world, pr, degraded, out>>
    BY <1>10 DEF vars, code, Phase
  <2>. QED BY <2>1, SamePhase
<1>. QED
  BY <1>1, <1>2, <1>3, <1>4, <1>5, <1>6, <1>7, <1>8, <1>9, <1>10 DEF Next, Step

\* One invocation, with all its probes, retries, pages and failures, is a
\* lookup: the verdict and its tokens are those of one answer, replaced at
\* most once and only while GitHub had not decided (PR, runSingle).
THEOREM InvocationIsALookup == Spec => KeepsPromise
<1>. QED
  BY LookupInit, LookupStep, TypeCorrect, SnapshotInit, SnapshotStep, FactsHold, PTL
     DEF Spec, KeepsPromise, L!Spec

=============================================================================
