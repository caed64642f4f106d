---------------------------- MODULE TablesProofs ----------------------------
(***************************************************************************)
(* The three parts of prq that go through a list item by item, for lists   *)
(* of every length: printed lists (Caps), the errors of an answer (Errors) *)
(* and the command line (Cli).                                             *)
(***************************************************************************)
EXTENDS Caps, Errors, Cli, ListsProofs, WellFoundedInduction

-----------------------------------------------------------------------------
(* Folding and cutting.                                                   *)

\* A list of lines, counts among them.
IsList(list) ==
  /\ \E S : list \in Seq(S)
  /\ \A i \in DOMAIN list : IsMore(list[i]) => list[i].more \in Nat

\* Folding keeps at most limit lines and one more, which takes the count of a
\* "+N more" over.
LEMMA Folded ==
  ASSUME NEW list, IsList(list), NEW limit \in Nat
  PROVE  /\ IsList(Recap(list, limit))
         /\ Stands(Recap(list, limit)) = Stands(list)
         /\ Len(list) <= limit \/ Len(Recap(list, limit)) = limit + 1
<1>1. CASE Len(list) <= limit
  BY <1>1 DEF Recap
<1>2. CASE ~(Len(list) <= limit)
  <2>1. PICK S : list \in Seq(S)
    BY DEF IsList
  <2>. DEFINE last == list[Len(list)]
              hidden == Len(list) - limit + (IF IsMore(last) THEN last.more - 1 ELSE 0)
              front == SubSeq(list, 1, limit)
              more == More(hidden)
              T == S \cup {more}
              new == Append(front, more)
  <2>2. Len(list) \in Nat /\ Len(list) > limit /\ list # <<>> /\ Len(list) \in DOMAIN list
    BY <1>2, <2>1
  <2>3. IsMore(last) => last.more \in Nat
    BY <2>2 DEF IsList
  <2>4. /\ front \in Seq(S) /\ Len(front) = limit
        /\ \A i \in 1..limit : front[i] = list[i]
    BY <2>1, <2>2
  <2>5. hidden \in Nat
    BY <2>2, <2>3
  <2>6. IsMore(more) /\ more.more = hidden
    BY DEF IsMore, More
  <2>7. Recap(list, limit) = new
    BY <1>2 DEF Recap
  <2>8. Stands(list) = limit + hidden
    BY <2>2, <2>3 DEF Stands
  <2>. HIDE DEF last, hidden, front, more
  <2>9. front \in Seq(T) /\ more \in T
    BY <2>4
  <2>. HIDE DEF T
  <2>10. /\ new \in Seq(T)
         /\ Len(new) = limit + 1
         /\ \A i \in 1..limit : new[i] = front[i]
         /\ new[limit + 1] = more
    BY <2>4, <2>9
  <2>. HIDE DEF new
  <2>11. Stands(new) = limit + hidden
    BY <2>5, <2>6, <2>10 DEF Stands
  <2>12. ASSUME NEW i \in DOMAIN new, IsMore(new[i]) PROVE new[i].more \in Nat
    <3>1. i \in 1..limit \/ i = limit + 1
      BY <2>10
    <3>2. CASE i \in 1..limit
      BY <2>2, <2>4, <2>10, <2>12, <3>2, <2>1 DEF IsList
    <3>. QED BY <2>5, <2>6, <2>10, <3>1, <3>2
  <2>. QED BY <2>7, <2>8, <2>10, <2>11, <2>12 DEF IsList
<1>. QED BY <1>1, <1>2

\* Sorting keeps the length.
LEMMA SortedLength ==
  ASSUME NEW S, NEW list \in Seq(S)
  PROVE  Len(SortedBy(list)) = Len(list) /\ Len(list) \in Nat
<1>. DEFINE D == DOMAIN list
            order == Ranked(D, {p \in D \X D : Earlier(list, p[1], p[2])})
            n == Len(list)
<1>1. n \in Nat /\ D = 1..n
  OBVIOUS
<1>2. Cardinality(D) = n
  BY PlacesOf
<1>3. DOMAIN order = 1..n
  BY <1>2 DEF Ranked
<1>4. SortedBy(list) = [k \in 1..n |-> list[order[k]]]
  BY <1>3 DEF SortedBy
<1>. HIDE DEF order
<1>. QED BY <1>1, <1>4

\* A printed list, and that list folded again for a row of the board, stand for
\* every entry they were made of, whatever the two caps (flatten, recap, finish,
\* Summarize).
LEMMA NoEntryIsLost ==
  ASSUME NEW S, NEW list \in Seq(S), NEW a \in Nat, NEW b \in Nat
  PROVE  /\ IsList(Flatten(list, a))
         /\ Stands(Flatten(list, a)) = Len(list)
         /\ Stands(Recap(Flatten(list, a), b)) = Len(list)
<1>. DEFINE sorted == SortedBy(list)
            lines == [i \in 1..Len(sorted) |-> CapLine(sorted[i].text)]
            L == {lines[i] : i \in 1..Len(sorted)}
<1>1. Len(sorted) = Len(list) /\ Len(list) \in Nat
  BY SortedLength
<1>2. Flatten(list, a) = Recap(lines, a)
  BY DEF Flatten
<1>3. \A i \in 1..Len(sorted) : ~IsMore(lines[i])
  BY DEF CapLine, LineOf, IsMore
<1>. HIDE DEF sorted
<1>4. lines \in Seq(L) /\ Len(lines) = Len(list) /\ DOMAIN lines = 1..Len(sorted)
  BY <1>1
<1>. HIDE DEF lines, L
<1>5. IsList(lines)
  BY <1>3, <1>4 DEF IsList
<1>6. Stands(lines) = Len(list)
  BY <1>1, <1>3, <1>4 DEF Stands
<1>7. IsList(Flatten(list, a)) /\ Stands(Flatten(list, a)) = Len(list)
  BY <1>2, <1>5, <1>6, Folded
<1>. QED BY <1>7, Folded

\* A line fits, an action in it is whole and within its own cap, and only a
\* head that is too long by itself is cut (capLine).
LEMMA EveryLineFits ==
  ASSUME CapsAssumption,
         NEW text \in Texts
  PROVE  LET line == CapLine(text)
         IN  /\ line.runes <= MaxLineRunes
             /\ line.shown = "whole" => /\ text.action <= MaxActionRunes
                                        /\ line.runes = Runes(text)
             /\ line.shown = "cut" => text.head > MaxLineRunes
  BY DEF CapsAssumption, CapLine, LineOf, Runes, Texts

\* The first of some places.
LEMMA LeastPlace ==
  ASSUME NEW K \in SUBSET Nat, K # {}
  PROVE  \E k \in K : \A j \in K : k <= j
<1>. DEFINE R == {ss \in Nat \X Nat : ss[1] < ss[2]}
<1>1. IsWellFoundedOn(R, Nat)
  BY NatLessThanWellFounded DEF OpToRel
<1>. HIDE DEF R
<1>2. PICK k \in K : \A j \in K : ~(<<j, k>> \in R)
  BY <1>1, WFMin
<1>3. \A m, n \in Nat : <<m, n>> \in R <=> m < n
  BY DEF R
<1>. HIDE DEF R
<1>4. \A m, n \in Nat : ~(m < n) => n <= m
  OBVIOUS
<1>. QED BY <1>2, <1>3, <1>4

-----------------------------------------------------------------------------
(* Collapsing the running checks.                                          *)

CapsSpec == CapsInit /\ [][CapsNext]_entries

\* What a list holds once its running checks are one line.
Listed == Entries \cup {Aggregate(n) : n \in Nat}

Runs(list) == {i \in DOMAIN list : list[i].running}
First(list) == CHOOSE i \in Runs(list) : \A j \in Runs(list) : i <= j
Staying(list) == (DOMAIN list \ Runs(list)) \cup {First(list)}

LEMMA EntriesAreListed == CapsSpec => [](entries \in Seq(Entries))
<1>1. CapsInit => entries \in Seq(Entries)
  BY DEF CapsInit
<1>2. entries \in Seq(Entries) /\ [CapsNext]_entries => (entries \in Seq(Entries))'
  BY DEF CapsNext, Add
<1>. QED BY <1>1, <1>2, PTL DEF CapsSpec

\* What is in a list can be compared and printed.
LEMMA ListedHave ==
  ASSUME NEW e \in Listed
  PROVE  e.prec \in Nat /\ e.key \in Nat /\ e.text \in Texts
<1>1. ASSUME NEW n \in Nat PROVE CountText(n) \in Texts
  BY DEF CountText, Texts, Width
<1>. QED BY <1>1, CapsAssumption DEF Listed, Aggregate

\* The running checks are some of the list.
LEMMA RunsAreFinite ==
  ASSUME NEW S, NEW list \in Seq(S)
  PROVE  /\ IsFiniteSet(Runs(list)) /\ Cardinality(Runs(list)) \in Nat
         /\ Runs(list) \subseteq DOMAIN list
         /\ Cardinality(Runs(list)) = 0 <=> Runs(list) = {}
<1>1. IsFiniteSet(DOMAIN list)
  BY PlacesOf
<1>2. Runs(list) \in SUBSET DOMAIN list
  BY DEF Runs
<1>3. IsFiniteSet(Runs(list))
  BY <1>1, <1>2, FS_Subset
<1>. QED BY <1>2, <1>3, FS_CardinalityType, FS_EmptySet

\* Where they collapse, the first of them stays and stands for all.
LEMMA StayingPlaces ==
  ASSUME NEW list \in Seq(Entries), Cardinality(Runs(list)) > CollapseRunning,
         NEW q, q = InOrder(Staying(list)), NEW m, m = Cardinality(Staying(list))
  PROVE  /\ First(list) \in Runs(list) /\ Runs(list) \subseteq DOMAIN list
         /\ Staying(list) \subseteq DOMAIN list
         /\ m \in Nat /\ m = Len(list) - (Cardinality(Runs(list)) - 1)
         /\ DOMAIN q = 1..m
         /\ \A k \in 1..m : q[k] \in Staying(list)
         /\ \A i \in Staying(list) : \E k \in 1..m : q[k] = i
         /\ \A j, k \in 1..m : q[j] = q[k] => j = k
         /\ CollapseRunningChecks(list) =
              [k \in 1..m |-> IF q[k] = First(list) THEN Aggregate(Cardinality(Runs(list)))
                                                    ELSE list[q[k]]]
<1>. DEFINE R == Runs(list)
            D == DOMAIN list
            f == First(list)
            S == Staying(list)
<1>1. /\ IsFiniteSet(R) /\ Cardinality(R) \in Nat /\ R \in SUBSET D
      /\ CollapseRunning \in Nat /\ Cardinality(R) # 0
  BY RunsAreFinite, CapsAssumption
<1>2. IsFiniteSet(D) /\ Cardinality(D) = Len(list) /\ D \in SUBSET Nat /\ Len(list) \in Nat
  BY PlacesOf
<1>3. f \in R
  <2>1. R \in SUBSET Nat /\ R # {}
    BY <1>1, <1>2, RunsAreFinite
  <2>2. PICK k \in R : \A j \in R : k <= j
    BY <2>1, LeastPlace
  <2>. QED BY <2>2 DEF First
<1>4. S = (D \ R) \cup {f} /\ f \notin D \ R
  BY <1>3 DEF Staying
<1>5. IsFiniteSet(D \ R) /\ Cardinality(D \ R) = Cardinality(D) - Cardinality(R)
  <2>1. D \cap R = R
    BY <1>1
  <2>. HIDE DEF D, R
  <2>2. Cardinality(D \ R) = Cardinality(D) - Cardinality(D \cap R)
    BY <1>2, FS_Difference
  <2>. QED BY <1>2, <2>1, <2>2, FS_Difference
<1>6. IsFiniteSet(S) /\ m = Len(list) - Cardinality(R) + 1
  <2>1. m = Cardinality(S)
    OBVIOUS
  <2>. HIDE DEF D, R, S, f
  <2>2. Cardinality((D \ R) \cup {f}) = Cardinality(D \ R) + 1
    BY <1>4, <1>5, FS_AddElement
  <2>. QED BY <1>2, <1>4, <1>5, <2>1, <2>2, FS_AddElement
<1>7. S \in SUBSET Int /\ S \subseteq D
  BY <1>1, <1>2, <1>3, <1>4
<1>8. /\ m \in Nat /\ DOMAIN q = 1..m
      /\ \A k \in 1..m : q[k] \in S
      /\ \A i \in S : \E k \in 1..m : q[k] = i
      /\ \A j, k \in 1..m : q[j] = q[k] => j = k
  <2>1. q = InOrder(S) /\ m = Cardinality(S)
    OBVIOUS
  <2>. HIDE DEF S
  <2>. QED BY ONLY <1>6, <1>7, <2>1, InOrderLists
<1>9. CollapseRunningChecks(list) =
        [k \in 1..m |-> IF q[k] = f THEN Aggregate(Cardinality(R)) ELSE list[q[k]]]
  <2>1. ~(Cardinality(R) <= CollapseRunning)
    BY <1>1
  <2>2. q = InOrder((DOMAIN list \ R) \cup {f})
    BY DEF Staying
  <2>. QED BY <1>8, <2>1, <2>2 DEF CollapseRunningChecks, Runs, First
<1>. HIDE DEF R, D, f, S
<1>10. m = Len(list) - (Cardinality(R) - 1)
  BY <1>1, <1>6
<1>. QED BY <1>1, <1>3, <1>7, <1>8, <1>9, <1>10 DEF R, D, f, S

\* What collapsing makes of a list, and by how much it is shorter.
LEMMA CollapsedLists ==
  ASSUME NEW list \in Seq(Entries), NEW c, c = CollapseRunningChecks(list)
  PROVE  /\ c \in Seq(Listed)
         /\ Len(c) = Len(list) - (IF Cardinality(Runs(list)) > CollapseRunning
                                  THEN Cardinality(Runs(list)) - 1 ELSE 0)
         /\ \A k \in 1..Len(c) :
              c[k].text.counts \in
                {0} \cup (IF Cardinality(Runs(list)) > CollapseRunning
                         THEN {Cardinality(Runs(list))} ELSE {})
<1>1. /\ Cardinality(Runs(list)) \in Nat /\ CollapseRunning \in Nat
      /\ list \in Seq(Listed) /\ Len(list) \in Nat
  BY RunsAreFinite, CapsAssumption DEF Listed
<1>2. CASE ~(Cardinality(Runs(list)) > CollapseRunning)
  <2>1. Cardinality(Runs(list)) <= CollapseRunning
    BY <1>1, <1>2
  <2>2. c = list
    BY <2>1 DEF CollapseRunningChecks, Runs
  <2>3. \A k \in 1..Len(c) : c[k].text.counts = 0
    BY <2>2, CapsAssumption
  <2>. QED BY <1>1, <1>2, <2>2, <2>3
<1>3. CASE Cardinality(Runs(list)) > CollapseRunning
  <2>. DEFINE n == Cardinality(Runs(list))
              q == InOrder(Staying(list))
              m == Cardinality(Staying(list))
  <2>1. /\ m \in Nat /\ m = Len(list) - (n - 1)
        /\ \A k \in 1..m : q[k] \in DOMAIN list
        /\ c = [k \in 1..m |-> IF q[k] = First(list) THEN Aggregate(n) ELSE list[q[k]]]
    BY <1>3, StayingPlaces
  <2>2. Aggregate(n) \in Listed
    BY <1>1 DEF Listed
  <2>. HIDE DEF n, q, m
  <2>3. \A k \in 1..m : list[q[k]] \in Listed
    BY <1>1, <2>1
  <2>4. c \in [1..m -> Listed]
    BY <2>1, <2>2, <2>3
  <2>5. c \in Seq(Listed) /\ Len(c) = m
    BY <2>1, <2>4
  <2>6. Aggregate(n).text.counts = n
    BY DEF Aggregate, CountText
  <2>7. \A k \in 1..m : list[q[k]].text.counts = 0
    BY <2>1, CapsAssumption
  <2>8. \A k \in 1..m : c[k].text.counts \in {0, n}
    BY <2>1, <2>6, <2>7
  <2>. QED BY <1>3, <2>1, <2>5, <2>8 DEF n
<1>. QED BY <1>2, <1>3

-----------------------------------------------------------------------------
(* Sorting. *)

\* Before compares three numbers, one after the other.
LEMMA BeforeOrders ==
  /\ \A e \in Listed : ~Before(e, e)
  /\ \A e, d \in Listed : ~(Before(e, d) /\ Before(d, e))
  /\ \A e, d, c \in Listed : Before(e, d) /\ ~Before(c, d) => Before(e, c)
  /\ \A e, d, c \in Listed : ~Before(e, c) /\ Before(e, d) => Before(c, d)
<1>1. \A e \in Listed : e.prec \in Nat /\ e.key \in Nat /\ e.text.order \in Int
  BY ListedHave DEF Texts
<1>2. \A e \in Listed : ~Before(e, e)
  BY <1>1 DEF Before
<1>3. \A e, d \in Listed : ~(Before(e, d) /\ Before(d, e))
  BY <1>1 DEF Before
<1>4. \A e, d, c \in Listed : Before(e, d) /\ ~Before(c, d) => Before(e, c)
  BY <1>1 DEF Before
<1>5. \A e, d, c \in Listed : ~Before(e, c) /\ Before(e, d) => Before(c, d)
  BY <1>1 DEF Before
<1>. QED BY <1>2, <1>3, <1>4, <1>5
\* q says where in the list each entry of s, the sorted list, stands.
Puts(q, list, s) ==
  /\ q \in [1..Len(list) -> 1..Len(list)]
  /\ \A k \in 1..Len(list) : s[k] = list[q[k]]
  /\ \A i \in 1..Len(list) : \E k \in 1..Len(list) : q[k] = i
  /\ \A j, k \in 1..Len(list) : q[j] = q[k] => j = k

\* The sorted list holds every place of the list once, and nothing in it comes
\* before what precedes it.
LEMMA SortedLists ==
  ASSUME NEW list \in Seq(Listed), NEW n, n = Len(list), NEW s, s = SortedBy(list)
  PROVE  /\ n \in Nat /\ s \in Seq(Listed) /\ Len(s) = n
         /\ \A j, k \in 1..n : j < k => ~Before(s[k], s[j])
         /\ \E q : Puts(q, list, s)
<1>. DEFINE D == DOMAIN list
            R == {p \in D \X D : Earlier(list, p[1], p[2])}
            q == Ranked(D, R)
<1>1. n \in Nat /\ D = 1..n /\ IsFiniteSet(D) /\ Cardinality(D) = n
  BY PlacesOf
<1>2. \A i \in 1..n : list[i] \in Listed
  BY <1>1
<1>3. \A i, j \in D : <<i, j>> \in R <=> Earlier(list, i, j)
  OBVIOUS
<1>4. StrictOrder(D, R)
  <2>1. \A i \in D : ~Earlier(list, i, i)
    BY <1>1, <1>2, BeforeOrders DEF Earlier
  <2>2. \A i, j \in D : i = j \/ Earlier(list, i, j) \/ Earlier(list, j, i)
    BY <1>1, <1>2, BeforeOrders DEF Earlier
  <2>3. ASSUME NEW i \in D, NEW j \in D, NEW k \in D, Earlier(list, i, j), Earlier(list, j, k)
        PROVE  Earlier(list, i, k)
    <3>. DEFINE e == list[i]
                d == list[j]
                c == list[k]
    <3>1. e \in Listed /\ d \in Listed /\ c \in Listed /\ i \in Nat /\ j \in Nat /\ k \in Nat
      BY <1>1, <1>2
    <3>2. /\ Before(e, d) \/ (i < j /\ ~Before(d, e))
          /\ Before(d, c) \/ (j < k /\ ~Before(c, d))
      BY <2>3 DEF Earlier
    <3>. HIDE DEF e, d, c
    <3>3. Before(e, c) \/ (i < k /\ ~Before(c, e))
      BY <3>1, <3>2, BeforeOrders
    <3>. QED BY <3>3 DEF Earlier, e, c
  <2>. QED BY <1>3, <2>1, <2>2, <2>3 DEF StrictOrder
<1>. HIDE DEF R
<1>5. /\ q \in [1..n -> D]
      /\ \A i \in D : \E k \in 1..n : q[k] = i
      /\ \A j, k \in 1..n : <<q[j], q[k]>> \in R <=> j < k
      /\ \A j, k \in 1..n : q[j] = q[k] => j = k
  <2>1. q = Ranked(D, R)
    OBVIOUS
  <2>. HIDE DEF q, D
  <2>2. IsFiniteSet(D) /\ Cardinality(D) = n
    BY <1>1
  <2>3. /\ q \in [1..Cardinality(D) -> D]
        /\ \A i \in D : \E k \in 1..Cardinality(D) : q[k] = i
        /\ \A j, k \in 1..Cardinality(D) : <<q[j], q[k]>> \in R <=> j < k
        /\ \A j, k \in 1..Cardinality(D) : q[j] = q[k] => j = k
    BY ONLY <2>1, <2>2, <1>4, RankedLists
  <2>. QED BY <2>2, <2>3
<1>6. s = [k \in 1..n |-> list[q[k]]]
  BY <1>5 DEF SortedBy, R
<1>. HIDE DEF D, q
<1>7. \A k \in 1..n : q[k] \in 1..n
  BY <1>1, <1>5
<1>8. s \in [1..n -> Listed]
  BY <1>2, <1>6, <1>7
<1>9. s \in Seq(Listed) /\ Len(s) = n
  BY <1>1, <1>8
<1>10. ASSUME NEW j \in 1..n, NEW k \in 1..n, j < k PROVE ~Before(s[k], s[j])
  <2>1. Earlier(list, q[j], q[k])
    BY <1>1, <1>3, <1>5, <1>7, <1>10
  <2>2. s[j] = list[q[j]] /\ s[k] = list[q[k]] /\ s[j] \in Listed /\ s[k] \in Listed
    BY <1>2, <1>6, <1>7
  <2>. QED BY <2>1, <2>2, BeforeOrders DEF Earlier
<1>11. Puts(q, list, s)
  BY <1>1, <1>5, <1>6, <1>7 DEF Puts, D
<1>. QED BY <1>1, <1>9, <1>10, <1>11

\* Folding writes no line of its own but the count.
LEMMA FoldedLines ==
  ASSUME NEW S, NEW list \in Seq(S), NEW limit \in Nat, NEW i \in DOMAIN Recap(list, limit)
  PROVE  IsMore(Recap(list, limit)[i]) \/ Recap(list, limit)[i] \in S
<1>1. CASE Len(list) <= limit
  BY <1>1 DEF Recap
<1>2. CASE ~(Len(list) <= limit)
  <2>. DEFINE last == list[Len(list)]
              more == More(Len(list) - limit + (IF IsMore(last) THEN last.more - 1 ELSE 0))
              front == SubSeq(list, 1, limit)
  <2>1. Recap(list, limit) = Append(front, more)
    BY <1>2 DEF Recap
  <2>2. IsMore(more)
    BY DEF IsMore, More
  <2>3. front \in Seq(S) /\ Len(front) = limit
    BY <1>2
  <2>. HIDE DEF more, front
  <2>4. i \in 1..(limit + 1)
    BY <2>1, <2>3
  <2>5. CASE i = limit + 1
    BY <2>1, <2>2, <2>3, <2>5
  <2>6. CASE i \in 1..limit
    BY <2>1, <2>3, <2>6
  <2>. QED BY <2>4, <2>5, <2>6
<1>. QED BY <1>1, <1>2

\* Every line that is printed is the count or an entry of the list, in a
\* report and in a row.
LEMMA PrintedLines ==
  ASSUME NEW list \in Seq(Listed), NEW a \in Nat, NEW b \in Nat,
         NEW L, L = {CapLine(list[k].text) : k \in 1..Len(list)},
         NEW f, f = Flatten(list, a), NEW g, g = Recap(f, b)
  PROVE  /\ \A i \in DOMAIN f : IsMore(f[i]) \/ f[i] \in L
         /\ \A i \in DOMAIN g : IsMore(g[i]) \/ g[i] \in L
<1>. DEFINE s == SortedBy(list)
            lines == [i \in 1..Len(s) |-> CapLine(s[i].text)]
            T == {f[i] : i \in DOMAIN f}
<1>1. /\ Len(s) = Len(list) /\ Len(list) \in Nat
      /\ \A i \in 1..Len(s) : \E k \in 1..Len(list) : s[i] = list[k]
  <2>. HIDE DEF s
  <2>1. s = SortedBy(list)
    BY DEF s
  <2>2. Len(s) = Len(list) /\ Len(list) \in Nat /\ \E q : Puts(q, list, s)
    BY <2>1, SortedLists
  <2>3. PICK q : Puts(q, list, s)
    BY <2>2
  <2>. QED BY <2>2, <2>3 DEF Puts
<1>2. f = Recap(lines, a) /\ IsList(f)
  BY NoEntryIsLost DEF Flatten
<1>. HIDE DEF s
<1>3. \A i \in 1..Len(s) : lines[i] \in L
  BY <1>1
<1>4. lines \in Seq(L)
  BY <1>1, <1>3
<1>. HIDE DEF lines
<1>5. \A i \in DOMAIN f : IsMore(f[i]) \/ f[i] \in L
  BY <1>2, <1>4, FoldedLines
<1>6. f \in Seq(T)
  <2>1. PICK S : f \in Seq(S)
    BY <1>2 DEF IsList
  <2>2. DOMAIN f = 1..Len(f) /\ Len(f) \in Nat /\ f = [i \in 1..Len(f) |-> f[i]]
    BY <2>1
  <2>3. \A i \in 1..Len(f) : f[i] \in T
    BY <2>2
  <2>. HIDE DEF T
  <2>. QED BY <2>2, <2>3
<1>. HIDE DEF T
<1>7. \A i \in DOMAIN g : IsMore(g[i]) \/ g[i] \in T
  BY <1>6, FoldedLines
<1>8. \A i \in DOMAIN g : IsMore(g[i]) \/ g[i] \in L
  BY <1>5, <1>7 DEF T
<1>. QED BY <1>5, <1>8

\* No entry is lost uncounted, in any one list.
LEMMA Counted ==
  ASSUME entries \in Seq(Entries)
  PROVE  EntriesAddUp
<1>. DEFINE c == CollapseRunningChecks(entries)
            n == Cardinality(Runs(entries))
            less == IF n > CollapseRunning THEN n - 1 ELSE 0
            f == Flatten(c, CapList)
            g == Recap(f, CapMineList)
            L == {CapLine(c[k].text) : k \in 1..Len(c)}
<1>1. /\ c \in Seq(Listed) /\ Len(c) = Len(entries) - less
      /\ \A k \in 1..Len(c) :
           c[k].text.counts \in {0} \cup (IF n > CollapseRunning THEN {n} ELSE {})
  BY CollapsedLists
<1>2. CapList \in Nat /\ CapMineList \in Nat /\ CollapseRunning \in Nat /\ n \in Nat
  BY RunsAreFinite, CapsAssumption
<1>3. Collapsed = less
  BY DEF Collapsed, Running, Runs
<1>4. less \in Nat /\ Len(entries) \in Nat
  BY <1>2
<1>5. \A k \in 1..Len(c) : c[k].text.counts \in {0, Collapsed + 1}
  <2>1. CASE n > CollapseRunning
    <3>1. Collapsed + 1 = n
      BY <1>2, <1>3, <2>1
    <3>. QED BY <1>1, <2>1, <3>1
  <2>2. CASE ~(n > CollapseRunning)
    BY <1>1, <2>2
  <2>. QED BY <2>1, <2>2
<1>. HIDE DEF c, less, n
<1>6. Stands(f) = Len(c) /\ Stands(g) = Len(c)
  BY <1>1, <1>2, NoEntryIsLost
<1>7. Shown(entries) = f /\ ShownInRow(entries) = g
  BY DEF Shown, ShownInRow, c
<1>8. /\ \A i \in DOMAIN f : IsMore(f[i]) \/ f[i] \in L
      /\ \A i \in DOMAIN g : IsMore(g[i]) \/ g[i] \in L
  <2>. HIDE DEF L
  <2>1. L = {CapLine(c[k].text) : k \in 1..Len(c)}
    BY DEF L
  <2>. QED BY <1>1, <1>2, <2>1, PrintedLines
<1>9. \A line \in L : line.text.counts \in {0, Collapsed + 1}
  <2>1. \A text : CapLine(text).text = text
    BY DEF CapLine, LineOf
  <2>. QED BY <1>5, <2>1
<1>. HIDE DEF f, g, L
<1>10. Stands(f) + Collapsed = Len(entries) /\ Stands(g) + Collapsed = Len(entries)
  BY <1>1, <1>3, <1>4, <1>6
<1>. QED BY <1>7, <1>8, <1>9, <1>10 DEF EntriesAddUp

\* No entry is lost uncounted, in a report and in a row of the board, for
\* lists of every length and whatever the caps are; and the number a collapsed
\* line gives is that of the checks it stands for (flatten, recap,
\* collapseRunningChecks, Summarize).
THEOREM EveryEntryCounts == CapsSpec => []EntriesAddUp
  BY EntriesAreListed, Counted, PTL

\* Every line fits, of any one list.
LEMMA Fits ==
  ASSUME entries \in Seq(Entries)
  PROVE  LinesFit
<1>. DEFINE c == CollapseRunningChecks(entries)
            L == {CapLine(c[k].text) : k \in 1..Len(c)}
<1>1. c \in Seq(Listed) /\ CapList \in Nat
  BY CollapsedLists, CapsAssumption
<1>2. \A k \in 1..Len(c) : c[k].text \in Texts
  BY <1>1, ListedHave
<1>3. Shown(entries) = Flatten(c, CapList)
  BY DEF Shown
<1>. HIDE DEF c
<1>4. \A i \in DOMAIN Shown(entries) : IsMore(Shown(entries)[i]) \/ Shown(entries)[i] \in L
  <2>. HIDE DEF L
  <2>1. L = {CapLine(c[k].text) : k \in 1..Len(c)}
    BY DEF L
  <2>. QED BY <1>1, <1>3, <2>1, PrintedLines
<1>5. ASSUME NEW t \in Texts
      PROVE  LET line == CapLine(t)
             IN  /\ line.runes <= MaxLineRunes
                 /\ line.shown = "whole" => line.text.action <= MaxActionRunes
                 /\ line.shown = "cut" => line.text.head > MaxLineRunes
  <2>1. CapLine(t).text = t
    BY DEF CapLine, LineOf
  <2>. QED BY <2>1, CapsAssumption, EveryLineFits
<1>. QED BY <1>2, <1>4, <1>5 DEF LinesFit

\* Every line that is printed fits, for lists of every length and texts of
\* every length, and no command in one is cut (flatten, capLine).
THEOREM EveryPrintedLineFits == CapsSpec => []LinesFit
  BY EntriesAreListed, Fits, PTL

-----------------------------------------------------------------------------
(* Two lists of the same entries. *)

\* What is not told apart when it is sorted and printed.
Alike(e, d) == e.prec = d.prec /\ e.key = d.key /\ e.text = d.text

\* p takes every place of a to one of b with an entry like its own.
Within(p, a, b) ==
  /\ p \in [1..Len(a) -> 1..Len(a)] /\ Len(a) = Len(b)
  /\ \A i \in 1..Len(a) : Alike(a[i], b[p[i]])
  /\ \A i, j \in 1..Len(a) : p[i] = p[j] => i = j

\* What is alike sorts alike, and what sorts alike is printed alike.
LEMMA AlikeComesWhere ==
  /\ \A e, d, c \in Listed : Alike(e, d) /\ Before(e, c) => Before(d, c)
  /\ \A e, d \in Listed : ~Before(e, d) /\ ~Before(d, e) => e.text = d.text
<1>1. \A e \in Listed : e.prec \in Nat /\ e.key \in Nat /\ e.text \in Texts /\ e.text.order \in Int
  BY ListedHave DEF Texts
<1>2. ASSUME NEW e \in Listed, NEW d \in Listed, e.text.order = d.text.order
      PROVE  e.text = d.text
  <2>1. ASSUME NEW b \in Entries, NEW n \in Nat
        PROVE  b.text.order >= 0 /\ CountText(n).order = -1 - n
    BY <2>1, CapsAssumption DEF CountText
  <2>2. \A b \in Entries : b.text.order \in Int
    BY CapsAssumption DEF Texts
  <2>3. CASE e \in Entries /\ d \in Entries
    BY <1>2, <2>3, CapsAssumption
  <2>4. CASE e \in Entries /\ d \notin Entries
    BY <1>2, <2>1, <2>2, <2>4 DEF Listed, Aggregate
  <2>5. CASE e \notin Entries /\ d \in Entries
    BY <1>2, <2>1, <2>2, <2>5 DEF Listed, Aggregate
  <2>6. CASE e \notin Entries /\ d \notin Entries
    <3>1. PICK m \in Nat : e.text = CountText(m)
      BY <2>6 DEF Listed, Aggregate
    <3>2. PICK n \in Nat : d.text = CountText(n)
      BY <2>6 DEF Listed, Aggregate
    <3>3. m = n
      BY <1>2, <3>1, <3>2 DEF CountText
    <3>. QED BY <3>1, <3>2, <3>3
  <2>. QED BY <2>3, <2>4, <2>5, <2>6
<1>3. \A e, d \in Listed : e.text.order = d.text.order => e.text = d.text
  BY <1>2
<1>4. \A e, d \in Listed : ~Before(e, d) /\ ~Before(d, e) => e.text.order = d.text.order
  BY <1>1 DEF Before
<1>. QED BY <1>3, <1>4 DEF Alike, Before

\* The first k of a go to places of b before any entry that is larger: so many
\* there cannot be fewer of.
LEMMA NoneComesSooner ==
  ASSUME NEW a \in Seq(Listed), NEW b \in Seq(Listed), NEW p, Within(p, a, b),
         NEW k \in 1..Len(a)
  PROVE  ~Before(SortedBy(a)[k], SortedBy(b)[k])
<1>. DEFINE n == Len(a)
            s == SortedBy(a)
            t == SortedBy(b)
<1>1. n \in Nat /\ n = Len(b) /\ k \in Nat
  BY DEF Within
<1>2. /\ s \in Seq(Listed) /\ Len(s) = n
      /\ \A i, j \in 1..n : i < j => ~Before(s[j], s[i])
  BY SortedLists
<1>3. PICK q : Puts(q, a, s)
  BY SortedLists
<1>4. /\ t \in Seq(Listed) /\ Len(t) = n
      /\ \A i, j \in 1..n : i < j => ~Before(t[j], t[i])
  BY <1>1, SortedLists
<1>5. PICK r : Puts(r, b, t)
  BY SortedLists
<1>6. /\ \A i \in 1..n : p[i] \in 1..n /\ Alike(a[i], b[p[i]])
      /\ \A i, j \in 1..n : p[i] = p[j] => i = j
  BY DEF Within
<1>7. \A i \in 1..n : a[i] \in Listed /\ b[i] \in Listed /\ s[i] \in Listed /\ t[i] \in Listed
  BY <1>1, <1>2, <1>4
<1>17. /\ \A i \in 1..n : q[i] \in 1..n /\ s[i] = a[q[i]]
       /\ \A i, j \in 1..n : q[i] = q[j] => i = j
  BY <1>3 DEF Puts
<1>18. /\ \A i \in 1..n : t[i] = b[r[i]]
       /\ \A i \in 1..n : \E j \in 1..n : r[j] = i
  BY <1>1, <1>5 DEF Puts
<1>. HIDE DEF n, s, t
<1>. SUFFICES ASSUME Before(s[k], t[k]) PROVE FALSE
  BY DEF s, t
<1>8. k \in 1..n /\ \A j \in 1..k : j \in 1..n
  <2>1. k \in 1..n
    BY DEF n
  <2>. QED BY ONLY <1>1, <2>1
<1>9. ASSUME NEW j \in 1..k
      PROVE  \E m \in 1..(k - 1) : r[m] = p[q[j]]
  <2>1. j \in 1..n /\ q[j] \in 1..n /\ p[q[j]] \in 1..n
    BY <1>6, <1>8, <1>17
  <2>2. PICK m \in 1..n : r[m] = p[q[j]]
    BY <1>18, <2>1
  <2>3. Alike(s[j], t[m])
    <3>1. s[j] = a[q[j]] /\ t[m] = b[p[q[j]]]
      <4>1. s[j] = a[q[j]]
        BY ONLY <1>17, <2>1
      <4>2. t[m] = b[r[m]]
        BY ONLY <1>18, m \in 1..n
      <4>. QED BY ONLY <4>1, <4>2, <2>2
    <3>2. Alike(a[q[j]], b[p[q[j]]])
      BY <1>6, <2>1
    <3>. QED BY <3>1, <3>2
  <2>4. ~Before(s[k], s[j])
    <3>1. CASE j < k
      BY <1>2, <1>8, <2>1, <3>1
    <3>2. CASE j = k
      BY <1>7, <1>8, <3>2, BeforeOrders
    <3>. QED BY <1>1, <3>1, <3>2
  <2>5. Before(s[j], t[k])
    <3>1. /\ s[k] \in Listed /\ s[j] \in Listed /\ t[k] \in Listed
      BY <1>7, <1>8, <2>1
    <3>. QED BY <2>4, <3>1, BeforeOrders
  <2>6. Before(t[m], t[k])
    BY <1>7, <1>8, <2>1, <2>3, <2>5, AlikeComesWhere
  <2>7. m < k
    <3>1. ~(k < m)
      BY <1>4, <1>8, <2>6
    <3>2. m # k
      BY <1>7, <1>8, <2>6, BeforeOrders
    <3>. QED BY <1>1, <3>1, <3>2
  <2>. QED BY <1>1, <2>2, <2>7
<1>. DEFINE f == [j \in 1..k |-> CHOOSE m \in 1..(k - 1) : r[m] = p[q[j]]]
<1>10. \A j \in 1..k : f[j] \in 1..(k - 1) /\ r[f[j]] = p[q[j]]
  BY <1>9
<1>11. f \in [1..k -> 1..(k - 1)]
  BY <1>10
<1>. HIDE DEF f
<1>12. /\ IsFiniteSet(1..k) /\ Cardinality(1..k) = k
       /\ IsFiniteSet(1..(k - 1)) /\ Cardinality(1..(k - 1)) = k - 1
  BY <1>1, <1>8, NumbersUpTo
<1>13. Cardinality(1..(k - 1)) < Cardinality(1..k)
  BY <1>1, <1>12
<1>14. PICK x \in 1..k, y \in 1..k : x # y /\ f[x] = f[y]
  BY <1>11, <1>12, <1>13, FS_PigeonHole
<1>15. x \in 1..n /\ y \in 1..n /\ q[x] \in 1..n /\ q[y] \in 1..n
  BY <1>8, <1>17
<1>16. p[q[x]] = p[q[y]]
  BY <1>10, <1>14
<1>. QED BY <1>6, <1>14, <1>15, <1>16, <1>17

\* Lists of the same entries are printed the same.
LEMMA PrintedAlike ==
  ASSUME NEW a \in Seq(Listed), NEW b \in Seq(Listed), NEW p, Within(p, a, b),
         NEW r, Within(r, b, a), NEW limit
  PROVE  Flatten(a, limit) = Flatten(b, limit)
<1>. DEFINE s == SortedBy(a)
            t == SortedBy(b)
            n == Len(a)
<1>1. n \in Nat /\ Len(b) = n
  BY DEF Within
<1>2. s \in Seq(Listed) /\ Len(s) = n /\ t \in Seq(Listed) /\ Len(t) = n
  BY <1>1, SortedLists
<1>3. \A k \in 1..n : ~Before(s[k], t[k])
  BY NoneComesSooner
<1>4. \A k \in 1..n : ~Before(t[k], s[k])
  BY <1>1, NoneComesSooner
<1>. HIDE DEF s, t, n
<1>5. \A k \in 1..n : s[k] \in Listed /\ t[k] \in Listed
  BY <1>1, <1>2
<1>6. \A k \in 1..n : s[k].text = t[k].text
  BY <1>3, <1>4, <1>5, AlikeComesWhere
<1>7. [i \in 1..Len(s) |-> CapLine(s[i].text)] = [i \in 1..Len(t) |-> CapLine(t[i].text)]
  BY <1>2, <1>6
<1>. QED BY <1>7 DEF Flatten, s, t

\* swap changes places, and back: b is a with its entries moved.
Moves(swap, a, b) ==
  /\ Len(a) = Len(b) /\ swap \in [1..Len(a) -> 1..Len(a)]
  /\ \A i \in 1..Len(a) : swap[swap[i]] = i /\ b[swap[i]] = a[i]

\* Places moved twice are where they were.
LEMMA MovesBack ==
  ASSUME NEW swap, NEW a, NEW b, Moves(swap, a, b)
  PROVE  Moves(swap, b, a)
<1>1. \A i \in 1..Len(a) : swap[i] \in 1..Len(a) /\ swap[swap[i]] = i /\ b[swap[i]] = a[i]
  BY DEF Moves
<1>2. \A i \in 1..Len(a) : a[swap[i]] = b[i]
  BY <1>1
<1>. QED BY <1>1, <1>2 DEF Moves

\* As many checks run in the one list as in the other.
LEMMA RunsMove ==
  ASSUME NEW a \in Seq(Entries), NEW b \in Seq(Entries), NEW swap, Moves(swap, a, b)
  PROVE  /\ Cardinality(Runs(a)) <= Cardinality(Runs(b))
         /\ \A i \in 1..Len(a) : i \in Runs(a) <=> swap[i] \in Runs(b)
<1>. DEFINE f == [i \in Runs(a) |-> swap[i]]
<1>1. /\ Len(a) \in Nat /\ Len(b) = Len(a) /\ DOMAIN a = 1..Len(a) /\ DOMAIN b = 1..Len(a)
      /\ \A i \in 1..Len(a) : swap[i] \in 1..Len(a) /\ swap[swap[i]] = i /\ b[swap[i]] = a[i]
  BY DEF Moves
<1>2. \A i \in 1..Len(a) : i \in Runs(a) <=> swap[i] \in Runs(b)
  BY <1>1 DEF Runs
<1>3. \A i \in Runs(a) : i \in 1..Len(a)
  BY <1>1 DEF Runs
<1>4. \A i \in Runs(a) : f[i] \in Runs(b)
  BY <1>2, <1>3
<1>5. \A i, j \in Runs(a) : f[i] = f[j] => i = j
  BY <1>1, <1>3
<1>6. f \in Injection(Runs(a), Runs(b))
  <2>1. f \in [Runs(a) -> Runs(b)]
    BY <1>4
  <2>. QED BY <1>5, <2>1, Fun_IsInj
<1>7. IsFiniteSet(Runs(b))
  BY RunsAreFinite
<1>. QED BY <1>2, <1>6, <1>7, FS_Injection

\* And so they collapse alike.
LEMMA CollapsedAlike ==
  ASSUME NEW a \in Seq(Entries), NEW b \in Seq(Entries), NEW swap, Moves(swap, a, b)
  PROVE  \E p : Within(p, CollapseRunningChecks(a), CollapseRunningChecks(b))
<1>1. Moves(swap, b, a)
  BY MovesBack
<1>2. /\ Cardinality(Runs(a)) \in Nat /\ Cardinality(Runs(b)) \in Nat
      /\ Cardinality(Runs(a)) <= Cardinality(Runs(b))
      /\ Cardinality(Runs(b)) <= Cardinality(Runs(a))
  BY <1>1, RunsMove, RunsAreFinite
<1>3. Cardinality(Runs(a)) = Cardinality(Runs(b))
  BY <1>2
<1>4. \A i \in 1..Len(a) : i \in Runs(a) <=> swap[i] \in Runs(b)
  BY RunsMove
<1>5. /\ Len(a) \in Nat /\ Len(b) = Len(a) /\ DOMAIN a = 1..Len(a) /\ DOMAIN b = 1..Len(a)
      /\ \A i \in 1..Len(a) : swap[i] \in 1..Len(a) /\ swap[swap[i]] = i /\ b[swap[i]] = a[i]
      /\ swap \in [1..Len(a) -> 1..Len(a)]
  BY DEF Moves
<1>6. CollapseRunning \in Nat
  BY CapsAssumption
<1>7. CASE ~(Cardinality(Runs(a)) > CollapseRunning)
  <2>1. Cardinality(Runs(a)) <= CollapseRunning
    BY <1>2, <1>6, <1>7
  <2>2. CollapseRunningChecks(a) = a /\ CollapseRunningChecks(b) = b
    BY <1>3, <2>1 DEF CollapseRunningChecks, Runs
  <2>3. \A i, j \in 1..Len(a) : swap[i] = swap[j] => i = j
    BY <1>5
  <2>4. Within(swap, a, b)
    BY <1>5, <2>3 DEF Within, Alike
  <2>. QED BY <2>2, <2>4
<1>8. CASE Cardinality(Runs(a)) > CollapseRunning
  <2>. DEFINE n == Cardinality(Runs(a))
              q == InOrder(Staying(a))
              m == Cardinality(Staying(a))
              x == First(a)
              c == CollapseRunningChecks(a)
              r == InOrder(Staying(b))
              y == First(b)
              l == Cardinality(Staying(b))
              d == CollapseRunningChecks(b)
              to(i) == IF i = x THEN y ELSE swap[i]
  <2>1. /\ x \in Runs(a) /\ m \in Nat /\ m = Len(a) - (n - 1)
        /\ \A k \in 1..m : q[k] \in Staying(a)
        /\ \A j, k \in 1..m : q[j] = q[k] => j = k
        /\ c = [k \in 1..m |-> IF q[k] = x THEN Aggregate(n) ELSE a[q[k]]]
    BY <1>8, StayingPlaces
  <2>2. /\ y \in Runs(b) /\ l = Len(b) - (n - 1) /\ Staying(b) \subseteq DOMAIN b
        /\ \A i \in Staying(b) : \E k \in 1..l : r[k] = i
        /\ d = [k \in 1..l |-> IF r[k] = y THEN Aggregate(n) ELSE b[r[k]]]
    <3>1. Cardinality(Runs(b)) > CollapseRunning
      BY <1>3, <1>8
    <3>. QED BY <1>3, <3>1, StayingPlaces
  <2>3. l = m
    BY <1>5, <2>1, <2>2
  <2>4. /\ \A i \in Staying(a) : i = x \/ (i \in 1..Len(a) /\ i \notin Runs(a))
        /\ \A i \in 1..Len(a) : i \notin Runs(b) => i \in Staying(b)
        /\ y \in Staying(b)
    BY <1>5 DEF Staying
  <2>. HIDE DEF n, q, m, x, c, r, y, l, d
  <2>5. ASSUME NEW i \in Staying(a)
        PROVE  /\ to(i) \in Staying(b)
               /\ to(i) = y <=> i = x
               /\ i # x => i \in 1..Len(a) /\ to(i) = swap[i]
    <3>1. CASE i = x
      BY <2>4, <3>1
    <3>2. CASE i # x
      <4>1. i \in 1..Len(a) /\ i \notin Runs(a)
        BY <2>4, <3>2
      <4>2. swap[i] \in 1..Len(a) /\ swap[i] \notin Runs(b)
        BY <1>4, <1>5, <4>1
      <4>. QED BY <2>2, <2>4, <3>2, <4>1, <4>2
    <3>. QED BY <3>1, <3>2
  <2>6. \A i, j \in Staying(a) : to(i) = to(j) => i = j
    <3>1. \A i, j \in 1..Len(a) : swap[i] = swap[j] => i = j
      BY <1>5
    <3>. HIDE DEF to
    <3>. QED BY <2>5, <3>1
  <2>. HIDE DEF to
  <2>. DEFINE p == [k \in 1..m |-> CHOOSE j \in 1..m : r[j] = to(q[k])]
  <2>7. \A k \in 1..m : p[k] \in 1..m /\ r[p[k]] = to(q[k])
    <3>1. \A k \in 1..m : \E j \in 1..m : r[j] = to(q[k])
      BY <2>1, <2>2, <2>3, <2>5
    <3>. QED BY <3>1
  <2>8. p \in [1..m -> 1..m]
    BY <2>7
  <2>. HIDE DEF p
  <2>9. \A j, k \in 1..m : p[j] = p[k] => j = k
    BY <2>1, <2>6, <2>7
  <2>10. ASSUME NEW k \in 1..m PROVE Alike(c[k], d[p[k]])
    <3>1. /\ q[k] \in Staying(a) /\ p[k] \in 1..m /\ r[p[k]] = to(q[k])
          /\ c[k] = IF q[k] = x THEN Aggregate(n) ELSE a[q[k]]
          /\ d[p[k]] = IF to(q[k]) = y THEN Aggregate(n) ELSE b[to(q[k])]
      BY <2>1, <2>2, <2>3, <2>7
    <3>2. to(q[k]) = y <=> q[k] = x
      BY <2>5, <3>1
    <3>3. q[k] # x => a[q[k]] = b[to(q[k])]
      BY <1>5, <2>5, <3>1
    <3>. QED BY <3>1, <3>2, <3>3 DEF Alike
  <2>11. Len(c) = m /\ Len(d) = m
    BY <2>1, <2>2, <2>3
  <2>12. Within(p, c, d)
    BY <2>8, <2>9, <2>10, <2>11 DEF Within
  <2>. QED BY <2>12 DEF c, d
<1>. QED BY <1>7, <1>8

\* Two neighbours that change places are such a move.
LEMMA SwappedMoves ==
  ASSUME NEW list \in Seq(Entries), NEW i \in 1..(Len(list) - 1)
  PROVE  Swapped(list, i) \in Seq(Entries) /\ \E swap : Moves(swap, list, Swapped(list, i))
<1>. DEFINE n == Len(list)
            b == Swapped(list, i)
            swap == [k \in 1..n |-> IF k = i THEN i + 1 ELSE IF k = i + 1 THEN i ELSE k]
<1>1. n \in Nat /\ i \in 1..n /\ i + 1 \in 1..n /\ i # i + 1
  OBVIOUS
<1>2. /\ b \in Seq(Entries) /\ Len(b) = n
      /\ \A k \in 1..n : b[k] = IF k = i + 1 THEN list[i] ELSE IF k = i THEN list[i + 1] ELSE list[k]
  BY <1>1 DEF Swapped
<1>3. swap \in [1..n -> 1..n]
  BY <1>1
<1>4. \A k \in 1..n : swap[k] = IF k = i THEN i + 1 ELSE IF k = i + 1 THEN i ELSE k
  OBVIOUS
<1>. HIDE DEF swap, b, n
<1>5. \A k \in 1..n : swap[swap[k]] = k /\ b[swap[k]] = list[k]
  BY <1>1, <1>2, <1>4
<1>6. Moves(swap, list, b)
  BY <1>2, <1>3, <1>5 DEF Moves, n
<1>. QED BY <1>2, <1>6 DEF b

\* No two neighbours of any one list matter.
LEMMA OrderTold ==
  ASSUME entries \in Seq(Entries)
  PROVE  OrderIsIrrelevant
<1>. SUFFICES ASSUME NEW i \in 1..(Len(entries) - 1)
              PROVE  Shown(Swapped(entries, i)) = Shown(entries)
  BY DEF OrderIsIrrelevant
<1>. DEFINE b == Swapped(entries, i)
<1>1. b \in Seq(Entries)
  BY SwappedMoves
<1>2. PICK swap : Moves(swap, entries, b)
  BY SwappedMoves
<1>. HIDE DEF b
<1>3. PICK p : Within(p, CollapseRunningChecks(entries), CollapseRunningChecks(b))
  BY <1>1, <1>2, CollapsedAlike
<1>4. PICK r : Within(r, CollapseRunningChecks(b), CollapseRunningChecks(entries))
  BY <1>1, <1>2, MovesBack, CollapsedAlike
<1>5. CollapseRunningChecks(entries) \in Seq(Listed) /\ CollapseRunningChecks(b) \in Seq(Listed)
  BY <1>1, CollapsedLists
<1>6. Flatten(CollapseRunningChecks(entries), CapList) = Flatten(CollapseRunningChecks(b), CapList)
  BY <1>3, <1>4, <1>5, PrintedAlike
<1>. QED BY <1>6 DEF Shown, b

\* Whichever two neighbours of a list of any length change places, the same is
\* printed: a report depends on the entries, not on the order GitHub lists the
\* checks in (flatten, collapseRunningChecks).
THEOREM OrderNeverMatters == CapsSpec => []OrderIsIrrelevant
  BY EntriesAreListed, OrderTold, PTL

-----------------------------------------------------------------------------
(* The errors of one answer.                                               *)

ErrorsSpec == ErrorsInit /\ [][ErrorsNext]_items

LEMMA ItemsAreListed == ErrorsSpec => [](items \in Seq(Items))
<1>1. ErrorsInit => items \in Seq(Items)
  BY DEF ErrorsInit
<1>2. items \in Seq(Items) /\ [ErrorsNext]_items => (items \in Seq(Items))'
  BY DEF ErrorsNext, AddItem
<1>. QED BY <1>1, <1>2, PTL DEF ErrorsSpec

Severes(errs) == {k \in DOMAIN errs : Severe(errs[k])}

\* The place Classify stops at, and no other.
LEMMA FirstSevereIs ==
  ASSUME NEW errs \in Seq(Items), Severes(errs) # {}
  PROVE  /\ FirstSevere(errs) \in Severes(errs)
         /\ \A j \in Severes(errs) : FirstSevere(errs) <= j
<1>. DEFINE K == Severes(errs)
<1>1. K \in SUBSET Nat
  BY DEF Severes
<1>2. PICK k \in K : \A j \in K : k <= j
  BY <1>1, LeastPlace
<1>3. FirstSevere(errs) = CHOOSE i \in K : \A j \in K : i <= j
  BY DEF FirstSevere, Severes
<1>. HIDE DEF K
<1>4. FirstSevere(errs) \in K /\ \A j \in K : FirstSevere(errs) <= j
  BY <1>2, <1>3
<1>. QED BY <1>4 DEF K

\* The outcome of an answer that cannot be kept.
LEMMA OutcomeOf ==
  ASSUME NEW errs \in Seq(Items), errs # <<>>
  PROVE  /\ Tolerated(errs) => Outcome(errs) = [kept |-> TRUE, tokens |-> Partial(errs)]
         /\ ~Tolerated(errs) => Outcome(errs) = [kept |-> FALSE, class |-> ClassifyGraphQL(errs)]
  BY DEF Outcome, Classify, Emit

-----------------------------------------------------------------------------
\* One more item changes nothing behind a rate limit or a permission error.
LEMMA LaterItemsSaveNothing ==
  ASSUME items \in Seq(Items), AddItem, Severes(items) # {}, ~Kept(items)
  PROVE  Outcome(items').class = Outcome(items).class
<1>1. PICK i \in Items : items' = Append(items, i)
  BY DEF AddItem
<1>. DEFINE n == Len(items)
<1>2. /\ n \in Nat /\ items' \in Seq(Items) /\ Len(items') = n + 1
      /\ \A k \in 1..n : items'[k] = items[k]
      /\ items # <<>> /\ items' # <<>>
  BY <1>1 DEF Severes
<1>3. ~Tolerated(items)
  BY <1>2, OutcomeOf DEF Kept
<1>4. ~Tolerated(items')
  BY <1>2, <1>3 DEF Tolerated
<1>5. /\ Severes(items) \subseteq Severes(items')
      /\ \A k \in Severes(items') : k \in Severes(items) \/ k = n + 1
      /\ \A k \in Severes(items) : k \in 1..n
  BY <1>2 DEF Severes
<1>6. /\ FirstSevere(items) \in Severes(items)
      /\ \A j \in Severes(items) : FirstSevere(items) <= j
  BY FirstSevereIs
<1>7. /\ FirstSevere(items') \in Severes(items')
      /\ \A j \in Severes(items') : FirstSevere(items') <= j
  BY <1>2, <1>5, FirstSevereIs
<1>8. FirstSevere(items') = FirstSevere(items)
  BY <1>2, <1>5, <1>6, <1>7
<1>9. items'[FirstSevere(items')] = items[FirstSevere(items)]
  BY <1>2, <1>5, <1>6, <1>8
<1>10. ClassifyGraphQL(items') = ClassifyGraphQL(items)
  BY <1>6, <1>7, <1>9 DEF ClassifyGraphQL, Severes
<1>. QED BY <1>2, <1>3, <1>4, <1>10, OutcomeOf

\* Whatever errors follow it, the first rate limit or permission error of an
\* answer that cannot be kept decides what the caller is told (Classify, emit).
THEOREM FirstSevereAlwaysDecides == ErrorsSpec => FirstSevereDecides
<1>1. items \in Seq(Items) /\ [ErrorsNext]_items =>
        [(\E k \in DOMAIN items : Severe(items[k])) /\ ~Kept(items) =>
           Outcome(items').class = Outcome(items).class]_items
  <2>. SUFFICES ASSUME items \in Seq(Items), ErrorsNext,
                       \E k \in DOMAIN items : Severe(items[k]), ~Kept(items)
                PROVE  Outcome(items').class = Outcome(items).class
    OBVIOUS
  <2>1. AddItem /\ Severes(items) # {}
    BY DEF ErrorsNext, Severes
  <2>. QED BY <2>1, LaterItemsSaveNothing
<1>. QED BY <1>1, ItemsAreListed, PTL DEF ErrorsSpec, FirstSevereDecides

-----------------------------------------------------------------------------
\* Read backwards, the items of an answer come to the same.
LEMMA BackwardsIsTheSame ==
  ASSUME items \in Seq(Items)
  PROVE  OrderMattersToSevereOnly
<1>. SUFFICES ASSUME items # <<>>,
                     ~({"RATE_LIMITED", "FORBIDDEN"} \subseteq {items[k].type : k \in DOMAIN items})
              PROVE  Outcome(Reversed(items)) = Outcome(items)
  BY DEF OrderMattersToSevereOnly
<1>. DEFINE n == Len(items)
            back == Reversed(items)
<1>1. n \in Nat /\ n > 0 /\ DOMAIN items = 1..n
  OBVIOUS
<1>2. \A k \in 1..n : n + 1 - k \in 1..n
  BY <1>1
<1>3. /\ back \in Seq(Items) /\ Len(back) = n /\ DOMAIN back = 1..n
      /\ \A k \in 1..n : back[k] = items[n + 1 - k]
  BY <1>1, <1>2 DEF Reversed
<1>4. \A k \in 1..n : items[k] = back[n + 1 - k]
  BY <1>1, <1>2, <1>3
<1>5. back # <<>>
  BY <1>1, <1>3
<1>. HIDE DEF n, back
<1>6. \A x : (\E k \in 1..n : back[k] = x) <=> (\E k \in 1..n : items[k] = x)
  <2>. TAKE x
  <2>1. ASSUME NEW k \in 1..n, back[k] = x PROVE \E j \in 1..n : items[j] = x
    BY <1>2, <1>3, <2>1
  <2>2. ASSUME NEW k \in 1..n, items[k] = x PROVE \E j \in 1..n : back[j] = x
    BY <1>2, <1>4, <2>2
  <2>. QED BY <2>1, <2>2
<1>7. Tolerated(back) <=> Tolerated(items)
  BY <1>1, <1>3, <1>5, <1>6 DEF Tolerated
<1>8. PartialItems(back) = PartialItems(items)
  <2>. DEFINE part(item) == [token |-> TokenOf(item), node |-> NodeOf(item)]
  <2>1. {part(back[k]) : k \in 1..n} = {part(items[k]) : k \in 1..n}
    <3>. HIDE DEF part
    <3>. QED BY <1>2, <1>3, <1>4
  <2>. QED BY <1>1, <1>3, <1>7, <2>1 DEF PartialItems
<1>9. Partial(back) = Partial(items)
  BY <1>8 DEF Partial
<1>10. Severes(back) = {} <=> Severes(items) = {}
  BY <1>1, <1>3, <1>6 DEF Severes
<1>11. ClassifyGraphQL(back) = ClassifyGraphQL(items)
  <2>1. CASE Severes(items) = {}
    <3>1. /\ ~\E k \in DOMAIN back : Severe(back[k])
          /\ ~\E k \in DOMAIN items : Severe(items[k])
      BY <1>10, <2>1 DEF Severes
    <3>2. (\A k \in DOMAIN back : back[k].type = "NOT_FOUND")
            <=> (\A k \in DOMAIN items : items[k].type = "NOT_FOUND")
      BY <1>1, <1>3, <1>6
    <3>. QED BY <3>1, <3>2 DEF ClassifyGraphQL
  <2>2. CASE Severes(items) # {}
    <3>1. PICK j \in 1..n : j = FirstSevere(items) /\ Severe(items[j])
      BY <1>1, <2>2, FirstSevereIs DEF Severes
    <3>2. PICK k \in 1..n : k = FirstSevere(back) /\ Severe(back[k])
      BY <1>3, <1>10, <2>2, FirstSevereIs DEF Severes
    <3>3. PICK l \in 1..n : items[l] = back[k]
      BY <1>6
    <3>4. items[j].type = items[l].type
      BY <1>1, <3>1, <3>2, <3>3 DEF Severe
    <3>5. /\ \E i \in DOMAIN back : Severe(back[i])
          /\ \E i \in DOMAIN items : Severe(items[i])
      BY <1>1, <1>3, <3>1, <3>2
    <3>. QED BY <3>1, <3>2, <3>3, <3>4, <3>5 DEF ClassifyGraphQL
  <2>. QED BY <2>1, <2>2
<1>12. Outcome(back) = Outcome(items)
  BY <1>3, <1>5, <1>7, <1>9, <1>11, OutcomeOf
<1>. QED BY <1>12 DEF back

\* But for a rate limit beside a permission error, what becomes of an answer
\* with errors does not depend on the order they come in, its tokens included
\* (Classify, PartialItems).
THEOREM OrderMattersToNothingElse == ErrorsSpec => []OrderMattersToSevereOnly
  BY BackwardsIsTheSame, ItemsAreListed, PTL

CliSpec == CliInit /\ [][CliNext]_cliVars

-----------------------------------------------------------------------------
(* What run decides, and from what. *)

\* The verdict is that of RunOf on what was read, or reading ended early, or a
\* pull request was picked for a branch.
VerdictInv ==
  \/ verdict = Reading
  \/ args # <<>> /\ verdict.kind \in {"said", "usage"}
  \/ verdict = RunOf(flags, positionals, place)
  \/ /\ verdict.kind = "picked"
     /\ heads \in HeadLists /\ heads # <<>> /\ verdict.at = Pick(heads)
  \/ verdict.kind = "no_pr_found"

\* RunOf never says what only the reading and the branch say.
LEMMA RunSays ==
  ASSUME NEW f, NEW given, NEW where
  PROVE  RunOf(f, given, where).kind \in {"said", "usage", "mine", "single"}
<1>1. \A repos, limit : Mine(repos, limit).kind \in {"usage", "mine"}
  BY DEF Mine, Usage
<1>2. \A t, flag, budget : Resolve(t, flag, where, budget).kind \in {"usage", "single"}
  BY DEF Resolve, Usage, Single
<1>. QED BY <1>1, <1>2 DEF RunOf, Said, Usage

LEMMA VerdictInit == CliInit => VerdictInv
  BY DEF CliInit, VerdictInv

LEMMA VerdictStep == VerdictInv /\ [CliNext]_cliVars => VerdictInv'
<1>. SUFFICES ASSUME VerdictInv, [CliNext]_cliVars PROVE VerdictInv'
  OBVIOUS
<1>1. CASE ReadFlag
  BY <1>1 DEF ReadFlag, VerdictInv
<1>2. CASE ReadBadFlag
  BY <1>2 DEF ReadBadFlag, VerdictInv, Said, Usage
<1>3. CASE ReadTerminator
  BY <1>3 DEF ReadTerminator, VerdictInv
<1>4. CASE ReadPositional
  BY <1>4 DEF ReadPositional, VerdictInv
<1>5. CASE Dispatch
  BY <1>5 DEF Dispatch, VerdictInv
<1>6. CASE ResolveCurrentPR
  <2>1. PICK list \in HeadLists :
          /\ heads' = list
          /\ verdict' = IF list = <<>> THEN [kind |-> "no_pr_found", exit |-> 4]
                        ELSE [kind |-> "picked", at |-> Pick(list)]
    BY <1>6 DEF ResolveCurrentPR
  <2>2. CASE list = <<>>
    BY <2>1, <2>2 DEF VerdictInv
  <2>3. CASE list # <<>>
    BY <2>1, <2>3 DEF VerdictInv
  <2>. QED BY <2>2, <2>3
<1>7. CASE UNCHANGED cliVars
  BY <1>7 DEF cliVars, VerdictInv
<1>. QED BY <1>1, <1>2, <1>3, <1>4, <1>5, <1>6, <1>7 DEF CliNext

LEMMA VerdictKept == CliSpec => []VerdictInv
  BY VerdictInit, VerdictStep, PTL DEF CliSpec

\* A decision is what RunOf makes of what was read.
LEMMA DecidedBy == VerdictInv /\ Decided => verdict = RunOf(flags, positionals, place)
  BY DEF VerdictInv, Decided, Reading

LEMMA ScopeHolds == VerdictInv => ScopeNeverWidens
<1>. SUFFICES ASSUME VerdictInv, Decided, flags.repos # <<>>, verdict # Usage
              PROVE  /\ verdict.kind = "mine"
                     /\ verdict.repos # <<>>
                     /\ \A i \in DOMAIN verdict.repos : Len(verdict.repos[i]) > 1
  BY DEF ScopeNeverWidens
<1>1. verdict = RunOf(flags, positionals, place)
  BY DecidedBy
<1>2. ~flags.version
  BY <1>1 DEF RunOf, Decided, Said
<1>3. verdict = Mine(flags.repos, flags.limit)
  BY <1>1, <1>2 DEF RunOf
<1>. QED BY <1>3 DEF Mine, HasSlash

\* A --repos that names no repository never becomes a poll of every one, nor
\* of one pull request, whatever else the command line says and wherever prq
\* is run (runMine).
THEOREM ScopeIsKept == CliSpec => []ScopeNeverWidens
  BY VerdictKept, ScopeHolds, PTL

LEMMA DirectoryHolds == VerdictInv => DirectoryHasNoSay
<1>. SUFFICES ASSUME VerdictInv, Decided, positionals # <<>>, positionals[1] # NoTarget,
                     flags.repo # <<>> \/ positionals[1].host \/ IsSelector(positionals[1]),
                     NEW p \in Places
              PROVE  RunOf(flags, positionals, p) = verdict
  BY DEF DirectoryHasNoSay
<1>1. verdict = RunOf(flags, positionals, place)
  BY DecidedBy
<1>2. \A budget : Resolve(positionals[1], flags.repo, p, budget)
                    = Resolve(positionals[1], flags.repo, place, budget)
  <2>. TAKE budget
  <2>1. PICK t, flag : t = positionals[1] /\ flag = flags.repo
    OBVIOUS
  <2>2. CASE t.host
    <3>1. \A where : Resolve(t, flag, where, budget) =
            IF GoodURL(t) THEN Single(SubSeq(URLParts(t), 1, 2), URLParts(t)[4], NoTarget, FALSE, budget)
            ELSE Usage
      BY ONLY <2>2 DEF Resolve
    <3>. QED BY <2>1, <3>1
  <2>3. CASE ~t.host /\ IsSelector(t)
    <3>1. \A where : Resolve(t, flag, where, budget) = Single(t.parts, t.after, NoTarget, FALSE, budget)
      BY ONLY <2>3 DEF Resolve
    <3>. QED BY <2>1, <3>1
  <2>4. CASE ~t.host /\ ~IsSelector(t)
    <3>1. flag # <<>> /\ t # NoTarget
      BY <2>1, <2>4
    <3>2. \A where : Resolve(t, flag, where, budget) =
            IF ~GoodRepo(flag) THEN Usage
            ELSE IF Len(t.parts) = 1 /\ ~t.hash /\ t.parts[1] \in Digits
            THEN IF IsNumber(t.parts[1]) THEN Single(flag, t.parts[1], NoTarget, FALSE, budget)
                 ELSE Usage
            ELSE Single(flag, "", t, FALSE, budget)
      <4>. TAKE where
      <4>1. Named(flag, where).parts = flag /\ ~IsGHES(Named(flag, where))
            /\ (UsableRepo(flag, where) <=> GoodRepo(flag))
        BY ONLY <3>1 DEF Named, UsableRepo, IsGHES
      <4>2. IsGHES(Named(flag, where)) = FALSE
        BY ONLY <4>1 DEF IsGHES
      <4>. QED BY ONLY <2>4, <3>1, <4>1, <4>2 DEF Resolve
    <3>. QED BY <2>1, <3>2
  <2>. QED BY <2>2, <2>3, <2>4
<1>3. RunOf(flags, positionals, p) = RunOf(flags, positionals, place)
  BY <1>2 DEF RunOf
<1>. QED BY <1>1, <1>3

\* Whatever the directory prq is run in, it has no say once the command line
\* names a repository and a target (resolveTarget).
THEOREM DirectoryNeverMatters == CliSpec => []DirectoryHasNoSay
  BY VerdictKept, DirectoryHolds, PTL

-----------------------------------------------------------------------------
(* The pull request of a branch. *)

Least(P) == CHOOSE i \in P : \A j \in P : i <= j

\* Some numbers have a least.
LEMMA LeastIs ==
  ASSUME NEW P \in SUBSET Nat, P # {}
  PROVE  Least(P) \in P /\ \A j \in P : Least(P) <= j
<1>1. PICK k \in P : \A j \in P : k <= j
  BY LeastPlace
<1>. QED BY <1>1 DEF Least

\* The first of some places is the same one in a list of these and others.
LEMMA LeastOfFiltered ==
  ASSUME NEW T, NEW s \in Seq(T), NEW S \in SUBSET DOMAIN s,
         NEW P \in SUBSET S, P # {},
         NEW Q, Q = {k \in 1..Cardinality(S) : InOrder(S)[k] \in P}
  PROVE  Q # {} /\ InOrder(S)[Least(Q)] = Least(P)
<1>. DEFINE q == InOrder(S)
            n == Cardinality(S)
<1>1. IsFiniteSet(S) /\ n \in Nat /\ S \in SUBSET Nat
  BY FilteredLists, PlacesOf
<1>2. /\ \A k \in 1..n : q[k] \in S
      /\ \A i \in S : \E k \in 1..n : q[k] = i
      /\ \A j, k \in 1..n : q[j] < q[k] <=> j < k
  <2>1. S \in SUBSET Int /\ IsFiniteSet(S) /\ q = InOrder(S) /\ n = Cardinality(S)
    BY <1>1
  <2>. HIDE DEF q, n
  <2>2. \A k \in 1..n : q[k] \in S
    BY ONLY <2>1, InOrderLists
  <2>3. \A i \in S : \E k \in 1..n : q[k] = i
    BY ONLY <2>1, InOrderLists
  <2>4. \A j, k \in 1..n : q[j] < q[k] <=> j < k
    BY ONLY <2>1, InOrderLists
  <2>. QED BY <2>2, <2>3, <2>4
<1>3. Least(P) \in P /\ \A j \in P : Least(P) <= j
  BY <1>1, LeastIs
<1>. HIDE DEF q, n
<1>4. PICK k \in 1..n : q[k] = Least(P)
  BY <1>2, <1>3
<1>5. k \in Q /\ Q \in SUBSET Nat /\ \A j \in Q : j \in 1..n /\ q[j] \in P
  BY <1>1, <1>3, <1>4 DEF q, n
<1>6. \A j \in Q : k <= j
  <2>. SUFFICES ASSUME NEW j \in Q PROVE ~(j < k)
    BY <1>1, <1>4, <1>5
  <2>1. ~(q[j] < q[k])
    BY <1>1, <1>3, <1>4, <1>5
  <2>. QED BY <1>2, <1>4, <1>5, <2>1
<1>7. Least(Q) = k
  <2>1. Least(Q) \in Q /\ Least(Q) <= k
    BY <1>5, LeastIs
  <2>. QED BY <1>1, <1>4, <1>5, <1>6, <2>1
<1>. QED BY <1>4, <1>5, <1>7 DEF q

\* Of the pull requests of a branch the choice falls on the same one when those
\* of strangers are taken out.
LEMMA StrangersHold == VerdictInv => StrangersHaveNoSay
<1>. DEFINE at == {i \in DOMAIN heads : ~heads[i].cross \/ heads[i].mine}
<1>. SUFFICES ASSUME VerdictInv, verdict.kind = "picked", at # {}
              PROVE  verdict.at = InOrder(at)[Pick(Filtered(heads, at))]
  BY DEF StrangersHaveNoSay
<1>1. heads \in Seq(HeadPR) /\ verdict.at = Pick(heads)
  <2>1. RunOf(flags, positionals, place).kind # "picked" /\ Reading.kind # "picked"
    BY RunSays DEF Reading
  <2>2. heads \in HeadLists /\ verdict.at = Pick(heads)
    BY <2>1 DEF VerdictInv
  <2>. QED BY <2>2, CliAssumption
<1>. DEFINE here == {i \in DOMAIN heads : ~heads[i].cross}
            own == {i \in DOMAIN heads : heads[i].mine}
            f == Filtered(heads, at)
            q == InOrder(at)
            n == Cardinality(at)
            hereF == {i \in DOMAIN f : ~f[i].cross}
            ownF == {i \in DOMAIN f : f[i].mine}
<1>2. Pick(heads) = Least(IF here # {} THEN here ELSE IF own # {} THEN own ELSE DOMAIN heads)
  BY DEF Pick, Least
<1>3. Pick(f) = Least(IF hereF # {} THEN hereF ELSE IF ownF # {} THEN ownF ELSE DOMAIN f)
  BY DEF Pick, Least
<1>4. at \in SUBSET DOMAIN heads
  OBVIOUS
<1>5. /\ DOMAIN f = 1..n
      /\ \A k \in 1..n : q[k] \in at /\ f[k] = heads[q[k]]
  <2>. HIDE DEF at
  <2>1. /\ f \in Seq(HeadPR) /\ Len(f) = n
        /\ \A k \in 1..n : q[k] \in at
        /\ \A k \in 1..n : f[k] = heads[q[k]]
    BY <1>1, <1>4, FilteredLists
  <2>. QED BY <2>1
<1>6. here \in SUBSET at /\ own \in SUBSET at /\ at = here \cup own
  OBVIOUS
<1>7. /\ hereF = {k \in 1..n : q[k] \in here}
      /\ ownF = {k \in 1..n : q[k] \in own}
  <2>1. \A k \in 1..n : q[k] \in DOMAIN heads
    BY <1>4, <1>5
  <2>. HIDE DEF q, f, n, at
  <2>. QED BY <1>5, <2>1
<1>. HIDE DEF at, here, own, f, q, n, hereF, ownF
<1>8. CASE here # {}
  <2>1. hereF # {} /\ q[Least(hereF)] = Least(here)
    <3>1. hereF = {k \in 1..Cardinality(at) : InOrder(at)[k] \in here}
      BY <1>7 DEF q, n
    <3>2. hereF # {} /\ InOrder(at)[Least(hereF)] = Least(here)
      <4>1. heads \in Seq(HeadPR) /\ here \in SUBSET at
        BY <1>1, <1>6
      <4>. QED BY ONLY <4>1, <1>4, <1>8, <3>1, LeastOfFiltered
    <3>. QED BY <3>2 DEF q
  <2>. QED BY <1>1, <1>2, <1>3, <1>8, <2>1 DEF f, q
<1>9. CASE here = {}
  <2>1. own # {} /\ hereF = {}
    BY <1>6, <1>7, <1>9
  <2>2. ownF # {} /\ q[Least(ownF)] = Least(own)
    <3>1. ownF = {k \in 1..Cardinality(at) : InOrder(at)[k] \in own}
      BY <1>7 DEF q, n
    <3>2. ownF # {} /\ InOrder(at)[Least(ownF)] = Least(own)
      <4>1. heads \in Seq(HeadPR) /\ own \in SUBSET at /\ own # {}
        BY <1>1, <1>6, <2>1
      <4>. QED BY ONLY <4>1, <1>4, <3>1, LeastOfFiltered
    <3>. QED BY <3>2 DEF q
  <2>. QED BY <1>1, <1>2, <1>3, <1>9, <2>1, <2>2 DEF f, q
<1>. QED BY <1>8, <1>9

\* However many pull requests of strangers' forks have the branch for their
\* head, and wherever they stand, the choice is the one without them
\* (ResolveCurrentPR).
THEOREM StrangersNeverMatter == CliSpec => []StrangersHaveNoSay
  BY VerdictKept, StrangersHold, PTL

-----------------------------------------------------------------------------
(* The parsing loop. *)

\* Where the first r arguments say a flag, and where they are positional.
Says(name, r) == {i \in 1..r : command[i].kind = "flag" /\ command[i].name = name}
Plain(r) == {i \in 1..r : command[i].kind = "arg"}

\* Of a flag said more than once the last counts.
Latest(S) == CHOOSE i \in S : \A j \in S : j <= i
Value(name, r) ==
  IF Says(name, r) = {} THEN Defaults[name] ELSE command[Latest(Says(name, r))].value

Targets(r) == LET f == Filtered(command, Plain(r)) IN [k \in DOMAIN f |-> f[k].target]

\* After r arguments: what is left, the flags and the targets so far.
ReadUpTo(r) ==
  /\ args = SubSeq(command, r + 1, Len(command))
  /\ flags = [name \in FlagNames |-> Value(name, r)]
  /\ positionals = Targets(r)

ReadInv ==
  /\ command \in Commands
  /\ Plainly => \E r \in 0..Len(command) : ReadUpTo(r)

\* The command line is a list of arguments.
LEMMA CommandIsList ==
  ASSUME ReadInv
  PROVE  /\ command \in Seq({command[i] : i \in DOMAIN command})
         /\ Len(command) \in Nat /\ DOMAIN command = 1..Len(command)
         /\ \A i \in DOMAIN command : command[i].kind = "flag" => command[i].name \in FlagNames
<1>1. command \in Commands
  BY DEF ReadInv
<1>2. PICK T : T = {command[i] : i \in DOMAIN command}
  OBVIOUS
<1>3. command \in Seq(T)
  BY <1>1, <1>2, CliAssumption
<1>4. Len(command) \in Nat /\ DOMAIN command = 1..Len(command)
  BY <1>3
<1>5. \A i \in DOMAIN command : command[i].kind = "flag" => command[i].name \in FlagNames
  BY <1>1, CliAssumption
<1>. QED BY <1>2, <1>3, <1>4, <1>5

LEMMA ReadInit == CliInit => ReadInv
<1>. SUFFICES ASSUME CliInit, Plainly PROVE ReadInv
  BY DEF CliInit, ReadInv
<1>1. command \in Commands /\ args = command /\ flags = Defaults /\ positionals = <<>>
  BY DEF CliInit
<1>. DEFINE T == {command[i] : i \in DOMAIN command}
<1>2. command \in Seq(T) /\ Len(command) \in Nat /\ 0 \in 0..Len(command)
  BY <1>1, CliAssumption
<1>3. args = SubSeq(command, 1, Len(command))
  BY <1>1, <1>2
<1>4. \A name : Says(name, 0) = {}
  BY DEF Says
<1>5. flags = [name \in FlagNames |-> Value(name, 0)]
  <2>1. Defaults = [name \in FlagNames |-> Defaults[name]]
    BY DEF Defaults, FlagNames
  <2>. QED BY <1>1, <1>4, <2>1 DEF Value
<1>6. positionals = Targets(0)
  <2>1. Plain(0) = {}
    BY DEF Plain
  <2>2. {} \in SUBSET DOMAIN command
    OBVIOUS
  <2>3. Filtered(command, {}) \in Seq(T) /\ Len(Filtered(command, {})) = Cardinality({})
    BY <1>2, <2>2, FilteredLists
  <2>4. Cardinality({}) = 0
    BY FS_EmptySet
  <2>5. DOMAIN Filtered(command, {}) = {}
    BY <2>3, <2>4
  <2>6. Targets(0) = [k \in {} |-> Filtered(command, {})[k].target]
    BY <2>1, <2>5 DEF Targets
  <2>. QED BY <1>1, <2>6
<1>7. ReadUpTo(0)
  BY <1>3, <1>5, <1>6 DEF ReadUpTo
<1>. QED BY <1>1, <1>2, <1>7 DEF ReadInv

\* The next argument, when it is read.
LEMMA NextArg ==
  ASSUME ReadInv, Plainly, args # <<>>, NEW r \in 0..Len(command), ReadUpTo(r)
  PROVE  /\ r + 1 \in DOMAIN command /\ r + 1 \in 0..Len(command) /\ r \in Nat
         /\ args[1] = command[r + 1] /\ args[1].kind \in {"flag", "arg"}
         /\ Tail(args) = SubSeq(command, r + 2, Len(command))
<1>. DEFINE T == {command[i] : i \in DOMAIN command}
            n == Len(command)
<1>1. command \in Seq(T) /\ n \in Nat /\ DOMAIN command = 1..n
  BY CommandIsList
<1>2. args = SubSeq(command, r + 1, n)
  BY DEF ReadUpTo
<1>. HIDE DEF T, n
<1>3. r \in 0..n
  BY DEF n
<1>4. r < n
  <2>1. CASE r = n
    BY <1>1, <1>2, <2>1
  <2>. QED BY <1>1, <1>3, <2>1
<1>5. r + 1 \in 1..n /\ r + 1 \in 0..n /\ r \in Nat
  BY <1>1, <1>3, <1>4
<1>6. args \in Seq(T) /\ args[1] = command[r + 1]
  BY <1>1, <1>2, <1>5
<1>7. Tail(args) = SubSeq(command, r + 2, n)
  BY <1>1, <1>2, <1>4, <1>5
<1>8. command[r + 1].kind \in {"flag", "arg"}
  BY <1>1, <1>5 DEF Plainly
<1>. QED BY <1>1, <1>5, <1>6, <1>7, <1>8 DEF n

\* A set of places gains the next one or stays.
LEMMA OneMore ==
  ASSUME NEW r \in Nat, NEW name
  PROVE  /\ Says(name, r + 1) =
              IF command[r + 1].kind = "flag" /\ command[r + 1].name = name
              THEN Says(name, r) \cup {r + 1} ELSE Says(name, r)
         /\ Plain(r + 1) = IF command[r + 1].kind = "arg" THEN Plain(r) \cup {r + 1} ELSE Plain(r)
<1>1. 1..(r + 1) = (1..r) \cup {r + 1}
  OBVIOUS
<1>. QED BY <1>1 DEF Says, Plain

\* A flag that is read is the last one said so far.
LEMMA FlagRead ==
  ASSUME ReadInv, Plainly, ReadFlag, NEW r \in 0..Len(command), ReadUpTo(r)
  PROVE  ReadUpTo(r + 1)'
<1>. DEFINE a == command[r + 1]
<1>1. /\ r + 1 \in DOMAIN command /\ r \in Nat
      /\ args[1] = a /\ Tail(args) = SubSeq(command, r + 2, Len(command))
  BY NextArg DEF ReadFlag
<1>2. /\ a.kind = "flag" /\ a.name \in FlagNames
      /\ flags' = [flags EXCEPT ![a.name] = a.value]
      /\ args' = SubSeq(command, r + 2, Len(command))
      /\ command' = command /\ positionals' = positionals
  BY <1>1, CommandIsList DEF ReadFlag
<1>3. flags = [name \in FlagNames |-> Value(name, r)] /\ positionals = Targets(r)
  BY DEF ReadUpTo
<1>4. Value(a.name, r + 1) = a.value
  <2>1. Says(a.name, r + 1) = Says(a.name, r) \cup {r + 1}
    BY <1>1, <1>2, OneMore
  <2>2. \A i \in Says(a.name, r) : i \in Nat /\ i < r + 1
    BY <1>1 DEF Says
  <2>. DEFINE S == Says(a.name, r + 1)
  <2>3. r + 1 \in S /\ (\A j \in S : j <= r + 1) /\ (\A i \in S : r + 1 <= i => i = r + 1)
    BY <1>1, <2>1, <2>2
  <2>. HIDE DEF S
  <2>4. Latest(S) = r + 1
    BY <1>1, <2>3 DEF Latest
  <2>. QED BY <2>3, <2>4 DEF Value, S
<1>5. \A name \in FlagNames : name # a.name => Value(name, r + 1) = Value(name, r)
  BY <1>1, OneMore DEF Value
<1>6. flags' = [name \in FlagNames |-> Value(name, r + 1)]
  <2>. HIDE DEF a
  <2>. QED BY <1>2, <1>3, <1>4, <1>5
<1>7. Targets(r + 1) = Targets(r)
  BY <1>1, <1>2, OneMore DEF Targets
<1>8. Targets(r + 1)' = Targets(r + 1) /\ \A name : Value(name, r + 1)' = Value(name, r + 1)
  BY <1>2 DEF Targets, Plain, Value, Says
<1>9. (r + 1) + 1 = r + 2
  BY <1>1
<1>. HIDE DEF a
<1>. QED BY <1>2, <1>3, <1>6, <1>7, <1>8, <1>9 DEF ReadUpTo

\* A target that is read is the next one.
LEMMA PositionalRead ==
  ASSUME ReadInv, Plainly, ReadPositional, NEW r \in 0..Len(command), ReadUpTo(r)
  PROVE  ReadUpTo(r + 1)'
<1>. DEFINE a == command[r + 1]
            T == {command[i] : i \in DOMAIN command}
<1>1. /\ r + 1 \in DOMAIN command /\ r \in Nat
      /\ args[1] = a /\ Tail(args) = SubSeq(command, r + 2, Len(command))
  BY NextArg DEF ReadPositional
<1>2. /\ a.kind = "arg"
      /\ positionals' = Append(positionals, a.target)
      /\ args' = SubSeq(command, r + 2, Len(command))
      /\ command' = command /\ flags' = flags
  BY <1>1 DEF ReadPositional
<1>3. flags = [name \in FlagNames |-> Value(name, r)] /\ positionals = Targets(r)
  BY DEF ReadUpTo
<1>4. \A name : Value(name, r + 1) = Value(name, r)
  BY <1>1, <1>2, OneMore DEF Value
<1>5. Targets(r + 1) = Append(Targets(r), a.target)
  <2>. DEFINE f == Filtered(command, Plain(r))
              g == Filtered(command, Plain(r + 1))
              n == Len(f)
  <2>1. Plain(r + 1) = Plain(r) \cup {r + 1}
    BY <1>1, <1>2, OneMore
  <2>2. command \in Seq(T) /\ Len(command) \in Nat /\ DOMAIN command = 1..Len(command)
    BY CommandIsList
  <2>3. Plain(r) \in SUBSET DOMAIN command /\ \A i \in Plain(r) : i < r + 1
    BY <1>1, <2>2 DEF Plain
  <2>4. g = Append(f, a)
    BY <1>1, <2>1, <2>2, <2>3, FilteredGrows
  <2>5. f \in Seq(T)
    BY <2>2, <2>3, FilteredLists
  <2>6. a \in T
    BY <1>1
  <2>. HIDE DEF T, f, g, a
  <2>7. /\ n \in Nat /\ DOMAIN f = 1..n /\ DOMAIN g = 1..(n + 1)
        /\ \A k \in 1..n : g[k] = f[k]
        /\ g[n + 1] = a
    BY <2>4, <2>5, <2>6
  <2>. DEFINE s == [k \in 1..n |-> f[k].target]
              t == [k \in 1..(n + 1) |-> g[k].target]
              U == {f[k].target : k \in 1..n} \cup {a.target}
  <2>. HIDE DEF n
  <2>8. s \in Seq(U) /\ Len(s) = n /\ a.target \in U
    BY <2>7
  <2>9. t = Append(s, a.target)
    <3>1. \A k \in 1..n : s[k] = t[k]
      BY <2>7
    <3>2. DOMAIN t = 1..(n + 1) /\ t[n + 1] = a.target
      BY <2>7
    <3>3. \A k \in 1..(n + 1) : t[k] = IF k <= n THEN s[k] ELSE a.target
      <4>. TAKE k \in 1..(n + 1)
      <4>. HIDE DEF s, t
      <4>1. CASE k \in 1..n
        <5>1. k <= n
          BY <4>1
        <5>. QED BY <3>1, <4>1, <5>1
      <4>2. CASE k = n + 1
        <5>1. ~(k <= n)
          BY <2>7, <4>2
        <5>. QED BY <3>2, <4>2, <5>1
      <4>3. k \in 1..n \/ k = n + 1
        BY ONLY <2>7, k \in 1..(n + 1)
      <4>. QED BY <4>1, <4>2, <4>3
    <3>4. t = [k \in 1..(n + 1) |-> t[k]]
      OBVIOUS
    <3>. HIDE DEF s, t, U
    <3>5. t = [k \in 1..(n + 1) |-> IF k <= n THEN s[k] ELSE a.target]
      BY <3>3, <3>4
    <3>6. Append(s, a.target) = [k \in 1..(n + 1) |-> IF k <= n THEN s[k] ELSE a.target]
      BY ONLY <2>8, n \in Nat
    <3>. QED BY <3>5, <3>6
  <2>10. Targets(r) = s /\ Targets(r + 1) = t
    BY <2>7 DEF Targets, f, g
  <2>. QED BY <2>9, <2>10
<1>6. Targets(r + 1)' = Targets(r + 1) /\ \A name : Value(name, r + 1)' = Value(name, r + 1)
  BY <1>2 DEF Targets, Plain, Value, Says
<1>7. (r + 1) + 1 = r + 2
  BY <1>1
<1>. HIDE DEF a
<1>. QED BY <1>2, <1>3, <1>4, <1>5, <1>6, <1>7 DEF ReadUpTo

LEMMA ReadStep == ReadInv /\ [CliNext]_cliVars => ReadInv'
<1>. SUFFICES ASSUME ReadInv, [CliNext]_cliVars PROVE ReadInv'
  OBVIOUS
<1>1. command' = command
  BY DEF CliNext, ReadFlag, ReadBadFlag, ReadTerminator, ReadPositional, Dispatch,
         ResolveCurrentPR, cliVars
<1>2. command' \in Commands /\ (Plainly' <=> Plainly)
  BY <1>1 DEF ReadInv, Plainly
<1>. SUFFICES ASSUME Plainly PROVE \E r \in 0..Len(command) : ReadUpTo(r)'
  BY <1>1, <1>2 DEF ReadInv
<1>3. PICK r \in 0..Len(command) : ReadUpTo(r)
  BY DEF ReadInv
<1>4. args # <<>> => args[1].kind \in {"flag", "arg"} /\ r + 1 \in 0..Len(command)
  BY <1>3, NextArg
<1>5. CASE ReadFlag
  BY <1>3, <1>4, <1>5, FlagRead DEF ReadFlag
<1>6. CASE ReadPositional
  BY <1>3, <1>4, <1>6, PositionalRead DEF ReadPositional
<1>7. CASE ReadBadFlag
  BY <1>4, <1>7 DEF ReadBadFlag
<1>8. CASE ReadTerminator
  BY <1>4, <1>8 DEF ReadTerminator
<1>9. CASE UNCHANGED <<command, args, flags, positionals>>
  <2>1. ReadUpTo(r)'
    BY <1>3, <1>9 DEF ReadUpTo, Targets, Plain, Value, Says
  <2>. QED BY <2>1
<1>. QED BY <1>5, <1>6, <1>7, <1>8, <1>9 DEF CliNext, Dispatch, ResolveCurrentPR, cliVars

LEMMA ReadHolds == ReadInv => ReadInAnyOrder
<1>. SUFFICES ASSUME ReadInv, Plainly, args = <<>>
              PROVE  /\ flags = Meant
                     /\ positionals = [k \in DOMAIN TargetsMeant |-> TargetsMeant[k].target]
  BY DEF ReadInAnyOrder
<1>. DEFINE n == Len(command)
<1>1. /\ command \in Seq({command[i] : i \in DOMAIN command}) /\ n \in Nat
      /\ DOMAIN command = 1..n
  BY CommandIsList
<1>2. PICK r \in 0..n : ReadUpTo(r)
  BY DEF ReadInv
<1>3. r = n
  <2>1. SubSeq(command, r + 1, n) = <<>>
    BY <1>2 DEF ReadUpTo
  <2>2. PICK T : command \in Seq(T)
    BY <1>1
  <2>3. r \in 0..n /\ n = Len(command) /\ n \in Nat
    BY <1>1
  <2>. HIDE DEF n
  <2>. SUFFICES ASSUME r < n PROVE FALSE
    BY <2>3
  <2>4. r + 1 \in 1..n
    BY <2>3
  <2>5. Len(SubSeq(command, r + 1, n)) = n - (r + 1) + 1
    BY ONLY <2>2, <2>3, <2>4
  <2>6. Len(<<>>) = 0 /\ n - (r + 1) + 1 # 0
    BY <2>3
  <2>. QED BY <2>1, <2>5, <2>6
<1>4. flags = [name \in FlagNames |-> Value(name, n)] /\ positionals = Targets(n)
  BY <1>2, <1>3 DEF ReadUpTo
<1>. HIDE DEF n
<1>5. \A name \in FlagNames : Value(name, n) = LastOf(name)
  BY <1>1 DEF Value, LastOf, Says, Latest
<1>6. Targets(n) = [k \in DOMAIN TargetsMeant |-> TargetsMeant[k].target]
  BY <1>1 DEF Targets, TargetsMeant, Plain
<1>. QED BY <1>4, <1>5, <1>6 DEF Meant

\* A command line of flags and targets means the same in every order that
\* keeps the last of each flag, however long it is (run's parsing loop).
THEOREM EveryOrderIsRead == CliSpec => []ReadInAnyOrder
<1>1. ReadInv /\ [CliNext]_cliVars => ReadInv'
  BY ReadStep
<1>. QED BY <1>1, ReadInit, ReadHolds, PTL DEF CliSpec

=============================================================================
