-------------------------------- MODULE Caps --------------------------------
(***************************************************************************)
(* The lists prq prints (internal/synth/synth.go): decompose appends       *)
(* entries one by one; finish collapses the running checks, sorts, bounds  *)
(* each line and folds the tail of the list; Summarize folds it again.     *)
(*                                                                         *)
(* A text is its place in the order of strings, the lengths, in runes, of  *)
(* what stands before and after its " -> " (no action is -1), and the      *)
(* number of running checks it gives, 0 where it gives none.               *)
(***************************************************************************)
EXTENDS Lists

CONSTANTS Entries,     \* the entries decompose may append
          MaxEntries,  \* bound: how many it appends
          CapList,     \* capBlockers, capPending, capNonBlocking
          CapMineList, \* capMineList
          CollapseRunning, MaxActionRunes, MaxLineRunes

Texts == [order : Int, head : Nat, action : Nat \cup {-1}, counts : Nat]

\* Of a pull request at most 500 contexts are read.
Width(n) == IF n < 10 THEN 1 ELSE IF n < 100 THEN 2 ELSE 3

\* "checks: N required running".  Its place matters to no other text: the entry
\* has the empty key, and no check has an empty name.
CountText(n) == [order |-> -1 - n, head |-> 25 + Width(n), action |-> -1, counts |-> n]

ASSUME CapsAssumption ==
  /\ {CapList, CapMineList, CollapseRunning, MaxEntries} \subseteq Nat
  /\ MaxActionRunes \in Nat /\ MaxLineRunes \in Nat
  /\ Entries \subseteq [prec : Nat, key : Nat, running : BOOLEAN, text : Texts]
  /\ \A e \in Entries : e.text.order >= 0 /\ e.text.counts = 0
  /\ \A s, t \in {e.text : e \in Entries} : s.order = t.order => s = t

VARIABLE entries   \* one of the lists blockers, pending

-----------------------------------------------------------------------------
(* One line. *)

\* shown: "whole", "head" where the action is dropped, "cut" with an ellipsis.
LineOf(text, shown, runes) == [text |-> text, shown |-> shown, runes |-> runes]

Runes(text) == IF text.action < 0 THEN text.head ELSE text.head + 4 + text.action

\* A bug the runs tell apart: what is too long is cut wherever it is.
CapLineByCutting(text) ==
  IF Runes(text) <= MaxLineRunes THEN LineOf(text, "whole", Runes(text))
  ELSE LineOf(text, "cut", MaxLineRunes)

CapLine(text) ==
  LET drops == text.action > MaxActionRunes
      left == IF drops THEN text.head ELSE Runes(text)
  IN  IF left <= MaxLineRunes THEN LineOf(text, IF drops THEN "head" ELSE "whole", left)
      ELSE IF ~drops /\ text.action >= 0 /\ text.head <= MaxLineRunes
      THEN LineOf(text, "head", text.head)
      ELSE LineOf(text, "cut", MaxLineRunes)

-----------------------------------------------------------------------------
(* A list: lines, then perhaps one that says how many more there are. *)

More(n) == [more |-> n]
IsMore(line) == DOMAIN line = {"more"}

\* How many entries a list stands for.
Stands(list) ==
  IF list # <<>> /\ IsMore(list[Len(list)])
  THEN Len(list) - 1 + list[Len(list)].more ELSE Len(list)

\* A bug the runs tell apart: a "more" line counts as the line it is.
RecapForgetful(list, limit) ==
  IF Len(list) <= limit THEN list
  ELSE Append(SubSeq(list, 1, limit), More(Len(list) - limit))

Recap(list, limit) ==
  IF Len(list) <= limit THEN list
  ELSE LET last == list[Len(list)]
           hidden == Len(list) - limit + (IF IsMore(last) THEN last.more - 1 ELSE 0)
       IN  Append(SubSeq(list, 1, limit), More(hidden))

\* The aggregate line has the empty key.
Aggregate(n) ==
  [prec |-> 3, key |-> 0, running |-> FALSE, text |-> CountText(n)]

CollapseRunningChecks(list) ==
  LET runs == {i \in DOMAIN list : list[i].running}
      first == CHOOSE i \in runs : \A j \in runs : i <= j
      kept == InOrder((DOMAIN list \ runs) \cup {first})
      n == Cardinality(runs)
  IN  IF n <= CollapseRunning THEN list
      ELSE [k \in DOMAIN kept |-> IF kept[k] = first THEN Aggregate(n) ELSE list[kept[k]]]

\* A bug the runs tell apart: entries of one precedence keep their order.
BeforeByPrec(e, d) == e.prec < d.prec

Before(e, d) ==
  \/ e.prec < d.prec
  \/ e.prec = d.prec /\ e.key < d.key
  \/ e.prec = d.prec /\ e.key = d.key /\ e.text.order < d.text.order

\* Stable: of two entries neither before the other the earlier comes first.
Earlier(list, i, j) == \/ Before(list[i], list[j])
                       \/ i < j /\ ~Before(list[j], list[i])

SortedBy(list) ==
  LET D == DOMAIN list
      order == Ranked(D, {p \in D \X D : Earlier(list, p[1], p[2])})
  IN  [k \in DOMAIN order |-> list[order[k]]]

Flatten(list, limit) ==
  LET sorted == SortedBy(list)
  IN  Recap([i \in 1..Len(sorted) |-> CapLine(sorted[i].text)], limit)

\* The list of a report, and that list in a row of the board.
Shown(list) == Flatten(CollapseRunningChecks(list), CapList)
ShownInRow(list) == Recap(Shown(list), CapMineList)

-----------------------------------------------------------------------------
CapsInit == entries = <<>>

Add == \E e \in Entries : entries' = Append(entries, e)

CapsNext == Len(entries) < MaxEntries /\ Add

-----------------------------------------------------------------------------
(* Properties. *)

Running == Cardinality({i \in DOMAIN entries : entries[i].running})
Collapsed == IF Running > CollapseRunning THEN Running - 1 ELSE 0

\* No blocker and no pending entry is lost uncounted: lines, collapsed checks
\* and "+N more" add up to the entries there are, in a report and in a row of
\* the board, whose list is folded twice; and a line that gives a number of
\* running checks gives that of the collapsed ones (recap, collapseRunningChecks).
EntriesAddUp ==
  \A list \in {Shown(entries), ShownInRow(entries)} :
    /\ Stands(list) + Collapsed = Len(entries)
    /\ \A i \in DOMAIN list :
         IsMore(list[i]) \/ list[i].text.counts \in {0, Collapsed + 1}

Swapped(list, i) == [list EXCEPT ![i] = list[i + 1], ![i + 1] = list[i]]

\* What is printed depends on the entries and not on the order GitHub lists
\* the checks in: output that is to be compared byte for byte (flatten).
OrderIsIrrelevant ==
  \A i \in 1..(Len(entries) - 1) : Shown(Swapped(entries, i)) = Shown(entries)

\* Every line fits, and a command in it is complete: an action is printed
\* whole or not at all (capLine).
LinesFit ==
  \A i \in DOMAIN Shown(entries) :
    LET line == Shown(entries)[i]
    IN  IsMore(line)
        \/ /\ line.runes <= MaxLineRunes
           /\ line.shown = "whole" => line.text.action <= MaxActionRunes
           /\ line.shown = "cut" => line.text.head > MaxLineRunes

=============================================================================
