------------------------------ MODULE MCTables ------------------------------
(***************************************************************************)
(* The three parts of prq that are pure functions of a list, item by item: *)
(* printed lists (Caps), errors of an answer (Errors), the command line    *)
(* (Cli).  One behaviour goes through one of them; the others stay as they *)
(* start.                                                                  *)
(***************************************************************************)
EXTENDS Caps, Errors, Cli

-----------------------------------------------------------------------------
Entry(prec, key, running, head, action) ==
  [prec |-> prec, key |-> key, running |-> running,
   text |-> [order |-> head + action, head |-> head, action |-> action,
            counts |-> 0]]

\* Running checks, a status that waits, lines at both sides of each cap.
MCEntries ==
  {Entry(3, 1, TRUE, 13, -1), Entry(3, 2, TRUE, 17, -1), Entry(3, 2, FALSE, 20, -1),
   Entry(3, 1, FALSE, 20, 120), Entry(3, 1, FALSE, 16, 120), Entry(2, 0, FALSE, 30, 121),
   Entry(8, 0, FALSE, 142, 10)}

-----------------------------------------------------------------------------
At(field) == [field |-> field, index |-> 0]
Index(i) == [field |-> "", index |-> i]
Node(i, fields) == <<At("search"), At("nodes"), Index(i)>> \o fields

Item(type, path) == [type |-> type, path |-> path, named |-> FALSE]

MCItems ==
  {Item("FORBIDDEN", Node(1, <<At("reviewThreads")>>)),
   Item("FORBIDDEN", Node(0, <<At("reviewThreads"), At("nodes"), Index(1)>>)),
   Item("FORBIDDEN", <<At("repository"), At("pullRequest")>>),
   Item("", <<At("statusCheckRollup"), At("contexts"), At("nodes"), Index(2), At("isRequired")>>),
   Item("UNPROCESSABLE", <<At("baseRef"), At("compare")>>),
   [Item("UNPROCESSABLE", <<>>) EXCEPT !.named = TRUE],
   Item("NOT_FOUND", <<At("repository")>>), Item("NOT_FOUND", Node(2, <<>>)),
   Item("RATE_LIMITED", <<>>), Item("", <<>>)}

-----------------------------------------------------------------------------
Text(host, parts, hash, after) ==
  [host |-> host, parts |-> parts, hash |-> hash, after |-> after]
Word(w) == Text(FALSE, <<w>>, FALSE, "")

Arg(target) == [kind |-> "arg", target |-> target]
Flag(name, value) ==
  [kind |-> "flag", name |-> name, value |-> value, target |-> Word("x")]
Other(kind) == [kind |-> kind, target |-> Word("x")]

MCTargets ==
  {Text(TRUE, <<"o", "r", "pull", "7", "x">>, TRUE, "x"), Text(TRUE, <<"o", "r", "x", "7">>, FALSE, ""),
   Text(TRUE, <<"", "o", "r", "pull", "0">>, FALSE, ""),
   Text(FALSE, <<"o", "r">>, TRUE, "7"), Text(FALSE, <<"o", "r">>, TRUE, "0"),
   Word("7"), Word("0"), Word("x"), Text(FALSE, <<"x", "y">>, FALSE, ""), NoTarget}

MCArgs ==
  {Arg(t) : t \in MCTargets}
  \cup {Flag("repo", v) : v \in {<<>>, <<"x", "y">>, <<"x">>, <<"x", "">>}}
  \cup {Flag("repos", v) : v \in {<<>>, <<<<>>, <<>>>>, <<<<"x", "y">>, <<>>>>, <<<<"x">>>>}}
  \cup {Flag("limit", v) : v \in {0, 100, 101}}
  \cup {Flag("mine", TRUE), Flag("mine", FALSE), Flag("noRetry", TRUE),
        Flag("retryBudget", 4), Flag("version", TRUE)}
  \cup {Other("--"), Other("bad"), Other("help")}

FewArgs == {Arg(Word("7")), Arg(Text(FALSE, <<"o", "r">>, TRUE, "7")), Flag("repo", <<"x", "y">>),
            Flag("repo", <<"x", "">>), Flag("repos", <<<<>>, <<>>>>), Flag("mine", TRUE),
            Flag("limit", 101), Other("--")}
MCCommands == UNION {[1..n -> MCArgs] : n \in 0..2} \cup UNION {[1..n -> FewArgs] : n \in 3..4}

\* The directory: known to go-gh, on another host, behind an SSH alias, none.
Here(host, parts) == [host |-> host, parts |-> parts]
MCPlaces ==
  {[current |-> Here("github.com", <<"o", "r">>), origin |-> NoRepo, branch |-> TRUE],
   [current |-> Here("ghes", <<"o", "r">>), origin |-> NoRepo, branch |-> FALSE],
   [current |-> NoRepo, origin |-> Here("github.com.work", <<"x", "o", "r", "">>), branch |-> TRUE],
   [current |-> NoRepo, origin |-> Here("ghes", <<"o", "r">>), branch |-> TRUE]}

\* Forks of strangers, the caller's fork, a branch of the repository.
MCHeads == {[cross |-> TRUE, mine |-> FALSE], [cross |-> TRUE, mine |-> TRUE],
            [cross |-> FALSE, mine |-> FALSE]}
MCHeadLists == UNION {[1..n -> MCHeads] : n \in 0..3}

-----------------------------------------------------------------------------
Init == CapsInit /\ ErrorsInit /\ CliInit

\* Where nothing of the command line is read, one of the lists may grow.
AtRest == /\ command = <<>> /\ verdict = Reading
          /\ place.current = Here("github.com", <<"o", "r">>)

CapsStep == AtRest /\ items = <<>> /\ CapsNext /\ UNCHANGED <<items, cliVars>>
ErrorsStep == AtRest /\ entries = <<>> /\ ErrorsNext /\ UNCHANGED <<entries, cliVars>>
CliStep == entries = <<>> /\ items = <<>> /\ CliNext /\ UNCHANGED <<entries, items>>

Next == CapsStep \/ ErrorsStep \/ CliStep

Spec == Init /\ [][Next]_<<entries, items, cliVars>>

=============================================================================
