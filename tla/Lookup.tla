------------------------------- MODULE Lookup -------------------------------
(***************************************************************************)
(* What one invocation promises, whatever it takes to keep it: the verdict *)
(* rests on one answer GitHub gave while it ran; an answer that left the   *)
(* merge undecided may be replaced, once, by a later one, a decided one    *)
(* never; what the answer lost is told, and so is nothing it did not lose; *)
(* an undecided answer is not called green.  Probes, retries, pages, the   *)
(* deadline and the way a report is made are left to Fetch.                *)
(***************************************************************************)
EXTENDS Integers

CONSTANTS Worlds,     \* the states the pull request may be in
          Answers,    \* for each of them, what a full query may be answered with
          Unsettled,  \* the facts that leave the merge undecided
          Unasked     \* what is held before the first answer

\* Tokens that tell of the pages, the host and the branch, not of the answer.
Extras == {"behind", "ghes", "threads_truncated", "checks_truncated"}

VARIABLES
  world,   \* the pull request on GitHub
  phase,   \* "asking", "holding", "settled", "done"
  held,    \* the answer: its facts, the tokens of what it lost
  exit,    \* the exit code, -1 before there is one
  told     \* the tokens told with it

vars == <<world, phase, held, exit, told>>

Init ==
  /\ world \in Worlds
  /\ phase = "asking" /\ held = Unasked /\ exit = -1 /\ told = {}

Take ==
  /\ phase = "asking" /\ phase' = "holding"
  /\ held' \in Answers[world]
  /\ UNCHANGED <<world, exit, told>>

Fail ==
  /\ phase = "asking" /\ phase' = "done"
  /\ exit' \in {3, 4}
  /\ UNCHANGED <<world, held, told>>

Replace ==
  /\ phase = "holding" /\ phase' = "settled"
  /\ held.facts \in Unsettled
  /\ held' \in Answers[world]
  /\ UNCHANGED <<world, exit, told>>

Keep ==
  /\ phase = "holding" /\ phase' = "settled"
  /\ UNCHANGED <<world, held, exit, told>>

Conclude ==
  /\ phase = "settled" /\ phase' = "done"
  /\ exit' \in 0..3
  /\ told' \ Extras = held.tokens
  /\ held.facts \in Unsettled => exit' # 0
  /\ UNCHANGED <<world, held>>

Move ==
  /\ phase # "done"
  /\ world' \in Worlds
  /\ UNCHANGED <<phase, held, exit, told>>

Next == Take \/ Fail \/ Replace \/ Keep \/ Conclude \/ Move

Spec == Init /\ [][Next]_vars

=============================================================================
