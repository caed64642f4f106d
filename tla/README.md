# prq in TLA+

`prq` answers one question about a GitHub pull request: *what stands between it
and the merge?* It sends a handful of GraphQL queries, turns the answer into a
verdict, prints the verdict as JSON and encodes it in the exit code. The readers
are loops that nobody supervises: they merge on exit 0, act on 1, poll again on
2, and go back to sleep when the report's fingerprint is the one they have seen.
What would hurt is an exit 0 that is not deserved (a **false green**), a verdict
resting on facts that were not read, a board that speaks for pull requests it
did not look at, a loop that sleeps through something, and a loop that is woken
by noise. These are the properties of this project.

## 1. The system

| part | source | state it keeps | operations | in this project |
|---|---|---|---|---|
| verdict synthesizer | `internal/synth/synth.go` | none: a pure function from `Input` to `Report` | `Synthesize`, `decompose`, `analyzeContexts`, `classify`, `failedLine`, `finish`, `fingerprint` | `Synth` |
| display caps | `internal/synth/synth.go` | none | `flatten`, `recap`, `capLine`, `collapseRunningChecks`, `Summarize` | `Caps`, `Mine` |
| single-PR fetch | `internal/fetch/fetch.go` | the answer held, its degraded tokens, the rung of the probe ladder, two page cursors, the `Input` being filled | `PR`, `fetchFull`, `fetchProbe`, `normalize`, `appendContexts`, `paginate` | `Node`, `Fetch`, `Lookup` |
| partial errors | `internal/gh/client.go` | the table `optionalFields` | `PartialItems`, `Partial` | `Node`, `Errors` |
| error classes | `internal/gh/client.go`, `cmd/prq/run.go` | none | `Classify`, `emit` | `Errors`; in `Fetch` the outcome, 3 or 4 |
| exit codes, one invocation | `cmd/prq/run.go` | the deadline | `runSingle`, `exitForReport` | `Synth`, `Cli`, `Fetch` |
| board poll | `internal/fetch/mine.go`, `runMine` | inputs by search node, detail chunks, the worst exit code | `Mine`, `needsDetail`, `resolveDetail`, `runMine`, `rollupRank` | `Mine` |
| command line | `cmd/prq/run.go`, `internal/fetch/fetch.go` | none | `run`, `resolveTarget`, `ResolveCurrentPR`: flags and directory to one pull request | `Cli` |
| environment | `cmd/prq/main.go` | none | git, go-gh, clock | the choice of the repository in `Cli`; the rest is wiring |
| version, packaging, CI | `internal/version`, `scripts`, `*.sh`, `.github` | none | | not modelled |
| GitHub | outside | the pull request | answers, partial answers, merge state | `GitHub` (external) |
| the loop | outside, described by `docs/design.md` 1.4 and 4.3 | the last report, the fingerprint it acted on | poll, compare, act | `Watch` (external but for the poll) |

**How they interact.** `run` reads the command line and goes one of two ways.

For one pull request, `resolveTarget` finds out which, `runSingle` calls
`fetch.PR` under a deadline. `PR` sends the full query; while the pull request
is open and `mergeable` is `UNKNOWN` it sleeps 0.5, 1, 2, 4 s within
`--retry-budget`, probing after each sleep; a probe that shows a decision (or an
end) is followed by a second full query, which replaces the first answer with
its tokens. `normalize` makes the `Input`; tokens flip known-flags; `paginate`
reads the thread pages left open, then the context pages, up to five and four.
`runSingle` adds the token `ghes`, calls `Synthesize`, prints, and exits with
`exitForReport`.

For the board, `fetch.Mine` sends one search, attributes its partial errors to
the inputs they name, asks for the checks of those pull requests whose rollup
does not already say all, 25 to a query, and sorts; `runMine` prints a row per
pull request and exits as the worst of them, 3 before 1 before 2.

A loop does either over and over.

**What is hard.** The program is sequential, but its world is not: the pull
request changes between any two requests, so one verdict is pasted together from
up to eight moments, and a row of the board from two. Requests fail, run into
the deadline, or answer with parts nulled, and a nulled part decodes to the zero
value that says all is well. GitHub's own verdict (`mergeStateStatus`) is
computed late, hides rules the token cannot read, and says `BLOCKED` about a
pull request that is ready for its merge queue. Checks come in any order,
several under one name; errors come in any order and name their node by an index
that is not the index of the input. The fingerprint has to forget noise and keep
everything else. Lists are folded twice and must not lose an entry on the way.
`PROJECT.json` lists each of these hazards at its line with the properties that
would catch it.

## 2. The modules

| module | what it is |
|---|---|
| `Synth` | the synthesizer and the exit code as operators over `Input`: facts, lines, the rollup, the rows of the decomposition, residual rule, state switch, fingerprint, report |
| `Node` | the full query's answer, tokens of a partial error, `normalize`, the flag flips of `PR` |
| `GitHub` | external: the pull request (`World`), GitHub's merge state, what an answer shows and what an error takes from it; `Green` says when it can be merged or enqueued |
| `Lookup` | abstract: what one invocation promises, in four phases around one answer |
| `Fetch` | one invocation, request by request, against a pull request that moves; refines `Lookup` |
| `Mine` | one poll of the board, request by request and row by row, against pull requests that move |
| `Watch` | the life of a pull request and a loop that polls it |
| `Caps` | the lists that are printed: entries, lines, folding |
| `Errors` | the errors of one answer: which are tolerated, what each degrades, the class of the others |
| `Cli` | the command line, argument by argument, to a mode and its target |
| `Lists` | sorting, filtering and appending in a loop, stated by the place of each element: what the board and the command line are built with, in a form the provers can use |
| `MCFetch`, `MCMine`, `MCWatch`, `MCTables` | the instances TLC checks; `MCTables` takes `Caps`, `Errors` and `Cli` together |
| `SynthProofs`, `GitHubProofs`, `FetchProofs`, `GreenProofs`, `WatchProofs`, `ListsProofs`, `MineProofs`, `TablesProofs` | theorems and their proofs; `TablesProofs` takes `Caps`, `Errors` and `Cli` together |

`Fetch`, `Mine` and `Watch` all extend `GitHub`, which extends `Node`, which
extends `Synth`: the verdict code is written once and runs under all three. In
`Fetch` a poll is many steps; in `Watch` it is one, on facts of one instant, so
that a whole life fits in a state space.

**State and code.** In `Fetch`, `pc` is the place in `PR`/`paginate` between two
requests; `pr` and `degraded` are the variables of those names in `PR`; `rung`
and `spent` the loop over `ladder`; `in` the `Input`; `tp` and `cp` the cursors
of `paginate` with the page counter; `out` the report and exit code. `now` is
time since the start, in half seconds, the ladder's unit. `lost`, `view`,
`blank` and `sent` are history the code does not have: what the held answer
lost, the pull request as the full answer and the pages read after it describe
it, whether a page came back without a pull request or a rollup, and the number
of requests. Each request has one action per outcome: `FullAnswers`/`FullFails`,
`ProbeAnswers`/`ProbeFails`, `RefetchAnswers`/`RefetchFails`,
`ThreadsAnswers`/`ThreadsFail`/`ThreadsNull`,
`ContextsAnswers`/`ContextsFail`/`ContextsNull`. `Sleep` does not look at the
deadline, as the code does not; a request that would outlast it fails at it.
`Settle` is `normalize` with the flag flips, `Report` is the rest of `runSingle`.

In `Mine`, `board` is what the search would find, `inputs` and `idx` are the
variables of `Mine` and `resolveDetail`, `rows`, `worst` and `cut` what
`runMine` has written and would return. `view`, `searched`, `errors`, `unread`,
`maimed`, `moved` and `asked` are history: each row's pull request as its two
answers describe it, the same pull requests as the search found them, the errors
of the search, the pull requests whose detail could not be had or came with an
error, how often one moved, which were asked for. `SearchAnswers` is one action
with the attribution of errors and `nodeToInput`; a detail query
(`DetailAnswers`, `DetailFails`) takes the next chunk off `idx`; `Arrange` is
the sort at the end of `Mine`; rows are written one per step, and any write may
fail. A pull request is its rank in the order of the rows; rank 0 is a node that
decodes to none.

In `Watch`, `world` is the pull request, `since` says what happened since the
last poll, `last` is the last poll and `belief` the one the loop acted on; every
action but `Poll` is a change on GitHub.

In `Caps`, `entries` is one of the lists `decompose` appends to; in `Errors`,
`items` the errors of one answer as they come; in `Cli`, `args` is what `run` has
not parsed yet, `flags` and `positionals` what it has, `verdict` what it does.

**Abstractions.** In `Synth`, lists of lines are sets: no two entries of one list
are equal as lines, and order and caps are decided after exit code and
fingerprint; `Caps` has the sequences. A line keeps what tells two lines apart,
not its wording; actions in blockers that are the same for a given pull request
(`gh pr ready N -R R`) are left out, the run id and URL of a check are kept
because they are hashed. The fingerprint is the tuple of what is hashed: the
joined string and the 64 bits kept of its SHA-256 are taken to be injective (a
check name containing `;` or a hash collision is outside the model). One thread
page is the number of its nodes not marked resolved. In `Caps` a text is its
place in the order of strings, the lengths before and after its arrow and the
number of running checks it gives. In
`Cli` a target is the words between its slashes and the word after its `#`.
Base-branch names are left out (a constant of the pull request). Titles,
authors and URLs of the pull request are not read by the code.

**External assumptions** (module `GitHub`): a merged pull request reports
`mergeable` UNKNOWN for ever; `mergeStateStatus` is UNKNOWN while `mergeable` is
and may lag behind it; a repository with a merge queue answers BLOCKED where a
direct merge would be clean, until the queue has taken the pull request, and
never BEHIND; a rule the token cannot see shows up as BLOCKED only; the lists of
contexts are not nullable, so that losing one nulls the rollup.
Under a merge queue such a rule leaves no trace at all, so "green" there is judged
on what the token can read (`Shown`; on the board, whose search asks for no
rules, `ShownOnBoard`).

## 3. The runs

`MineBoard` and `MineDetail` check for deadlock: anywhere but at its end, where
`Stop` says that nothing is left to do, the poll can go on. In the other runs
deadlock checking is off: an invocation ends, nothing moves any more once it
has, and the lists of `Tables` stop at their bounds.

| run | question | bounds and why they are enough |
|---|---|---|
| `FetchProbe` | Does the retry loop keep its budget, its snapshot and its tokens, never end in a false green, and keep the promise of `Lookup`? | eight pull-request states among which GitHub moves at every step (ready, undecided, failing, behind, merge queue with unreadable rules, merged), five loss sets: nothing, two with a token, a nulled node, a silent one; budgets for no probe, one, three and all four rungs; requests that take no time or half a second, any of which may fail; a deadline that is not reached within the ladder |
| `FetchPages` | Are lists that were not read to the end declared, is no green undeserved, and does every invocation end? | three pull requests with one to six thread pages and one to five context pages, so both caps are met exactly and exceeded; every page may fail, come back blank, or lose its rollup to a push; requests take up to 2 s, so a deadline of 4.5 s cuts into ladder, second query and pages; under a merge queue only the later pages tell ready from blocked |
| `WatchExit` | Does the exit code of a complete answer mean what the README says, and can a partial answer turn a pull request green? | `o/r#1`: every facet of a pull request varies between opening and first poll, in three kinds of repository; `o/r#2`: rules readable, unreadable and hidden, with every optional field lost alone, and two pairs. `baseRef` is left to `FetchSilent` |
| `WatchNoise` | Does the fingerprint change when it should, and only then, and does a loop that relies on it act on the green? | polls and changes interleave without limit; required and optional checks, base advances, queue moves and ejections; a check reported twice, in two orders; complete answers, a silent loss and a loss with a token |
| `MineBoard` | Is every row that of its pull request, and the exit code that of the worst row? | boards of none to five results in search order, a node that is no pull request before and between others; below, at and beyond the limit of 4; chunks of 2, so that one is full and one short; search errors with a node index, without one, that take the whole node, or inside a thread list; detail queries that fail or lose parts; one move; any write may fail |
| `Tables` | Is no printed entry lost, no error misread, no argument misplaced? | every list of up to 5 of 7 entries, with the caps scaled to 3, 2 and 1 and lines at, below and beyond theirs (120, 140); every list of up to 4 of 10 errors; every command line of up to 2 of 29 arguments and of 3 and 4 of the 8 that interact, in four kinds of directory; up to three pull requests of a branch |

`FetchProbe`, `WatchExit` and `MineBoard` also check the type invariants. Bounds
are named: `Worlds`, `LossSets`, `Budgets`, `Timeout`, `Latencies`, `Faults` in
`Fetch`; `Boards`, `Worlds`, `Limit`, `ChunkSize`, `ErrorSets`, `DetailLosses`,
`MaxMoves` in `Mine`; `Births`, `Facets`, `Outcomes`, `MaxThreads`, `MaxBehind`,
`OneRound`, `LossSets`, `Orders` in `Watch`; `MaxEntries`, `MaxItems`, `Commands`,
`HeadLists` in the tables. `OneRound` stops the changes after the first poll:
verdicts depend on one state only, and `Init` counts as changed, so every
reachable state is still polled. `MaxMoves` is 1 because a row depends on its own
pull request only and is made of two answers, with room for one change between.

**What the properties say.** `NoFalseGreen` is the central one: an exit 0 is
deserved by the pull request as the answer and the pages read after it describe
it; or GitHub's own answer said so and nothing read since speaks against it. It
excepts four gaps (`KnownGap`), each the subject of a run below.
`RowGreenIsDeserved` says the same of a row of the board, whatever moved between
its two answers: the pull request they describe is green; or, without a merge
queue, that same pull request was green in the state the search found it in
(`searched`), and no required check read since speaks against it. Some other
state it could have been in does not count. Excepted are two of the four gaps
(`RowGap`) and a detail answer that came with errors, which `MineDetail` is
about. `LossNeverGreens` says it of a loop's poll, `ExitMeansWhatItSays` adds
exit 2. `GreenAgrees` compares the two modes: on a board where nothing moved or
failed, a row is green exactly when the pull request asked for alone is.
`ErrorsDegradeTheirOwn` pins every token of a row to the error that named its
pull request. `WorstRowDecides` and `WholeBoardWritten` are about the exit code
of the board: it is that of the worst row, and below 3 it speaks for every pull
request the search gave. `AskedOnce` stands in for liveness there: no pull
request that matters is left out of the chunks and none is asked twice.
`EntriesAddUp` counts what a printed list stands for, the number in "checks: N
required running" included.

**Fairness.** `Terminates` assumes `WF_vars(Step)`: the process is scheduled, and
a request returns, with an answer or by its deadline, which `http` contexts
guarantee. Nothing is assumed of GitHub: `WorldMoves` is not fair.
`GreenIsActedOn` assumes `WF_vars(Poll)`: the loop keeps polling. It also has to
assume that answers are complete in the end: a token that never may read
required-ness keeps exiting 3, as it should.

### Where code and documents disagree

Six runs have a counterexample; each checks one sentence of the repository.

| run | the sentence | what the code does |
|---|---|---|
| `FetchUnknown` | design 2.3: a `mergeStateStatus` UNKNOWN of an open pull request is waited for, then exits 1 or 2 | only `mergeable` is looked at: `MERGEABLE` with merge state `UNKNOWN` is CLEAN, exit 0 |
| `FetchVanish` | `paginate`: failures degrade the output | a page that comes back without a rollup (the head moved) ends the list with no token; a failing required check on it is never seen, exit 0 |
| `FetchSilent` | `optionalFields`: a silent subtree is enrichment whose loss is safely ignored | `baseRef` carries the thread rule: under a merge queue its loss turns an unresolved thread into exit 0 |
| `WatchOrder` | design 1.4: the fingerprint is invariant under pagination order | of two equally bad contexts of one name the first wins and its run id is hashed |
| `WatchShadow` | design 2.2: a failing required CheckRun is a blocker | the dedup by name ignores required-ness: an optional failing namesake met first takes its place |
| `MineDetail` | `resolveDetail`: failures degrade the affected PRs | a detail answer whose errors can be tolerated is kept and their tokens are dropped: required-ness it lost is taken as known |

More disagreements were met while modelling and have no run of their own:

- design 2.4 disables the threads blocker when `reviewThreads` errored; `PR`
  resets the count, but `paginate` counts on from later pages and the blocker
  appears. It errs on the safe side.
- design 4.3 makes an exceeded `--timeout` exit 4; a probe, a second query or a
  page that meets the deadline is dropped and the held answer decides.
- design 2.4 gives a null `mergeStateStatus` a token, which only an error on
  `mergeQueueEntry` produces.
- `PartialItem`'s comment ties an error to the search node its path runs
  through; the code takes the innermost `nodes[i]`, so an error inside a list of
  threads is attributed by the number of the thread. `ErrorsDegradeTheirOwn`
  leaves those items out.
- `synth.go:30` calls the fingerprint identical in both modes; `Summarize`'s
  comment, and the code, make that true on equal facts only.
- design 4.4 promises an empty stdout on exit 4; when writing a row fails, the
  rows before it are out. `WholeBoardWritten` therefore speaks of exits below 3.
- design 4.3 makes a rate limit exit 4; a tolerable permission error that
  comes before it in the same answer makes that exit 3 (`OrderMattersToSevereOnly`
  names this as the one case where order counts).
- `--repos ""` is taken for no `--repos` at all and widens the scope, which
  `run.go` guards against for `","` only; `ScopeNeverWidens` is about a value
  that is not the empty text.
- Arguments after `--` are parsed for flags again but for the first, `-R` is
  ignored where the target names its repository, and a repository name in a URL
  may be empty. No document says otherwise.

## 4. The proofs

Every invariant and every action property of a passing run is a theorem, for
every value of the constants that the named assumptions allow:
`NamesAreNotEmpty` (no check has an empty name); `FetchAssumption`,
`WatchAssumption`, `ErrorsAssumption` (the constants have their types);
`MineAssumption`, which adds that a search lists a pull request once;
`CapsAssumption`, which adds that two texts of one place in the order of strings
are the same and that no entry but the collapsed one gives a number; and
`CliAssumption`, which adds that the flags of a command line are flags prq has.
Where a theorem needs more than that, it says so in its own hypotheses, and they
are the gaps of section 3.

**Synthesizer** (`SynthProofs`). `FingerprintDeterminesExit`: the exit code is a
function of the fingerprint. The state is hashed up to UNSTABLE = CLEAN, which
share an exit, and the degraded list is hashed whole.
`FingerprintKeepsLists`: so are the normalized blockers and the names of the
checks waited for; this is where check names must not be empty, since an empty
key is hashed as the line's text. `ExitZeroIsEarned`: on an open input, exit 0 is
equivalent to `NothingInTheWay`, a list of facts about the input: each row of
the decomposition is shown empty exactly when its fact does not hold (`NoLines`,
`NoCheckLines`, `NoBlockers`, `NoPending`), and with no line left the residual
rule and the state switch leave CLEAN or UNSTABLE.

**Answers** (`GitHubProofs`) holds the lemmas the next two share: the types of
what answers, `normalize` and the flag flips give, and what a green verdict on
such an input says of the pull request. `BestCovers` shows that the worst of
several namesakes stands for them all, with the least element of a set of
positions (well-foundedness of the numbers, not induction over data);
`RequiredAreDone` concludes that with no required line left every required
check is done; `GreenOfGitHub` and `GreenOfQueue` get from there to `Green`,
without a merge queue by GitHub's own merge state, with one by the rules read.

**Invocation** (`FetchProofs`). Four inductive invariants, each step one case per
action:

- `TypeInv` = `TypeOK` and `StepInv`. `TypeOK` alone is not inductive: a page can
  be read only if the world has it, which `StepInv` states of the cursors and of
  the history. It yields `TypeCorrect`.
- `CountInv` bounds `sent` at each `pc` by the rung and the page numbers, and
  `spent` by the budget: `InvocationIsBounded`.
- `SnapshotInv` says that at `probe` and `refetch` the answer held is open and
  undecided; only there is it replaced: `SnapshotIsFinal`.
- `FactsInv` ties `in` to the answer held: its mergeability, state and tokens
  are those of `pr` and `lost`, plus truncation tokens wherever a walk was given
  up. `Synthesize` keeps tokens (`ReportTokens`) and never calls an undecided
  input green (`UndecidedIsNotGreen`), which gives
  `UndecidedIsNeverReportedGreen`, `TokensComeFromTheAnswer` and
  `NoListIsCutSilently`.

`InvocationIsALookup` is the refinement: every step of `Fetch` is a step of
`Lookup` or a stutter under the mapping `L` (`LookupInit`, `LookupStep`). It
rests on the type invariant, on `SnapshotInv` for the replacement, and on
`FactsInv` for the tokens and for an undecided answer not being called green.

**No false green** (`GreenProofs`). `GreenIsDeserved` proves `NoFalseGreen`.
The property is far from inductive; `GreenInv` says where the input comes from at
each step: the answer held is one of the pull request in `view`; from `Settle` on
the input repeats what the answer says, and, unless the losses weigh on it,
counts every thread and has every context of the pages read so far
(`ThreadPageIsRead`, `ContextPageIsRead`), while a cursor that is still open
keeps the verdict from being green by its token. At `Report`, `AllIsRead` turns
that into all pages of `view`, and the lemmas of `GitHubProofs` into `Green`. What
the exceptions of `KnownGap` are needed for shows in the proof: without the
last, the worst namesake need not be the required one; without the second, the
rule is not the one read.

**Loop** (`WatchProofs`). `LoopMissesNothing` proves `NothingSleptThrough` for
every life, loss and order. By itself it is not inductive: that the loop keeps
`belief` when a fingerprint repeats says nothing of the decision behind it.
`BeliefInv` adds that the decision the loop acted on is `DecisionOf` the
fingerprint it remembers; a poll keeps that by the two fingerprint theorems, and
life on GitHub changes neither. `LoopTypeCorrect` has no
hypothesis either: `TypeInv` adds to `TypeOK` that what the loop believes, once
it has polled, is a report; life on GitHub leaves a pull request one
(`LifeKeepsWorld`), and a poll of any pull request, on however many pages,
whatever is lost, reports what a report can hold (`PollIsTyped`).

`LossNeverMakesGreen` goes by `PollInv`: the pull request stays `Tame`, whatever
happens to it, and what a poll of a tame pull request reports is deserved
(`PollIsDeserved`). Its hypotheses say which gaps stay out: `TameBirths`
(threads and checks fit on one page, GitHub decides `mergeStateStatus` together
with `mergeable`, checks of one name are required alike) and `RulesAreRead` (no
loss of `baseRef`). `WatchExit` meets both.

`ExitSaysWhatToDo` proves `ExitMeansWhatItSays` by `ExitInv`, from the first of
those hypotheses. A complete answer is `Seen`: an input that has every fact
of the pull request but the order of its contexts (`CompleteAnswerIsSeen`). On
such an input a green pull request leaves `NothingInTheWay`
(`GreenIsCalledGreen`); exit 2 needs a pending line, and each pending line names
something that waits (`WaitsForSomething`); and if the pull request would be
green with everything that waits done, no row of the decomposition but the
pending ones can have a line (`OnlyWaitingIsWaitedFor`).

`NoiseNeverWakes` proves `NoiseWakesNobody`. The property relates two polls with
any number of changes between them; `StillInv` makes it one step at a time: as
long as nothing but noise happened since the last poll, *the same query,
answered now and in any order, would get the fingerprint the last one got*. Each
step of noise leaves the pull request `Hushed` (`NoiseIsHushed`): equal but for
optional checks, the place in the queue, and how many commits, once there is
one, it is behind. Answers about two such pull requests `Murmur`
(`HushedIsMurmured`), also where optional checks move GitHub's own merge state
between CLEAN, HAS_HOOKS and UNSTABLE, and whatever parts but required-ness both
have lost. Inputs that murmur have equal fingerprints (`MurmursAreNotHashed`):
every line but the one that counts commits is the same, that one is hashed
without its count and at most once (`BehindCountsOnce`), and of the queue only
an ejection is hashed. That the required checks print alike in any order
(`LinesOfChecks`, `HeardPrintsAlike`) needs what `QuietBirths` adds to
`TameBirths`: two checks of one kind and name never fail, or wait, in two ways
(and a pull request in no queue has no place in one). Without it the theorem is
false, and `WatchOrder` has the counterexample. `WatchNoise` meets the
hypotheses, its twice-reported check included.

**Lists** (`ListsProofs`). In `Mine`, `Caps` and `Cli` lists are sorted,
filtered or appended to in a loop. `Lists` gives the k-th element as the one
that k - 1 others precede, which needs no recursion and no operator parameter:
`RankedLists` (each element once, in order, from a bijection built with
`FiniteSetTheorems`), `FilteredLists`, and `FilteredGrows`, the step by which a
loop appends one more entry.

**Board** (`MineProofs`), one invariant per question, each on top of those before:

- `TypeInv`: the variables have their types, every input is a pull request of
  the board, none is in twice, and `idx` ascends. It yields `BoardTypeCorrect`.
  Types alone are not inductive, since the sort at the end has to move `inputs`
  and `view` alike, which is possible only if ranks are distinct.
- `AskedInv`: what was asked for and what is left in `idx` are disjoint and make
  up the inputs `needsDetail` names, and every chunk but the last is full:
  `EveryDetailAskedOnce`.
- `RowsAreInputs` and `BoardWritten`: a row is an input summarized, the rows
  written are a prefix of the sorted inputs, and a board that was cut says so:
  `NoRowIsMissing`.
- `TokensInv`: the tokens of an input are those of the items that named it, or
  its chunk's: `ErrorsReachTheirOwn`. The index of the search node and the index
  of the input differ by the nodes that are no pull request; the invariant is
  stated on pull requests and the proof follows the shift.
- `DescribedInv`: an input has the facts of a pull request of `searched`, the
  checks of `view` once its detail is in, and the two differ in their checks
  only; a rollup that needed no detail says by its state what its checks are. At
  `rows` that and the lemmas of `GitHubProofs` give `GreenRowIsEarned`;
  `BoardAndSingleAgree` compares it with what the one full query of `PR` reads
  (`AloneReads`).
- `RowsInv`: the running maximum of `runMine`, in an order of its own, is the
  fold of the rows so far (`RollupAdds`): `WorstRowAlwaysDecides`.

**Tables** (`TablesProofs`), for lists of every length; the specifications are
`CapsSpec`, `ErrorsSpec` and `CliSpec`.

- *Printed lists.* Folding keeps what a list stands for, however often it is
  done (`Folded`, `NoEntryIsLost`), and collapsing replaces as many entries as
  the line it leaves says: `EveryEntryCounts`. A line fits with its action whole
  or gone: `EveryPrintedLineFits`. `OrderNeverMatters` is a pigeonhole argument:
  were the k-th entry of one sorted list before that of the other, the other's
  first k could not all have gone to fewer than k places (`NoneComesSooner`,
  both ways); entries the sort does not tell apart print alike.
- *Errors.* Classes and tokens are made of sets, which reversal does not change,
  but for the first severe error: `FirstSevereAlwaysDecides`,
  `OrderMattersToNothingElse`.
- *Command line.* `ReadInv` says what the parsing loop has read after r
  arguments: the last value of each flag and the positionals in their order
  (`EveryOrderIsRead`). `VerdictInv` says which function of these the verdict
  is; `ScopeIsKept` and `DirectoryNeverMatters` follow by looking at it.
  `StrangersNeverMatter` compares the choice for a branch with the choice from
  the list without forks, by the least place of a candidate.

**Only model-checked.** Liveness (`Terminates`, `GreenIsActedOn`) and ENABLED,
which the provers do not do, and the deadlock checks of the `Mine` runs. What
rests on a definition the provers have no rules for (`SelectSeq`, `SortSeq`, a
recursive walk) was not left out of the proofs but written without it, in
`Lists`. No module uses a RECURSIVE operator: walks over pages and arguments are
state machines and the rest are comprehensions.

## 5. Not modelled

- `internal/version`, the shell scripts and CI: no bearing on a verdict.
- Input and output itself: running git, `go-gh`'s transport, the clock, writing
  JSON, `GH_DEBUG`. Of failures there, those of requests are in `Fetch` and
  `Mine`, that of writing a row in `Mine`; a report that cannot be written or a
  client that cannot be made ends a single invocation with its error and nothing
  depends on it.
- Messages, hints and the number of `Retry-After`, and which JSON fields are
  omitted when empty.
- The printed order of `non_blocking`: it goes through the same `capLine` and
  `recap` as the other lists, unsorted.
- Several invocations at once: they share nothing but the rate limit.

What could follow: the board under a loop, where the fingerprints of both modes
meet; lists of more than one page in `Watch`, whose theorems are about pull
requests whose lists fit on one.

## 6. Running

In this directory: `tlc -workers 2 -config FetchProbe.cfg MCFetch` (the other
`Fetch*` configurations likewise, `Watch*` with `MCWatch`, `Mine*` with `MCMine`,
`Tables` with `MCTables`), and `tlapm FetchProofs.tla` for the proofs of a module.
`PROJECT.json` lists components, runs, the map from definitions to source lines,
hazards, theorems, and for each property a mutant of the model that breaks it:
the operators marked "a bug the runs tell apart".
